--------------------------- MODULE OnionStockProofs ---------------------------
(***************************************************************************)
(* Proofs about OnionStock, for any sets of requests, books and quantities *)
(* and any stock.                                                          *)
(***************************************************************************)
EXTENDS OnionStock, TLAPS

(***************************************************************************)
(* What an order carries from its read to its save.  It was not stored     *)
(* before; it lowers a number that, with what has been sold by now, never  *)
(* falls below the initial stock, and that is still in the column unless   *)
(* another order was stored in between.                                    *)
(***************************************************************************)
NotYetStored ==
    \A r \in Orders : stage[r] \in {"new", "find", "save"} => r \notin stored

NoCopyVanishes ==
    \A b \in Books : stock[b] + sold[b] >= InitialStock

CarriesEnough ==
    \A r \in Orders : stage[r] = "save" =>
        /\ adet[r] \in Nat
        /\ before[r] \subseteq stored
        /\ seen[r] + adet[r] + sold[book[r]] >= InitialStock

CarriesColumn ==
    \A r \in Orders :
        stage[r] = "save" /\ StoredSince(r) = {} => stock[book[r]] = seen[r] + adet[r]

StockInv ==
    /\ TypeOK
    /\ NotYetStored
    /\ NoCopyVanishes
    /\ CarriesEnough
    /\ CarriesColumn
    /\ ExactUnlessCrossed
    /\ RefusalIsRight

LEMMA MoreIsMore ==
    ASSUME NEW x \in Int, NEW y \in Int, NEW z \in Int
    PROVE  /\ \A i \in Int : x + z > i /\ y >= x => y + z > i
           /\ \A i \in Int : z > x /\ x + y >= i => y + z > i
  OBVIOUS

LEMMA StockIsInt == InitialStock \in Int
  BY OnionAssumption DEF OnionAssumption

LEMMA QuantityIsInt == ASSUME TypeOK, NEW r \in Requests PROVE adet[r] \in Int
  BY OnionAssumption DEF OnionAssumption, TypeOK

LEMMA InitStock == Init => StockInv
<1> SUFFICES ASSUME Init PROVE StockInv
  OBVIOUS
<1> USE OnionAssumption DEF OnionAssumption
<1>1. TypeOK
  BY DEF Init, TypeOK
<1>2. NotYetStored /\ CarriesEnough /\ CarriesColumn /\ RefusalIsRight
  BY DEF Init, NotYetStored, CarriesEnough, CarriesColumn, RefusalIsRight, Requests
<1>3. NoCopyVanishes /\ ExactUnlessCrossed
  BY DEF Init, NoCopyVanishes, ExactUnlessCrossed
<1> QED
  BY <1>1, <1>2, <1>3 DEF StockInv

(***************************************************************************)
(* A step that only ends a request, or only lets it go on without a read.  *)
(***************************************************************************)
LEMMA QuietStep ==
    ASSUME StockInv,
           UNCHANGED <<stock, stored, book, adet, seen, before, sold, crossed>>,
           rows' \subseteq Books,
           stage' \in [Requests -> {"new", "find", "save", "mail", "end"}],
           \A r \in Orders :
               /\ stage'[r] = "save" => stage[r] = "save"
               /\ stage'[r] \in {"new", "find"} => stage[r] \in {"new", "find"},
           answer' \in [Requests -> {"none", "Created", "NoContent", "UnknownBook", "BadQuantity",
                                     "OutOfStock", "NotFound", "Error"}],
           \A r \in Orders : answer'[r] = "OutOfStock" =>
               answer[r] = "OutOfStock" \/ sold[book[r]] + adet[r] > InitialStock
    PROVE  StockInv'
<1> USE DEF StockInv
<1>1. TypeOK'
  BY DEF TypeOK
<1>2. NotYetStored'
  BY DEF NotYetStored
<1>3. NoCopyVanishes' /\ ExactUnlessCrossed'
  BY DEF NoCopyVanishes, ExactUnlessCrossed
<1>4. CarriesEnough'
  BY DEF CarriesEnough
<1>5. CarriesColumn'
  BY DEF CarriesColumn, StoredSince
<1>6. RefusalIsRight'
  BY DEF RefusalIsRight
<1> QED
  BY <1>1, <1>2, <1>3, <1>4, <1>5, <1>6

LEMMA TakeStep ==
    ASSUME StockInv, NEW r \in Requests, Take(r)
    PROVE  StockInv'
<1> USE OnionAssumption DEF OnionAssumption, StockInv
<1>1. /\ r \in Orders
      /\ book[r] \in Books
      /\ adet[r] \in Nat
      /\ stock[book[r]] \in Nat
      /\ stock[book[r]] - adet[r] \in Nat
  <2>1. r \in Orders /\ 0 < adet[r] /\ adet[r] <= stock[book[r]]
    BY DEF Take, Enough
  <2>2. book[r] \in Books /\ adet[r] \in Int /\ stock[book[r]] \in Nat
    BY DEF TypeOK
  <2> QED
    BY <2>1, <2>2
<1>2. TypeOK'
  BY <1>1 DEF TypeOK, Take
<1>3. NotYetStored'
  <2>1. stored' = stored /\ \A o \in Orders :
            stage'[o] \in {"new", "find", "save"} => stage[o] \in {"new", "find", "save"}
    BY DEF TypeOK, Take, Requests
  <2> QED
    BY <2>1 DEF NotYetStored
<1>4. NoCopyVanishes' /\ ExactUnlessCrossed' /\ RefusalIsRight'
  BY DEF NoCopyVanishes, ExactUnlessCrossed, RefusalIsRight, Take
<1>5. seen'[r] = stock[book[r]] - adet[r] /\ before'[r] = stored
  BY DEF TypeOK, Take
<1>6. \A o \in Orders \ {r} : /\ stage'[o] = stage[o]
                              /\ seen'[o] = seen[o]
                              /\ before'[o] = before[o]
  BY DEF TypeOK, Take, Requests
<1>7. UNCHANGED <<stock, stored, book, adet, sold>>
  BY DEF Take
<1>8. CarriesEnough'
  <2>1. seen'[r] + adet[r] + sold[book[r]] >= InitialStock
    <3>1. stock[book[r]] + sold[book[r]] >= InitialStock /\ sold[book[r]] \in Nat
      BY <1>1 DEF TypeOK, NoCopyVanishes
    <3> QED
      BY <1>1, <1>5, <3>1
  <2> QED
    BY <1>1, <1>5, <1>6, <1>7, <2>1 DEF CarriesEnough
<1>9. CarriesColumn'
  <2>1. stock[book[r]] = seen'[r] + adet[r]
    BY <1>1, <1>5
  <2>2. ASSUME NEW o \in Orders \ {r} PROVE StoredSince(o)' = StoredSince(o)
    BY <1>6, <1>7 DEF StoredSince
  <2> QED
    BY <1>6, <1>7, <2>1, <2>2 DEF CarriesColumn
<1> QED
  BY <1>2, <1>3, <1>4, <1>8, <1>9

(***************************************************************************)
(* A save writes the lowered number over whatever the column holds.        *)
(***************************************************************************)
LEMMA SaveStep ==
    ASSUME StockInv, NEW r \in Requests, Save(r)
    PROVE  StockInv'
<1> USE OnionAssumption DEF OnionAssumption, StockInv
<1> DEFINE b == book[r]
<1>1. /\ r \in Orders /\ b \in Books /\ stage[r] = "save" /\ r \notin stored
      /\ adet[r] \in Nat /\ seen[r] \in Nat /\ sold[b] \in Nat /\ stock[b] \in Nat
      /\ seen[r] + adet[r] + sold[b] >= InitialStock
  BY DEF TypeOK, NotYetStored, CarriesEnough, Save
<1>2. /\ stock' = [stock EXCEPT ![b] = seen[r]]
      /\ stored' = stored \cup {r}
      /\ stage' = [stage EXCEPT ![r] = "mail"]
      /\ sold' = [sold EXCEPT ![b] = @ + adet[r]]
      /\ crossed' = IF StoredSince(r) = {} THEN crossed ELSE crossed \cup {b}
      /\ UNCHANGED <<rows, book, adet, seen, answer, before>>
  BY DEF Save
<1>3. TypeOK'
  <2>1. stock' \in [Books -> Nat] /\ sold' \in [Books -> Nat]
    <3>1. sold[b] + adet[r] \in Nat
      BY <1>1
    <3> QED
      BY <1>1, <1>2, <3>1 DEF TypeOK
  <2>2. stored' \subseteq Orders /\ crossed' \subseteq Books
    BY <1>1, <1>2 DEF TypeOK
  <2> QED
    BY <1>2, <2>1, <2>2 DEF TypeOK
<1>4. sold'[b] = sold[b] + adet[r] /\ stock'[b] = seen[r]
  BY <1>1, <1>2 DEF TypeOK
<1>5. \A c \in Books \ {b} : sold'[c] = sold[c] /\ stock'[c] = stock[c]
  BY <1>2 DEF TypeOK
<1>6. \A c \in Books : sold[c] \in Nat /\ sold'[c] \in Nat /\ sold'[c] >= sold[c]
  <2>1. \A c \in Books : sold[c] \in Nat /\ sold'[c] \in Nat
    BY <1>3 DEF TypeOK
  <2>2. sold'[b] >= sold[b]
    BY <1>1, <1>4
  <2>3. \A c \in Books \ {b} : sold'[c] = sold[c]
    BY <1>5
  <2> QED
    BY <2>1, <2>2, <2>3
<1>7. NotYetStored'
  BY <1>1, <1>2 DEF TypeOK, NotYetStored, Requests
<1>8. NoCopyVanishes'
  BY <1>1, <1>4, <1>5 DEF NoCopyVanishes
<1>9. \A o \in Orders : stage'[o] = "save" => o # r /\ stage[o] = "save"
  BY <1>1, <1>2 DEF TypeOK, Requests
<1>10. CarriesEnough'
  <2> SUFFICES ASSUME NEW o \in Orders, stage'[o] = "save"
               PROVE  /\ adet[o] \in Nat
                      /\ before[o] \subseteq stored'
                      /\ seen[o] + adet[o] + sold'[book[o]] >= InitialStock
    BY <1>2 DEF CarriesEnough
  <2>1. /\ adet[o] \in Nat /\ before[o] \subseteq stored
        /\ seen[o] + adet[o] + sold[book[o]] >= InitialStock
    BY <1>9 DEF CarriesEnough
  <2>2. seen[o] \in Nat /\ book[o] \in Books
    BY DEF TypeOK, Requests
  <2> QED
    BY <1>2, <1>6, <2>1, <2>2
<1>11. CarriesColumn'
  <2> SUFFICES ASSUME NEW o \in Orders, stage'[o] = "save", StoredSince(o)' = {}
               PROVE  stock'[book[o]] = seen[o] + adet[o]
    BY <1>2 DEF CarriesColumn
  <2>1. stage[o] = "save"
    BY <1>9
  <2>2. r \notin before[o]
    BY <1>1, <2>1 DEF CarriesEnough
  <2>3. book[o] # b
    BY <1>2, <2>2 DEF StoredSince
  <2>4. StoredSince(o) = {}
    BY <1>2 DEF StoredSince
  <2>5. book[o] \in Books
    BY DEF TypeOK, Requests
  <2> QED
    BY <1>5, <2>1, <2>3, <2>4, <2>5 DEF CarriesColumn
<1>12. ExactUnlessCrossed'
  <2> SUFFICES ASSUME NEW c \in Books \ crossed' PROVE stock'[c] + sold'[c] = InitialStock
    BY DEF ExactUnlessCrossed
  <2>1. c \notin crossed
    BY <1>2
  <2>2. stock[c] + sold[c] = InitialStock
    BY <2>1 DEF ExactUnlessCrossed
  <2>3. CASE c = b
    <3>1. StoredSince(r) = {}
      BY <1>2, <2>3
    <3>2. stock[b] = seen[r] + adet[r]
      BY <1>1, <3>1 DEF CarriesColumn
    <3> QED
      BY <1>1, <1>4, <2>2, <2>3, <3>2
  <2>4. CASE c # b
    BY <1>5, <2>2, <2>4
  <2> QED
    BY <2>3, <2>4
<1>13. RefusalIsRight'
  <2> SUFFICES ASSUME NEW o \in Orders, answer[o] = "OutOfStock"
               PROVE  sold'[book[o]] + adet[o] > InitialStock
    BY <1>2 DEF RefusalIsRight
  <2>1. sold[book[o]] + adet[o] > InitialStock
    BY DEF RefusalIsRight
  <2>2. book[o] \in Books /\ adet[o] \in Int
    BY DEF TypeOK, Requests
  <2>3. /\ sold[book[o]] \in Nat /\ sold'[book[o]] \in Nat
        /\ sold'[book[o]] >= sold[book[o]]
    BY <1>6, <2>2
  <2>4. sold[book[o]] \in Int /\ sold'[book[o]] \in Int
    BY <2>3
  <2> QED
    BY <2>1, <2>2, <2>3, <2>4, StockIsInt, MoreIsMore
<1> QED
  BY <1>3, <1>7, <1>8, <1>10, <1>11, <1>12, <1>13

LEMMA RefuseStep ==
    ASSUME StockInv, NEW r \in Requests, Refuse(r)
    PROVE  StockInv'
<1>1. r \in Orders /\ book[r] \in Books /\ adet[r] \in Int
  BY QuantityIsInt DEF StockInv, TypeOK, Refuse
<1>2. answer'[r] = "OutOfStock" => sold[book[r]] + adet[r] > InitialStock
  <2> SUFFICES ASSUME answer'[r] = "OutOfStock" PROVE sold[book[r]] + adet[r] > InitialStock
    OBVIOUS
  <2>1. adet[r] > stock[book[r]]
    <3>0. r \in Requests /\ answer \in [Requests -> {"none", "Created", "NoContent", "UnknownBook",
                                "BadQuantity", "OutOfStock", "NotFound", "Error"}]
      BY DEF StockInv, TypeOK
    <3>1. ~Enough(adet[r], stock[book[r]]) /\ ~(adet[r] <= 0)
      BY <3>0 DEF Refuse, Reply
    <3>2. stock[book[r]] \in Nat
      BY <1>1 DEF StockInv, TypeOK
    <3> QED
      BY <1>1, <3>1, <3>2 DEF Enough
  <2>2. stock[book[r]] + sold[book[r]] >= InitialStock
    BY <1>1 DEF StockInv, NoCopyVanishes
  <2>3. stock[book[r]] \in Nat /\ sold[book[r]] \in Nat
    BY <1>1 DEF StockInv, TypeOK
  <2>4. stock[book[r]] \in Int /\ sold[book[r]] \in Int
    BY <2>3
  <2> QED
    BY <1>1, <2>1, <2>2, <2>4, StockIsInt, MoreIsMore
<1>3. \A o \in Orders : answer'[o] = "OutOfStock" =>
          answer[o] = "OutOfStock" \/ sold[book[o]] + adet[o] > InitialStock
  BY <1>2 DEF StockInv, TypeOK, Refuse, Reply, Requests
<1>4. answer' \in [Requests -> {"none", "Created", "NoContent", "UnknownBook", "BadQuantity",
                                "OutOfStock", "NotFound", "Error"}]
  BY DEF StockInv, TypeOK, Refuse, Reply
<1>5. /\ stage' \in [Requests -> {"new", "find", "save", "mail", "end"}]
      /\ \A o \in Orders :
            /\ stage'[o] = "save" => stage[o] = "save"
            /\ stage'[o] \in {"new", "find"} => stage[o] \in {"new", "find"}
  BY DEF StockInv, TypeOK, Refuse, Reply, Requests
<1>6. /\ UNCHANGED <<stock, stored, book, adet, seen, before, sold, crossed>>
      /\ rows' \subseteq Books
  BY DEF StockInv, TypeOK, Refuse
<1> QED
  BY <1>3, <1>4, <1>5, <1>6, QuietStep

LEMMA StockStep == StockInv /\ [Next]_vars => StockInv'
<1> SUFFICES ASSUME StockInv, [Next]_vars PROVE StockInv'
  OBVIOUS
<1> USE OnionAssumption DEF OnionAssumption
<1>1. ASSUME NEW r \in Requests, Take(r) PROVE StockInv'
  BY <1>1, TakeStep
<1>2. ASSUME NEW r \in Requests, Save(r) PROVE StockInv'
  BY <1>2, SaveStep
<1>3. ASSUME NEW r \in Requests, Refuse(r) PROVE StockInv'
  BY <1>3, RefuseStep
<1>4. ASSUME NEW r \in Requests,
             Arrive(r) \/ NotFound(r) \/ FindToDelete(r) \/ Delete(r) \/ SaveMissesRow(r)
                       \/ Confirm(r) \/ DatabaseFails(r)
      PROVE  StockInv'
  <2>1. /\ UNCHANGED <<stock, stored, book, adet, seen, before, sold, crossed>>
        /\ rows' \subseteq Books
    BY <1>4 DEF StockInv, TypeOK, Arrive, NotFound, FindToDelete, Delete, SaveMissesRow,
                Confirm, DatabaseFails
  <2>2. /\ answer' \in [Requests -> {"none", "Created", "NoContent", "UnknownBook", "BadQuantity",
                                     "OutOfStock", "NotFound", "Error"}]
        /\ \A o \in Orders : answer'[o] = "OutOfStock" => answer[o] = "OutOfStock"
    BY <1>4 DEF StockInv, TypeOK, Arrive, NotFound, FindToDelete, Delete, SaveMissesRow,
                Confirm, DatabaseFails, Reply, Requests
  <2>3. /\ stage' \in [Requests -> {"new", "find", "save", "mail", "end"}]
        /\ \A o \in Orders :
              /\ stage'[o] = "save" => stage[o] = "save"
              /\ stage'[o] \in {"new", "find"} => stage[o] \in {"new", "find"}
    BY <1>4 DEF StockInv, TypeOK, Arrive, NotFound, FindToDelete, Delete, SaveMissesRow,
                Confirm, DatabaseFails, Reply, Requests
  <2> QED
    BY <2>1, <2>2, <2>3, QuietStep
<1>5. ASSUME Restart PROVE StockInv'
  <2>1. /\ UNCHANGED <<rows, stock, stored, book, adet, seen, answer, before, sold, crossed>>
        /\ stage' \in [Requests -> {"new", "find", "save", "mail", "end"}]
        /\ \A o \in Orders :
              /\ stage'[o] = "save" => stage[o] = "save"
              /\ stage'[o] \in {"new", "find"} => stage[o] \in {"new", "find"}
    BY <1>5 DEF StockInv, TypeOK, Restart, Requests
  <2> QED
    BY <2>1, QuietStep DEF StockInv, TypeOK
<1>6. ASSUME UNCHANGED vars PROVE StockInv'
  <2>1. UNCHANGED <<rows, stock, stored, stage, book, adet, seen, answer, before, sold, crossed>>
    BY <1>6 DEF vars, request
  <2> QED
    BY <2>1, QuietStep DEF StockInv, TypeOK
<1> QED
  BY <1>1, <1>2, <1>3, <1>4, <1>5, <1>6 DEF Next

THEOREM StockInvariant == Spec => []StockInv
  BY InitStock, StockStep, PTL DEF Spec

(* The stock column of the onion edition is never negative, whatever       *)
(* overlaps, and every other variable keeps its type.                      *)
THEOREM StockTypes == Spec => []TypeOK
<1>1. StockInv => TypeOK
  BY DEF StockInv
<1> QED
  BY <1>1, StockInvariant, PTL

(* Copies are lost from the count only by an order saved over another.     *)
THEOREM StockIsExactUnlessCrossed == Spec => []ExactUnlessCrossed
<1>1. StockInv => ExactUnlessCrossed
  BY DEF StockInv
<1> QED
  BY <1>1, StockInvariant, PTL

(* No order is refused for a stock that is there.                          *)
THEOREM RefusalsAreRight == Spec => []RefusalIsRight
<1>1. StockInv => RefusalIsRight
  BY DEF StockInv
<1> QED
  BY <1>1, StockInvariant, PTL

================================================================================
