----------------------------- MODULE BookshopProofs -----------------------------
(***************************************************************************)
(* Bookshop keeps BookshopInv and Alone for every number of requests,      *)
(* books and ISBNs, every initial stock and every number of restarts.      *)
(*                                                                         *)
(* The first invariant follows the copies: what an instance, a register or *)
(* the column shows is never less than what the book had and what was      *)
(* taken.  The second speaks of the books whose orders never met and whose *)
(* instance was never evicted: for them the cached instance is exact.      *)
(***************************************************************************)
EXTENDS Bookshop, TLAPS

(* The initial states satisfy BookshopInv. *)
LEMMA InitInv == Init => BookshopInv
  <1> SUFFICES ASSUME Init PROVE BookshopInv
    OBVIOUS
  <1> USE BookshopAssumption DEF Init, Stored
  <1>1. TypeOK
    BY DEF TypeOK, Ordering, OrderSteps, AddSteps
  <1>2. NoCopyVanishes /\ RefusedForAReason /\ NotFoundIsTrue
    BY DEF NoCopyVanishes, RefusedForAReason, NotFoundIsTrue
  <1>3. Instances /\ Sharing /\ CacheHolds /\ Progress /\ Knowledge
    BY DEF Instances, Sharing, CacheHolds, Progress, Knowledge
  <1> QED
    BY <1>1, <1>2, <1>3 DEF BookshopInv

(* What the fields of an order are. *)
LEMMA OrderFormTyped ==
    ASSUME NEW r \in Requests, form[r] \in OrderForms
    PROVE  Book(r) \in Books /\ Qty(r) \in Nat
  BY BookshopAssumption DEF OrderForms, Book, Qty

(* An order on its way passed the validator. *)
LEMMA OrderTyped ==
    ASSUME TypeOK, NEW r \in Requests, Ordering(r)
    PROVE  form[r] \in OrderForms /\ Book(r) \in Books /\ Qty(r) \in Nat /\ Qty(r) >= 1
  BY OrderFormTyped, BookshopAssumption DEF TypeOK

(* What a new book brings. *)
LEMMA AddTyped ==
    ASSUME TypeOK, NEW r \in Requests, step[r] \in AddSteps
    PROVE  form[r].isbn \in Isbns \cup {None}
  BY DEF TypeOK, AddForms

--------------------------------------------------------------------------------
(* After the lookup a handler holds an instance. *)
LEMMA UserHasInstance ==
    ASSUME TypeOK, Progress, NEW r \in Requests,
           step[r] \in {"fill", "check", "load", "write", "detect", "save"}
    PROVE  uses[r] \in Requests
  BY DEF TypeOK, Progress

(* Every action keeps the types. *)
LEMMA TypeStep == BookshopInv /\ [Next]_vars => TypeOK'
  <1> SUFFICES ASSUME TypeOK, Progress, [Next]_vars PROVE TypeOK'
    BY DEF BookshopInv
  <1> USE BookshopAssumption
          DEF TypeOK, Ordering, Qty, OrderSteps, AddSteps, Answers, GoTo, dbVars, memoryVars
  <1>1. ASSUME NEW r \in Requests, Arrive(r) PROVE TypeOK'
    BY <1>1 DEF Arrive, Valid, Stored, OrderForms, AddForms
  <1>2. ASSUME NEW r \in Requests, Lookup(r) PROVE TypeOK'
    BY <1>2, OrderTyped DEF Lookup
  <1>3. ASSUME NEW r \in Requests, Read(r) PROVE TypeOK'
    BY <1>3, OrderTyped DEF Read
  <1>4. ASSUME NEW r \in Requests, Fill(r) PROVE TypeOK'
    BY <1>4 DEF Fill
  <1>5. ASSUME NEW r \in Requests, Check(r) PROVE TypeOK'
    BY <1>5 DEF Check
  <1>6. ASSUME NEW r \in Requests, Load(r) PROVE TypeOK'
    BY <1>6, UserHasInstance DEF Load
  <1>7. ASSUME NEW r \in Requests, Write(r) PROVE TypeOK'
    <2>1. uses[r] \in Requests /\ Qty(r) \in Nat /\ Book(r) \in Books
      BY <1>7, UserHasInstance, OrderTyped DEF Write
    <2>2. taken' \in [Books -> Nat] /\ entity' \in [Requests -> Int]
      BY <1>7, <2>1 DEF Write
    <2> QED
      BY <1>7, <2>2 DEF Write
  <1>8. ASSUME NEW r \in Requests, Detect(r) PROVE TypeOK'
    BY <1>8 DEF Detect
  <1>9. ASSUME NEW r \in Requests, Save(r) PROVE TypeOK'
    BY <1>9, OrderTyped DEF Save
  <1>10. ASSUME NEW r \in Requests, CheckIsbn(r) PROVE TypeOK'
    BY <1>10 DEF CheckIsbn
  <1>11. ASSUME NEW r \in Requests, Insert(r) PROVE TypeOK'
    BY <1>11, AddTyped DEF Insert
  <1>12. ASSUME NEW r \in Requests, Fails(r) PROVE TypeOK'
    BY <1>12 DEF Fails
  <1>13. ASSUME NEW b \in Books, Expire(b) PROVE TypeOK'
    BY <1>13 DEF Expire
  <1>14. CASE Restart
    BY <1>14 DEF Restart
  <1>15. CASE UNCHANGED vars
    BY <1>15 DEF vars
  <1> QED
    BY <1>1, <1>2, <1>3, <1>4, <1>5, <1>6, <1>7, <1>8, <1>9, <1>10, <1>11, <1>12,
       <1>13, <1>14, <1>15 DEF Next

(* An instance stays with the book it was loaded for, in the cache and in every
   handler that uses it. *)
LEMMA SharingStep == BookshopInv /\ [Next]_vars => (Sharing /\ CacheHolds)'
  <1> SUFFICES ASSUME BookshopInv, [Next]_vars PROVE (Sharing /\ CacheHolds)'
    OBVIOUS
  <1> USE BookshopAssumption DEF BookshopInv, TypeOK, Ordering, OrderSteps, AddSteps,
         Answers, Sharing, CacheHolds, Progress, Book, GoTo, dbVars, memoryVars
  <1>1. ASSUME NEW r \in Requests, Arrive(r) PROVE (Sharing /\ CacheHolds)'
    BY <1>1 DEF Arrive
  <1>2. ASSUME NEW r \in Requests, Lookup(r) PROVE (Sharing /\ CacheHolds)'
    <2>1. form[r] \in OrderForms /\ Book(r) \in Books /\ uses[r] = None
      BY <1>2, OrderTyped DEF Lookup
    <2>2. CASE cache[Book(r)] = None
      BY <1>2, <2>2 DEF Lookup
    <2>3. CASE cache[Book(r)] # None
      <3> DEFINE c == cache[Book(r)]
      <3>1. c \in Requests /\ uses[c] = c /\ Book(c) = Book(r) /\ c # r
        BY <2>1, <2>3
      <3>2. uses' = [uses EXCEPT ![r] = c] /\ UNCHANGED <<form, cache>>
        BY <1>2, <2>3 DEF Lookup
      <3>3. \A s \in Requests : uses[s] # r
        BY <2>1
      <3> QED
        BY <2>1, <3>1, <3>2, <3>3
    <2> QED
      BY <2>2, <2>3
  <1>3. ASSUME NEW r \in Requests, Read(r) PROVE (Sharing /\ CacheHolds)'
    BY <1>3 DEF Read
  <1>4. ASSUME NEW r \in Requests, Fill(r) PROVE (Sharing /\ CacheHolds)'
    BY <1>4 DEF Fill
  <1>5. ASSUME NEW r \in Requests, Check(r) PROVE (Sharing /\ CacheHolds)'
    BY <1>5 DEF Check
  <1>6. ASSUME NEW r \in Requests, Load(r) PROVE (Sharing /\ CacheHolds)'
    BY <1>6 DEF Load
  <1>7. ASSUME NEW r \in Requests, Write(r) PROVE (Sharing /\ CacheHolds)'
    BY <1>7 DEF Write
  <1>8. ASSUME NEW r \in Requests, Detect(r) PROVE (Sharing /\ CacheHolds)'
    BY <1>8 DEF Detect
  <1>9. ASSUME NEW r \in Requests, Save(r) PROVE (Sharing /\ CacheHolds)'
    BY <1>9 DEF Save
  <1>10. ASSUME NEW r \in Requests, CheckIsbn(r) PROVE (Sharing /\ CacheHolds)'
    BY <1>10 DEF CheckIsbn
  <1>11. ASSUME NEW r \in Requests, Insert(r) PROVE (Sharing /\ CacheHolds)'
    BY <1>11 DEF Insert
  <1>12. ASSUME NEW r \in Requests, Fails(r) PROVE (Sharing /\ CacheHolds)'
    BY <1>12 DEF Fails
  <1>13. ASSUME NEW b \in Books, Expire(b) PROVE (Sharing /\ CacheHolds)'
    BY <1>13 DEF Expire
  <1>14. CASE Restart
    BY <1>14 DEF Restart
  <1>15. CASE UNCHANGED vars
    BY <1>15 DEF vars
  <1> QED
    BY <1>1, <1>2, <1>3, <1>4, <1>5, <1>6, <1>7, <1>8, <1>9, <1>10, <1>11, <1>12, <1>13,
           <1>14, <1>15 DEF Next

(* Rows are never deleted and ISBNs never change, so what was stored when a
   request arrived is still there when the handler asks the database. *)
LEMMA KnowledgeStep == BookshopInv /\ [Next]_vars => (Knowledge /\ NotFoundIsTrue)'
  <1> SUFFICES ASSUME BookshopInv, [Next]_vars PROVE (Knowledge /\ NotFoundIsTrue)'
    OBVIOUS
  <1> USE BookshopAssumption DEF BookshopInv, TypeOK, Ordering, OrderSteps, AddSteps,
         Answers, Knowledge, NotFoundIsTrue, Stored, Book, IsbnMevcutMu, Found, GoTo,
         dbVars, memoryVars
  <1>1. ASSUME NEW r \in Requests, Arrive(r) PROVE (Knowledge /\ NotFoundIsTrue)'
    BY <1>1 DEF Arrive
  <1>2. ASSUME NEW r \in Requests, Lookup(r) PROVE (Knowledge /\ NotFoundIsTrue)'
    BY <1>2 DEF Lookup
  <1>3. ASSUME NEW r \in Requests, Read(r) PROVE (Knowledge /\ NotFoundIsTrue)'
    BY <1>3 DEF Read
  <1>4. ASSUME NEW r \in Requests, Fill(r) PROVE (Knowledge /\ NotFoundIsTrue)'
    BY <1>4 DEF Fill
  <1>5. ASSUME NEW r \in Requests, Check(r) PROVE (Knowledge /\ NotFoundIsTrue)'
    BY <1>5 DEF Check
  <1>6. ASSUME NEW r \in Requests, Load(r) PROVE (Knowledge /\ NotFoundIsTrue)'
    BY <1>6 DEF Load
  <1>7. ASSUME NEW r \in Requests, Write(r) PROVE (Knowledge /\ NotFoundIsTrue)'
    BY <1>7 DEF Write
  <1>8. ASSUME NEW r \in Requests, Detect(r) PROVE (Knowledge /\ NotFoundIsTrue)'
    BY <1>8 DEF Detect
  <1>9. ASSUME NEW r \in Requests, Save(r) PROVE (Knowledge /\ NotFoundIsTrue)'
    BY <1>9 DEF Save
  <1>10. ASSUME NEW r \in Requests, CheckIsbn(r) PROVE (Knowledge /\ NotFoundIsTrue)'
    BY <1>10 DEF CheckIsbn
  <1>11. ASSUME NEW r \in Requests, Insert(r) PROVE (Knowledge /\ NotFoundIsTrue)'
    BY <1>11 DEF Insert
  <1>12. ASSUME NEW r \in Requests, Fails(r) PROVE (Knowledge /\ NotFoundIsTrue)'
    BY <1>12 DEF Fails
  <1>13. ASSUME NEW b \in Books, Expire(b) PROVE (Knowledge /\ NotFoundIsTrue)'
    BY <1>13 DEF Expire
  <1>14. CASE Restart
    BY <1>14 DEF Restart
  <1>15. CASE UNCHANGED vars
    BY <1>15 DEF vars
  <1> QED
    BY <1>1, <1>2, <1>3, <1>4, <1>5, <1>6, <1>7, <1>8, <1>9, <1>10, <1>11, <1>12, <1>13,
           <1>14, <1>15 DEF Next

(* No instance shows less than what is left of the initial stock. *)
LEMMA InstancesStep == BookshopInv /\ [Next]_vars => Instances'
  <1> SUFFICES ASSUME BookshopInv, [Next]_vars PROVE Instances'
    OBVIOUS
  <1> USE BookshopAssumption DEF BookshopInv, TypeOK, Ordering, OrderSteps, AddSteps,
         Answers, Instances, Sharing, Progress, NoCopyVanishes, Stored, Book, Qty, GoTo,
         dbVars, memoryVars
  <1>1. ASSUME NEW r \in Requests, Arrive(r) PROVE Instances'
    BY <1>1 DEF Arrive
  <1>2. ASSUME NEW r \in Requests, Lookup(r) PROVE Instances'
    <2>1. Book(r) \in Books /\ uses[r] = None
      BY <1>2, OrderTyped DEF Lookup
    <2>2. \A s \in Requests : uses'[s] = s => uses[s] = s
      BY <1>2, <2>1 DEF Lookup, CacheHolds
    <2> QED
      BY <1>2, <2>2 DEF Lookup
  <1>3. ASSUME NEW r \in Requests, Read(r) PROVE Instances'
    <2>1. form[r] \in OrderForms /\ Book(r) \in Books
      BY <1>3, OrderTyped DEF Read
    <2>2. CASE ~ Found(Book(r))
      BY <1>3, <2>2 DEF Read
    <2>3. CASE Found(Book(r))
      BY <1>3, <2>1, <2>3 DEF Read, Found
    <2> QED
      BY <2>2, <2>3
  <1>4. ASSUME NEW r \in Requests, Fill(r) PROVE Instances'
    BY <1>4 DEF Fill
  <1>5. ASSUME NEW r \in Requests, Check(r) PROVE Instances'
    BY <1>5 DEF Check
  <1>6. ASSUME NEW r \in Requests, Load(r) PROVE Instances'
    BY <1>6 DEF Load
  <1>7. ASSUME NEW r \in Requests, Write(r) PROVE Instances'
    BY <1>7 DEF Write
  <1>8. ASSUME NEW r \in Requests, Detect(r) PROVE Instances'
    BY <1>8 DEF Detect
  <1>9. ASSUME NEW r \in Requests, Save(r) PROVE Instances'
    BY <1>9 DEF Save
  <1>10. ASSUME NEW r \in Requests, CheckIsbn(r) PROVE Instances'
    BY <1>10 DEF CheckIsbn
  <1>11. ASSUME NEW r \in Requests, Insert(r) PROVE Instances'
    BY <1>11 DEF Insert
  <1>12. ASSUME NEW r \in Requests, Fails(r) PROVE Instances'
    BY <1>12 DEF Fails
  <1>13. ASSUME NEW b \in Books, Expire(b) PROVE Instances'
    BY <1>13 DEF Expire
  <1>14. CASE Restart
    BY <1>14 DEF Restart
  <1>15. CASE UNCHANGED vars
    BY <1>15 DEF vars
  <1> QED
    BY <1>1, <1>2, <1>3, <1>4, <1>5, <1>6, <1>7, <1>8, <1>9, <1>10, <1>11, <1>12, <1>13,
           <1>14, <1>15 DEF Next

(* What the place a handler has reached says about its instance and register. *)
LEMMA ProgressStep == BookshopInv /\ [Next]_vars => Progress'
  <1> SUFFICES ASSUME BookshopInv, [Next]_vars PROVE Progress'
    OBVIOUS
  <1> USE BookshopAssumption DEF BookshopInv, TypeOK, Ordering, OrderSteps, AddSteps,
         Answers, Instances, Sharing, CacheHolds, Progress, Stored, Book, Qty, GoTo,
         dbVars, memoryVars
  <1>1. ASSUME NEW r \in Requests, Arrive(r) PROVE Progress'
    BY <1>1 DEF Arrive
  <1>2. ASSUME NEW r \in Requests, Lookup(r) PROVE Progress'
    BY <1>2 DEF Lookup
  <1>3. ASSUME NEW r \in Requests, Read(r) PROVE Progress'
    BY <1>3 DEF Read
  <1>4. ASSUME NEW r \in Requests, Fill(r) PROVE Progress'
    BY <1>4 DEF Fill
  <1>5. ASSUME NEW r \in Requests, Check(r) PROVE Progress'
    BY <1>5 DEF Check
  <1>6. ASSUME NEW r \in Requests, Load(r) PROVE Progress'
    BY <1>6 DEF Load
  <1>7. ASSUME NEW r \in Requests, Write(r) PROVE Progress'
    BY <1>7 DEF Write
  <1>8. ASSUME NEW r \in Requests, Detect(r) PROVE Progress'
    BY <1>8 DEF Detect
  <1>9. ASSUME NEW r \in Requests, Save(r) PROVE Progress'
    BY <1>9 DEF Save
  <1>10. ASSUME NEW r \in Requests, CheckIsbn(r) PROVE Progress'
    BY <1>10 DEF CheckIsbn
  <1>11. ASSUME NEW r \in Requests, Insert(r) PROVE Progress'
    BY <1>11 DEF Insert
  <1>12. ASSUME NEW r \in Requests, Fails(r) PROVE Progress'
    BY <1>12 DEF Fails
  <1>13. ASSUME NEW b \in Books, Expire(b) PROVE Progress'
    BY <1>13 DEF Expire
  <1>14. CASE Restart
    BY <1>14 DEF Restart
  <1>15. CASE UNCHANGED vars
    BY <1>15 DEF vars
  <1> QED
    BY <1>1, <1>2, <1>3, <1>4, <1>5, <1>6, <1>7, <1>8, <1>9, <1>10, <1>11, <1>12, <1>13,
           <1>14, <1>15 DEF Next

(* The column and the refusals follow from the instances. *)
LEMMA CopiesStep == BookshopInv /\ [Next]_vars => (NoCopyVanishes /\ RefusedForAReason)'
  <1> SUFFICES ASSUME BookshopInv, [Next]_vars PROVE (NoCopyVanishes /\ RefusedForAReason)'
    OBVIOUS
  <1> USE BookshopAssumption DEF BookshopInv, TypeOK, Ordering, OrderSteps, AddSteps,
         Answers, NoCopyVanishes, RefusedForAReason, Instances, Sharing, Progress, Stored,
         Book, Qty, GoTo, dbVars, memoryVars
  <1>1. ASSUME NEW r \in Requests, Arrive(r) PROVE (NoCopyVanishes /\ RefusedForAReason)'
    BY <1>1 DEF Arrive
  <1>2. ASSUME NEW r \in Requests, Lookup(r) PROVE (NoCopyVanishes /\ RefusedForAReason)'
    BY <1>2 DEF Lookup
  <1>3. ASSUME NEW r \in Requests, Read(r) PROVE (NoCopyVanishes /\ RefusedForAReason)'
    BY <1>3 DEF Read
  <1>4. ASSUME NEW r \in Requests, Fill(r) PROVE (NoCopyVanishes /\ RefusedForAReason)'
    BY <1>4 DEF Fill
  <1>5. ASSUME NEW r \in Requests, Check(r) PROVE (NoCopyVanishes /\ RefusedForAReason)'
    <2>1. uses[r] \in Requests /\ Qty(r) \in Nat /\ Book(r) \in Books
      BY <1>5, UserHasInstance, OrderTyped DEF Check
    <2>2. entity[uses[r]] + taken[Book(r)] >= InitialStock
      BY <1>5, <2>1 DEF Check
    <2>3. step'[r] = "refused" => Qty(r) + taken[Book(r)] > InitialStock
      BY <1>5, <2>1, <2>2 DEF Check, Enough
    <2> QED
      BY <1>5, <2>3 DEF Check
  <1>6. ASSUME NEW r \in Requests, Load(r) PROVE (NoCopyVanishes /\ RefusedForAReason)'
    BY <1>6 DEF Load
  <1>7. ASSUME NEW r \in Requests, Write(r) PROVE (NoCopyVanishes /\ RefusedForAReason)'
    <2>1. Qty(r) \in Nat /\ Book(r) \in Books
      BY <1>7, OrderTyped DEF Write
    <2>2. /\ \A b \in Books : taken'[b] \in Nat /\ taken'[b] >= taken[b]
          /\ \A s \in Requests : step'[s] = "refused" => step[s] = "refused"
          /\ UNCHANGED <<stock, isbn, form>>
      BY <1>7, <2>1 DEF Write
    <2>3. \A s \in Requests : step[s] = "refused" => Book(s) \in Books /\ Qty(s) \in Nat
      BY OrderFormTyped
    <2>4. NoCopyVanishes'
      BY <2>2
    <2>5. RefusedForAReason'
      BY <2>2, <2>3
    <2> QED
      BY <2>4, <2>5
  <1>8. ASSUME NEW r \in Requests, Detect(r) PROVE (NoCopyVanishes /\ RefusedForAReason)'
    BY <1>8 DEF Detect
  <1>9. ASSUME NEW r \in Requests, Save(r) PROVE (NoCopyVanishes /\ RefusedForAReason)'
    BY <1>9 DEF Save
  <1>10. ASSUME NEW r \in Requests, CheckIsbn(r) PROVE (NoCopyVanishes /\ RefusedForAReason)'
    BY <1>10 DEF CheckIsbn
  <1>11. ASSUME NEW r \in Requests, Insert(r) PROVE (NoCopyVanishes /\ RefusedForAReason)'
    BY <1>11 DEF Insert
  <1>12. ASSUME NEW r \in Requests, Fails(r) PROVE (NoCopyVanishes /\ RefusedForAReason)'
    BY <1>12 DEF Fails
  <1>13. ASSUME NEW b \in Books, Expire(b) PROVE (NoCopyVanishes /\ RefusedForAReason)'
    BY <1>13 DEF Expire
  <1>14. CASE Restart
    BY <1>14 DEF Restart
  <1>15. CASE UNCHANGED vars
    BY <1>15 DEF vars
  <1> QED
    BY <1>1, <1>2, <1>3, <1>4, <1>5, <1>6, <1>7, <1>8, <1>9, <1>10, <1>11, <1>12, <1>13,
           <1>14, <1>15 DEF Next

--------------------------------------------------------------------------------
(* BookshopInv is inductive, so it holds in every reachable state. *)
THEOREM CopiesInvariant == Spec => []BookshopInv
  <1>1. BookshopInv /\ [Next]_vars => BookshopInv'
    BY TypeStep, SharingStep, KnowledgeStep, InstancesStep, ProgressStep, CopiesStep
       DEF BookshopInv
  <1> QED
    BY InitInv, <1>1, PTL DEF Spec

(* Every variable keeps its type (TypeOK). *)
THEOREM BookshopTypeCorrect == Spec => []TypeOK
  <1>1. BookshopInv => TypeOK
    BY DEF BookshopInv
  <1> QED
    BY CopiesInvariant, <1>1, PTL

(* The stock column never falls by more than the handlers took off, whatever is
   lost, shared, evicted or restarted (NoCopyVanishes). *)
THEOREM NoCopyEverVanishes == Spec => []NoCopyVanishes
  <1>1. BookshopInv => NoCopyVanishes
    BY DEF BookshopInv
  <1> QED
    BY CopiesInvariant, <1>1, PTL

(* No order is refused for its stock while enough copies were never taken
   (RefusedForAReason). *)
THEOREM RefusalsHaveReasons == Spec => []RefusedForAReason
  <1>1. BookshopInv => RefusedForAReason
    BY DEF BookshopInv
  <1> QED
    BY CopiesInvariant, <1>1, PTL

(* An order for a book stored before it came is never told "not found"
   (NotFoundIsTrue). *)
THEOREM NotFoundIsAlwaysTrue == Spec => []NotFoundIsTrue
  <1>1. BookshopInv => NotFoundIsTrue
    BY DEF BookshopInv
  <1> QED
    BY CopiesInvariant, <1>1, PTL

(* Only overlapping requests can store one ISBN twice (NoLateDuplicate). *)
THEOREM NoLateDuplicates == Spec => []NoLateDuplicate
  <1>1. BookshopInv => NoLateDuplicate
    BY DEF BookshopInv, Knowledge, NoLateDuplicate
  <1> QED
    BY CopiesInvariant, <1>1, PTL

(* Before the first order nothing was cached and nothing taken. *)
LEMMA AloneInit == Init => Alone
  BY BookshopAssumption DEF Init, Alone, AloneAt, Waiting, Untouched, Stored, Ordering,
         OrderSteps

(* An action touches the cached instance of one book.  For that book the acting
   request is the only one on its way; for another book nothing changes. *)
LEMMA AloneStep == BookshopInv /\ Alone /\ [Next]_vars => Alone'
  <1> SUFFICES ASSUME BookshopInv, Alone, [Next]_vars, NEW b \in Books, b \notin disturbed'
               PROVE  AloneAt(b)'
    BY DEF Alone
  <1> USE BookshopAssumption DEF BookshopInv, TypeOK, Ordering, OrderSteps, AddSteps,
         Answers, Stored, Book, Qty,
          GoTo, dbVars, memoryVars
  <1>0. b \notin disturbed /\ AloneAt(b)
    BY DEF Alone, Next, vars, Arrive, Lookup, Read, Fill, Check, Load, Write, Detect,
           Save, CheckIsbn, Insert, Fails, Expire, Restart
  <1> USE DEF Waiting, Untouched, Exact, AloneAt
  <1>1. ASSUME NEW r \in Requests, Arrive(r) PROVE AloneAt(b)'
    BY <1>0, <1>1 DEF Arrive, CacheHolds, Progress, Instances
  <1>2. ASSUME NEW r \in Requests, Lookup(r) PROVE AloneAt(b)'
    <2>1. CASE b = Book(r)
      BY <1>0, <1>2, <2>1, OrderTyped DEF Lookup, CacheHolds, Progress, Sharing
    <2>2. CASE b # Book(r)
      BY <1>0, <1>2, <2>2 DEF Lookup, CacheHolds, Progress, Sharing
    <2> QED
      BY <2>1, <2>2
  <1>3. ASSUME NEW r \in Requests, Read(r) PROVE AloneAt(b)'
    <2>1. CASE b = Book(r)
      <3>1. r \in Waiting(b) /\ cache[b] = None
        BY <1>0, <1>3, <2>1 DEF Read
      <3>2. Untouched(b) /\ Waiting(b) = {r}
        BY <1>0, <3>1
      <3>3. Waiting(b)' \subseteq {r} /\ UNCHANGED <<cache, taken, sold, stock, isbn>>
        BY <1>3, <3>2 DEF Read
      <3>4. step'[r] \in {"fill", "notFound"}
        BY <1>3 DEF Read
      <3>5. step'[r] = "fill" => entity'[r] = InitialStock
        BY <1>3, <2>1, <3>2 DEF Read, Found
      <3>6. Untouched(b)'
        BY <3>2, <3>3, <3>4, <3>5
      <3> QED
        BY <1>0, <3>1, <3>3, <3>4, <3>6
    <2>2. CASE b # Book(r)
      BY <1>0, <1>3, <2>2 DEF Read, CacheHolds, Progress, Sharing
    <2> QED
      BY <2>1, <2>2
  <1>4. ASSUME NEW r \in Requests, Fill(r) PROVE AloneAt(b)'
    <2>1. CASE b = Book(r)
      BY <1>0, <1>4, <2>1, OrderTyped DEF Fill, CacheHolds, Progress, Sharing
    <2>2. CASE b # Book(r)
      BY <1>0, <1>4, <2>2 DEF Fill, CacheHolds, Progress, Sharing
    <2> QED
      BY <2>1, <2>2
  <1>5. ASSUME NEW r \in Requests, Check(r) PROVE AloneAt(b)'
    <2>1. CASE b = Book(r)
      <3>1. r \in Waiting(b) /\ cache[b] # None
        BY <1>0, <1>5, <2>1 DEF Check
      <3>2. Exact(b) /\ Waiting(b) = {r} /\ uses[r] = cache[b]
        BY <1>0, <1>5, <3>1 DEF Check
      <3>3. Waiting(b)' \subseteq {r} /\ UNCHANGED <<memoryVars, taken, sold, stock, isbn,
      form>>
        BY <1>5, <3>2 DEF Check
      <3>4. step'[r] \in {"load", "refused"}
        BY <1>5 DEF Check
      <3>5. step'[r] = "load" => Qty(r) <= entity[cache[b]]
        BY <1>5, <3>2 DEF Check, Enough
      <3>6. Exact(b)'
        BY <3>2, <3>3, <3>4, <3>5
      <3> QED
        BY <1>0, <3>1, <3>3, <3>4, <3>6
    <2>2. CASE b # Book(r)
      BY <1>0, <1>5, <2>2 DEF Check, CacheHolds, Progress, Sharing
    <2> QED
      BY <2>1, <2>2
  <1>6. ASSUME NEW r \in Requests, Load(r) PROVE AloneAt(b)'
    <2>1. CASE b = Book(r)
      BY <1>0, <1>6, <2>1, OrderTyped DEF Load, CacheHolds, Progress, Sharing
    <2>2. CASE b # Book(r)
      BY <1>0, <1>6, <2>2 DEF Load, CacheHolds, Progress, Sharing
    <2> QED
      BY <2>1, <2>2
  <1>7. ASSUME NEW r \in Requests, Write(r) PROVE AloneAt(b)'
    <2>1. CASE b = Book(r)
      BY <1>0, <1>7, <2>1, OrderTyped DEF Write, CacheHolds, Progress, Sharing
    <2>2. CASE b # Book(r)
      BY <1>0, <1>7, <2>2 DEF Write, CacheHolds, Progress, Sharing
    <2> QED
      BY <2>1, <2>2
  <1>8. ASSUME NEW r \in Requests, Detect(r) PROVE AloneAt(b)'
    <2>1. CASE b = Book(r)
      BY <1>0, <1>8, <2>1, OrderTyped DEF Detect, CacheHolds, Progress, Sharing
    <2>2. CASE b # Book(r)
      BY <1>0, <1>8, <2>2 DEF Detect, CacheHolds, Progress, Sharing
    <2> QED
      BY <2>1, <2>2
  <1>9. ASSUME NEW r \in Requests, Save(r) PROVE AloneAt(b)'
    <2>1. CASE b = Book(r)
      BY <1>0, <1>9, <2>1, OrderTyped DEF Save, CacheHolds, Progress, Sharing
    <2>2. CASE b # Book(r)
      BY <1>0, <1>9, <2>2 DEF Save, CacheHolds, Progress, Sharing
    <2> QED
      BY <2>1, <2>2
  <1>10. ASSUME NEW r \in Requests, CheckIsbn(r) PROVE AloneAt(b)'
    BY <1>0, <1>10 DEF CheckIsbn, CacheHolds, Progress, Instances
  <1>11. ASSUME NEW r \in Requests, Insert(r) PROVE AloneAt(b)'
    BY <1>0, <1>11 DEF Insert, CacheHolds, Progress, Instances
  <1>12. ASSUME NEW r \in Requests, Fails(r) PROVE AloneAt(b)'
    BY <1>0, <1>12 DEF Fails, CacheHolds, Progress, Instances
  <1>13. ASSUME NEW c \in Books, Expire(c) PROVE AloneAt(b)'
    BY <1>0, <1>13 DEF Expire
  <1>14. CASE Restart
    BY <1>0, <1>14 DEF Restart
  <1>15. CASE UNCHANGED vars
    BY <1>0, <1>15 DEF vars
  <1> QED
    BY <1>1, <1>2, <1>3, <1>4, <1>5, <1>6, <1>7, <1>8, <1>9, <1>10, <1>11, <1>12, <1>13,
           <1>14, <1>15 DEF Next

(* Alone is inductive on top of BookshopInv (AloneInv). *)
THEOREM AloneInvariant == Spec => []AloneInv
  <1>1. BookshopInv /\ Alone /\ [Next]_vars => Alone'
    BY AloneStep
  <1>2. BookshopInv /\ Alone => AloneInv
    BY DEF AloneInv
  <1> QED
    BY CopiesInvariant, AloneInit, <1>1, <1>2, PTL DEF Spec

(* While the orders of a book come one after the other and its cached instance
   stays, no more copies are sold than there are (NotOversoldUndisturbed). *)
THEOREM UndisturbedIsNotOversold == Spec => []NotOversoldUndisturbed
  <1>1. AloneInv => NotOversoldUndisturbed
    <2> SUFFICES ASSUME BookshopInv, Alone, NEW b \in Stored \ disturbed
                 PROVE  sold[b] <= InitialStock
      BY DEF NotOversoldUndisturbed, AloneInv
    <2>1. AloneAt(b) /\ sold[b] \in Nat /\ taken[b] \in Nat
      BY DEF Alone, BookshopInv, TypeOK, Stored
    <2>2. CASE cache[b] = None
      BY <2>1, <2>2, BookshopAssumption DEF AloneAt, Untouched
    <2>3. CASE cache[b] # None
      <3>1. b \in Books /\ cache[b] \in Requests
        BY <2>3 DEF BookshopInv, TypeOK, Stored
      <3>2. entity[cache[b]] \in Int
        BY <3>1 DEF BookshopInv, TypeOK
      <3> QED
        BY <2>1, <2>3, <3>2, BookshopAssumption DEF AloneAt, Exact
    <2> QED
      BY <2>2, <2>3
  <1> QED
    BY AloneInvariant, <1>1, PTL
================================================================================
