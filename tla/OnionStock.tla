------------------------------ MODULE OnionStock ------------------------------
(***************************************************************************)
(* The onion edition of the bookshop: orders and deletions of books by     *)
(* several requests at once, each with its own DbContext on one SQLite     *)
(* file.  SiparisOlusturHandler reads the book, checks and lowers the      *)
(* stock of its own copy of the entity, and saves order and stock in one   *)
(* transaction; the UPDATE writes the number, without a concurrency token. *)
(* No operation of this edition adds a book.                               *)
(***************************************************************************)
EXTENDS Integers

CONSTANTS
    Orders,         \* requests to SiparisController.Olustur
    Deletions,      \* requests to KitapController.Sil
    Books,          \* the ids that requests ask for
    Unlisted,       \* the ids of them that the table does not have
    Quantities,     \* SiparisOlusturCommand.Adet
    InitialStock    \* Kitap.StokAdedi at the start

ASSUME OnionAssumption ==
    /\ Orders \cap Deletions = {}
    /\ Unlisted \subseteq Books
    /\ Quantities \subseteq Int
    /\ InitialStock \in Nat

Requests == Orders \cup Deletions

VARIABLES
    rows,       \* the books in the table
    stock,      \* stock[b]: the column StokAdedi
    stored,     \* the orders in the table
    stage,      \* stage[r]: "new", "find", "save", "mail" or "end"
    book,       \* book[r]: the id in the request
    adet,       \* adet[r]: the quantity in the request
    seen,       \* seen[r]: StokAdedi of the entity that the request's context tracks
    answer,     \* answer[r]: how the controller answered, "none" until it did
    sold,       \* history: copies of each book in the stored orders
    before,     \* history: before[r], the orders that were stored when r read its book
    crossed     \* history: books of which an order was saved over one stored after its read

request == <<stage, book, adet, seen, answer, before>>
vars == <<rows, stock, stored, request, sold, crossed>>

Init ==
    /\ rows = Books \ Unlisted
    /\ stock = [b \in Books |-> InitialStock]
    /\ stored = {}
    /\ stage = [r \in Requests |-> "new"]
    /\ book \in [Requests -> Books]
    /\ adet \in [Requests -> Quantities]
    /\ seen = [r \in Requests |-> 0]
    /\ answer = [r \in Requests |-> "none"]
    /\ sold = [b \in Books |-> 0]
    /\ before = [r \in Requests |-> {}]
    /\ crossed = {}

Arrive(r) ==
    /\ stage[r] = "new"
    /\ stage' = [stage EXCEPT ![r] = "find"]
    /\ UNCHANGED <<rows, stock, stored, book, adet, seen, answer, before, sold, crossed>>

Reply(r, code) ==
    /\ stage' = [stage EXCEPT ![r] = "end"]
    /\ answer' = [answer EXCEPT ![r] = code]

(***************************************************************************)
(* The first await: BulByIdAsync, and what the handler does with the book  *)
(* before the next one.  A DomainException is a 400 for an order and a 404 *)
(* for a deletion.                                                         *)
(***************************************************************************)
NotFound(r) ==
    /\ stage[r] = "find"
    /\ book[r] \notin rows
    /\ Reply(r, IF r \in Orders THEN "UnknownBook" ELSE "NotFound")
    /\ UNCHANGED <<rows, stock, stored, book, adet, seen, before, sold, crossed>>

\* Mutant: the last copy is kept back.
EnoughToLeaveOne(n, s) == 0 < n /\ n < s

Enough(n, s) == 0 < n /\ n <= s

\* StokAzalt throws.
Refuse(r) ==
    /\ stage[r] = "find"
    /\ r \in Orders
    /\ book[r] \in rows
    /\ ~Enough(adet[r], stock[book[r]])
    /\ Reply(r, IF adet[r] <= 0 THEN "BadQuantity" ELSE "OutOfStock")
    /\ UNCHANGED <<rows, stock, stored, book, adet, seen, before, sold, crossed>>

\* StokAzalt, KalemEkle and Onayla change the entities of this request only.
Take(r) ==
    /\ stage[r] = "find"
    /\ r \in Orders
    /\ book[r] \in rows
    /\ Enough(adet[r], stock[book[r]])
    /\ stage' = [stage EXCEPT ![r] = "save"]
    /\ seen' = [seen EXCEPT ![r] = stock[book[r]] - adet[r]]
    /\ before' = [before EXCEPT ![r] = stored]
    /\ UNCHANGED <<rows, stock, stored, book, adet, answer, sold, crossed>>

FindToDelete(r) ==
    /\ stage[r] = "find"
    /\ r \in Deletions
    /\ book[r] \in rows
    /\ stage' = [stage EXCEPT ![r] = "save"]
    /\ UNCHANGED <<rows, stock, stored, book, adet, seen, answer, before, sold, crossed>>

(***************************************************************************)
(* The second await: SaveChangesAsync, one transaction.                    *)
(***************************************************************************)
\* The orders of book b that were stored since r read it.
StoredSince(r) == {o \in stored \ before[r] : book[o] = book[r]}

\* Mutant: the order is stored, the decrement of the entity is not.
SaveReadStock(r) ==
    /\ stage[r] = "save"
    /\ r \in Orders
    /\ book[r] \in rows
    /\ stock' = [stock EXCEPT ![book[r]] = seen[r] + adet[r]]
    /\ stored' = stored \cup {r}
    /\ stage' = [stage EXCEPT ![r] = "mail"]
    /\ sold' = [sold EXCEPT ![book[r]] = @ + adet[r]]
    /\ crossed' = IF StoredSince(r) = {} THEN crossed ELSE crossed \cup {book[r]}
    /\ UNCHANGED <<rows, book, adet, seen, answer, before>>

\* Mutant: the UPDATE lowers the column as it is by then.
SaveRelative(r) ==
    /\ stage[r] = "save"
    /\ r \in Orders
    /\ book[r] \in rows
    /\ stock' = [stock EXCEPT ![book[r]] = @ - adet[r]]
    /\ stored' = stored \cup {r}
    /\ stage' = [stage EXCEPT ![r] = "mail"]
    /\ sold' = [sold EXCEPT ![book[r]] = @ + adet[r]]
    /\ crossed' = IF StoredSince(r) = {} THEN crossed ELSE crossed \cup {book[r]}
    /\ UNCHANGED <<rows, book, adet, seen, answer, before>>

Save(r) ==
    /\ stage[r] = "save"
    /\ r \in Orders
    /\ book[r] \in rows
    /\ stock' = [stock EXCEPT ![book[r]] = seen[r]]
    /\ stored' = stored \cup {r}
    /\ stage' = [stage EXCEPT ![r] = "mail"]
    /\ sold' = [sold EXCEPT ![book[r]] = @ + adet[r]]
    /\ crossed' = IF StoredSince(r) = {} THEN crossed ELSE crossed \cup {book[r]}
    /\ UNCHANGED <<rows, book, adet, seen, answer, before>>

Delete(r) ==
    /\ stage[r] = "save"
    /\ r \in Deletions
    /\ book[r] \in rows
    /\ rows' = rows \ {book[r]}
    /\ Reply(r, "NoContent")
    /\ UNCHANGED <<stock, stored, book, adet, seen, before, sold, crossed>>

\* No row has the id any more: DbUpdateConcurrencyException, nothing is stored.
SaveMissesRow(r) ==
    /\ stage[r] = "save"
    /\ book[r] \notin rows
    /\ Reply(r, "Error")
    /\ UNCHANGED <<rows, stock, stored, book, adet, seen, before, sold, crossed>>

\* The confirmation only writes a log line; the order is answered 201.
Confirm(r) ==
    /\ stage[r] = "mail"
    /\ Reply(r, "Created")
    /\ UNCHANGED <<rows, stock, stored, book, adet, seen, before, sold, crossed>>

\* The database refuses a read or a save, or the client gave up waiting for it.
DatabaseFails(r) ==
    /\ stage[r] \in {"find", "save"}
    /\ Reply(r, "Error")
    /\ UNCHANGED <<rows, stock, stored, book, adet, seen, before, sold, crossed>>

\* The process stops: requests on their way are never answered, the file stays.
Restart ==
    /\ \E r \in Requests : stage[r] \in {"find", "save", "mail"}
    /\ stage' = [r \in Requests |-> IF stage[r] = "new" THEN "new" ELSE "end"]
    /\ UNCHANGED <<rows, stock, stored, book, adet, seen, answer, before, sold, crossed>>

Next ==
    \/ \E r \in Requests :
          \/ Arrive(r) \/ NotFound(r) \/ Refuse(r) \/ Take(r) \/ FindToDelete(r)
          \/ Save(r) \/ Delete(r) \/ SaveMissesRow(r) \/ Confirm(r) \/ DatabaseFails(r)
    \/ Restart

Spec == Init /\ [][Next]_vars

(***************************************************************************)
(* Properties.                                                             *)
(***************************************************************************)

(* Every variable keeps its type.  That the column is a natural number is  *)
(* the invariant Kitap.StokAzalt claims: the stock never gets negative,    *)
(* here because every request lowers the number it has checked.            *)
TypeOK ==
    /\ rows \subseteq Books
    /\ stock \in [Books -> Nat]
    /\ stored \subseteq Orders
    /\ stage \in [Requests -> {"new", "find", "save", "mail", "end"}]
    /\ book \in [Requests -> Books]
    /\ adet \in [Requests -> Quantities]
    /\ seen \in [Requests -> Nat]
    /\ answer \in [Requests -> {"none", "Created", "NoContent", "UnknownBook", "BadQuantity",
                                "OutOfStock", "NotFound", "Error"}]
    /\ sold \in [Books -> Nat]
    /\ before \in [Requests -> SUBSET Orders]
    /\ crossed \subseteq Books

(* Orders overwrite each other's decrement, but only in one way: unless an *)
(* order was saved over one that was stored after its read, the column is  *)
(* exactly what was not sold, through failures, deletions and restarts.    *)
ExactUnlessCrossed ==
    \A b \in Books \ crossed : stock[b] + sold[b] = InitialStock

(* Lost decrements only ever show too many copies, so an order refused for *)
(* its stock (or for more than there are) did ask for more than were left. *)
RefusalIsRight ==
    \A r \in Orders :
        answer[r] = "OutOfStock" => sold[book[r]] + adet[r] > InitialStock

================================================================================
