-------------------------------- MODULE Bookshop --------------------------------
(***************************************************************************)
(* The CQRS edition of the bookshop: orders (SiparisOlusturHandler) and    *)
(* new books (KitapEkleHandler) of many requests at once, over the         *)
(* decorated repository LoggingKitapRepository -> CachingKitapRepository   *)
(* -> KitapRepository.  The IMemoryCache belongs to the process, the       *)
(* AppDbContext to the request.                                            *)
(*                                                                         *)
(* What the cache holds is an object: the Kitap instance that some         *)
(* request's AppDbContext loaded.  An instance is therefore named by the   *)
(* request that loaded it, and a request that hits the cache decrements    *)
(* the instance of another.  Only the context that loaded an instance      *)
(* tracks it, so only its own SaveChanges writes it back.                  *)
(*                                                                         *)
(* Kitap.StokAdedi is read for the guard, read again for -= and written:   *)
(* three steps, because cache hits share the instance between threads.     *)
(***************************************************************************)
EXTENDS Integers

CONSTANTS
    Requests,
    Books,          \* row ids of the Kitaplar table, stored or not yet
    Isbns,          \* well-formed ISBNs
    None,           \* no request, no ISBN, no form
    InitialStock,   \* IlkStok of every book
    MaxQuantity,    \* the validator's upper limit for Adet
    MaxRestarts     \* bound: how often the process may be restarted

ASSUME BookshopAssumption ==
    /\ None \notin Requests \cup Isbns
    /\ InitialStock \in Nat
    /\ MaxQuantity \in Nat
    /\ MaxRestarts \in Nat

VARIABLES
    isbn,       \* isbn[b]: Isbn of row b, or None when b is not stored
    stock,      \* stock[b]: the StokAdedi column
    sold,       \* sold[b]: Adet summed over the stored order lines of b
    cache,      \* cache[b]: the request whose instance is under "kitap:{b}"
    entity,     \* entity[r]: StokAdedi of the instance that r's context loaded
    uses,       \* uses[r]: whose instance r got from BulByIdAsync
    register,   \* register[r]: the value r has read and not yet written
    form,       \* form[r]: the body of the request
    step,       \* step[r]: where the handler is, or what it answered
    restarts,
    knew,       \* history: knew[r], the books stored when r arrived
    taken,      \* history: taken[b], copies taken off instances of b
    disturbed   \* history: books whose instance was evicted, or wanted by two

dbVars == <<isbn, stock, sold>>
memoryVars == <<cache, entity, uses, register>>
vars == <<dbVars, memoryVars, form, step, restarts, knew, taken, disturbed>>

\* The bodies a client may send; a malformed ISBN is None.
OrderForms == [kind : {"order"}, book : Books, qty : 0..MaxQuantity + 1]
AddForms == [kind : {"add"}, isbn : Isbns \cup {None}]

OrderSteps == {"lookup", "read", "fill", "check", "load", "write", "detect", "save"}
AddSteps == {"isbn", "insert"}
Answers == {"ordered", "added", "invalid", "notFound", "refused", "duplicate",
            "failed", "lost"}

Stored == {b \in Books : isbn[b] # None}
Book(r) == form[r].book
Qty(r) == form[r].qty
Ordering(r) == step[r] \in OrderSteps

GoTo(r, s) == step' = [step EXCEPT ![r] = s]

Init ==
    /\ isbn \in [Books -> Isbns \cup {None}]
    /\ \A b, c \in Books : isbn[b] = isbn[c] /\ b # c => isbn[b] = None
    /\ stock = [b \in Books |-> IF isbn[b] = None THEN 0 ELSE InitialStock]
    /\ sold = [b \in Books |-> 0]
    /\ cache = [b \in Books |-> None]
    /\ entity = [r \in Requests |-> 0]
    /\ uses = [r \in Requests |-> None]
    /\ register = [r \in Requests |-> 0]
    /\ form = [r \in Requests |-> None]
    /\ step = [r \in Requests |-> "idle"]
    /\ restarts = 0
    /\ knew = [r \in Requests |-> {}]
    /\ taken = [b \in Books |-> 0]
    /\ disturbed = {}

--------------------------------------------------------------------------------
\* Mutant: Adet may be one more than the limit.
ValidUpToOneMore(f) ==
    /\ f.kind = "order" => f.qty \in 1..MaxQuantity + 1
    /\ f.kind = "add" => f.isbn # None

\* ValidationBehavior with the command's validator, and the constructor of Isbn.
Valid(f) ==
    /\ f.kind = "order" => f.qty \in 1..MaxQuantity
    /\ f.kind = "add" => f.isbn # None

Arrive(r) ==
    /\ step[r] = "idle"
    /\ \E f \in OrderForms \cup AddForms :
        /\ form' = [form EXCEPT ![r] = f]
        /\ \/ ~ Valid(f) /\ GoTo(r, "invalid") /\ UNCHANGED disturbed
           \/ Valid(f) /\ f.kind = "add" /\ GoTo(r, "isbn") /\ UNCHANGED disturbed
           \/ /\ Valid(f) /\ f.kind = "order"
              /\ GoTo(r, "lookup")
              /\ disturbed' = disturbed \cup
                    {b \in {f.book} : \E s \in Requests : Ordering(s) /\ Book(s) = b}
    /\ knew' = [knew EXCEPT ![r] = Stored]
    /\ UNCHANGED <<dbVars, memoryVars, restarts, taken>>

--------------------------------------------------------------------------------
(* SiparisOlusturHandler.Handle *)

\* CachingKitapRepository.BulByIdAsync: a hit returns the cached object itself.
Lookup(r) ==
    /\ step[r] = "lookup"
    /\ \/ /\ cache[Book(r)] # None
          /\ uses' = [uses EXCEPT ![r] = cache[Book(r)]]
          /\ GoTo(r, "check")
       \/ /\ cache[Book(r)] = None
          /\ GoTo(r, "read")
          /\ UNCHANGED uses
    /\ UNCHANGED <<dbVars, cache, entity, register, form, restarts, knew, taken, disturbed>>

\* Mutant: books that are sold out are filtered away by the query.
FoundInStock(b) == isbn[b] # None /\ stock[b] > 0

\* FirstOrDefaultAsync(k => k.Id == id) finds a row.
Found(b) == isbn[b] # None

\* KitapRepository.BulByIdAsync: r's context loads and tracks an instance.
Read(r) ==
    /\ step[r] = "read"
    /\ \/ /\ ~ Found(Book(r))
          /\ GoTo(r, "notFound")
          /\ UNCHANGED <<entity, uses>>
       \/ /\ Found(Book(r))
          /\ entity' = [entity EXCEPT ![r] = stock[Book(r)]]
          /\ uses' = [uses EXCEPT ![r] = r]
          /\ GoTo(r, "fill")
    /\ UNCHANGED <<dbVars, cache, register, form, restarts, knew, taken, disturbed>>

Fill(r) ==
    /\ step[r] = "fill"
    /\ cache' = [cache EXCEPT ![Book(r)] = r]
    /\ GoTo(r, "check")
    /\ UNCHANGED <<dbVars, entity, uses, register, form, restarts, knew, taken, disturbed>>

\* Mutants: the guard of StokAzalt off by one, in each direction.
EnoughWithOneMissing(r) == Qty(r) <= entity[uses[r]] + 1
EnoughWithOneLeft(r) == Qty(r) < entity[uses[r]]

\* The guard of Kitap.StokAzalt.
Enough(r) == Qty(r) <= entity[uses[r]]

Check(r) ==
    /\ step[r] = "check"
    /\ \/ Enough(r) /\ GoTo(r, "load")
       \/ ~ Enough(r) /\ GoTo(r, "refused")
    /\ UNCHANGED <<dbVars, memoryVars, form, restarts, knew, taken, disturbed>>

\* StokAdedi -= adet, its read ...
Load(r) ==
    /\ step[r] = "load"
    /\ register' = [register EXCEPT ![r] = entity[uses[r]]]
    /\ GoTo(r, "write")
    /\ UNCHANGED <<dbVars, cache, entity, uses, form, restarts, knew, taken, disturbed>>

\* ... and its write; another thread's decrement in between is overwritten.
Write(r) ==
    /\ step[r] = "write"
    /\ entity' = [entity EXCEPT ![uses[r]] = register[r] - Qty(r)]
    /\ taken' = [taken EXCEPT ![Book(r)] = @ + Qty(r)]
    /\ GoTo(r, "detect")
    /\ UNCHANGED <<dbVars, cache, uses, register, form, restarts, knew, disturbed>>

\* SaveChangesAsync looks for changes among the instances of r's own context.
Detect(r) ==
    /\ step[r] = "detect"
    /\ \/ /\ uses[r] = r
          /\ register' = [register EXCEPT ![r] = entity[r]]
       \/ /\ uses[r] # r
          /\ UNCHANGED register
    /\ GoTo(r, "save")
    /\ UNCHANGED <<dbVars, cache, entity, uses, form, restarts, knew, taken, disturbed>>

\* Mutant: the quantity is subtracted a second time, by the UPDATE.
SaveSubtracting(r) ==
    /\ step[r] = "save"
    /\ sold' = [sold EXCEPT ![Book(r)] = @ + Qty(r)]
    /\ \/ /\ uses[r] = r
          /\ stock' = [stock EXCEPT ![Book(r)] = register[r] - Qty(r)]
       \/ /\ uses[r] # r
          /\ UNCHANGED stock
    /\ GoTo(r, "ordered")
    /\ UNCHANGED <<isbn, memoryVars, form, restarts, knew, taken, disturbed>>

\* One transaction: the order with its line, and the absolute value of StokAdedi
\* when the context tracks the book.  No column is a concurrency token.
Save(r) ==
    /\ step[r] = "save"
    /\ sold' = [sold EXCEPT ![Book(r)] = @ + Qty(r)]
    /\ \/ /\ uses[r] = r
          /\ stock' = [stock EXCEPT ![Book(r)] = register[r]]
       \/ /\ uses[r] # r
          /\ UNCHANGED stock
    /\ GoTo(r, "ordered")
    /\ UNCHANGED <<isbn, memoryVars, form, restarts, knew, taken, disturbed>>

--------------------------------------------------------------------------------
(* KitapEkleHandler.Handle *)

\* Mutant: IsbnMevcutMu only looks at books in stock.
IsbnInStock(i) == \E b \in Books : isbn[b] = i /\ stock[b] > 0

\* KitapRepository.IsbnMevcutMu
IsbnMevcutMu(i) == \E b \in Books : isbn[b] = i

CheckIsbn(r) ==
    /\ step[r] = "isbn"
    /\ \/ IsbnMevcutMu(form[r].isbn) /\ GoTo(r, "duplicate")
       \/ ~ IsbnMevcutMu(form[r].isbn) /\ GoTo(r, "insert")
    /\ UNCHANGED <<dbVars, memoryVars, form, restarts, knew, taken, disturbed>>

\* KaydetAsync: the database picks the row id; no index makes ISBNs unique.
Insert(r) ==
    /\ step[r] = "insert"
    /\ \E b \in Books \ Stored :
        /\ isbn' = [isbn EXCEPT ![b] = form[r].isbn]
        /\ stock' = [stock EXCEPT ![b] = InitialStock]
    /\ GoTo(r, "added")
    /\ UNCHANGED <<sold, memoryVars, form, restarts, knew, taken, disturbed>>

--------------------------------------------------------------------------------
\* The database refuses, or the client goes away: nothing is stored, but the
\* cached instance keeps what StokAzalt did to it.
Fails(r) ==
    /\ step[r] \in {"read", "save", "isbn", "insert"}
    /\ GoTo(r, "failed")
    /\ UNCHANGED <<dbVars, memoryVars, form, restarts, knew, taken, disturbed>>

\* Five minutes are over, or memory is short.
Expire(b) ==
    /\ cache[b] # None
    /\ cache' = [cache EXCEPT ![b] = None]
    /\ disturbed' = disturbed \cup {b}
    /\ UNCHANGED <<dbVars, entity, uses, register, form, step, restarts, knew, taken>>

Restart ==
    /\ restarts < MaxRestarts
    /\ restarts' = restarts + 1
    /\ cache' = [b \in Books |-> None]
    /\ step' = [r \in Requests |->
                    IF step[r] \in OrderSteps \cup AddSteps THEN "lost" ELSE step[r]]
    /\ disturbed' = Books
    /\ UNCHANGED <<dbVars, entity, uses, register, form, knew, taken>>

Next ==
    \/ \E r \in Requests :
        \/ Arrive(r)
        \/ Lookup(r) \/ Read(r) \/ Fill(r)
        \/ Check(r) \/ Load(r) \/ Write(r)
        \/ Detect(r) \/ Save(r)
        \/ CheckIsbn(r) \/ Insert(r)
        \/ Fails(r)
    \/ \E b \in Books : Expire(b)
    \/ Restart

Spec == Init /\ [][Next]_vars

--------------------------------------------------------------------------------
\* Every variable has its type, and an order on its way is within the limits of
\* the validator (SiparisOlusturCommandValidator).
TypeOK ==
    /\ isbn \in [Books -> Isbns \cup {None}]
    /\ stock \in [Books -> Int]
    /\ sold \in [Books -> Nat]
    /\ cache \in [Books -> Requests \cup {None}]
    /\ entity \in [Requests -> Int]
    /\ uses \in [Requests -> Requests \cup {None}]
    /\ register \in [Requests -> Int]
    /\ form \in [Requests -> OrderForms \cup AddForms \cup {None}]
    /\ step \in [Requests -> {"idle"} \cup OrderSteps \cup AddSteps \cup Answers]
    /\ restarts \in 0..MaxRestarts
    /\ knew \in [Requests -> SUBSET Books]
    /\ taken \in [Books -> Nat]
    /\ disturbed \subseteq Books
    /\ \A r \in Requests :
        /\ Ordering(r) => form[r] \in OrderForms /\ Qty(r) \in 1..MaxQuantity
        /\ step[r] \in AddSteps => form[r] \in AddForms

\* Lost updates, shared instances, failed saves and restarts only ever lose a
\* decrement: the column never falls by more than the handlers have taken off
\* (Kitap.StokAzalt through CachingKitapRepository).
NoCopyVanishes == \A b \in Stored : stock[b] + taken[b] >= InitialStock

\* An order is refused for its stock only when the copies it wants and the copies
\* taken so far, by orders stored or failed, are more than the book ever had
\* (the guard of Kitap.StokAzalt on a cached instance).
RefusedForAReason ==
    \A r \in Requests : step[r] = "refused" => Qty(r) + taken[Book(r)] > InitialStock

\* While the orders of a book come one after the other and its cached instance
\* stays, the instance counts for the column that cache hits do not write: no
\* more copies are sold than there are.
NotOversoldUndisturbed == \A b \in Stored \ disturbed : sold[b] <= InitialStock

\* The missing row is not cached: an order for a book that was stored when the
\* order arrived is never told that there is no such book.
NotFoundIsTrue ==
    \A r \in Requests : step[r] = "notFound" => Book(r) \notin knew[r]

\* A request that arrives after a book has been stored never stores the same ISBN
\* again; only overlapping requests do (KitapEkleHandler, IsbnMevcutMu).
NoLateDuplicate ==
    \A r \in Requests : step[r] = "added" =>
        \A b \in knew[r] : isbn[b] # form[r].isbn

\* What StokAzalt's exception promises ("Yetersiz stok"): no more copies of a book
\* are in stored orders than the shop had.  The cache breaks it.
NeverOversold == \A b \in Stored : sold[b] <= InitialStock
--------------------------------------------------------------------------------
(* The invariant behind these: why each of them lasts. *)

\* An instance was loaded from a stored row, and has lost no more than was taken.
Instances ==
    \A r \in Requests : uses[r] = r =>
        /\ form[r] \in OrderForms
        /\ Book(r) \in Stored
        /\ entity[r] + taken[Book(r)] >= InitialStock

\* A request works on an instance of its own book, loaded by somebody.
Sharing ==
    \A r \in Requests : uses[r] # None =>
        /\ form[r] \in OrderForms
        /\ uses[uses[r]] = uses[r]
        /\ Book(uses[r]) = Book(r)

CacheHolds ==
    \A b \in Books : cache[b] # None =>
        uses[cache[b]] = cache[b] /\ Book(cache[b]) = b

Progress ==
    \A r \in Requests :
        /\ step[r] \in {"idle", "lookup", "read"} => uses[r] = None
        /\ step[r] = "fill" => uses[r] = r
        /\ step[r] \in {"check", "load", "write", "detect", "save"} => uses[r] # None
        /\ step[r] = "write" \/ (step[r] = "save" /\ uses[r] = r) =>
               register[r] + taken[Book(r)] >= InitialStock
        /\ step[r] = "refused" => form[r] \in OrderForms

Knowledge ==
    \A r \in Requests :
        /\ knew[r] \subseteq Stored
        /\ step[r] \in {"insert", "added"} => \A b \in knew[r] : isbn[b] # form[r].isbn

BookshopInv ==
    /\ TypeOK /\ NoCopyVanishes /\ RefusedForAReason /\ NotFoundIsTrue
    /\ Instances /\ Sharing /\ CacheHolds /\ Progress /\ Knowledge

\* The orders of b that are on their way.
Waiting(b) == {r \in Requests : Ordering(r) /\ Book(r) = b}

\* Nothing of b was cached yet, so nothing was taken.
Untouched(b) ==
    /\ taken[b] = 0
    /\ b \in Stored => stock[b] = InitialStock
    /\ \A r \in Waiting(b) :
        /\ step[r] \in {"lookup", "read", "fill"}
        /\ step[r] = "fill" => entity[r] = InitialStock

\* The cached instance says exactly what is left, and everybody works on it.
Exact(b) ==
    /\ entity[cache[b]] = InitialStock - taken[b]
    /\ entity[cache[b]] >= 0
    /\ \A r \in Waiting(b) :
        /\ step[r] \notin {"read", "fill"}
        /\ step[r] # "lookup" => uses[r] = cache[b]
        /\ step[r] \in {"load", "write"} => Qty(r) <= entity[cache[b]]
        /\ step[r] = "write" => register[r] = entity[cache[b]]

\* The orders of b came one after the other so far.
AloneAt(b) ==
    /\ \A r, s \in Waiting(b) : r = s
    /\ cache[b] = None => Untouched(b)
    /\ cache[b] # None => Exact(b)
    /\ sold[b] <= taken[b]
    /\ \A r \in Waiting(b) : step[r] \in {"detect", "save"} => sold[b] + Qty(r) <= taken[b]

Alone == \A b \in Books \ disturbed : AloneAt(b)

\* Both together: the handlers of SiparisOlusturHandler and KitapEkleHandler never
\* leave this set of states.
AloneInv == BookshopInv /\ Alone

================================================================================
