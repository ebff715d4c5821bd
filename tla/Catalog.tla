-------------------------------- MODULE Catalog --------------------------------
(***************************************************************************)
(* The catalogue of the MVC bookshop: the requests of KitapController,     *)
(* KitapApiController and KitapEndpoints over the decorated service        *)
(* CachedKitapServisi -> EfKitapServisi.  The IMemoryCache belongs to the  *)
(* process; the KitabeviDbContext, and with it the entity it tracks, to    *)
(* the request.                                                            *)
(*                                                                         *)
(* A request is one of: read (list, category or one book), create, edit    *)
(* (the MVC form), put (the API, which looks the book up first), delete.   *)
(* Every await is the end of a step.  Of a book's columns three are kept:  *)
(* the title, which must be unique, the category, by which lists are       *)
(* cached, and the stock, which hides a book from the list of all.         *)
(***************************************************************************)
EXTENDS Integers

CONSTANTS
    Requests,
    Books,          \* ids of the table Kitaplar, used or not yet
    Titles,
    Categories,     \* as clients spell them
    Lower,          \* Lower[c]: c.ToLowerInvariant()
    Forms,          \* bodies that pass the model validation
    None

Rows == [title : Titles, category : Categories, stock : Nat]

ASSUME CatalogAssumption ==
    /\ Lower \in [Categories -> Categories]
    /\ Forms \subseteq Rows
    /\ None \notin Rows

VARIABLES
    row,        \* row[b]: the stored book, or None
    used,       \* ids the database has given out
    cache,      \* cache[k]: what is stored under key k, or Absent
    ask,        \* ask[r]: the body of the request
    step,       \* step[r]: where the handler is, or what it answered
    held,       \* held[r]: result of a query that is not cached yet
    tracked,    \* tracked[r]: the entity as r's context loaded it, or None
    late,       \* history: readers whose result is older than some write
    crossed,    \* history: requests whose tracked book was written by another
    suspect,    \* history: keys that a write or a late reader left behind
    contended   \* history: titles that two requests were about to write

tableVars == <<row, used>>
requestVars == <<ask, step, held, tracked, late, crossed>>
vars == <<tableVars, cache, requestVars, suspect, contended>>

--------------------------------------------------------------------------------
AllKey == [kind |-> "all", of |-> None]
CategoryQuery(c) == [kind |-> "category", of |-> c]
BookKey(b) == [kind |-> "book", of |-> b]

Queries == {AllKey} \cup {CategoryQuery(c) : c \in Categories} \cup {BookKey(b) : b \in Books}

\* TumKitaplarKey, KategoriKey, KitapKey
Key(q) == IF q.kind = "category" THEN CategoryQuery(Lower[q.of]) ELSE q
CategoryKey(c) == Key(CategoryQuery(c))

Keys == {Key(q) : q \in Queries}

\* The conditions of the three queries.
Matches(q, x) ==
    CASE q.kind = "all" -> x.stock > 0
      [] q.kind = "category" -> x.category = q.of
      [] OTHER -> TRUE

Views == [Books -> Rows \cup {None}]
Absent == [b \in {} |-> None]

\* What the database answers to q.
View(q) ==
    [b \in Books |->
        IF row[b] # None /\ (q.kind = "book" => b = q.of) /\ Matches(q, row[b])
        THEN row[b] ELSE None]

--------------------------------------------------------------------------------
Reads == [kind : {"read"}, query : Queries]
Creates == [kind : {"create"}, form : Forms]
Edits == [kind : {"edit"}, id : Books, form : Forms]
Puts == [kind : {"put"}, id : Books, form : Forms]
Changes == Edits \cup Puts
Deletes == [kind : {"delete"}, id : Books]
Bodies == Reads \cup Creates \cup Changes \cup Deletes

Running == {"get", "query", "store", "title", "insert", "load", "save", "find",
            "remove", "purgeBook", "purgeAll", "purgeCategory"}
Answers == {"shown", "created", "updated", "deleted", "notFound", "badRequest",
            "conflict", "forbidden", "changedMeanwhile", "failed"}

Kind(r) == ask[r].kind
Id(r) == ask[r].id
Form(r) == ask[r].form

\* What BulByIdAsync, HepsiniGetirAsync or KategoriyeGoreGetirAsync is called for.
QueryOf(r) == IF Kind(r) = "read" THEN ask[r].query ELSE BookKey(Id(r))

GoTo(r, s) == step' = [step EXCEPT ![r] = s]

Proceed(r, s) == GoTo(r, s) /\ UNCHANGED <<ask, held, tracked, late, crossed>>

\* The answer is out; the request and its context are gone.
Answer(r, a) ==
    /\ GoTo(r, a)
    /\ ask' = [ask EXCEPT ![r] = None]
    /\ held' = [held EXCEPT ![r] = Absent]
    /\ tracked' = [tracked EXCEPT ![r] = None]
    /\ late' = late \ {r}
    /\ crossed' = crossed \ {r}

Init ==
    /\ row \in [Books -> Forms \cup {None}]
    /\ \A b, c \in Books :
        row[b] # None /\ row[c] # None /\ row[b].title = row[c].title => b = c
    /\ used = {b \in Books : row[b] # None}
    /\ cache = [k \in Keys |-> Absent]
    /\ ask = [r \in Requests |-> None]
    /\ step = [r \in Requests |-> "idle"]
    /\ held = [r \in Requests |-> Absent]
    /\ tracked = [r \in Requests |-> None]
    /\ late = {}
    /\ suspect = {}
    /\ crossed = {}
    /\ contended = {}

Arrive(r) ==
    /\ step[r] = "idle"
    /\ \E a \in Bodies :
        \/ /\ ask' = [ask EXCEPT ![r] = a]
           /\ GoTo(r, IF a.kind \in {"create", "edit"} THEN "title" ELSE "get")
           /\ UNCHANGED <<held, tracked, late, crossed>>
        \/ \* The id in the route is not the id in the form.
           a.kind = "edit" /\ Answer(r, "badRequest")
    /\ UNCHANGED <<tableVars, cache, suspect, contended>>

--------------------------------------------------------------------------------
(* Reading through the cache *)

\* What a handler does once it has the result.
GoOn(r, result) ==
    \/ /\ Kind(r) = "read"
       /\ Answer(r, "shown")
    \/ /\ Kind(r) # "read"
       /\ result[Id(r)] = None
       /\ Answer(r, "notFound")
    \/ /\ Kind(r) # "read"
       /\ result[Id(r)] # None
       /\ GoTo(r, IF Kind(r) = "put" THEN "title" ELSE "find")
       /\ held' = [held EXCEPT ![r] = Absent]
       /\ UNCHANGED <<ask, tracked, late, crossed>>

\* TryGetValue.  The second look of HepsiniGetirAsync under its semaphore is this
\* step as well: the semaphore is the request's own, nobody holds it.
Get(r) ==
    /\ step[r] = "get"
    /\ LET entry == cache[Key(QueryOf(r))]
       IN  \/ /\ entry # Absent
              /\ GoOn(r, entry)
           \/ /\ entry = Absent
              /\ Proceed(r, "query")
    /\ UNCHANGED <<tableVars, cache, suspect, contended>>

\* EfKitapServisi: the lists do not track, FindAsync does.
Query(r) ==
    /\ step[r] = "query"
    /\ held' = [held EXCEPT ![r] = View(QueryOf(r))]
    /\ tracked' = [tracked EXCEPT ![r] =
                      IF QueryOf(r).kind = "book" THEN row[QueryOf(r).of] ELSE None]
    /\ GoTo(r, "store")
    /\ UNCHANGED <<tableVars, cache, ask, late, crossed, suspect, contended>>

\* _cache.Set, of the answer "no such book" too.
Store(r) ==
    /\ step[r] = "store"
    /\ cache' = [cache EXCEPT ![Key(QueryOf(r))] = held[r]]
    /\ suspect' = IF r \in late THEN suspect \cup {Key(QueryOf(r))}
                                ELSE suspect \ {Key(QueryOf(r))}
    /\ GoOn(r, held[r])
    /\ UNCHANGED <<tableVars, contended>>

--------------------------------------------------------------------------------
(* Writing *)

\* Requests that have passed the title check with title t and may still write.
Writers(t) ==
    {r \in Requests : step[r] \in {"insert", "load", "save"} /\ Form(r).title = t}

\* Mutant: only books on sale are looked at.
TitleOnSale(r) ==
    \E b \in Books :
        /\ row[b] # None
        /\ row[b].title = Form(r).title
        /\ row[b].stock > 0
        /\ Kind(r) # "create" => b # Id(r)

\* BaslikVarMiAsync; a new book has no id to be left out.
TitleTaken(r) ==
    \E b \in Books :
        /\ row[b] # None
        /\ row[b].title = Form(r).title
        /\ Kind(r) # "create" => b # Id(r)

\* Mutant: the title is checked for new books only.
CheckTitleOfNewBooks(r) ==
    /\ step[r] = "title"
    /\ \/ /\ Kind(r) = "create" /\ TitleTaken(r)
          /\ Answer(r, "conflict")
          /\ UNCHANGED contended
       \/ /\ Kind(r) = "create" => ~ TitleTaken(r)
          /\ Proceed(r, IF Kind(r) = "create" THEN "insert" ELSE "load")
          /\ contended' = contended \cup
                              {t \in {Form(r).title} : Writers(t) # {}}
    /\ UNCHANGED <<tableVars, cache, suspect>>

CheckTitle(r) ==
    /\ step[r] = "title"
    /\ \/ /\ TitleTaken(r)
          /\ Answer(r, "conflict")
          /\ UNCHANGED contended
       \/ /\ ~ TitleTaken(r)
          /\ Kind(r) = "edit"
          /\ Answer(r, "forbidden")
          /\ UNCHANGED contended
       \/ /\ ~ TitleTaken(r)
          /\ Proceed(r, IF Kind(r) = "create" THEN "insert" ELSE "load")
          /\ contended' = contended \cup
                              {t \in {Form(r).title} : Writers(t) # {}}
    /\ UNCHANGED <<tableVars, cache, suspect>>

\* The row of b becomes x; left are the keys that show b and r will not remove.
Commit(r, b, x, left) ==
    /\ row' = [row EXCEPT ![b] = x]
    /\ late' = late \cup {s \in Requests : step[s] = "store"}
    /\ crossed' = crossed \cup
          {s \in Requests \ {r} : tracked[s] # None /\ QueryOf(s) = BookKey(b)}
    /\ suspect' = suspect \cup left

\* EfKitapServisi.EkleAsync
Insert(r) ==
    /\ step[r] = "insert"
    /\ \E b \in Books \ used :
        /\ Commit(r, b, Form(r), {BookKey(b)})
        /\ used' = used \cup {b}
    /\ GoTo(r, "purgeAll")
    /\ UNCHANGED <<cache, ask, held, tracked, contended>>

\* Mutant: GuncelleAsync goes on without a book.
LoadUnchecked(r) ==
    /\ step[r] = "load"
    /\ tracked' = [tracked EXCEPT ![r] =
                      IF tracked[r] # None THEN tracked[r] ELSE row[Id(r)]]
    /\ GoTo(r, "save")
    /\ UNCHANGED <<tableVars, cache, ask, held, late, crossed, suspect, contended>>

\* GuncelleAsync: FindAsync answers from the context if that tracks the book.
\* The API does not look at the result: it answers 200 for a book that is gone.
Load(r) ==
    /\ step[r] = "load"
    /\ \/ /\ tracked[r] # None
          /\ Proceed(r, "save")
       \/ /\ tracked[r] = None /\ row[Id(r)] # None
          /\ tracked' = [tracked EXCEPT ![r] = row[Id(r)]]
          /\ GoTo(r, "save")
          /\ UNCHANGED <<ask, held, late, crossed>>
       \/ /\ tracked[r] = None /\ row[Id(r)] = None
          /\ Answer(r, IF Kind(r) = "edit" THEN "notFound" ELSE "updated")
    /\ UNCHANGED <<tableVars, cache, suspect, contended>>

\* A column is in the UPDATE when the form differs from what was loaded.
Column(old, new, stored) == IF new # old THEN new ELSE stored

\* Mutant: GuncelleAsync forgets StokAdedi.
MergedWithoutStock(old, new, stored) ==
    [title |-> Column(old.title, new.title, stored.title),
     category |-> Column(old.category, new.category, stored.category),
     stock |-> stored.stock]

Merged(old, new, stored) ==
    [title |-> Column(old.title, new.title, stored.title),
     category |-> Column(old.category, new.category, stored.category),
     stock |-> Column(old.stock, new.stock, stored.stock)]

\* The category whose key an update or a delete of x leaves behind.
LeftBehind(x, purged) == {CategoryKey(x.category)} \ {CategoryKey(purged)}

\* Mutant: a missing row is inserted again.
SaveOrInsert(r) ==
    /\ step[r] = "save"
    /\ Commit(r, Id(r), Form(r), Keys)
    /\ GoTo(r, "purgeBook")
    /\ UNCHANGED <<used, cache, ask, held, tracked, contended>>

\* SaveChangesAsync of GuncelleAsync.  RowVersion is null with this provider, so
\* only a missing row is a DbUpdateConcurrencyException; the API does not catch it.
Save(r) ==
    /\ step[r] = "save"
    /\ \/ /\ Form(r) = tracked[r]
          /\ Proceed(r, "purgeBook")
          /\ UNCHANGED <<row, suspect>>
       \/ /\ Form(r) # tracked[r] /\ row[Id(r)] # None
          /\ Commit(r, Id(r), Merged(tracked[r], Form(r), row[Id(r)]),
                    LeftBehind(row[Id(r)], Form(r).category))
          /\ GoTo(r, "purgeBook")
          /\ UNCHANGED <<ask, held, tracked>>
       \/ /\ Form(r) # tracked[r] /\ row[Id(r)] = None
          /\ Answer(r, IF Kind(r) = "edit" THEN "changedMeanwhile" ELSE "failed")
          /\ UNCHANGED <<row, suspect>>
    /\ UNCHANGED <<used, cache, contended>>

\* SilAsync looks twice; the second FindAsync answers from the context, or again
\* with null, since ids are not used twice.  The result is not looked at.
Find(r) ==
    /\ step[r] = "find"
    /\ \/ /\ tracked[r] # None
          /\ Proceed(r, "remove")
       \/ /\ tracked[r] = None /\ row[Id(r)] # None
          /\ tracked' = [tracked EXCEPT ![r] = row[Id(r)]]
          /\ GoTo(r, "remove")
          /\ UNCHANGED <<ask, held, late, crossed>>
       \/ /\ tracked[r] = None /\ row[Id(r)] = None
          /\ Answer(r, "deleted")
    /\ UNCHANGED <<tableVars, cache, suspect, contended>>

\* The DELETE; without a row it is a DbUpdateConcurrencyException nobody catches.
Remove(r) ==
    /\ step[r] = "remove"
    /\ \/ /\ row[Id(r)] # None
          /\ Commit(r, Id(r), None, LeftBehind(row[Id(r)], tracked[r].category))
          /\ GoTo(r, "purgeBook")
          /\ UNCHANGED <<ask, held, tracked>>
       \/ /\ row[Id(r)] = None
          /\ Answer(r, "failed")
          /\ UNCHANGED <<row, suspect>>
    /\ UNCHANGED <<used, cache, contended>>

--------------------------------------------------------------------------------
(* Invalidation: three calls of _cache.Remove *)

Evict(k) ==
    /\ cache' = [cache EXCEPT ![k] = Absent]
    /\ suspect' = suspect \ {k}

\* Mutant: the Remove of the single book is missing.
PurgeBookForgotten(r) ==
    /\ step[r] = "purgeBook"
    /\ Proceed(r, "purgeAll")
    /\ UNCHANGED <<tableVars, cache, suspect, contended>>

PurgeBook(r) ==
    /\ step[r] = "purgeBook"
    /\ Evict(BookKey(Id(r)))
    /\ Proceed(r, "purgeAll")
    /\ UNCHANGED <<tableVars, contended>>

PurgeAll(r) ==
    /\ step[r] = "purgeAll"
    /\ Evict(AllKey)
    /\ Proceed(r, "purgeCategory")
    /\ UNCHANGED <<tableVars, contended>>

\* SilAsync takes the category it read before the DELETE, the others the form's.
PurgedCategory(r) == IF Kind(r) = "delete" THEN tracked[r].category ELSE Form(r).category

PurgeCategory(r) ==
    /\ step[r] = "purgeCategory"
    /\ Evict(CategoryKey(PurgedCategory(r)))
    /\ Answer(r, CASE Kind(r) = "create" -> "created"
                   [] Kind(r) = "delete" -> "deleted"
                   [] OTHER -> "updated")
    /\ UNCHANGED <<tableVars, contended>>

\* Time is over (absolute or sliding), or the SizeLimit is reached.
Expire(k) ==
    /\ cache[k] # Absent
    /\ Evict(k)
    /\ UNCHANGED <<tableVars, requestVars, contended>>

Next ==
    \/ \E r \in Requests :
        \/ Arrive(r)
        \/ Get(r) \/ Query(r) \/ Store(r)
        \/ CheckTitle(r)
        \/ Insert(r) \/ Load(r) \/ Save(r) \/ Find(r) \/ Remove(r)
        \/ PurgeBook(r) \/ PurgeAll(r) \/ PurgeCategory(r)
    \/ \E k \in Keys : Expire(k)

Spec == Init /\ [][Next]_vars

--------------------------------------------------------------------------------
\* Every variable has its type; a handler runs on a request of its kind, and only
\* a handler that has loaded the book saves or removes it.
TypeOK ==
    /\ row \in [Books -> Rows \cup {None}]
    /\ used \in SUBSET Books
    /\ cache \in [Keys -> Views \cup {Absent}]
    /\ ask \in [Requests -> Bodies \cup {None}]
    /\ step \in [Requests -> {"idle"} \cup Running \cup Answers]
    /\ held \in [Requests -> Views \cup {Absent}]
    /\ tracked \in [Requests -> Rows \cup {None}]
    /\ late \subseteq Requests
    /\ suspect \subseteq Keys
    /\ crossed \subseteq Requests
    /\ contended \subseteq Titles
    /\ \A r \in Requests :
        /\ step[r] \in Running => ask[r] \in Bodies
        /\ step[r] \in {"get", "query", "store"} =>
               ask[r] \in Reads \cup Puts \cup Deletes
        /\ step[r] = "store" => held[r] \in Views
        /\ step[r] = "title" => ask[r] \in Creates \cup Changes
        /\ step[r] = "insert" => ask[r] \in Creates
        /\ step[r] \in {"load", "save"} => ask[r] \in Changes
        /\ step[r] \in {"find", "remove"} => ask[r] \in Deletes
        /\ step[r] = "purgeBook" => ask[r] \in Changes \cup Deletes
        /\ step[r] \in {"purgeAll", "purgeCategory"} => ask[r] \in Bodies \ Reads
        /\ step[r] \in {"save", "remove"} => tracked[r] \in Rows
        /\ step[r] \in {"purgeBook", "purgeAll", "purgeCategory"} /\ ask[r] \in Deletes =>
               tracked[r] \in Rows

\* The keys r has still to remove.
ToPurge(r) ==
    CASE step[r] = "purgeBook" ->
            {BookKey(Id(r)), AllKey, CategoryKey(PurgedCategory(r))}
      [] step[r] = "purgeAll" -> {AllKey, CategoryKey(PurgedCategory(r))}
      [] step[r] = "purgeCategory" -> {CategoryKey(PurgedCategory(r))}
      [] OTHER -> {}

Fresh(k, entry) == \E q \in Queries : Key(q) = k /\ entry = View(q)

\* The Remove calls are enough: an entry of the cache says what the table says,
\* unless its removal is under way, or a reader stored what it had read before a
\* write, or the key is one that the three Removes miss: the id of a new book, the
\* category a book had before (CachedKitapServisi).
EntriesAreFresh ==
    \A k \in Keys \ suspect :
        \/ cache[k] = Absent
        \/ \E r \in Requests : k \in ToPurge(r)
        \/ Fresh(k, cache[k])

\* A book that was deleted never comes back, whatever edits of it are on their way
\* (FindAsync from the change tracker, then UPDATE).
GoneStaysGone ==
    [][\A b \in used : row[b] = None => row'[b] = None]_vars

\* Titles are unique in the table as long as no two requests are between the check
\* and the write of the same title (BaslikVarMiAsync; the unique index is not
\* enforced by the provider).
TitlesAreUnique ==
    \A b, c \in Books :
        /\ row[b] # None /\ row[c] # None
        /\ row[b].title = row[c].title
        /\ row[b].title \notin contended
        => b = c

Updates(r) == step[r] = "save" /\ step'[r] = "purgeBook"

\* An update stores the whole form when nobody wrote the book since the request's
\* context loaded it, be that for the lookup of the API or in GuncelleAsync.
UncrossedUpdateIsComplete ==
    [][\A r \in Requests \ crossed : Updates(r) => row'[Id(r)] = Form(r)]_vars

--------------------------------------------------------------------------------
(* The invariant behind these. *)

\* A stored book has a used id.
Identity == \A b \in Books : row[b] # None => b \in used

\* A result that is not late is what the database would answer now.
HeldIsFresh ==
    \A r \in Requests : step[r] = "store" /\ r \notin late => held[r] = View(QueryOf(r))

\* A context tracks nothing before the first query, and nothing for a new book; from
\* the query to its own write, an uncrossed request knows the row of its book.
Knows(r) ==
    /\ step[r] \in {"idle", "get", "query"} \/ ask[r] \in Creates => tracked[r] = None
    /\ /\ step[r] \in {"store", "title", "load", "save", "find", "remove"}
       /\ tracked[r] # None
       /\ r \notin crossed
       => /\ QueryOf(r).kind = "book"
          /\ tracked[r] = row[QueryOf(r).of]

TrackedIsFresh == \A r \in Requests : Knows(r)

\* The title a request is about to write is free, but for its own book.
TitleIsFree ==
    \A r \in Requests :
        /\ step[r] \in {"insert", "load", "save"}
        /\ Form(r).title \notin contended
        => ~ TitleTaken(r)

\* Two requests that are about to write one title are known to the history.
WritersApart ==
    \A r, s \in Requests :
        /\ step[r] \in {"insert", "load", "save"}
        /\ s \in Writers(Form(r).title)
        /\ Form(r).title \notin contended
        => r = s

\* What a handler carries from one await to the next is true when it is used,
\* unless the history says why not (the local variables of the handlers, the
\* change tracker of KitabeviDbContext).
HandlersKnow == Identity /\ HeldIsFresh /\ TrackedIsFresh /\ TitleIsFree /\ WritersApart

CatalogInv == TypeOK /\ EntriesAreFresh /\ TitlesAreUnique /\ HandlersKnow

================================================================================
