----------------------------- MODULE CatalogProofs -----------------------------
(***************************************************************************)
(* Catalog keeps CatalogInv for every number of requests, books, titles    *)
(* and categories, every set of forms and every folding of categories.     *)
(*                                                                         *)
(* A write changes the answer of four keys at most: the book, the list of  *)
(* all, and the categories before and after (WriteShows).  The handler     *)
(* removes three of them later and the history names the fourth; everybody *)
(* else who has seen one of the four answers is a late reader.             *)
(***************************************************************************)
EXTENDS Catalog, TLAPS

(* What the bodies carry. *)
LEMMA BodyTyped ==
    ASSUME NEW r \in Requests
    PROVE  /\ ask[r] \in Reads => Kind(r) = "read" /\ ask[r].query \in Queries
           /\ ask[r] \in Creates => Kind(r) = "create" /\ Form(r) \in Forms
           /\ ask[r] \in Edits => Kind(r) = "edit" /\ Id(r) \in Books /\ Form(r) \in Forms
           /\ ask[r] \in Puts => Kind(r) = "put" /\ Id(r) \in Books /\ Form(r) \in Forms
           /\ ask[r] \in Deletes => Kind(r) = "delete" /\ Id(r) \in Books
  BY DEF Reads, Creates, Edits, Puts, Deletes, Kind, Id, Form

(* The key of a book, of the list and of a category are keys. *)
LEMMA KeysTyped ==
    /\ \A q \in Queries : Key(q) \in Keys
    /\ \A b \in Books : BookKey(b) \in Queries /\ BookKey(b) \in Keys /\ Key(BookKey(b)) = BookKey(b)
    /\ AllKey \in Queries /\ AllKey \in Keys /\ Key(AllKey) = AllKey
    /\ \A c \in Categories : CategoryQuery(c) \in Queries /\ CategoryKey(c) \in Keys
  <1>1. \A q \in Queries : Key(q) \in Keys
    BY DEF Keys
  <1>2. ASSUME NEW b \in Books
        PROVE  BookKey(b) \in Queries /\ Key(BookKey(b)) = BookKey(b)
    BY DEF Queries, Key, BookKey
  <1>3. AllKey \in Queries /\ Key(AllKey) = AllKey
    BY DEF Queries, Key, AllKey
  <1>4. ASSUME NEW c \in Categories
        PROVE  CategoryQuery(c) \in Queries
    BY DEF Queries
  <1> QED
    BY <1>1, <1>2, <1>3, <1>4 DEF CategoryKey

(* A request that reads has a query. *)
LEMMA QueryTyped ==
    ASSUME NEW r \in Requests, ask[r] \in Reads \cup Puts \cup Deletes
    PROVE  QueryOf(r) \in Queries /\ Key(QueryOf(r)) \in Keys
  BY BodyTyped, KeysTyped DEF QueryOf

(* The database answers with stored books. *)
LEMMA ViewTyped ==
    ASSUME row \in [Books -> Rows \cup {None}], NEW q
    PROVE  View(q) \in Views
  BY DEF View, Views

(* An update leaves a row. *)
LEMMA MergedTyped ==
    ASSUME NEW old \in Rows, NEW new \in Rows, NEW stored \in Rows
    PROVE  Merged(old, new, stored) \in Rows
  BY DEF Rows, Merged, Column

(* What a query of a book is. *)
LEMMA BookQuery ==
    ASSUME NEW q \in Queries, q.kind = "book"
    PROVE  q.of \in Books /\ q = BookKey(q.of)
  BY DEF Queries, AllKey, CategoryQuery, BookKey

--------------------------------------------------------------------------------
(* Every action keeps the types. *)
LEMMA TypeStep == TypeOK /\ [Next]_vars => TypeOK'
  <1> SUFFICES ASSUME TypeOK, [Next]_vars PROVE TypeOK'
    OBVIOUS
  <1> USE CatalogAssumption DEF TypeOK, Running, Answers, GoTo, Proceed, Answer, Bodies, Changes,
         tableVars, requestVars
  <1>1. ASSUME NEW r \in Requests, Arrive(r) PROVE TypeOK'
    BY <1>1 DEF Arrive, Reads, Creates, Edits, Puts, Deletes
  <1>2. ASSUME NEW r \in Requests, Get(r) PROVE TypeOK'
    BY <1>2, BodyTyped, QueryTyped DEF Get, GoOn
  <1>3. ASSUME NEW r \in Requests, Query(r) PROVE TypeOK'
    BY <1>3, BodyTyped, QueryTyped, ViewTyped, BookQuery DEF Query
  <1>4. ASSUME NEW r \in Requests, Store(r) PROVE TypeOK'
    BY <1>4, BodyTyped, QueryTyped DEF Store, GoOn
  <1>5. ASSUME NEW r \in Requests, CheckTitle(r) PROVE TypeOK'
    BY <1>5, BodyTyped DEF CheckTitle, Rows
  <1>6. ASSUME NEW r \in Requests, Insert(r) PROVE TypeOK'
    BY <1>6, BodyTyped, KeysTyped DEF Insert, Commit
  <1>7. ASSUME NEW r \in Requests, Load(r) PROVE TypeOK'
    BY <1>7, BodyTyped DEF Load
  <1>8. ASSUME NEW r \in Requests, Save(r) PROVE TypeOK'
    BY <1>8, BodyTyped, KeysTyped, MergedTyped DEF Save, Commit, LeftBehind, Rows
  <1>9. ASSUME NEW r \in Requests, Find(r) PROVE TypeOK'
    BY <1>9, BodyTyped DEF Find
  <1>10. ASSUME NEW r \in Requests, Remove(r) PROVE TypeOK'
    BY <1>10, BodyTyped, KeysTyped DEF Remove, Commit, LeftBehind, Rows
  <1>11. ASSUME NEW r \in Requests, PurgeBook(r) PROVE TypeOK'
    BY <1>11, BodyTyped, KeysTyped DEF PurgeBook, Evict
  <1>12. ASSUME NEW r \in Requests, PurgeAll(r) PROVE TypeOK'
    BY <1>12, BodyTyped, KeysTyped DEF PurgeAll, Evict
  <1>13. ASSUME NEW r \in Requests, PurgeCategory(r) PROVE TypeOK'
    BY <1>13, BodyTyped, KeysTyped DEF PurgeCategory, Evict
  <1>14. ASSUME NEW k \in Keys, Expire(k) PROVE TypeOK'
    BY <1>14 DEF Expire, Evict
  <1>15. CASE UNCHANGED vars
    BY <1>15 DEF vars
  <1> QED
    BY <1>1, <1>2, <1>3, <1>4, <1>5, <1>6, <1>7, <1>8, <1>9, <1>10, <1>11, <1>12,
       <1>13, <1>14, <1>15 DEF Next

--------------------------------------------------------------------------------
(* A write shows in the answers of four keys only: the book, the list of all and
   the categories before and after. *)
LEMMA WriteShows ==
    ASSUME TypeOK, NEW b \in Books, NEW x \in Rows \cup {None},
           row' = [row EXCEPT ![b] = x],
           NEW q \in Queries, Key(q) # BookKey(b), Key(q) # AllKey,
           row[b] # None => Key(q) # CategoryKey(row[b].category),
           x # None => Key(q) # CategoryKey(x.category)
    PROVE  View(q)' = View(q)
  <1>1. ASSUME NEW y \in Rows, Key(q) # CategoryKey(y.category), q.kind = "category"
        PROVE  ~ Matches(q, y)
    BY <1>1 DEF Matches, Key, CategoryKey, CategoryQuery
  <1>2. q.kind = "book" => q.of # b
    BY KeysTyped, BookQuery DEF Key
  <1>3. q.kind # "all"
    BY DEF Queries, Key, AllKey, CategoryQuery, BookKey
  <1>4. q.kind \in {"book", "category"}
    BY <1>3 DEF Queries, AllKey, CategoryQuery, BookKey
  <1>5. ASSUME NEW c \in Books
        PROVE  View(q)'[c] = View(q)[c]
    <2>1. CASE c # b
      BY <2>1 DEF TypeOK, View
    <2>2. CASE c = b
      BY <1>1, <1>2, <1>4, <2>2 DEF TypeOK, View
    <2> QED
      BY <2>1, <2>2
  <1> QED
    BY <1>5 DEF View

(* So a fresh entry under another key stays fresh. *)
LEMMA FreshKept ==
    ASSUME TypeOK, NEW b \in Books, NEW x \in Rows \cup {None},
           row' = [row EXCEPT ![b] = x],
           NEW k, NEW entry, Fresh(k, entry), k # BookKey(b), k # AllKey,
           row[b] # None => k # CategoryKey(row[b].category),
           x # None => k # CategoryKey(x.category)
    PROVE  Fresh(k, entry)'
  BY WriteShows DEF Fresh

(* Nothing to purge but in the purge steps, and a handler that does not move keeps
   its keys. *)
LEMMA PurgeKept ==
    ASSUME NEW s \in Requests
    PROVE  /\ step[s] \notin {"purgeBook", "purgeAll", "purgeCategory"} => ToPurge(s) = {}
           /\ step'[s] = step[s] /\ ask'[s] = ask[s] /\ tracked'[s] = tracked[s]
              => ToPurge(s)' = ToPurge(s)
  BY DEF ToPurge, PurgedCategory, Kind, Id, Form

(* While the cache and the table stay, so does every entry's excuse. *)
LEMMA EntriesKept ==
    ASSUME TypeOK, EntriesAreFresh, NEW r \in Requests,
           step[r] \notin {"purgeBook", "purgeAll", "purgeCategory"},
           UNCHANGED <<row, cache, suspect>>,
           \A s \in Requests \ {r} :
              step'[s] = step[s] /\ ask'[s] = ask[s] /\ tracked'[s] = tracked[s]
    PROVE  EntriesAreFresh'
  <1> SUFFICES ASSUME NEW k \in Keys \ suspect, cache[k] # Absent
               PROVE  (\E s \in Requests : k \in ToPurge(s)') \/ Fresh(k, cache[k])'
    BY DEF EntriesAreFresh
  <1>1. CASE \E s \in Requests : k \in ToPurge(s)
    BY <1>1, PurgeKept
  <1>2. CASE Fresh(k, cache[k])
    BY <1>2 DEF Fresh, View
  <1> QED
    BY <1>1, <1>2 DEF EntriesAreFresh

(* A write that goes on to purge the keys it shows, but those it leaves suspect. *)
LEMMA EntriesAfterWrite ==
    ASSUME TypeOK, EntriesAreFresh, NEW r \in Requests, NEW b \in Books,
           NEW x \in Rows \cup {None}, NEW left \in SUBSET Keys,
           Commit(r, b, x, left), UNCHANGED cache,
           step[r] \notin {"purgeBook", "purgeAll", "purgeCategory"},
           \A s \in Requests \ {r} :
              step'[s] = step[s] /\ ask'[s] = ask[s] /\ tracked'[s] = tracked[s],
           BookKey(b) \in left \cup ToPurge(r)', AllKey \in ToPurge(r)',
           row[b] # None => CategoryKey(row[b].category) \in left \cup ToPurge(r)',
           x # None => CategoryKey(x.category) \in left \cup ToPurge(r)'
    PROVE  EntriesAreFresh'
  <1>1. row' = [row EXCEPT ![b] = x] /\ suspect' = suspect \cup left
    BY DEF Commit
  <1> SUFFICES ASSUME NEW k \in Keys \ suspect', cache[k] # Absent
               PROVE  (\E s \in Requests : k \in ToPurge(s)') \/ Fresh(k, cache[k])'
    BY DEF EntriesAreFresh
  <1>2. k \in Keys \ suspect /\ k \notin left
    BY <1>1
  <1>3. CASE \E s \in Requests : k \in ToPurge(s)
    BY <1>3, PurgeKept
  <1>4. CASE Fresh(k, cache[k]) /\ k \notin ToPurge(r)'
    <2>1. k # BookKey(b) /\ k # AllKey
      BY <1>2, <1>4
    <2>2. row[b] # None => k # CategoryKey(row[b].category)
      BY <1>2, <1>4
    <2>3. x # None => k # CategoryKey(x.category)
      BY <1>2, <1>4
    <2>4. Fresh(k, cache[k])'
      <3> DEFINE entry == cache[k]
      <3>1. Fresh(k, entry)
        BY <1>4
      <3> HIDE DEF entry
      <3>2. Fresh(k, entry)' /\ entry' = entry
        BY <1>1, <2>1, <2>2, <2>3, <3>1, FreshKept DEF entry
      <3> QED
        BY <3>2 DEF entry
    <2> QED
      BY <2>4
  <1> QED
    BY <1>2, <1>3, <1>4 DEF EntriesAreFresh

--------------------------------------------------------------------------------
(* The invariant holds at the start. *)
LEMMA InitInv == Init => CatalogInv
  <1> SUFFICES ASSUME Init PROVE CatalogInv
    OBVIOUS
  <1> USE CatalogAssumption DEF Init
  <1>1. TypeOK
    BY DEF TypeOK, Running
  <1>2. EntriesAreFresh
    BY DEF EntriesAreFresh
  <1>3. TitlesAreUnique
    BY DEF TitlesAreUnique
  <1>4. Identity
    BY DEF Identity
  <1>5. HeldIsFresh /\ TrackedIsFresh /\ TitleIsFree /\ WritersApart
    BY DEF HeldIsFresh, TrackedIsFresh, Knows, TitleIsFree, WritersApart
  <1> QED
    BY <1>1, <1>2, <1>3, <1>4, <1>5 DEF CatalogInv, HandlersKnow

--------------------------------------------------------------------------------
(* Entries of the cache *)

(* Removing the key a handler is at leaves it the other keys. *)
LEMMA EntriesAfterPurge ==
    ASSUME TypeOK, EntriesAreFresh, NEW r \in Requests, NEW k0 \in Keys,
           Evict(k0), UNCHANGED row,
           ToPurge(r) \subseteq {k0} \cup ToPurge(r)',
           \A s \in Requests \ {r} :
              step'[s] = step[s] /\ ask'[s] = ask[s] /\ tracked'[s] = tracked[s]
    PROVE  EntriesAreFresh'
  <1> SUFFICES ASSUME NEW k \in Keys \ suspect', cache'[k] # Absent
               PROVE  (\E s \in Requests : k \in ToPurge(s)') \/ Fresh(k, cache[k])'
    BY DEF EntriesAreFresh
  <1>1. k # k0 /\ k \notin suspect /\ cache'[k] = cache[k]
    BY DEF Evict, TypeOK
  <1>2. CASE \E s \in Requests : k \in ToPurge(s)
    BY <1>1, <1>2, PurgeKept
  <1>3. CASE Fresh(k, cache[k])
    BY <1>1, <1>3 DEF Fresh, View
  <1> QED
    BY <1>1, <1>2, <1>3 DEF EntriesAreFresh

(* What a reader stores is fresh, or the history calls the key suspect. *)
LEMMA EntriesAfterStore ==
    ASSUME TypeOK, EntriesAreFresh, HeldIsFresh, NEW r \in Requests, Store(r)
    PROVE  EntriesAreFresh'
  <1> DEFINE k0 == Key(QueryOf(r))
  <1>1. QueryOf(r) \in Queries /\ k0 \in Keys
    BY QueryTyped DEF Store, TypeOK
  <1>2. /\ cache' = [cache EXCEPT ![k0] = held[r]]
        /\ suspect' = IF r \in late THEN suspect \cup {k0} ELSE suspect \ {k0}
        /\ row' = row
    BY DEF Store, tableVars
  <1>3. ToPurge(r) = {}
    BY PurgeKept DEF Store
  <1>4. \A s \in Requests \ {r} :
           step'[s] = step[s] /\ ask'[s] = ask[s] /\ tracked'[s] = tracked[s]
    BY DEF Store, GoOn, Answer, GoTo, TypeOK
  <1> SUFFICES ASSUME NEW k \in Keys \ suspect', cache'[k] # Absent
               PROVE  (\E s \in Requests : k \in ToPurge(s)') \/ Fresh(k, cache[k])'
    BY DEF EntriesAreFresh
  <1>5. CASE k = k0
    <2>1. held[r] = View(QueryOf(r)) /\ cache'[k] = held[r]
      BY <1>1, <1>2, <1>5 DEF Store, HeldIsFresh, TypeOK
    <2>2. View(QueryOf(r)) = [b \in Books |->
             IF row'[b] # None /\ (QueryOf(r).kind = "book" => b = QueryOf(r).of)
                 /\ Matches(QueryOf(r), row'[b])
             THEN row'[b] ELSE None]
      BY <1>2 DEF View
    <2>3. PICK q \in Queries : q = QueryOf(r)
      BY <1>1
    <2>4. Key(q) = k /\ cache'[k] = View(q)'
      BY <1>5, <2>1, <2>2, <2>3 DEF View
    <2> QED
      BY <2>4 DEF Fresh
  <1>6. CASE k # k0
    <2> HIDE DEF k0
    <2>1. k \notin suspect /\ cache'[k] = cache[k]
      BY <1>2, <1>6 DEF TypeOK
    <2>2. CASE \E s \in Requests : k \in ToPurge(s)
      BY <1>3, <1>4, <2>2, PurgeKept
    <2>3. CASE Fresh(k, cache[k])
      BY <1>2, <2>1, <2>3 DEF Fresh, View
    <2> QED
      BY <2>1, <2>2, <2>3 DEF EntriesAreFresh
  <1> QED
    BY <1>5, <1>6

(* Every step keeps the excuse of every entry. *)
LEMMA EntriesStep == CatalogInv /\ [Next]_vars => EntriesAreFresh'
  <1> SUFFICES ASSUME CatalogInv, [Next]_vars PROVE EntriesAreFresh'
    OBVIOUS
  <1> USE CatalogAssumption
  <1> USE DEF CatalogInv, HandlersKnow
  <1>0. ASSUME NEW r \in Requests,
               Arrive(r) \/ Get(r) \/ Query(r) \/ CheckTitle(r) \/ Load(r) \/ Find(r)
        PROVE  EntriesAreFresh'
    <2>1. step[r] \notin {"purgeBook", "purgeAll", "purgeCategory"}
      BY <1>0 DEF Arrive, Get, Query, CheckTitle, Load, Find
    <2>2. UNCHANGED <<row, cache, suspect>>
      BY <1>0 DEF Arrive, Get, Query, CheckTitle, Load, Find, tableVars
    <2>3. \A s \in Requests \ {r} :
             step'[s] = step[s] /\ ask'[s] = ask[s] /\ tracked'[s] = tracked[s]
      BY <1>0 DEF Arrive, Get, Query, CheckTitle, Load, Find, GoOn, Answer, Proceed, GoTo, TypeOK
    <2> QED
      BY <2>1, <2>2, <2>3, EntriesKept
  <1>1. ASSUME NEW r \in Requests, Store(r) PROVE EntriesAreFresh'
    BY <1>1, EntriesAfterStore
  <1>2. ASSUME NEW r \in Requests, Insert(r) PROVE EntriesAreFresh'
    <2>1. PICK b \in Books \ used : Commit(r, b, Form(r), {BookKey(b)})
      BY <1>2 DEF Insert
    <2>2. Form(r) \in Rows /\ Kind(r) = "create" /\ row[b] = None
      BY <1>2, BodyTyped DEF Insert, TypeOK, Identity
    <2>3. step'[r] = "purgeAll" /\ ask' = ask /\ tracked' = tracked /\ cache' = cache
      BY <1>2 DEF Insert, GoTo, TypeOK
    <2>4. ToPurge(r)' = {AllKey, CategoryKey(Form(r).category)}
      BY <2>2, <2>3 DEF ToPurge, PurgedCategory, Kind, Form
    <2>5. \A s \in Requests \ {r} :
             step'[s] = step[s] /\ ask'[s] = ask[s] /\ tracked'[s] = tracked[s]
      BY <1>2 DEF Insert, GoTo, TypeOK
    <2>6. step[r] = "insert" /\ {BookKey(b)} \in SUBSET Keys
      BY <1>2, KeysTyped DEF Insert
    <2> QED
      BY <2>1, <2>2, <2>3, <2>4, <2>5, <2>6, EntriesAfterWrite
  <1>3. ASSUME NEW r \in Requests, Save(r) PROVE EntriesAreFresh'
    <2>1. step[r] = "save" /\ cache' = cache /\ ask[r] \in Changes /\ tracked[r] \in Rows
      BY <1>3 DEF Save, TypeOK
    <2>2. Id(r) \in Books /\ Form(r) \in Rows /\ Kind(r) # "delete"
      BY <2>1, BodyTyped DEF Changes
    <2>3. \A s \in Requests \ {r} :
             step'[s] = step[s] /\ ask'[s] = ask[s] /\ tracked'[s] = tracked[s]
      BY <1>3 DEF Save, Answer, Proceed, GoTo, TypeOK
    <2>4. CASE UNCHANGED <<row, suspect>>
      BY <2>1, <2>3, <2>4, EntriesKept
    <2>5. CASE /\ row[Id(r)] # None
               /\ Commit(r, Id(r), Merged(tracked[r], Form(r), row[Id(r)]),
                         LeftBehind(row[Id(r)], Form(r).category))
               /\ GoTo(r, "purgeBook")
               /\ UNCHANGED <<ask, held, tracked>>
      <3> DEFINE x == Merged(tracked[r], Form(r), row[Id(r)])
                 left == LeftBehind(row[Id(r)], Form(r).category)
      <3>1. row[Id(r)] \in Rows /\ x \in Rows
        BY <2>1, <2>2, <2>5, MergedTyped DEF TypeOK
      <3>2. left \in SUBSET Keys
        BY <3>1, KeysTyped DEF LeftBehind, Rows
      <3>3. step'[r] = "purgeBook" /\ ask' = ask
        BY <2>5 DEF GoTo, TypeOK
      <3>4. ToPurge(r)' = {BookKey(Id(r)), AllKey, CategoryKey(Form(r).category)}
        BY <2>2, <3>3 DEF ToPurge, PurgedCategory, Kind, Form, Id
      <3>5. x.category \in {Form(r).category, row[Id(r)].category}
        BY DEF Merged, Column
      <3>6. CategoryKey(row[Id(r)].category) \in left \cup ToPurge(r)'
        BY <3>4 DEF LeftBehind
      <3>7. CategoryKey(x.category) \in left \cup ToPurge(r)'
        BY <3>4, <3>5, <3>6
      <3>8. Commit(r, Id(r), x, left)
        BY <2>5
      <3>9. /\ BookKey(Id(r)) \in left \cup ToPurge(r)'
            /\ AllKey \in ToPurge(r)'
        BY <3>4
      <3> HIDE DEF x, left
      <3> QED
        BY <2>1, <2>2, <2>3, <3>1, <3>2, <3>6, <3>7, <3>8, <3>9, EntriesAfterWrite
    <2> QED
      BY <1>3, <2>4, <2>5 DEF Save
  <1>4. ASSUME NEW r \in Requests, Remove(r) PROVE EntriesAreFresh'
    <2>1. step[r] = "remove" /\ cache' = cache /\ ask[r] \in Deletes /\ tracked[r] \in Rows
      BY <1>4 DEF Remove, TypeOK
    <2>2. Id(r) \in Books /\ Kind(r) = "delete"
      BY <2>1, BodyTyped
    <2>3. \A s \in Requests \ {r} :
             step'[s] = step[s] /\ ask'[s] = ask[s] /\ tracked'[s] = tracked[s]
      BY <1>4 DEF Remove, Answer, GoTo, TypeOK
    <2>4. CASE UNCHANGED <<row, suspect>>
      BY <2>1, <2>3, <2>4, EntriesKept
    <2>5. CASE /\ row[Id(r)] # None
               /\ Commit(r, Id(r), None, LeftBehind(row[Id(r)], tracked[r].category))
               /\ GoTo(r, "purgeBook")
               /\ UNCHANGED <<ask, held, tracked>>
      <3> DEFINE left == LeftBehind(row[Id(r)], tracked[r].category)
      <3>1. row[Id(r)] \in Rows
        BY <2>2, <2>5 DEF TypeOK
      <3>2. left \in SUBSET Keys
        BY <3>1, KeysTyped DEF LeftBehind, Rows
      <3>3. step'[r] = "purgeBook" /\ ask' = ask /\ tracked' = tracked
        BY <2>5 DEF GoTo, TypeOK
      <3>4. ToPurge(r)' = {BookKey(Id(r)), AllKey, CategoryKey(tracked[r].category)}
        BY <2>2, <3>3 DEF ToPurge, PurgedCategory, Kind, Id
      <3>5. CategoryKey(row[Id(r)].category) \in left \cup ToPurge(r)'
        BY <3>4 DEF LeftBehind
      <3>6. Commit(r, Id(r), None, left)
        BY <2>5
      <3>7. /\ BookKey(Id(r)) \in left \cup ToPurge(r)'
            /\ AllKey \in ToPurge(r)'
        BY <3>4
      <3> HIDE DEF left
      <3> QED
        BY <2>1, <2>2, <2>3, <3>2, <3>5, <3>6, <3>7, EntriesAfterWrite
    <2> QED
      BY <1>4, <2>4, <2>5 DEF Remove
  <1>5. ASSUME NEW r \in Requests, PurgeBook(r) \/ PurgeAll(r) \/ PurgeCategory(r)
        PROVE  EntriesAreFresh'
    <2>1. \A s \in Requests \ {r} :
             step'[s] = step[s] /\ ask'[s] = ask[s] /\ tracked'[s] = tracked[s]
      BY <1>5 DEF PurgeBook, PurgeAll, PurgeCategory, Proceed, Answer, GoTo, TypeOK
    <2>2. row' = row
      BY <1>5 DEF PurgeBook, PurgeAll, PurgeCategory, tableVars
    <2>3. CASE PurgeBook(r)
      <3>1. BookKey(Id(r)) \in Keys
        BY <2>3, BodyTyped, KeysTyped DEF PurgeBook, TypeOK, Changes
      <3>2. ToPurge(r) \subseteq {BookKey(Id(r))} \cup ToPurge(r)'
        BY <2>3 DEF PurgeBook, Proceed, GoTo, TypeOK, ToPurge, PurgedCategory, Kind, Id, Form
      <3> QED
        BY <2>1, <2>2, <2>3, <3>1, <3>2, EntriesAfterPurge DEF PurgeBook
    <2>4. CASE PurgeAll(r)
      <3>1. ToPurge(r) \subseteq {AllKey} \cup ToPurge(r)'
        BY <2>4 DEF PurgeAll, Proceed, GoTo, TypeOK, ToPurge, PurgedCategory, Kind, Id, Form
      <3> QED
        BY <2>1, <2>2, <2>4, <3>1, KeysTyped, EntriesAfterPurge DEF PurgeAll
    <2>5. CASE PurgeCategory(r)
      <3>1. PurgedCategory(r) \in Categories
        BY <2>5, BodyTyped DEF PurgeCategory, PurgedCategory, TypeOK, Bodies, Changes, Rows
      <3>2. ToPurge(r) \subseteq {CategoryKey(PurgedCategory(r))} \cup ToPurge(r)'
        BY <2>5 DEF PurgeCategory, ToPurge
      <3> QED
        BY <2>1, <2>2, <2>5, <3>1, <3>2, KeysTyped, EntriesAfterPurge DEF PurgeCategory
    <2> QED
      BY <1>5, <2>3, <2>4, <2>5
  <1>6. ASSUME NEW k0 \in Keys, Expire(k0) PROVE EntriesAreFresh'
    <2> SUFFICES ASSUME NEW k \in Keys \ suspect', cache'[k] # Absent
                 PROVE  (\E s \in Requests : k \in ToPurge(s)') \/ Fresh(k, cache[k])'
      BY DEF EntriesAreFresh
    <2>1. k # k0 /\ k \notin suspect /\ cache'[k] = cache[k]
      BY <1>6 DEF Expire, Evict, TypeOK
    <2>2. row' = row /\ step' = step /\ ask' = ask /\ tracked' = tracked
      BY <1>6 DEF Expire, tableVars, requestVars
    <2>3. CASE \E s \in Requests : k \in ToPurge(s)
      BY <2>2, <2>3, PurgeKept
    <2>4. CASE Fresh(k, cache[k])
      BY <2>1, <2>2, <2>4 DEF Fresh, View
    <2> QED
      BY <2>1, <2>3, <2>4 DEF EntriesAreFresh
  <1>7. CASE UNCHANGED vars
    <2> SUFFICES ASSUME NEW k \in Keys \ suspect, cache[k] # Absent
                 PROVE  (\E s \in Requests : k \in ToPurge(s)') \/ Fresh(k, cache[k])'
      BY <1>7 DEF EntriesAreFresh, vars
    <2>1. UNCHANGED <<row, cache, step, ask, tracked>>
      BY <1>7 DEF vars, tableVars, requestVars
    <2>2. CASE \E s \in Requests : k \in ToPurge(s)
      BY <2>1, <2>2, PurgeKept
    <2>3. CASE Fresh(k, cache[k])
      BY <2>1, <2>3 DEF Fresh, View
    <2> QED
      BY <2>2, <2>3 DEF EntriesAreFresh
  <1> QED
    BY <1>0, <1>1, <1>2, <1>3, <1>4, <1>5, <1>6, <1>7 DEF Next

--------------------------------------------------------------------------------
(* What handlers hold *)

(* A step of r that makes no reader, and a table that only changes behind readers
   that are then late. *)
LEMMA HeldKept ==
    ASSUME HeldIsFresh, NEW r \in Requests, step'[r] # "store", late \ {r} \subseteq late',
           \A s \in Requests \ {r} :
              step'[s] = step[s] /\ ask'[s] = ask[s] /\ held'[s] = held[s],
           row' = row \/ {s \in Requests : step[s] = "store"} \subseteq late'
    PROVE  HeldIsFresh'
  <1> SUFFICES ASSUME NEW s \in Requests, step'[s] = "store", s \notin late'
               PROVE  held'[s] = View(QueryOf(s))'
    BY DEF HeldIsFresh
  <1>1. s # r /\ step[s] = "store" /\ s \notin late /\ row' = row
    OBVIOUS
  <1>2. held[s] = View(QueryOf(s))
    BY <1>1 DEF HeldIsFresh
  <1>3. QueryOf(s)' = QueryOf(s)
    BY <1>1 DEF QueryOf, Kind, Id
  <1> QED
    BY <1>1, <1>2, <1>3 DEF View

(* Results on their way into the cache stay fresh or become late. *)
LEMMA HeldStep == CatalogInv /\ [Next]_vars => HeldIsFresh'
  <1> SUFFICES ASSUME CatalogInv, [Next]_vars PROVE HeldIsFresh'
    OBVIOUS
  <1> USE DEF CatalogInv, HandlersKnow
  <1>1. ASSUME NEW r \in Requests, Query(r) PROVE HeldIsFresh'
    <2> SUFFICES ASSUME NEW s \in Requests, step'[s] = "store", s \notin late'
                 PROVE  held'[s] = View(QueryOf(s))'
      BY DEF HeldIsFresh
    <2>1. ask' = ask /\ row' = row /\ late' = late
      BY <1>1 DEF Query, tableVars
    <2>2. held[s] = View(QueryOf(s)) \/ s = r
      BY <1>1, <2>1 DEF Query, GoTo, TypeOK, HeldIsFresh
    <2>3. held'[s] = View(QueryOf(s))
      BY <1>1, <2>2 DEF Query, TypeOK
    <2>4. QueryOf(s)' = QueryOf(s)
      BY <2>1 DEF QueryOf, Kind, Id
    <2> QED
      BY <2>1, <2>3, <2>4 DEF View
  <1>2. ASSUME NEW r \in Requests,
               \/ Arrive(r) \/ Get(r) \/ Store(r) \/ CheckTitle(r) \/ Load(r) \/ Find(r)
               \/ PurgeBook(r) \/ PurgeAll(r) \/ PurgeCategory(r)
        PROVE  HeldIsFresh'
    <2>1. row' = row
      BY <1>2 DEF Arrive, Get, Store, CheckTitle, Load, Find, PurgeBook, PurgeAll,
         PurgeCategory, tableVars
    <2>2. late \ {r} \subseteq late' /\ step'[r] # "store"
      BY <1>2 DEF Arrive, Get, Store, GoOn, CheckTitle, Load, Find, PurgeBook, PurgeAll,
         PurgeCategory, Answer, Proceed, GoTo, TypeOK
    <2>3. \A s \in Requests \ {r} :
             step'[s] = step[s] /\ ask'[s] = ask[s] /\ held'[s] = held[s]
      BY <1>2 DEF Arrive, Get, Store, GoOn, CheckTitle, Load, Find, PurgeBook, PurgeAll,
         PurgeCategory, Answer, Proceed, GoTo, TypeOK
    <2> QED
      BY <2>1, <2>2, <2>3, HeldKept
  <1>3. ASSUME NEW r \in Requests, Insert(r) \/ Save(r) \/ Remove(r)
        PROVE  HeldIsFresh'
    <2>1. row' = row \/ {s \in Requests : step[s] = "store"} \subseteq late'
      BY <1>3 DEF Insert, Save, Remove, Commit
    <2>2. late \ {r} \subseteq late' /\ step'[r] # "store"
      BY <1>3 DEF Insert, Save, Remove, Commit, Answer, Proceed, GoTo, TypeOK
    <2>3. \A s \in Requests \ {r} :
             step'[s] = step[s] /\ ask'[s] = ask[s] /\ held'[s] = held[s]
      BY <1>3 DEF Insert, Save, Remove, Answer, Proceed, GoTo, TypeOK
    <2> QED
      BY <2>1, <2>2, <2>3, HeldKept
  <1>4. ASSUME UNCHANGED <<tableVars, requestVars>> PROVE HeldIsFresh'
    <2>1. UNCHANGED <<row, step, ask, held, late>>
      BY <1>4 DEF tableVars, requestVars
    <2> SUFFICES ASSUME NEW s \in Requests, step'[s] = "store", s \notin late'
                 PROVE  held'[s] = View(QueryOf(s))'
      BY DEF HeldIsFresh
    <2>2. held[s] = View(QueryOf(s)) /\ QueryOf(s)' = QueryOf(s)
      BY <2>1 DEF HeldIsFresh, QueryOf, Kind, Id
    <2> QED
      BY <2>1, <2>2 DEF View
  <1> QED
    BY <1>1, <1>2, <1>3, <1>4 DEF Next, Expire, vars

(* A write of book b crosses everybody else who tracks it. *)
LEMMA TrackedKept ==
    ASSUME TypeOK, TrackedIsFresh, NEW r \in Requests, crossed \ {r} \subseteq crossed',
           \A s \in Requests \ {r} :
              step'[s] = step[s] /\ ask'[s] = ask[s] /\ tracked'[s] = tracked[s],
           \/ row' = row
           \/ \E b \in Books :
                /\ \A c \in Books \ {b} : row'[c] = row[c]
                /\ {s \in Requests \ {r} : tracked[s] # None /\ QueryOf(s) = BookKey(b)}
                      \subseteq crossed',
           NEW s \in Requests \ {r}
    PROVE  Knows(s)'
  <1>1. step'[s] \in {"idle", "get", "query"} \/ ask'[s] \in Creates => tracked'[s] = None
    BY DEF TrackedIsFresh, Knows
  <1> SUFFICES ASSUME step[s] \in {"store", "title", "load", "save", "find", "remove"},
                      tracked[s] # None, s \notin crossed'
               PROVE  QueryOf(s)'.kind = "book" /\ tracked'[s] = row'[QueryOf(s)'.of]
    BY <1>1 DEF Knows
  <1>2. QueryOf(s)' = QueryOf(s)
    BY DEF QueryOf, Kind, Id
  <1>3. QueryOf(s).kind = "book" /\ tracked[s] = row[QueryOf(s).of]
    BY DEF TrackedIsFresh, Knows
  <1>4. QueryOf(s).of \in Books /\ QueryOf(s) = BookKey(QueryOf(s).of)
    <2>0. ask[s] \in Reads \cup Changes \cup Deletes
      BY DEF TypeOK, Running, Bodies, TrackedIsFresh, Knows
    <2>1. CASE ask[s] \in Reads
      BY <2>1, <1>3, BodyTyped, BookQuery DEF QueryOf
    <2>2. CASE ask[s] \in Changes \cup Deletes
      <3>1. QueryOf(s) = BookKey(Id(s)) /\ Id(s) \in Books
        BY <2>2, BodyTyped DEF QueryOf, Changes
      <3> QED
        BY <3>1 DEF BookKey
    <2> QED
      BY <2>0, <2>1, <2>2
  <1>5. row'[QueryOf(s).of] = row[QueryOf(s).of]
    BY <1>4
  <1> QED
    BY <1>2, <1>3, <1>5

(* Contexts stay up to date or become crossed. *)
LEMMA TrackedStep == CatalogInv /\ [Next]_vars => TrackedIsFresh'
  <1> SUFFICES ASSUME CatalogInv, [Next]_vars PROVE TrackedIsFresh'
    OBVIOUS
  <1> USE CatalogAssumption
  <1> USE DEF CatalogInv, HandlersKnow
  <1>0. /\ \A s \in Requests : Knows(s)
        /\ (\A s \in Requests : Knows(s)') => TrackedIsFresh'
    BY DEF TrackedIsFresh
  <1>1. ASSUME NEW r \in Requests,
               \/ Arrive(r) \/ Get(r) \/ Query(r) \/ Store(r) \/ CheckTitle(r)
               \/ Load(r) \/ Find(r) \/ PurgeBook(r) \/ PurgeAll(r) \/ PurgeCategory(r)
        PROVE  TrackedIsFresh'
    <2>1. row' = row
      BY <1>1 DEF Arrive, Get, Query, Store, CheckTitle, Load, Find, PurgeBook, PurgeAll,
         PurgeCategory, tableVars
    <2>2. crossed \ {r} \subseteq crossed'
      BY <1>1 DEF Arrive, Get, Query, Store, GoOn, CheckTitle, Load, Find, PurgeBook,
         PurgeAll, PurgeCategory, Answer, Proceed
    <2>3. \A s \in Requests \ {r} :
             step'[s] = step[s] /\ ask'[s] = ask[s] /\ tracked'[s] = tracked[s]
      BY <1>1 DEF Arrive, Get, Query, Store, GoOn, CheckTitle, Load, Find, PurgeBook,
         PurgeAll, PurgeCategory, Answer, Proceed, GoTo, TypeOK
    <2>4. \A s \in Requests \ {r} : Knows(s)'
      BY <2>1, <2>2, <2>3, TrackedKept
    <2>5. ASSUME \/ /\ step'[r] \in Answers /\ ask'[r] = None /\ tracked'[r] = None
                 \/ /\ step'[r] \in {"purgeAll", "purgeCategory"}
                    /\ ask' = ask /\ tracked' = tracked
          PROVE  Knows(r)'
      BY <1>0, <2>5 DEF Answers, Creates, Knows
    <2>6. ASSUME ask' = ask, tracked' = tracked, crossed' = crossed,
                 step[r] \in {"get", "store", "title", "load", "find"},
                 step'[r] \in {"query", "title", "load", "save", "insert", "find", "remove"},
                 step'[r] = "query" => step[r] = "get"
          PROVE  Knows(r)'
      <3>1. QueryOf(r)' = QueryOf(r)
        BY <2>6 DEF QueryOf, Kind, Id
      <3> QED
        BY <1>0, <2>1, <2>6, <3>1 DEF Knows
    <2>7. ASSUME step[r] \in {"load", "find"}, step'[r] \in {"save", "remove"}, ask' = ask,
                 tracked'[r] = row[Id(r)]
          PROVE  Knows(r)'
      <3>1. ask[r] \in Changes \cup Deletes
        BY <2>7 DEF TypeOK
      <3>2. QueryOf(r) = BookKey(Id(r)) /\ ask'[r] \notin Creates
        BY <2>7, <3>1, BodyTyped DEF QueryOf, Changes, Creates, Kind
      <3>3. QueryOf(r)' = QueryOf(r)
        BY <2>7 DEF QueryOf, Kind, Id
      <3> QED
        BY <2>1, <2>7, <3>2, <3>3 DEF BookKey, Knows
    <2>8. ASSUME Arrive(r) PROVE Knows(r)'
      <3>1. CASE step'[r] \in Answers /\ ask'[r] = None /\ tracked'[r] = None
        BY <2>5, <3>1
      <3>2. CASE step'[r] \in {"title", "get"} /\ tracked' = tracked
        <4>1. tracked'[r] = None
          BY <1>0, <2>8, <3>2 DEF Knows, Arrive
        <4> QED
          BY <4>1 DEF Knows
      <3> QED
        BY <2>8, <3>1, <3>2 DEF Arrive, Answer, GoTo, TypeOK, Answers
    <2>9. ASSUME Query(r) PROVE Knows(r)'
      <3>1. step'[r] = "store" /\ ask' = ask
        BY <2>9 DEF Query, GoTo, TypeOK
      <3>2. tracked'[r] = IF QueryOf(r).kind = "book" THEN row[QueryOf(r).of] ELSE None
        BY <2>9 DEF Query, TypeOK
      <3>3. ask[r] \notin Creates
        BY <2>9 DEF Query, TypeOK, Reads, Puts, Deletes, Creates
      <3>4. QueryOf(r)' = QueryOf(r)
        BY <3>1 DEF QueryOf, Kind, Id
      <3> QED
        BY <2>1, <3>1, <3>2, <3>3, <3>4 DEF Knows
    <2>10. ASSUME Get(r) PROVE Knows(r)'
      BY <2>5, <2>6, <2>10 DEF Get, GoOn, Answer, Proceed, GoTo, TypeOK, Answers
    <2>11. ASSUME Store(r) PROVE Knows(r)'
      BY <2>5, <2>6, <2>11 DEF Store, GoOn, Answer, GoTo, TypeOK, Answers
    <2>12. ASSUME CheckTitle(r) PROVE Knows(r)'
      BY <2>5, <2>6, <2>12 DEF CheckTitle, Answer, Proceed, GoTo, TypeOK, Answers
    <2>13. ASSUME Load(r) PROVE Knows(r)'
      BY <2>5, <2>6, <2>7, <2>13 DEF Load, Answer, Proceed, GoTo, TypeOK, Answers
    <2>14. ASSUME Find(r) PROVE Knows(r)'
      BY <2>5, <2>6, <2>7, <2>14 DEF Find, Answer, Proceed, GoTo, TypeOK, Answers
    <2>15. ASSUME PurgeBook(r) \/ PurgeAll(r) PROVE Knows(r)'
      BY <2>5, <2>15 DEF PurgeBook, PurgeAll, Proceed, GoTo, TypeOK
    <2>16. ASSUME PurgeCategory(r) PROVE Knows(r)'
      BY <2>5, <2>16 DEF PurgeCategory, Answer, GoTo, TypeOK, Answers
    <2>17. Knows(r)'
      BY <1>1, <2>8, <2>9, <2>10, <2>11, <2>12, <2>13, <2>14, <2>15, <2>16
    <2> QED
      BY <1>0, <2>4, <2>17
  <1>2. ASSUME NEW r \in Requests, Insert(r) \/ Save(r) \/ Remove(r)
        PROVE  TrackedIsFresh'
    <2>1. \/ row' = row
          \/ \E b \in Books :
                /\ \A c \in Books \ {b} : row'[c] = row[c]
                /\ {s \in Requests \ {r} : tracked[s] # None /\ QueryOf(s) = BookKey(b)}
                      \subseteq crossed'
      <3>1. CASE Insert(r)
        BY <3>1 DEF Insert, Commit, TypeOK
      <3>2. CASE Save(r)
        <4>1. Id(r) \in Books
          BY <3>2, BodyTyped DEF Save, TypeOK, Changes
        <4> QED
          BY <3>2, <4>1 DEF Save, Commit, TypeOK
      <3>3. CASE Remove(r)
        <4>1. Id(r) \in Books
          BY <3>3, BodyTyped DEF Remove, TypeOK
        <4> QED
          BY <3>3, <4>1 DEF Remove, Commit, TypeOK
      <3> QED
        BY <1>2, <3>1, <3>2, <3>3
    <2>2. crossed \ {r} \subseteq crossed'
      BY <1>2 DEF Insert, Save, Remove, Commit, Answer, Proceed
    <2>3. \A s \in Requests \ {r} :
             step'[s] = step[s] /\ ask'[s] = ask[s] /\ tracked'[s] = tracked[s]
      BY <1>2 DEF Insert, Save, Remove, Answer, Proceed, GoTo, TypeOK
    <2>4. \A s \in Requests \ {r} : Knows(s)'
      BY <2>1, <2>2, <2>3, TrackedKept
    <2>5. \/ /\ step'[r] \in Answers /\ ask'[r] = None /\ tracked'[r] = None
          \/ /\ step'[r] \in {"purgeBook", "purgeAll"}
             /\ ask' = ask /\ tracked' = tracked
      BY <1>2 DEF Insert, Save, Remove, Answer, Proceed, GoTo, TypeOK, Answers
    <2>6. Knows(r)'
      BY <1>0, <2>5 DEF Answers, Creates, Knows
    <2> QED
      BY <1>0, <2>4, <2>6
  <1>3. ASSUME UNCHANGED <<tableVars, requestVars>> PROVE TrackedIsFresh'
    <2>1. UNCHANGED <<row, step, ask, tracked, crossed>>
      BY <1>3 DEF tableVars, requestVars
    <2>2. \A s \in Requests : QueryOf(s)' = QueryOf(s)
      BY <2>1 DEF QueryOf, Kind, Id
    <2> QED
      BY <1>0, <2>1, <2>2 DEF Knows
  <1> QED
    BY <1>1, <1>2, <1>3 DEF Next, Expire, vars

--------------------------------------------------------------------------------
(* Titles *)

(* A handler that does not write a title keeps what the others know. *)
LEMMA TitlesKept ==
    ASSUME TypeOK, TitlesAreUnique, TitleIsFree, WritersApart, NEW r \in Requests,
           row' = row, contended \subseteq contended',
           \A s \in Requests \ {r} : step'[s] = step[s] /\ ask'[s] = ask[s],
           \/ step'[r] \notin {"insert", "load", "save"}
           \/ step[r] \in {"insert", "load", "save"} /\ ask'[r] = ask[r]
    PROVE  TitlesAreUnique' /\ TitleIsFree' /\ WritersApart'
  <1>1. TitlesAreUnique'
    BY DEF TitlesAreUnique
  <1>2. ASSUME NEW s \in Requests, step'[s] \in {"insert", "load", "save"}
        PROVE  step[s] \in {"insert", "load", "save"} /\ ask'[s] = ask[s]
    BY <1>2
  <1>3. TitleIsFree'
    BY <1>2 DEF TitleIsFree, TitleTaken, Kind, Id, Form
  <1>4. WritersApart'
    BY <1>2 DEF WritersApart, Writers, Form
  <1> QED
    BY <1>1, <1>3, <1>4

(* A write of book b by the only request that knows its title to be free. *)
LEMMA TitlesAfterWrite ==
    ASSUME TypeOK, TitlesAreUnique, TitleIsFree, WritersApart, NEW r \in Requests,
           NEW b \in Books, NEW x \in Rows \cup {None}, row' = [row EXCEPT ![b] = x],
           contended' = contended,
           \A s \in Requests \ {r} : step'[s] = step[s] /\ ask'[s] = ask[s],
           step'[r] \notin {"insert", "load", "save"},
           Kind(r) # "create" => b = Id(r),
           \/ x = None
           \/ row[b] # None /\ x.title = row[b].title
           \/ step[r] \in {"insert", "save"} /\ x.title = Form(r).title
    PROVE  TitlesAreUnique' /\ TitleIsFree' /\ WritersApart'
  <1>1. \A c \in Books : row'[c] = IF c = b THEN x ELSE row[c]
    BY DEF TypeOK
  <1>2. ASSUME NEW c \in Books, c # b, x # None, row[c] # None, row[c].title = x.title
        PROVE  x.title \in contended
    <2>1. CASE row[b] # None /\ x.title = row[b].title
      BY <1>2, <2>1 DEF TitlesAreUnique
    <2>2. CASE step[r] \in {"insert", "save"} /\ x.title = Form(r).title
      BY <1>2, <2>2 DEF TitleIsFree, TitleTaken
    <2> QED
      BY <1>2, <2>1, <2>2
  <1>3. TitlesAreUnique'
    <2> SUFFICES ASSUME NEW c \in Books, NEW d \in Books, row'[c] # None, row'[d] # None,
                        row'[c].title = row'[d].title, row'[c].title \notin contended, c # d
                 PROVE  FALSE
      BY DEF TitlesAreUnique
    <2> QED
      BY <1>1, <1>2 DEF TitlesAreUnique
  <1>4. ASSUME NEW s \in Requests, step'[s] \in {"insert", "load", "save"}
        PROVE  s # r /\ step[s] \in {"insert", "load", "save"} /\ ask'[s] = ask[s]
    BY <1>4
  <1>5. TitleIsFree'
    <2> SUFFICES ASSUME NEW s \in Requests, step'[s] \in {"insert", "load", "save"},
                        Form(s)'.title \notin contended, TitleTaken(s)'
                 PROVE  FALSE
      BY DEF TitleIsFree
    <2>1. Form(s)' = Form(s) /\ Kind(s)' = Kind(s) /\ Id(s)' = Id(s)
      BY <1>4 DEF Form, Kind, Id
    <2>2. ~ TitleTaken(s)
      BY <1>4, <2>1 DEF TitleIsFree
    <2>3. PICK c \in Books : /\ row'[c] # None
                             /\ row'[c].title = Form(s).title
                             /\ Kind(s) # "create" => c # Id(s)
      BY <2>1 DEF TitleTaken
    <2>4. c = b /\ x # None /\ x.title = Form(s).title
      BY <1>1, <2>2, <2>3 DEF TitleTaken
    <2>5. CASE row[b] # None /\ x.title = row[b].title
      BY <2>2, <2>3, <2>4, <2>5 DEF TitleTaken
    <2>6. CASE step[r] \in {"insert", "save"} /\ x.title = Form(r).title
      BY <1>4, <2>1, <2>4, <2>6 DEF WritersApart, Writers
    <2> QED
      BY <2>4, <2>5, <2>6
  <1>6. WritersApart'
    BY <1>4 DEF WritersApart, Writers, Form
  <1> QED
    BY <1>3, <1>5, <1>6

(* Titles stay unique but for those that two requests meet at. *)
LEMMA TitleStep ==
    CatalogInv /\ [Next]_vars => TitlesAreUnique' /\ TitleIsFree' /\ WritersApart'
  <1> DEFINE Goal == TitlesAreUnique' /\ TitleIsFree' /\ WritersApart'
  <1> SUFFICES ASSUME CatalogInv, [Next]_vars PROVE Goal
    OBVIOUS
  <1> USE CatalogAssumption
  <1> USE DEF CatalogInv, HandlersKnow
  <1>1. ASSUME NEW r \in Requests,
               \/ Arrive(r) \/ Get(r) \/ Query(r) \/ Store(r) \/ Load(r) \/ Find(r)
               \/ PurgeBook(r) \/ PurgeAll(r) \/ PurgeCategory(r)
        PROVE  Goal
    <2>1. row' = row /\ contended' = contended
      BY <1>1 DEF Arrive, Get, Query, Store, Load, Find, PurgeBook, PurgeAll, PurgeCategory,
         tableVars
    <2>2. \A s \in Requests \ {r} : step'[s] = step[s] /\ ask'[s] = ask[s]
      BY <1>1 DEF Arrive, Get, Query, Store, GoOn, Load, Find, PurgeBook, PurgeAll,
         PurgeCategory, Answer, Proceed, GoTo, TypeOK
    <2>3. \/ step'[r] \notin {"insert", "load", "save"}
          \/ step[r] \in {"insert", "load", "save"} /\ ask'[r] = ask[r]
      BY <1>1 DEF Arrive, Get, Query, Store, GoOn, Load, Find, PurgeBook, PurgeAll,
         PurgeCategory, Answer, Proceed, GoTo, TypeOK
    <2> QED
      BY <2>1, <2>2, <2>3, TitlesKept
  <1>2. ASSUME NEW r \in Requests, CheckTitle(r) PROVE Goal
    <2>1. row' = row /\ contended \subseteq contended' /\ step[r] = "title"
      BY <1>2 DEF CheckTitle, tableVars
    <2>2. \A s \in Requests \ {r} : step'[s] = step[s] /\ ask'[s] = ask[s]
      BY <1>2 DEF CheckTitle, Answer, Proceed, GoTo, TypeOK
    <2>3. CASE step'[r] \notin {"insert", "load", "save"}
      BY <2>1, <2>2, <2>3, TitlesKept
    <2>4. CASE step'[r] \in {"insert", "load", "save"}
      <3>1. /\ ~ TitleTaken(r) /\ ask' = ask
            /\ contended' = contended \cup {t \in {Form(r).title} : Writers(t) # {}}
        BY <1>2, <2>4 DEF CheckTitle, Answer, Proceed, GoTo, TypeOK
      <3>2. ASSUME NEW s \in Requests, step'[s] \in {"insert", "load", "save"}
            PROVE  s = r \/ step[s] \in {"insert", "load", "save"}
        BY <2>2, <3>2
      <3>3. ASSUME NEW s \in Requests
            PROVE  /\ Form(s)' = Form(s)
                   /\ TitleTaken(s)' <=> TitleTaken(s)
        BY <2>1, <3>1 DEF Form, Kind, Id, TitleTaken
      <3>4. ASSUME NEW s \in Requests \ {r}, step[s] \in {"insert", "load", "save"},
                   Form(s).title = Form(r).title
            PROVE  Form(r).title \in contended'
        BY <3>1, <3>4 DEF Writers
      <3>5. TitlesAreUnique'
        BY <2>1 DEF TitlesAreUnique
      <3>6. TitleIsFree'
        BY <2>1, <3>1, <3>2, <3>3 DEF TitleIsFree
      <3>7. WritersApart'
        <4> SUFFICES ASSUME NEW s \in Requests, NEW q \in Requests,
                            step'[s] \in {"insert", "load", "save"},
                            step'[q] \in {"insert", "load", "save"},
                            Form(q).title = Form(s).title,
                            Form(s).title \notin contended'
                     PROVE  s = q
          BY <3>3 DEF WritersApart, Writers
        <4>1. CASE s = r \/ q = r
          BY <3>2, <3>4, <4>1
        <4>2. CASE s # r /\ q # r
          BY <2>1, <3>2, <4>2 DEF WritersApart, Writers
        <4> QED
          BY <4>1, <4>2
      <3> QED
        BY <3>5, <3>6, <3>7
    <2> QED
      BY <2>3, <2>4
  <1>3. ASSUME NEW r \in Requests, Insert(r) PROVE Goal
    <2>1. PICK b \in Books \ used : Commit(r, b, Form(r), {BookKey(b)})
      BY <1>3 DEF Insert
    <2>2. Form(r) \in Rows /\ Kind(r) = "create" /\ step[r] = "insert"
      BY <1>3, BodyTyped DEF Insert, TypeOK
    <2>3. step'[r] \notin {"insert", "load", "save"} /\ contended' = contended
      BY <1>3 DEF Insert, GoTo, TypeOK
    <2>4. \A s \in Requests \ {r} : step'[s] = step[s] /\ ask'[s] = ask[s]
      BY <1>3 DEF Insert, GoTo, TypeOK
    <2>5. row' = [row EXCEPT ![b] = Form(r)]
      BY <2>1 DEF Commit
    <2> QED
      BY <2>2, <2>3, <2>4, <2>5, TitlesAfterWrite
  <1>4. ASSUME NEW r \in Requests, Save(r) PROVE Goal
    <2>1. step[r] = "save" /\ ask[r] \in Changes /\ tracked[r] \in Rows
      BY <1>4 DEF Save, TypeOK
    <2>2. Id(r) \in Books /\ Form(r) \in Rows
      BY <2>1, BodyTyped DEF Changes
    <2>3. step'[r] \notin {"insert", "load", "save"} /\ contended' = contended
      BY <1>4 DEF Save, Answer, Proceed, GoTo, TypeOK
    <2>4. \A s \in Requests \ {r} : step'[s] = step[s] /\ ask'[s] = ask[s]
      BY <1>4 DEF Save, Answer, Proceed, GoTo, TypeOK
    <2>5. CASE row' = row
      BY <2>3, <2>4, <2>5, TitlesKept
    <2>6. CASE row[Id(r)] # None /\
               row' = [row EXCEPT ![Id(r)] = Merged(tracked[r], Form(r), row[Id(r)])]
      <3> DEFINE x == Merged(tracked[r], Form(r), row[Id(r)])
      <3>1. x \in Rows
        BY <2>1, <2>2, <2>6, MergedTyped DEF TypeOK
      <3>2. x.title \in {Form(r).title, row[Id(r)].title}
        BY DEF Merged, Column
      <3> HIDE DEF x
      <3>3. row' = [row EXCEPT ![Id(r)] = x]
        BY <2>6 DEF x
      <3> QED
        BY <2>1, <2>2, <2>3, <2>4, <2>6, <3>1, <3>2, <3>3, TitlesAfterWrite
    <2> QED
      BY <1>4, <2>5, <2>6 DEF Save, Commit
  <1>5. ASSUME NEW r \in Requests, Remove(r) PROVE Goal
    <2>1. Id(r) \in Books
      BY <1>5, BodyTyped DEF Remove, TypeOK
    <2>2. step'[r] \notin {"insert", "load", "save"} /\ contended' = contended
      BY <1>5 DEF Remove, Answer, GoTo, TypeOK
    <2>3. \A s \in Requests \ {r} : step'[s] = step[s] /\ ask'[s] = ask[s]
      BY <1>5 DEF Remove, Answer, GoTo, TypeOK
    <2>4. row' = row \/ row' = [row EXCEPT ![Id(r)] = None]
      BY <1>5 DEF Remove, Commit
    <2> QED
      BY <2>1, <2>2, <2>3, <2>4, TitlesKept, TitlesAfterWrite
  <1>6. ASSUME UNCHANGED <<row, step, ask, contended>> PROVE Goal
    BY <1>6 DEF TitlesAreUnique, TitleIsFree, WritersApart, Writers, TitleTaken, Form, Kind, Id
  <1> HIDE DEF Goal
  <1> QED
    BY <1>1, <1>2, <1>3, <1>4, <1>5, <1>6 DEF Next, Expire, vars, tableVars, requestVars

(* Only used ids are stored. *)
LEMMA IdentityStep == CatalogInv /\ [Next]_vars => Identity'
  <1> SUFFICES ASSUME CatalogInv, [Next]_vars PROVE Identity'
    OBVIOUS
  <1> USE CatalogAssumption
  <1> USE DEF CatalogInv, HandlersKnow, Identity
  <1>1. ASSUME NEW r \in Requests, Insert(r) PROVE Identity'
    BY <1>1 DEF Insert, Commit, TypeOK
  <1>2. ASSUME NEW r \in Requests, Save(r) PROVE Identity'
    BY <1>2 DEF Save, Commit, TypeOK
  <1>3. ASSUME NEW r \in Requests, Remove(r) PROVE Identity'
    BY <1>3 DEF Remove, Commit, TypeOK
  <1>4. CASE UNCHANGED tableVars
    BY <1>4 DEF tableVars
  <1> QED
    BY <1>1, <1>2, <1>3, <1>4 DEF Next, Arrive, Get, Query, Store, CheckTitle, Load, Find,
       PurgeBook, PurgeAll, PurgeCategory, Expire, vars

--------------------------------------------------------------------------------
(* The theorems *)

(* The inductive invariant of the catalogue: every entry of the cache has its
   excuse, and what a handler carries over an await is true or known to be old. *)
THEOREM CatalogInvariant == Spec => []CatalogInv
  <1>1. CatalogInv /\ [Next]_vars => CatalogInv'
    BY TypeStep, EntriesStep, HeldStep, TrackedStep, TitleStep, IdentityStep
       DEF CatalogInv, HandlersKnow
  <1> QED
    BY InitInv, <1>1, PTL DEF Spec

(* A handler runs on the request it was given, and saves or removes only a book it
   has loaded (the handlers of KitapController and KitapApiController). *)
THEOREM CatalogTypes == Spec => []TypeOK
  <1>1. CatalogInv => TypeOK
    BY DEF CatalogInv
  <1> QED
    BY <1>1, CatalogInvariant, PTL

(* A cached list or book is what the database holds, unless its Remove is still to
   come, a late reader put it back, or the key is one CachedKitapServisi forgets. *)
THEOREM EntriesStayFresh == Spec => []EntriesAreFresh
  <1>1. CatalogInv => EntriesAreFresh
    BY DEF CatalogInv
  <1> QED
    BY <1>1, CatalogInvariant, PTL

(* Two books have one title only where two requests were between BaslikVarMiAsync
   and the write of that title at one time. *)
THEOREM TitlesStayUnique == Spec => []TitlesAreUnique
  <1>1. CatalogInv => TitlesAreUnique
    BY DEF CatalogInv
  <1> QED
    BY <1>1, CatalogInvariant, PTL

(* What a handler read before an await is what the table holds when it is used,
   unless the history has recorded the write in between. *)
THEOREM HandlersAlwaysKnow == Spec => []HandlersKnow
  <1>1. CatalogInv => HandlersKnow
    BY DEF CatalogInv
  <1> QED
    BY <1>1, CatalogInvariant, PTL

(* No edit or create brings a deleted book back (SaveChangesAsync of GuncelleAsync
   updates, it never inserts). *)
THEOREM DeletedBooksStayGone == Spec => GoneStaysGone
  <1>1. CatalogInv /\ [Next]_vars =>
           [\A b \in used : row[b] = None => row'[b] = None]_vars
    <2> SUFFICES ASSUME CatalogInv, Next, NEW b \in used, row[b] = None
                 PROVE  row'[b] = None
      BY DEF vars
    <2> USE DEF CatalogInv, TypeOK
    <2>1. CASE \E r \in Requests : Insert(r)
      BY <2>1 DEF Insert, Commit
    <2>2. CASE \E r \in Requests : Save(r)
      BY <2>2 DEF Save, Commit
    <2>3. CASE \E r \in Requests : Remove(r)
      BY <2>3 DEF Remove, Commit
    <2>4. CASE row' = row
      BY <2>4
    <2> QED
      BY <2>1, <2>2, <2>3, <2>4 DEF Next, Arrive, Get, Query, Store, CheckTitle, Load, Find,
         PurgeBook, PurgeAll, PurgeCategory, Expire, tableVars
  <1> QED
    BY <1>1, CatalogInvariant, PTL DEF Spec, GoneStaysGone

(* An update of a book nobody else wrote since it was loaded leaves the form, every
   column of it (GuncelleAsync copies them all; the provider writes the changed). *)
THEOREM UncrossedUpdatesAreComplete == Spec => UncrossedUpdateIsComplete
  <1>1. CatalogInv /\ [Next]_vars =>
           [\A r \in Requests \ crossed : Updates(r) => row'[Id(r)] = Form(r)]_vars
    <2> SUFFICES ASSUME CatalogInv, Next, NEW r \in Requests \ crossed, Updates(r)
                 PROVE  row'[Id(r)] = Form(r)
      BY DEF vars
    <2> USE CatalogAssumption DEF CatalogInv
    <2>1. step[r] = "save" /\ step'[r] = "purgeBook"
      BY DEF Updates
    <2>2. Save(r)
      BY <2>1 DEF Next, Arrive, Get, Query, Store, GoOn, CheckTitle, Insert, Load, Save, Find,
         Remove, PurgeBook, PurgeAll, PurgeCategory, Expire, Answer, Proceed, GoTo, TypeOK,
         requestVars
    <2>3. ask[r] \in Changes /\ tracked[r] \in Rows
      BY <2>1 DEF TypeOK
    <2>4. Id(r) \in Books /\ Form(r) \in Rows /\ QueryOf(r) = BookKey(Id(r))
      BY <2>3, BodyTyped DEF Changes, QueryOf
    <2>5. tracked[r] = row[Id(r)]
      BY <2>1, <2>3, <2>4 DEF HandlersKnow, TrackedIsFresh, Knows, BookKey
    <2>6. CASE Form(r) = tracked[r] /\ row' = row
      BY <2>5, <2>6
    <2>7. CASE row' = [row EXCEPT ![Id(r)] = Merged(tracked[r], Form(r), row[Id(r)])]
      <3>1. row'[Id(r)] = Merged(tracked[r], Form(r), tracked[r])
        BY <2>4, <2>5, <2>7 DEF TypeOK
      <3>2. ASSUME NEW t \in Rows, NEW f \in Rows
            PROVE  Merged(t, f, t) = f
        BY DEF Rows, Merged, Column
      <3> QED
        BY <2>3, <2>4, <3>1, <3>2
    <2> QED
      BY <2>1, <2>2, <2>6, <2>7 DEF Save, Commit, Answer, GoTo, TypeOK
  <1> QED
    BY <1>1, CatalogInvariant, PTL DEF Spec, UncrossedUpdateIsComplete

================================================================================
