------------------------------ MODULE OrderIntake ------------------------------
(***************************************************************************)
(* POST api/orders: OrderController.CreateOrder, run by many requests at   *)
(* once, with ProductHttpClient (its cache and its two fallbacks) and the  *)
(* idempotency key.  A request is identified with the order it may create  *)
(* (a fresh Guid), so the save is PlaceOrder of OrderOutbox.               *)
(*                                                                         *)
(* The handler gives up its thread at the lookup and at each database      *)
(* call; the code between two awaits is one step.  What is stored and what *)
(* the client hears are two things: between SaveChanges and the 201 the    *)
(* event may be sent, the connection may break, or the process may end.    *)
(* The database is EF's in-memory provider, which does not enforce the     *)
(* unique index that OrderDbContext declares.                              *)
(***************************************************************************)
EXTENDS OrderOutbox

CONSTANTS
    Customers,     \* e-mail addresses
    Products,      \* product ids a request may carry
    Listed,        \* the products ProductService has
    SoldOut,       \* those of them with Stock = 0
    MaxMinutes     \* bound: how many minutes pass

ASSUME IntakeAssumption ==
    /\ Listed \subseteq Products
    /\ SoldOut \subseteq Listed
    /\ MaxMinutes \in Nat

VARIABLES
    step,      \* step[r]: where the handler of r is, or what the client heard
    form,      \* form[r]: the CustomerEmail and ProductId of the request
    found,     \* found[r]: where the ProductInfo came from
    key,       \* key[r]: the idempotency key, <<email, product, minute>>
    orders,    \* the rows of the Orders table, by request
    cached,    \* the products in the IMemoryCache
    minute,    \* DateTime.UtcNow, cut to the minute
    ahead      \* history: ahead[r], the orders that were stored when r arrived

requestVars == <<step, form, found, key, ahead>>
intakeVars == <<busVars, outboxVars, requestVars, orders, cached, minute, restarts>>

NoForm == <<>>
Forms == Customers \X Products
Keys == Customers \X Products \X (0..MaxMinutes)

InFlight == {"lookup", "stockChecked", "keyChecked", "stored"}

\* What the client hears of r; "lost" is that it never hears anything.
Answers == {"created", "notFound", "soldOut", "conflict", "failed", "lost"}

\* The client was told that there is no order.
Refusals == {"notFound", "soldOut", "conflict", "failed"}

Sources == {"ProductService", "cache", "unknown"}

IntakeTypeOK ==
    /\ BusTypeOK
    /\ OutboxTypeOK
    /\ step \in [Orders -> {"idle"} \cup InFlight \cup Answers]
    /\ form \in [Orders -> Forms \cup {NoForm}]
    /\ found \in [Orders -> Sources \cup {"nothing"}]
    /\ key \in [Orders -> Keys \cup {NoForm}]
    /\ orders \subseteq placed
    /\ cached \subseteq Listed
    /\ minute \in 0..MaxMinutes
    /\ restarts \in 0..MaxRestarts
    /\ ahead \in [Orders -> SUBSET Orders]

IntakeInit ==
    /\ BusInit
    /\ OutboxInit
    /\ step = [r \in Orders |-> "idle"]
    /\ form = [r \in Orders |-> NoForm]
    /\ found = [r \in Orders |-> "nothing"]
    /\ key = [r \in Orders |-> NoForm]
    /\ orders = {}
    /\ cached = {}
    /\ minute = 0
    /\ restarts = 0
    /\ ahead = [r \in Orders |-> {}]

Product(r) == form[r][2]

GoTo(r, s) == step' = [step EXCEPT ![r] = s]

--------------------------------------------------------------------------------
Arrive(r) ==
    /\ step[r] = "idle"
    /\ \E f \in Forms : form' = [form EXCEPT ![r] = f]
    /\ ahead' = [ahead EXCEPT ![r] = orders]
    /\ GoTo(r, "lookup")
    /\ UNCHANGED <<busVars, outboxVars, found, key, orders, cached, minute, restarts>>

\* GetProductAsync returned a product from src: a verified product without stock
\* is refused, everything else goes on.
Judge(r, src) ==
    /\ found' = [found EXCEPT ![r] = src]
    /\ \/ /\ src # "unknown" /\ Product(r) \in SoldOut
          /\ GoTo(r, "soldOut")
       \/ /\ src = "unknown" \/ Product(r) \notin SoldOut
          /\ GoTo(r, "stockChecked")

\* ProductService answered: 404 clears the cache, a product is cached.
Reach(r) ==
    /\ step[r] = "lookup"
    /\ \/ /\ Product(r) \notin Listed
          /\ cached' = cached \ {Product(r)}
          /\ GoTo(r, "notFound")
          /\ UNCHANGED found
       \/ /\ Product(r) \in Listed
          /\ cached' = cached \cup {Product(r)}
          /\ Judge(r, "ProductService")
    /\ UNCHANGED <<busVars, outboxVars, form, key, orders, minute, restarts, ahead>>

\* The circuit is open, the bulkhead full, every attempt timed out or the
\* network failed: the cached product is returned as it was stored, verified,
\* else one that is unknown, without a price and unverified.
FallBack(r) ==
    /\ step[r] = "lookup"
    /\ \/ Product(r) \in cached /\ Judge(r, "cache")
       \/ Product(r) \notin cached /\ Judge(r, "unknown")
    /\ UNCHANGED <<busVars, outboxVars, form, key, orders, cached, minute, restarts, ahead>>

\* HttpClient.Timeout cancels the pipeline: nobody catches that exception.
GiveUp(r) ==
    /\ step[r] = "lookup"
    /\ GoTo(r, "failed")
    /\ UNCHANGED <<busVars, outboxVars, form, found, key, orders, cached, minute, restarts, ahead>>

\* Mutant: the order is saved before its key is looked up.
CheckKeySavesFirst(r) ==
    /\ step[r] = "stockChecked"
    /\ PlaceOrder(r)
    /\ orders' = orders \cup {r}
    /\ LET k == <<form[r][1], form[r][2], minute>> IN
        /\ key' = [key EXCEPT ![r] = k]
        /\ \/ (\E s \in orders : key[s] = k) /\ GoTo(r, "conflict")
           \/ (\A s \in orders : key[s] # k) /\ GoTo(r, "stored")
    /\ UNCHANGED <<form, found, cached, minute, restarts, ahead>>

\* Mutant: the Orders table is not asked.
CheckKeyNever(r) ==
    /\ step[r] = "stockChecked"
    /\ key' = [key EXCEPT ![r] = <<form[r][1], form[r][2], minute>>]
    /\ GoTo(r, "keyChecked")
    /\ UNCHANGED <<busVars, outboxVars, form, found, orders, cached, minute, restarts, ahead>>

\* The key is built from the clock and looked up in the Orders table.
CheckKey(r) ==
    /\ step[r] = "stockChecked"
    /\ LET k == <<form[r][1], form[r][2], minute>> IN
        /\ key' = [key EXCEPT ![r] = k]
        /\ \/ (\E s \in orders : key[s] = k) /\ GoTo(r, "conflict")
           \/ (\A s \in orders : key[s] # k) /\ GoTo(r, "keyChecked")
    /\ UNCHANGED <<busVars, outboxVars, form, found, orders, cached, minute, restarts, ahead>>

\* Mutant: the event is published at once, past the outbox.
SaveAndPublish(r) ==
    /\ step[r] = "keyChecked"
    /\ placed' = placed \cup {r}
    /\ queue' = Exchange(r, {}, {"OrderCreated", "CreatedNotice"})
    /\ orders' = orders \cup {r}
    /\ GoTo(r, "stored")
    /\ UNCHANGED <<outbox, errorQueue, redeliveries>>
    /\ UNCHANGED <<form, found, key, cached, minute, restarts, ahead>>

\* SaveChanges stores the order and its event.  Nobody has been told yet.
Save(r) ==
    /\ step[r] = "keyChecked"
    /\ PlaceOrder(r)
    /\ orders' = orders \cup {r}
    /\ GoTo(r, "stored")
    /\ UNCHANGED <<form, found, key, cached, minute, restarts, ahead>>

\* CreatedAtAction: the client hears 201, unless the connection is gone by then.
\* (A refusal that gets lost leaves nothing behind, so only this answer may.)
Respond(r) ==
    /\ step[r] = "stored"
    /\ \E a \in {"created", "lost"} : GoTo(r, a)
    /\ UNCHANGED <<busVars, outboxVars, form, found, key, orders, cached, minute, restarts, ahead>>

Deliver(r) ==
    /\ RelayOutbox(r)
    /\ UNCHANGED <<requestVars, orders, cached, minute, restarts>>

--------------------------------------------------------------------------------
Tick ==
    /\ minute < MaxMinutes
    /\ minute' = minute + 1
    /\ UNCHANGED <<busVars, outboxVars, requestVars, orders, cached, restarts>>

\* CacheTtl has passed since p was cached; when, in minutes, is left open.
Expire(p) ==
    /\ p \in cached
    /\ cached' = cached \ {p}
    /\ UNCHANGED <<busVars, outboxVars, requestVars, orders, minute, restarts>>

\* The process ends: database and cache are in its memory, and the requests it was
\* working on, stored or not, lose their connection.
LoseRequests ==
    /\ orders' = {}
    /\ cached' = {}
    /\ step' = [r \in Orders |-> IF step[r] \in InFlight THEN "lost" ELSE step[r]]
    /\ UNCHANGED <<form, found, key, minute, ahead>>

\* OrderService ends and starts again.
Restart ==
    /\ restarts < MaxRestarts
    /\ restarts' = restarts + 1
    /\ LoseOutbox
    /\ LoseRequests
    /\ UNCHANGED busVars

Handler(r) == Reach(r) \/ FallBack(r) \/ GiveUp(r) \/ CheckKey(r) \/ Save(r) \/ Respond(r)

IntakeNext ==
    \/ \E r \in Orders : Arrive(r) \/ Handler(r) \/ Deliver(r)
    \/ \E p \in Products : Expire(p)
    \/ Tick
    \/ Restart

IntakeSpec == IntakeInit /\ [][IntakeNext]_intakeVars

\* The outbox delivery service polls; requests, restarts and the clock may stop.
IntakeFairSpec == IntakeSpec /\ \A r \in Orders : WF_intakeVars(Deliver(r))

--------------------------------------------------------------------------------
(***************************************************************************)
(* Properties.                                                             *)
(***************************************************************************)

\* A late click never orders twice: two stored orders with one key come only from
\* requests that overlapped (AnyAsync and SaveChanges of CreateOrder are two calls),
\* never from one that was stored before the other arrived.  That holds for the
\* retry of a client who never heard its 201, too.
LateClickIsCaught ==
    \A r, s \in orders : r # s /\ key[r] = key[s] => s \notin ahead[r]

\* A 409 has an owner: whoever is told "this order is already being processed" has
\* another request, for that product and in that minute, whose order was stored, even
\* if a restart has since emptied the Orders table.  Its client may have heard 201,
\* nothing yet, or nothing ever: then the 409 is the only answer there is.
ConflictHasOwner ==
    \A r \in Orders : step[r] = "conflict" =>
        \E s \in placed \ {r} : form[s] = form[r] /\ key[s] = key[r]

\* Only a lookup that neither ProductService nor the cache could answer lets an
\* order for a sold-out or unlisted product in.
OnlyBlindOrdersSlipIn ==
    \A r \in placed : Product(r) \in Listed \ SoldOut \/ found[r] = "unknown"

\* Every stored order, and so every 201, is followed by the OrderCreatedEvent on both
\* queues, unless a restart of OrderService takes the stored event with it; whether
\* the client heard the 201 makes no difference.
AcceptedIsAnnounced ==
    \A r \in Orders :
        r \in placed ~> (Ready(r, "OrderCreated") /\ Ready(r, "CreatedNotice")) \/ restarts > 0

--------------------------------------------------------------------------------
(***************************************************************************)
(* The inductive invariant behind the three safety properties.             *)
(***************************************************************************)
AfterStock == {"stockChecked", "keyChecked", "stored", "created"}

\* An order is stored from SaveChanges on, whatever its client hears; one whose client
\* heard nothing may be stored or not.
Stored(r) ==
    /\ step[r] \in {"stored", "created"} => r \in placed
    /\ r \in placed => step[r] \in {"stored", "created", "lost"}

\* What a handler has found out so far is true of its own request.
Progress(r) ==
    /\ step[r] # "idle" => form[r] \in Forms
    /\ step[r] \in AfterStock \/ r \in placed =>
           Product(r) \in Listed \ SoldOut \/ found[r] = "unknown"
    /\ Stored(r)
    /\ step[r] = "keyChecked" \/ r \in placed =>
           \E m \in 0..MaxMinutes : key[r] = <<form[r][1], form[r][2], m>>

\* Orders stored before r arrived were seen by its check of the key.
Overtaken(r) ==
    /\ ahead[r] \subseteq placed
    /\ step[r] = "keyChecked" \/ r \in placed =>
           \A s \in orders \cap ahead[r] : s # r => key[s] # key[r]

IntakeInv ==
    /\ IntakeTypeOK
    /\ \A r \in Orders : Progress(r) /\ Overtaken(r)
    /\ ConflictHasOwner

================================================================================
