---------------------------- MODULE OrderShopProofs ----------------------------
(***************************************************************************)
(* Proofs for any number of requests, customers and products:              *)
(*   1. CreateOrder by itself: its types, and what the idempotency key and *)
(*      the stock check achieve in every interleaving and across restarts; *)
(*   2. CreateOrder in front of the services: the shop implements OrderFlow*)
(*      (and so OrderLifecycle), and what is true of both together.        *)
(***************************************************************************)
EXTENDS OrderShop, OrderFlowProofs, TLAPS

\* No request has arrived yet.
LEMMA IntakeInitInv == IntakeInit => IntakeInv
<1> SUFFICES ASSUME IntakeInit
             PROVE  IntakeInv
    OBVIOUS
<1>1. IntakeTypeOK
    BY IntakeAssumption, RestartAssumption, BusAssumption
       DEF IntakeInit, IntakeTypeOK, BusInit, BusTypeOK, OutboxInit, OutboxTypeOK
<1>2. QED
    BY <1>1 DEF IntakeInit, OutboxInit, IntakeInv, Progress, Stored, Overtaken, ConflictHasOwner, AfterStock

\* Every step keeps every variable in its type; only listed products are cached.
LEMMA IntakeStepType == IntakeInv /\ [IntakeNext]_intakeVars => IntakeTypeOK'
<1> SUFFICES ASSUME IntakeInv, [IntakeNext]_intakeVars
             PROVE  IntakeTypeOK'
    OBVIOUS
<1>1. IntakeTypeOK /\ \A r \in Orders : Progress(r)
    BY DEF IntakeInv
<1> USE DEF IntakeTypeOK, GoTo, InFlight, Answers, Sources
<1>2. ASSUME NEW r \in Orders, Arrive(r)
      PROVE  IntakeTypeOK'
    BY <1>1, <1>2 DEF Arrive, busVars, outboxVars, BusTypeOK, OutboxTypeOK
<1>3. ASSUME NEW r \in Orders, Reach(r)
      PROVE  IntakeTypeOK'
    <2>1. step' \in [Orders -> {"idle"} \cup InFlight \cup Answers]
        BY <1>1, <1>3 DEF Reach, Judge
    <2>2. found' \in [Orders -> Sources \cup {"nothing"}]
        BY <1>1, <1>3 DEF Reach, Judge
    <2>3. cached' \subseteq Listed
        BY <1>1, <1>3 DEF Reach
    <2>4. BusTypeOK' /\ OutboxTypeOK'
        BY <1>1, <1>3 DEF Reach, busVars, outboxVars, BusTypeOK, OutboxTypeOK
    <2>5. QED
        BY <1>1, <1>3, <2>1, <2>2, <2>3, <2>4 DEF Reach, outboxVars
<1>4. ASSUME NEW r \in Orders, FallBack(r)
      PROVE  IntakeTypeOK'
    <2>1. step' \in [Orders -> {"idle"} \cup InFlight \cup Answers]
        BY <1>1, <1>4 DEF FallBack, Judge
    <2>2. found' \in [Orders -> Sources \cup {"nothing"}]
        BY <1>1, <1>4 DEF FallBack, Judge
    <2>3. BusTypeOK' /\ OutboxTypeOK'
        BY <1>1, <1>4 DEF FallBack, busVars, outboxVars, BusTypeOK, OutboxTypeOK
    <2>4. QED
        BY <1>1, <1>4, <2>1, <2>2, <2>3 DEF FallBack, outboxVars
<1>5. ASSUME NEW r \in Orders, GiveUp(r)
      PROVE  IntakeTypeOK'
    BY <1>1, <1>5 DEF GiveUp, busVars, outboxVars, BusTypeOK, OutboxTypeOK
<1>6. ASSUME NEW r \in Orders, CheckKey(r)
      PROVE  IntakeTypeOK'
    <2>1. <<form[r][1], form[r][2], minute>> \in Keys
        BY <1>1, <1>6 DEF CheckKey, Progress, Forms, Keys
    <2>2. step' \in [Orders -> {"idle"} \cup InFlight \cup Answers]
        BY <1>1, <1>6 DEF CheckKey
    <2>3. key' \in [Orders -> Keys \cup {NoForm}]
        BY <1>1, <1>6, <2>1 DEF CheckKey
    <2>4. QED
        BY <1>1, <1>6, <2>2, <2>3 DEF CheckKey, busVars, outboxVars, BusTypeOK, OutboxTypeOK
<1>7. ASSUME NEW r \in Orders, Save(r)
      PROVE  IntakeTypeOK'
    BY <1>1, <1>7 DEF Save, PlaceOrder, busVars, BusTypeOK, OutboxTypeOK
<1>a. ASSUME NEW r \in Orders, Respond(r)
      PROVE  IntakeTypeOK'
    BY <1>1, <1>a DEF Respond, busVars, outboxVars, BusTypeOK, OutboxTypeOK
<1>8. ASSUME NEW r \in Orders, Deliver(r)
      PROVE  IntakeTypeOK'
    <2>1. BusTypeOK'
        <3>1. CASE queue' = Exchange(r, {}, {"OrderCreated", "CreatedNotice"})
                   /\ UNCHANGED redeliveries
            BY <1>1, <1>8, <3>1, ExchangeType DEF Deliver, RelayOutbox, BusTypeOK
        <3>2. CASE Redeliver(r, {"OrderCreated", "CreatedNotice"})
            BY <1>1, <1>8, <3>2, RedeliverType DEF Deliver, RelayOutbox
        <3>3. QED
            BY <1>8, <3>1, <3>2 DEF Deliver, RelayOutbox
    <2>2. OutboxTypeOK' /\ UNCHANGED placed
        BY <1>1, <1>8 DEF Deliver, RelayOutbox, OutboxTypeOK
    <2>3. QED
        BY <1>1, <1>8, <2>1, <2>2 DEF Deliver, requestVars
<1>9. ASSUME NEW p \in Products, Expire(p)
      PROVE  IntakeTypeOK'
    BY <1>1, <1>9 DEF Expire, requestVars, busVars, outboxVars, BusTypeOK, OutboxTypeOK
<1>10. CASE Tick
    BY <1>1, <1>10, IntakeAssumption
       DEF Tick, requestVars, busVars, outboxVars, BusTypeOK, OutboxTypeOK
<1>11. CASE Restart
    BY <1>1, <1>11, RestartAssumption
       DEF Restart, LoseRequests, LoseOutbox, busVars, BusTypeOK, OutboxTypeOK
<1>12. CASE UNCHANGED intakeVars
    BY <1>1, <1>12 DEF intakeVars, requestVars, busVars, outboxVars, BusTypeOK, OutboxTypeOK
<1>13. QED
    BY <1>2, <1>3, <1>4, <1>5, <1>6, <1>7, <1>8, <1>9, <1>10, <1>11, <1>12, <1>a
       DEF IntakeNext, Handler

--------------------------------------------------------------------------------
\* What the handler has found out stays true, whatever the others do.
LEMMA IntakeStepProgress ==
    ASSUME IntakeInv, [IntakeNext]_intakeVars, NEW q \in Orders
    PROVE  Progress(q)'
<1>1. IntakeTypeOK /\ Progress(q)
    BY DEF IntakeInv
<1> USE DEF IntakeTypeOK, Progress, Stored, AfterStock, GoTo, Product, Keys
<1>2. ASSUME NEW r \in Orders, Arrive(r)
      PROVE  Progress(q)'
    BY <1>1, <1>2 DEF Arrive, outboxVars
<1>3. ASSUME NEW r \in Orders, Reach(r)
      PROVE  Progress(q)'
    BY <1>1, <1>3 DEF Reach, Judge, outboxVars
<1>4. ASSUME NEW r \in Orders, FallBack(r)
      PROVE  Progress(q)'
    BY <1>1, <1>4 DEF FallBack, Judge, outboxVars
<1>5. ASSUME NEW r \in Orders, GiveUp(r)
      PROVE  Progress(q)'
    BY <1>1, <1>5 DEF GiveUp, outboxVars
<1>6. ASSUME NEW r \in Orders, CheckKey(r)
      PROVE  Progress(q)'
    BY <1>1, <1>6 DEF CheckKey, outboxVars
<1>7. ASSUME NEW r \in Orders, Save(r)
      PROVE  Progress(q)'
    BY <1>1, <1>7 DEF Save, PlaceOrder
<1>a. ASSUME NEW r \in Orders, Respond(r)
      PROVE  Progress(q)'
    BY <1>1, <1>a DEF Respond, outboxVars
<1>8. ASSUME NEW r \in Orders, Deliver(r)
      PROVE  Progress(q)'
    BY <1>1, <1>8 DEF Deliver, RelayOutbox, requestVars
<1>9. ASSUME NEW p \in Products, Expire(p)
      PROVE  Progress(q)'
    BY <1>1, <1>9 DEF Expire, requestVars, outboxVars
<1>10. CASE Tick
    BY <1>1, <1>10 DEF Tick, requestVars, outboxVars
<1>11. CASE Restart
    BY <1>1, <1>11 DEF Restart, LoseRequests, LoseOutbox, InFlight
<1>12. CASE UNCHANGED intakeVars
    BY <1>1, <1>12 DEF intakeVars, requestVars, outboxVars
<1>13. QED
    BY <1>2, <1>3, <1>4, <1>5, <1>6, <1>7, <1>8, <1>9, <1>10, <1>11, <1>12, <1>a
       DEF IntakeNext, Handler

\* The order that a request creates is new to everyone who arrived before.
LEMMA IntakeStepOvertaken ==
    ASSUME IntakeInv, [IntakeNext]_intakeVars, NEW q \in Orders
    PROVE  Overtaken(q)'
<1>1. IntakeTypeOK /\ Overtaken(q) /\ placed \subseteq Orders /\ orders \subseteq placed
    BY DEF IntakeInv, IntakeTypeOK, OutboxTypeOK
<1>2. \A s \in placed : step[s] \in {"stored", "created", "lost"}
    BY <1>1 DEF IntakeInv, Progress, Stored
<1> USE DEF IntakeTypeOK, Overtaken, GoTo
<1>3. ASSUME NEW r \in Orders, Arrive(r)
      PROVE  Overtaken(q)'
    BY <1>1, <1>2, <1>3 DEF Arrive, outboxVars
<1>4. ASSUME NEW r \in Orders, Reach(r) \/ FallBack(r)
      PROVE  Overtaken(q)'
    BY <1>1, <1>2, <1>4 DEF Reach, FallBack, Judge, outboxVars
<1>5. ASSUME NEW r \in Orders, GiveUp(r)
      PROVE  Overtaken(q)'
    BY <1>1, <1>2, <1>5 DEF GiveUp, outboxVars
<1>6. ASSUME NEW r \in Orders, CheckKey(r)
      PROVE  Overtaken(q)'
    BY <1>1, <1>2, <1>6 DEF CheckKey, outboxVars
<1>7. ASSUME NEW r \in Orders, Save(r)
      PROVE  Overtaken(q)'
    BY <1>1, <1>2, <1>7 DEF Save, PlaceOrder
<1>8. ASSUME NEW r \in Orders, Respond(r)
      PROVE  Overtaken(q)'
    BY <1>1, <1>2, <1>8 DEF Respond, outboxVars
<1>9. ASSUME NEW r \in Orders, Deliver(r)
      PROVE  Overtaken(q)'
    BY <1>1, <1>9 DEF Deliver, RelayOutbox, requestVars
<1>10. ASSUME NEW p \in Products, Expire(p)
      PROVE  Overtaken(q)'
    BY <1>1, <1>10 DEF Expire, requestVars, outboxVars
<1>11. CASE Tick
    BY <1>1, <1>11 DEF Tick, requestVars, outboxVars
<1>12. CASE Restart
    BY <1>1, <1>12 DEF Restart, LoseRequests, LoseOutbox, InFlight
<1>13. CASE UNCHANGED intakeVars
    BY <1>1, <1>13 DEF intakeVars, requestVars, outboxVars
<1>14. QED
    BY <1>3, <1>4, <1>5, <1>6, <1>7, <1>8, <1>9, <1>10, <1>11, <1>12, <1>13
       DEF IntakeNext, Handler

\* The owner of a conflict is found in the table, and stays a stored order.
LEMMA IntakeStepConflict == IntakeInv /\ [IntakeNext]_intakeVars => ConflictHasOwner'
<1> SUFFICES ASSUME IntakeInv, [IntakeNext]_intakeVars, NEW q \in Orders, step'[q] = "conflict"
             PROVE  \E s \in placed' \ {q} : form'[s] = form'[q] /\ key'[s] = key'[q]
    BY DEF ConflictHasOwner
<1>1. IntakeTypeOK /\ ConflictHasOwner /\ \A r \in Orders : Progress(r)
    BY DEF IntakeInv
<1>2. \A s \in placed : s \in Orders /\ step[s] \in {"stored", "created", "lost"}
    BY <1>1 DEF IntakeTypeOK, OutboxTypeOK, Progress, Stored
<1>3. CASE step[q] = "conflict"
    <2>1. PICK s \in placed \ {q} : form[s] = form[q] /\ key[s] = key[q]
        BY <1>1, <1>3 DEF ConflictHasOwner
    <2>2. step[s] \in {"stored", "created", "lost"} /\ s \in Orders
        BY <1>2
    <2>3. \A r \in {q, s} : form'[r] = form[r] /\ key'[r] = key[r]
        BY <1>1, <1>3, <2>2
           DEF IntakeNext, Handler, Arrive, Reach, FallBack, GiveUp, CheckKey, Save, Respond,
               Deliver, Expire, Tick, Restart, LoseRequests, intakeVars, requestVars, IntakeTypeOK
    <2>4. placed \subseteq placed'
        BY DEF IntakeNext, Handler, Arrive, Reach, FallBack, GiveUp, CheckKey, Save, Respond,
               Deliver, Expire, Tick, Restart, LoseRequests, intakeVars, PlaceOrder, RelayOutbox,
               LoseOutbox, outboxVars
    <2>5. QED
        BY <2>1, <2>3, <2>4
<1>4. CASE step[q] # "conflict"
    <2>1. CheckKey(q)
        BY <1>1, <1>4
           DEF IntakeNext, Handler, Arrive, Reach, FallBack, Judge, GiveUp, CheckKey, Save, Respond,
               Deliver, Expire, Tick, Restart, LoseRequests, intakeVars, requestVars, IntakeTypeOK, GoTo, InFlight
    <2>2. PICK s \in orders : key[s] = <<form[q][1], form[q][2], minute>>
        BY <1>1, <2>1 DEF CheckKey, GoTo, IntakeTypeOK
    <2>3. s \in placed /\ s \in Orders /\ s # q /\ step[s] # "idle" /\ step[q] = "stockChecked"
        BY <1>1, <1>2, <2>1 DEF CheckKey, IntakeTypeOK
    <2>4. form[s] \in Forms /\ form[q] \in Forms
        BY <1>1, <2>3 DEF Progress
    <2>5. PICK m \in 0..MaxMinutes : key[s] = <<form[s][1], form[s][2], m>>
        BY <1>1, <2>3 DEF Progress
    <2>6. form[s] = form[q]
        BY <2>2, <2>4, <2>5 DEF Forms
    <2>7. key'[q] = key[s] /\ key'[s] = key[s] /\ UNCHANGED <<form, placed>>
        BY <1>1, <2>1, <2>2, <2>3 DEF CheckKey, IntakeTypeOK, outboxVars
    <2>8. QED
        BY <2>3, <2>6, <2>7
<1>5. QED
    BY <1>3, <1>4

\* The invariant of CreateOrder holds in every reachable state.
THEOREM IntakeInvariant == IntakeSpec => []IntakeInv
<1>1. IntakeInv /\ [IntakeNext]_intakeVars => IntakeInv'
    BY IntakeStepType, IntakeStepProgress, IntakeStepOvertaken, IntakeStepConflict DEF IntakeInv
<1>2. QED
    BY <1>1, IntakeInitInv, PTL DEF IntakeSpec

--------------------------------------------------------------------------------
\* What the invariant says of stored orders and of conflicts.
LEMMA IntakeHolds ==
    IntakeInv => LateClickIsCaught /\ ConflictHasOwner /\ OnlyBlindOrdersSlipIn
<1>1. ASSUME IntakeInv, NEW r \in orders, NEW s \in orders, r # s, key[r] = key[s]
      PROVE  s \notin ahead[r]
    <2>1. r \in Orders /\ r \in placed
        BY <1>1 DEF IntakeInv, IntakeTypeOK, OutboxTypeOK
    <2>2. QED
        BY <1>1, <2>1 DEF IntakeInv, Overtaken
<1>2. IntakeInv => OnlyBlindOrdersSlipIn
    BY DEF IntakeInv, IntakeTypeOK, OutboxTypeOK, Progress, AfterStock, OnlyBlindOrdersSlipIn
<1>3. QED
    BY <1>1, <1>2 DEF IntakeInv, LateClickIsCaught

\* All variables of CreateOrder stay in their types.
THEOREM IntakeTypeCorrect == IntakeSpec => []IntakeTypeOK
<1>1. IntakeInv => IntakeTypeOK
    BY DEF IntakeInv
<1>2. QED
    BY <1>1, IntakeInvariant, PTL

\* Two stored orders with one idempotency key come only from requests that overlapped.
THEOREM LateClicksAreCaught == IntakeSpec => []LateClickIsCaught
BY IntakeHolds, IntakeInvariant, PTL

\* Whoever is told 409 has a stored order for that product and minute, answered or not.
THEOREM ConflictsHaveOwners == IntakeSpec => []ConflictHasOwner
BY IntakeHolds, IntakeInvariant, PTL

\* Sold-out and unlisted products are ordered only blindly.
THEOREM OnlyBlindOrders == IntakeSpec => []OnlyBlindOrdersSlipIn
BY IntakeHolds, IntakeInvariant, PTL

--------------------------------------------------------------------------------
(***************************************************************************)
(* The whole shop.                                                         *)
(***************************************************************************)

\* The requests by themselves are a step of CreateOrder; for the order process they
\* place an order, relay one, or do nothing that it knows of.
LEMMA DeskStep == Desk => IntakeNext /\ [Next]_vars
<1> SUFFICES ASSUME Desk
             PROVE  IntakeNext /\ [Next]_vars
    OBVIOUS
<1>s. UNCHANGED serviceVars
    BY DEF Desk
<1>1. IntakeNext
    BY DEF Desk, IntakeNext
<1>2. ASSUME NEW r \in Orders, Save(r) \/ Deliver(r)
      PROVE  Next
    <2>1. Intake(r)
        BY <1>s, <1>2 DEF Save, Deliver, Intake, serviceVars
    <2>2. QED
        BY <2>1 DEF Next
<1>3. ASSUME NEW r \in Orders,
             Arrive(r) \/ Reach(r) \/ FallBack(r) \/ GiveUp(r) \/ CheckKey(r) \/ Respond(r)
      PROVE  UNCHANGED vars
    BY <1>s, <1>3 DEF Arrive, Reach, FallBack, GiveUp, CheckKey, Respond, serviceVars, busVars, outboxVars,
       vars
<1>4. ASSUME Tick \/ \E p \in Products : Expire(p)
      PROVE  UNCHANGED vars
    BY <1>s, <1>4 DEF Tick, Expire, serviceVars, busVars, outboxVars, vars
<1>5. QED
    BY <1>1, <1>2, <1>3, <1>4 DEF Desk, Handler

\* Every step of the shop is one of the order process.
LEMMA ShopStepFlow == [ShopNext]_shopVars => [Next]_vars
<1>1. Services => Next
    BY DEF Services, Next
<1>2. RestartShop => Next
    BY DEF RestartShop, Next
<1>3. UNCHANGED shopVars => UNCHANGED vars
    BY DEF shopVars, intakeVars, serviceVars, busVars, outboxVars, vars
<1>4. QED
    BY <1>1, <1>2, <1>3, DeskStep DEF ShopNext

\* The services behind the broker leave what the requests know alone.
LEMMA ServicesKeepIntake == IntakeInv /\ BusTypeOK' /\ Services => IntakeInv'
<1> SUFFICES ASSUME IntakeInv, BusTypeOK', Services
             PROVE  IntakeInv'
    OBVIOUS
<1>1. UNCHANGED <<deskVars, outboxVars, restarts>>
    BY DEF Services, Orchestrate, Pay, Ship, Notify
<1> USE <1>1 DEF deskVars, requestVars, outboxVars
<1>2. IntakeTypeOK'
    BY DEF IntakeInv, IntakeTypeOK, OutboxTypeOK
<1>3. ASSUME NEW q \in Orders
      PROVE  Progress(q)' /\ Overtaken(q)'
    BY DEF IntakeInv, Progress, Stored, Overtaken, Product
<1>4. ConflictHasOwner'
    BY DEF IntakeInv, ConflictHasOwner
<1>5. QED
    BY <1>2, <1>3, <1>4 DEF IntakeInv

\* So does a restart, in the middle of a message or not, but for what it loses.
LEMMA RestartKeepsIntake == IntakeInv /\ BusTypeOK' /\ RestartShop => IntakeInv'
<1> SUFFICES ASSUME IntakeInv, BusTypeOK', RestartShop
             PROVE  IntakeInv'
    OBVIOUS
<1>1. LoseRequests /\ LoseOutbox /\ restarts < MaxRestarts /\ restarts' = restarts + 1
    BY DEF RestartShop, RestartOrderService
<1> USE <1>1 DEF LoseRequests, LoseOutbox, InFlight
<1>2. IntakeTypeOK'
    BY RestartAssumption DEF IntakeInv, IntakeTypeOK, OutboxTypeOK, Answers
<1>3. ASSUME NEW q \in Orders
      PROVE  Progress(q)'
    BY <1>3 DEF IntakeInv, IntakeTypeOK, Progress, Stored, AfterStock, Product
<1>4. ASSUME NEW q \in Orders
      PROVE  Overtaken(q)'
    BY <1>4 DEF IntakeInv, IntakeTypeOK, Overtaken
<1>5. ConflictHasOwner'
    BY DEF IntakeInv, ConflictHasOwner
<1>6. QED
    BY <1>2, <1>3, <1>4, <1>5 DEF IntakeInv

\* The row of an order and its acceptance are one SaveChanges.
LEMMA StoredStep ==
    TypeOK /\ TypeOK' /\ OrdersAreStored /\ [ShopNext]_shopVars => OrdersAreStored'
<1> SUFFICES ASSUME TypeOK, TypeOK', OrdersAreStored, [ShopNext]_shopVars
             PROVE  OrdersAreStored'
    OBVIOUS
<1>1. CASE Desk
    BY <1>1 DEF Desk, Handler, Arrive, Reach, FallBack, GiveUp, CheckKey, Save, Respond, Deliver, Tick,
       Expire, PlaceOrder, RelayOutbox, outboxVars, OrdersAreStored
<1>2. CASE Services
    BY <1>2 DEF Services, Orchestrate, Pay, Ship, Notify, deskVars, outboxVars, OrdersAreStored
<1>3. CASE RestartShop
    BY <1>3, RestartAssumption DEF RestartShop, RestartOrderService, TypeOK, OrdersAreStored
<1>4. CASE UNCHANGED shopVars
    BY <1>4 DEF shopVars, intakeVars, outboxVars, OrdersAreStored
<1>5. QED
    BY <1>1, <1>2, <1>3, <1>4 DEF ShopNext

\* The shop starts as OrderFlow and OrderIntake do.
LEMMA ShopInitInv == ShopInit => Init /\ IntakeInv /\ OrdersAreStored
BY IntakeInitInv DEF ShopInit, IntakeInit, Init, OutboxInit, OrdersAreStored

\* The requests in front of the broker change nothing of what OrderFlow says about
\* the services behind it: the shop is an order process.
THEOREM ShopImplementsFlow == ShopSpec => ImplementsFlow
<1>1. ShopInit => Init
    BY ShopInitInv
<1>2. QED
    BY <1>1, ShopStepFlow, PTL DEF ShopSpec, ImplementsFlow, Spec

\* The invariant of the shop holds in every reachable state.
THEOREM ShopInvariant == ShopSpec => []ShopInv
<1>1. ShopSpec => [](TypeOK /\ NothingFromNothing)
    BY ShopImplementsFlow, TypeCorrect, NothingComesFromNothing, PTL DEF ImplementsFlow
<1>2. ShopInit => IntakeInv /\ OrdersAreStored
    BY ShopInitInv
<1>3. /\ TypeOK /\ TypeOK' /\ IntakeInv /\ OrdersAreStored
      /\ [ShopNext]_shopVars
      => (IntakeInv /\ OrdersAreStored)'
    <2> SUFFICES ASSUME TypeOK, TypeOK', IntakeInv, OrdersAreStored, [ShopNext]_shopVars
                 PROVE  IntakeInv'
        BY StoredStep
    <2>1. BusTypeOK'
        BY DEF TypeOK
    <2>2. CASE [IntakeNext]_intakeVars
        BY <2>2, IntakeStepType, IntakeStepProgress, IntakeStepOvertaken, IntakeStepConflict
           DEF IntakeInv
    <2>3. UNCHANGED shopVars => UNCHANGED intakeVars
        BY DEF shopVars
    <2>4. QED
        BY <2>1, <2>2, <2>3, DeskStep, ServicesKeepIntake, RestartKeepsIntake DEF ShopNext
<1>4. ShopInv <=> TypeOK /\ NothingFromNothing /\ IntakeInv /\ OrdersAreStored
    BY DEF ShopInv
<1>5. QED
    BY <1>1, <1>2, <1>3, <1>4, PTL DEF ShopSpec

--------------------------------------------------------------------------------
\* What the key and the stock check achieve lasts with the services at work.
THEOREM ShopKeepsIntake ==
    ShopSpec => [](LateClickIsCaught /\ ConflictHasOwner /\ OnlyBlindOrdersSlipIn)
<1>1. ShopInv => LateClickIsCaught /\ ConflictHasOwner /\ OnlyBlindOrdersSlipIn
    BY IntakeHolds DEF ShopInv
<1>2. QED
    BY <1>1, ShopInvariant, PTL

\* So does what OrderFlow promises of the services: saga, broker and consumers keep
\* each other's invariants with real requests in front of them.
THEOREM ShopKeepsFlow ==
    ShopSpec => [](/\ NeverWaitsInVain
                   /\ ShipsOnlyPaid
                   /\ NewsIsTrue
                   /\ DamageIsBounded
                   /\ CompensationFits
                   /\ NothingRejected)
BY ShopImplementsFlow, NoVainWait, ParcelsArePaid, NewsIsAlwaysTrue, DamageStaysBounded,
   CompensationIsRight, NothingIsRejected, PTL DEF ImplementsFlow

\* Every 201 is followed up: the work about it is not lost, and each of its steps uses up
\* the budget of an order, so that it has an end.
THEOREM ShopFollowsUp == ShopSpec => []NoCustomerForgotten /\ NoEndlessWork
<1>1. ShopInv /\ NothingForgotten => NoCustomerForgotten
    BY DEF ShopInv, IntakeInv, Progress, Stored, NothingForgotten, NoCustomerForgotten
<1>2. ShopSpec => []NothingForgotten /\ NoEndlessWork
    BY ShopImplementsFlow, NothingIsForgotten, WorkEnds, PTL DEF ImplementsFlow
<1>3. QED
    BY <1>1, <1>2, ShopInvariant, PTL

\* Nobody is charged, sent a parcel or an e-mail for a request that was refused or is
\* still undecided, only for a stored order; its 201 may be on its way or lost.
THEOREM RefusedRequestsCostNothing == ShopSpec => []RefusalsHaveNoConsequences
<1>1. ShopInv => RefusalsHaveNoConsequences
    <2>1. ASSUME ShopInv, NEW r \in Orders, Acted(r)
          PROVE  /\ step[r] \notin Refusals \cup {"lookup", "stockChecked", "keyChecked"}
                 /\ Product(r) \in Listed \ SoldOut \/ found[r] = "unknown"
        <3>1. r \in placed
            BY <2>1 DEF ShopInv, NothingFromNothing, Untouched, Acted
        <3>2. Progress(r) /\ step[r] \in {"stored", "created", "lost"}
            BY <2>1, <3>1 DEF ShopInv, IntakeInv, Progress, Stored
        <3>3. QED
            BY <3>1, <3>2 DEF Progress, Refusals
    <2>2. QED
        BY <2>1 DEF RefusalsHaveNoConsequences
<1>2. QED
    BY <1>1, ShopInvariant, PTL

\* A 409 is true: the order it speaks of is stored, and until a restart its customer
\* knows the outcome or the work on it goes on, even if the 409 is all anyone heard.
THEOREM ConflictsAreTrue == ShopSpec => []ConflictIsTrue
<1>1. ShopInv /\ NothingForgotten => ConflictIsTrue
    <2>1. ASSUME ShopInv, NothingForgotten, NEW r \in Orders, step[r] = "conflict"
          PROVE  \E s \in placed \ {r} :
                     /\ form[s] = form[r]
                     /\ key[s] = key[r]
                     /\ restarts = 0 => Decided(s) \/ Pending(s)
        <3>1. PICK s \in placed \ {r} : form[s] = form[r] /\ key[s] = key[r]
            BY <2>1 DEF ShopInv, IntakeInv, ConflictHasOwner
        <3>2. restarts = 0 => Decided(s) \/ Pending(s)
            BY <2>1 DEF NothingForgotten
        <3>3. QED
            BY <3>1, <3>2
    <2>2. QED
        BY <2>1 DEF ConflictIsTrue
<1>2. QED
    BY <1>1, ShopInvariant, ShopImplementsFlow, NothingIsForgotten, PTL DEF ImplementsFlow

\* A click after the first was stored, its 201 heard or lost, is never charged again, up
\* to a restart.
THEOREM LateClicksNeverPay == ShopSpec => []LateClickNeverPays
<1>1. ShopInv => LateClickNeverPays
    <2>1. ASSUME ShopInv, restarts = 0, NEW r \in Orders, NEW s \in Orders, r # s,
                 key[r] = key[s], captures[r] > 0, captures[s] > 0
          PROVE  s \notin ahead[r]
        <3>1. r \in placed /\ s \in placed
            BY <2>1 DEF ShopInv, NothingFromNothing, Untouched
        <3>2. r \in orders /\ s \in orders
            BY <2>1, <3>1 DEF ShopInv, OrdersAreStored
        <3>3. QED
            BY <2>1, <3>2, IntakeHolds DEF ShopInv, LateClickIsCaught
    <2>2. QED
        BY <2>1 DEF LateClickNeverPays
<1>2. QED
    BY <1>1, ShopInvariant, PTL

\* With exactly-once delivery the customer of the shop is promised OrderLifecycle.
THEOREM ShopImplementsLifecycle ==
    ASSUME MaxRedeliveries = 0
    PROVE  ShopSpec => ImplementsLifecycle
BY ShopImplementsFlow, Refinement, PTL DEF ImplementsFlow

================================================================================
