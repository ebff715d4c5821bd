---------------------------- MODULE OrderFlowProofs ----------------------------
(***************************************************************************)
(* Proofs about the order process for any set of orders and any bounds:    *)
(*   1. types, and what survives repeated deliveries and restarts;         *)
(*   2. work on an order ends, and is not lost on the way;                 *)
(*   3. what holds as long as no delivery was repeated: one outcome, a     *)
(*      compensation that fits, no rejected message;                       *)
(*   4. then the services implement OrderLifecycle, restarts included.     *)
(***************************************************************************)
EXTENDS OrderFlow, BusProofs, TLAPS

--------------------------------------------------------------------------------
(***************************************************************************)
(* The transitions of the saga, one by one.                                *)
(***************************************************************************)

\* What a transition has published when all of it, or one call of it, is out.
LEMMA PublishedByTransition ==
    /\ Published(WhenOrderCreated, 1) = {"PaymentRequested"}
    /\ Published(WhenPaymentCompleted, 1) = {"ShipmentRequested"}
    /\ Published(WhenPaymentFailed, 1) = {"OrderCancelled"}
    /\ Published(WhenShipmentPrepared, 1) = {"OrderCompleted"}
    /\ Published(WhenShipmentFailed, 1) = {"PaymentRefunded"}
    /\ Published(WhenShipmentFailed, 2) = {"PaymentRefunded", "OrderCancelled"}
    /\ \A t \in Transitions \ {WhenShipmentFailed} : Len(t.publishes) = 1
    /\ Len(WhenShipmentFailed.publishes) = 2
<1>1. 1..1 = {1} /\ 1..2 = {1, 2}
    OBVIOUS
<1> USE DEF Published, WhenOrderCreated, WhenPaymentCompleted, WhenPaymentFailed,
            WhenShipmentPrepared, WhenShipmentFailed
<1>2. QED
    BY <1>1 DEF Transitions

\* What the saga does with an event that fits its state.
LEMMA HandleCases ==
    ASSUME NEW o, NEW t \in Transitions, Handle(o, t)
    PROVE  \/ /\ saga[o] = "None"
              /\ Consume(o, "OrderCreated", {"PaymentRequested"})
              /\ saga' = [saga EXCEPT ![o] = "AwaitingPayment"]
           \/ /\ saga[o] = "AwaitingPayment"
              /\ Consume(o, "PaymentCompleted", {"ShipmentRequested"})
              /\ saga' = [saga EXCEPT ![o] = "AwaitingShipment"]
           \/ /\ saga[o] = "AwaitingPayment"
              /\ Consume(o, "PaymentFailed", {"OrderCancelled"})
              /\ saga' = [saga EXCEPT ![o] = "None"]
           \/ /\ saga[o] = "AwaitingShipment"
              /\ Consume(o, "ShipmentPrepared", {"OrderCompleted"})
              /\ saga' = [saga EXCEPT ![o] = "None"]
           \/ /\ saga[o] = "AwaitingShipment"
              /\ Consume(o, "ShipmentFailed", {"PaymentRefunded", "OrderCancelled"})
              /\ saga' = [saga EXCEPT ![o] = "None"]
<1>1. CASE t = WhenOrderCreated
    BY <1>1, PublishedByTransition DEF Handle, Transitions, WhenOrderCreated
<1>2. CASE t = WhenPaymentCompleted
    BY <1>2, PublishedByTransition DEF Handle, Transitions, WhenPaymentCompleted
<1>3. CASE t = WhenPaymentFailed
    BY <1>3, PublishedByTransition DEF Handle, Transitions, WhenPaymentFailed
<1>4. CASE t = WhenShipmentPrepared
    BY <1>4, PublishedByTransition DEF Handle, Transitions, WhenShipmentPrepared
<1>5. CASE t = WhenShipmentFailed
    BY <1>5, PublishedByTransition DEF Handle, Transitions, WhenShipmentFailed
<1>6. QED
    BY <1>1, <1>2, <1>3, <1>4, <1>5 DEF Transitions


\* What a cut-off handler leaves behind: its event, and a part of what it publishes.
LEMMA CutOffCases ==
    ASSUME NEW o, NEW t \in Transitions, CutOff(o, t)
    PROVE  /\ UNCHANGED errorQueue
           /\ \/ /\ saga[o] = "None"
                 /\ Ready(o, "OrderCreated")
                 /\ Redeliver(o, {"PaymentRequested"})
              \/ /\ saga[o] = "AwaitingPayment"
                 /\ Ready(o, "PaymentCompleted")
                 /\ Redeliver(o, {"ShipmentRequested"})
              \/ /\ saga[o] = "AwaitingPayment"
                 /\ Ready(o, "PaymentFailed")
                 /\ Redeliver(o, {"OrderCancelled"})
              \/ /\ saga[o] = "AwaitingShipment"
                 /\ Ready(o, "ShipmentPrepared")
                 /\ Redeliver(o, {"OrderCompleted"})
              \/ /\ saga[o] = "AwaitingShipment"
                 /\ Ready(o, "ShipmentFailed")
                 /\ \/ Redeliver(o, {"PaymentRefunded"})
                    \/ Redeliver(o, {"PaymentRefunded", "OrderCancelled"})
<1>1. PICK n \in 1..Len(t.publishes) : Redeliver(o, Published(t, n))
    BY DEF CutOff
<1>2. CASE t = WhenOrderCreated
    <2>1. n = 1
        BY <1>1, <1>2, PublishedByTransition DEF Transitions, WhenOrderCreated, WhenShipmentFailed
    <2>2. QED
        BY <1>1, <1>2, <2>1, PublishedByTransition DEF CutOff, WhenOrderCreated
<1>3. CASE t = WhenPaymentCompleted
    <2>1. n = 1
        BY <1>1, <1>3, PublishedByTransition DEF Transitions, WhenPaymentCompleted, WhenShipmentFailed
    <2>2. QED
        BY <1>1, <1>3, <2>1, PublishedByTransition DEF CutOff, WhenPaymentCompleted
<1>4. CASE t = WhenPaymentFailed
    <2>1. n = 1
        BY <1>1, <1>4, PublishedByTransition DEF Transitions, WhenPaymentFailed, WhenShipmentFailed
    <2>2. QED
        BY <1>1, <1>4, <2>1, PublishedByTransition DEF CutOff, WhenPaymentFailed
<1>5. CASE t = WhenShipmentPrepared
    <2>1. n = 1
        BY <1>1, <1>5, PublishedByTransition DEF Transitions, WhenShipmentPrepared, WhenShipmentFailed
    <2>2. QED
        BY <1>1, <1>5, <2>1, PublishedByTransition DEF CutOff, WhenShipmentPrepared
<1>6. CASE t = WhenShipmentFailed
    <2>1. n = 1 \/ n = 2
        BY <1>1, <1>6, PublishedByTransition
    <2>2. QED
        BY <1>1, <1>6, <2>1, PublishedByTransition DEF CutOff, WhenShipmentFailed
<1>7. QED
    BY <1>2, <1>3, <1>4, <1>5, <1>6 DEF CutOff, Transitions

--------------------------------------------------------------------------------
(***************************************************************************)
(* Types.                                                                  *)
(***************************************************************************)

\* The program starts with all its variables in their types.
LEMMA InitType == Init => TypeOK
BY BusAssumption, RestartAssumption
   DEF Init, TypeOK, BusInit, BusTypeOK, SagaInit, SagaTypeOK, SagaStates, PaymentInit,
       PaymentTypeOK, ShipmentInit, ShipmentTypeOK, NotificationInit, NotificationTypeOK,
       OutboxInit, OutboxTypeOK

\* Every step of the process keeps every variable in its type: in particular a
\* consumer takes only a message that is there, so no count becomes negative.
LEMMA StepType == TypeOK /\ [Next]_vars => TypeOK'
<1> SUFFICES ASSUME TypeOK, [Next]_vars
             PROVE  TypeOK'
    OBVIOUS
<1>k. /\ SagaEvents \subseteq Kinds /\ Notices \subseteq Kinds
      /\ {"PaymentRequested", "ShipmentRequested"} \subseteq Kinds
    BY DEF SagaEvents, Kinds, Work, Notices
<1>1. ASSUME NEW o \in Orders, Intake(o)
      PROVE  TypeOK'
    <2>1. CASE PlaceOrder(o)
        <3>1. OutboxTypeOK'
            BY <2>1 DEF PlaceOrder, TypeOK, OutboxTypeOK
        <3>2. QED
            BY <1>1, <2>1, <3>1 DEF Intake, PlaceOrder, busVars, TypeOK, BusTypeOK, SagaTypeOK,
               PaymentTypeOK, ShipmentTypeOK, NotificationTypeOK
    <2>2. CASE RelayOutbox(o)
        <3>1. BusTypeOK'
            <4>1. CASE queue' = Exchange(o, {}, {"OrderCreated", "CreatedNotice"})
                       /\ UNCHANGED redeliveries
                BY <2>2, <4>1, ExchangeType DEF RelayOutbox, TypeOK, BusTypeOK
            <4>2. CASE Redeliver(o, {"OrderCreated", "CreatedNotice"})
                BY <2>2, <4>2, RedeliverType DEF RelayOutbox, TypeOK
            <4>3. QED
                BY <2>2, <4>1, <4>2 DEF RelayOutbox
        <3>2. OutboxTypeOK'
            BY <2>2 DEF RelayOutbox, TypeOK, OutboxTypeOK
        <3>3. QED
            BY <1>1, <3>1, <3>2 DEF Intake, TypeOK, SagaTypeOK, PaymentTypeOK, ShipmentTypeOK,
               NotificationTypeOK
    <2>3. QED
        BY <1>1, <2>1, <2>2 DEF Intake
<1>2. ASSUME NEW o \in Orders, Orchestrate(o)
      PROVE  TypeOK'
    <2>1. BusTypeOK' /\ SagaTypeOK'
        <3>1. ASSUME NEW t \in Transitions, Handle(o, t)
              PROVE  BusTypeOK' /\ SagaTypeOK'
            <4>1. BusTypeOK'
                BY <3>1, <1>k, HandleCases, ConsumeType DEF TypeOK, SagaEvents
            <4>2. SagaTypeOK'
                BY <3>1, HandleCases DEF TypeOK, SagaTypeOK, SagaStates
            <4>3. QED
                BY <4>1, <4>2
        <3>2. ASSUME NEW t \in Transitions, Interrupt(o, t)
              PROVE  BusTypeOK' /\ SagaTypeOK'
            BY <3>2, CutOffCases, RedeliverType DEF Interrupt, TypeOK, SagaTypeOK
        <3>3. ASSUME NEW k \in SagaEvents, DropUncorrelated(o, k)
              PROVE  BusTypeOK' /\ SagaTypeOK'
            BY <3>3, <1>k, ConsumeType DEF DropUncorrelated, TypeOK, SagaTypeOK
        <3>4. ASSUME NEW k \in SagaEvents, RejectUnexpected(o, k)
              PROVE  BusTypeOK' /\ SagaTypeOK'
            BY <3>4, <1>k, DeadLetterType DEF RejectUnexpected, TypeOK, SagaTypeOK
        <3>5. QED
            BY <1>2, <3>1, <3>2, <3>3, <3>4 DEF Orchestrate
    <2>2. QED
        BY <1>2, <2>1 DEF Orchestrate, outboxVars, TypeOK, PaymentTypeOK, ShipmentTypeOK,
           NotificationTypeOK, OutboxTypeOK
<1>3. ASSUME NEW o \in Orders, Pay(o)
      PROVE  TypeOK'
    <2>1. BusTypeOK'
        BY <1>3, <1>k, ConsumeType DEF Pay, Charge, Decline, TypeOK
    <2>2. PaymentTypeOK'
        BY <1>3 DEF Pay, Charge, Decline, TypeOK, PaymentTypeOK
    <2>3. QED
        BY <1>3, <2>1, <2>2 DEF Pay, outboxVars, TypeOK, SagaTypeOK, ShipmentTypeOK,
           NotificationTypeOK, OutboxTypeOK
<1>4. ASSUME NEW o \in Orders, Ship(o)
      PROVE  TypeOK'
    <2>1. BusTypeOK'
        BY <1>4, <1>k, ConsumeType DEF Ship, Prepare, RunOut, TypeOK
    <2>2. ShipmentTypeOK'
        BY <1>4 DEF Ship, Prepare, RunOut, TypeOK, ShipmentTypeOK
    <2>3. QED
        BY <1>4, <2>1, <2>2 DEF Ship, outboxVars, TypeOK, SagaTypeOK, PaymentTypeOK,
           NotificationTypeOK, OutboxTypeOK
<1>5. ASSUME NEW o \in Orders, Notify(o)
      PROVE  TypeOK'
    <2>1. PICK n \in Notices : SendEmail(o, n)
        BY <1>5 DEF Notify
    <2>2. BusTypeOK'
        BY <2>1, <1>k, ConsumeType DEF SendEmail, TypeOK
    <2>3. NotificationTypeOK'
        BY <2>1 DEF SendEmail, TypeOK, NotificationTypeOK
    <2>4. QED
        BY <1>5, <2>2, <2>3 DEF Notify, outboxVars, TypeOK, SagaTypeOK, PaymentTypeOK,
           ShipmentTypeOK, OutboxTypeOK
<1>6. CASE RestartOrderService
    <2>1. BusTypeOK'
        BY <1>6, CutOffCases, RedeliverType DEF RestartOrderService, busVars, TypeOK, BusTypeOK
    <2>2. SagaTypeOK' /\ OutboxTypeOK'
        BY <1>6 DEF RestartOrderService, LoseInstances, LoseOutbox, TypeOK, SagaTypeOK, SagaStates,
           OutboxTypeOK
    <2>3. (restarts \in 0..MaxRestarts)'
        BY <1>6, RestartAssumption DEF RestartOrderService, TypeOK
    <2>4. QED
        BY <1>6, <2>1, <2>2, <2>3 DEF RestartOrderService, TypeOK, PaymentTypeOK, ShipmentTypeOK,
           NotificationTypeOK
<1>7. CASE UNCHANGED vars
    BY <1>7 DEF vars, TypeOK, BusTypeOK, SagaTypeOK, PaymentTypeOK, ShipmentTypeOK,
       NotificationTypeOK, OutboxTypeOK
<1>8. QED
    BY <1>1, <1>2, <1>3, <1>4, <1>5, <1>6, <1>7 DEF Next

\* All variables of the process stay in their types, for any number of orders
\* and any bound on repeated deliveries and restarts.
THEOREM TypeCorrect == Spec => []TypeOK
BY InitType, StepType, PTL DEF Spec


--------------------------------------------------------------------------------
(***************************************************************************)
(* The invariant that survives repeated deliveries and restarts.           *)
(***************************************************************************)

FaultAt(o) == Served(o) /\ Conserved(o) /\ Grounded(o)

\* An order that a step leaves alone keeps the invariant, even if the step is a
\* restart that removes its instance and its outbox row.
LEMMA FaultFrame ==
    ASSUME TypeOK, TypeOK', NEW p \in Orders, FaultAt(p),
           queue'[p] = queue[p], captures'[p] = captures[p], parcels'[p] = parcels[p],
           emails'[p] = emails[p], saga'[p] \in {saga[p], "None"},
           p \in placed => p \in placed', p \in outbox' => p \in outbox,
           redeliveries' >= redeliveries
    PROVE  FaultAt(p)'
<1>1. Served(p)'
    BY DEF FaultAt, Served, Ready
<1>2. Conserved(p)'
    <2>1. /\ queue[p]["OrderCreated"] \in Nat /\ queue[p]["PaymentRequested"] \in Nat
          /\ queue[p]["PaymentCompleted"] \in Nat /\ queue[p]["ShipmentRequested"] \in Nat
          /\ captures[p] \in Nat /\ parcels[p] \in Nat
          /\ redeliveries \in Nat /\ redeliveries' \in Nat
        BY DEF TypeOK, BusTypeOK, PaymentTypeOK, ShipmentTypeOK, Kinds, Work
    <2>2. QED
        BY <2>1 DEF FaultAt, Conserved, One
<1>3. Grounded(p)'
    BY DEF FaultAt, Grounded, Ready, Announced
<1>4. QED
    BY <1>1, <1>2, <1>3 DEF FaultAt

\* The counts that the invariant adds up.
LEMMA Counts ==
    ASSUME TypeOK, NEW o \in Orders
    PROVE  /\ \A k \in Kinds : queue[o][k] \in Nat
           /\ \A n \in Notices : emails[o][n] \in Nat
           /\ captures[o] \in Nat /\ parcels[o] \in Nat /\ redeliveries \in Nat
BY DEF TypeOK, BusTypeOK, PaymentTypeOK, ShipmentTypeOK, NotificationTypeOK

\* The eleven kinds of messages are different and all of them are kinds.
LEMMA AllKinds ==
    Kinds = {"OrderCreated", "PaymentRequested", "PaymentCompleted", "PaymentFailed",
             "ShipmentRequested", "ShipmentPrepared", "ShipmentFailed",
             "CreatedNotice", "OrderCompleted", "OrderCancelled", "PaymentRefunded"}
BY DEF Kinds, Work, Notices

\* Accepting and relaying an order keeps what may still be charged within bounds.
LEMMA FaultIntake ==
    ASSUME TypeOK, NEW o \in Orders, FaultAt(o), Intake(o)
    PROVE  FaultAt(o)'
<1>b. BusTypeOK
    BY DEF TypeOK
<1>1. CASE PlaceOrder(o)
    BY <1>1, Counts, AllKinds
       DEF Intake, PlaceOrder, busVars, FaultAt, Served, Conserved, Grounded, Ready, Announced, One,
           TypeOK, OutboxTypeOK
<1>2. CASE RelayOutbox(o)
    <2>1. \E again \in 0..1 :
            /\ redeliveries' = redeliveries + again
            /\ One(o \in outbox') <= One(o \in outbox) - 1 + again
            /\ \A j \in Kinds : queue'[o][j] = queue[o][j] +
                   (IF j \in {"OrderCreated", "CreatedNotice"} THEN 1 ELSE 0)
        <3>1. CASE queue' = Exchange(o, {}, {"OrderCreated", "CreatedNotice"})
                   /\ outbox' = outbox \ {o} /\ UNCHANGED redeliveries
            BY <1>2, <1>b, <3>1, ExchangeAt, Counts DEF RelayOutbox, One
        <3>2. CASE Redeliver(o, {"OrderCreated", "CreatedNotice"}) /\ UNCHANGED outbox
            BY <1>2, <1>b, <3>2, RedeliverAt DEF RelayOutbox, One
        <3>3. QED
            BY <1>2, <3>1, <3>2 DEF RelayOutbox
    <2>2. Served(o)'
        BY <1>2, <2>1, Counts, AllKinds DEF Intake, FaultAt, Served, Ready
    <2>3. Conserved(o)'
        BY <1>2, <2>1, Counts, AllKinds DEF Intake, RelayOutbox, FaultAt, Conserved, One
    <2>4. Grounded(o)'
        BY <1>2, <2>1, Counts, AllKinds DEF Intake, FaultAt, Grounded, Ready, Announced
    <2>5. QED
        BY <2>2, <2>3, <2>4 DEF FaultAt
<1>3. QED
    BY <1>1, <1>2 DEF Intake

\* PaymentService passes the token of an order on, charged or declined.
LEMMA FaultPay ==
    ASSUME TypeOK, NEW o \in Orders, FaultAt(o), Pay(o)
    PROVE  FaultAt(o)'
<1>b. BusTypeOK
    BY DEF TypeOK
<1>k. "PaymentRequested" \in Kinds
    BY AllKinds
<1>u. UNCHANGED saga
    BY DEF Pay
<1>1. CASE Charge(o)
    <2>1. PICK again \in 0..1 :
            /\ redeliveries' = redeliveries + again
            /\ \A j \in Kinds :
                 queue'[o][j] = (queue[o][j] + (IF j \in {"PaymentCompleted"} THEN 1 ELSE 0))
                                  - (IF j = "PaymentRequested" THEN 1 - again ELSE 0)
        BY <1>b, <1>k, <1>1, ConsumeAt DEF Charge
    <2>2. captures'[o] = captures[o] + 1 /\ queue[o]["PaymentRequested"] > 0
        BY <1>b, <1>k, <1>1, ConsumeAt DEF Charge, TypeOK, PaymentTypeOK
    <2>3. Served(o)'
        BY <1>u, <2>1, Counts, AllKinds DEF FaultAt, Served, Ready
    <2>4. Conserved(o)'
        BY <1>1, <2>1, <2>2, Counts, AllKinds DEF Pay, outboxVars, FaultAt, Conserved, One
    <2>5. Grounded(o)'
        BY <1>1, <2>1, <2>2, Counts, AllKinds DEF Pay, outboxVars, FaultAt, Grounded, Ready, Announced
    <2>6. QED
        BY <2>3, <2>4, <2>5 DEF FaultAt
<1>2. CASE Decline(o)
    <2>1. PICK again \in 0..1 :
            /\ redeliveries' = redeliveries + again
            /\ \A j \in Kinds :
                 queue'[o][j] = (queue[o][j] + (IF j \in {"PaymentFailed"} THEN 1 ELSE 0))
                                  - (IF j = "PaymentRequested" THEN 1 - again ELSE 0)
        BY <1>b, <1>k, <1>2, ConsumeAt DEF Decline
    <2>2. captures'[o] = captures[o] /\ queue[o]["PaymentRequested"] > 0
        BY <1>b, <1>k, <1>2, ConsumeAt DEF Decline
    <2>3. Served(o)'
        BY <1>u, <2>1, Counts, AllKinds DEF FaultAt, Served, Ready
    <2>4. Conserved(o)'
        BY <1>2, <2>1, <2>2, Counts, AllKinds DEF Pay, outboxVars, FaultAt, Conserved, One
    <2>5. Grounded(o)'
        BY <1>2, <2>1, <2>2, Counts, AllKinds DEF Pay, outboxVars, FaultAt, Grounded, Ready, Announced
    <2>6. QED
        BY <2>3, <2>4, <2>5 DEF FaultAt
<1>3. QED
    BY <1>1, <1>2 DEF Pay

\* ShipmentService passes it on, with a parcel or without.
LEMMA FaultShip ==
    ASSUME TypeOK, NEW o \in Orders, FaultAt(o), Ship(o)
    PROVE  FaultAt(o)'
<1>b. BusTypeOK
    BY DEF TypeOK
<1>k. "ShipmentRequested" \in Kinds
    BY AllKinds
<1>u. UNCHANGED saga
    BY DEF Ship
<1>1. CASE Prepare(o)
    <2>1. PICK again \in 0..1 :
            /\ redeliveries' = redeliveries + again
            /\ \A j \in Kinds :
                 queue'[o][j] = (queue[o][j] + (IF j \in {"ShipmentPrepared"} THEN 1 ELSE 0))
                                  - (IF j = "ShipmentRequested" THEN 1 - again ELSE 0)
        BY <1>b, <1>k, <1>1, ConsumeAt DEF Prepare
    <2>2. parcels'[o] = parcels[o] + 1 /\ queue[o]["ShipmentRequested"] > 0
        BY <1>b, <1>k, <1>1, ConsumeAt DEF Prepare, TypeOK, ShipmentTypeOK
    <2>3. Served(o)'
        BY <1>u, <2>1, Counts, AllKinds DEF FaultAt, Served, Ready
    <2>4. Conserved(o)'
        BY <1>1, <2>1, <2>2, Counts, AllKinds DEF Ship, outboxVars, FaultAt, Conserved, One
    <2>5. Grounded(o)'
        BY <1>1, <2>1, <2>2, Counts, AllKinds DEF Ship, outboxVars, FaultAt, Grounded, Ready, Announced
    <2>6. QED
        BY <2>3, <2>4, <2>5 DEF FaultAt
<1>2. CASE RunOut(o)
    <2>1. PICK again \in 0..1 :
            /\ redeliveries' = redeliveries + again
            /\ \A j \in Kinds :
                 queue'[o][j] = (queue[o][j] + (IF j \in {"ShipmentFailed"} THEN 1 ELSE 0))
                                  - (IF j = "ShipmentRequested" THEN 1 - again ELSE 0)
        BY <1>b, <1>k, <1>2, ConsumeAt DEF RunOut
    <2>2. parcels'[o] = parcels[o] /\ queue[o]["ShipmentRequested"] > 0
        BY <1>b, <1>k, <1>2, ConsumeAt DEF RunOut
    <2>3. Served(o)'
        BY <1>u, <2>1, Counts, AllKinds DEF FaultAt, Served, Ready
    <2>4. Conserved(o)'
        BY <1>2, <2>1, <2>2, Counts, AllKinds DEF Ship, outboxVars, FaultAt, Conserved, One
    <2>5. Grounded(o)'
        BY <1>2, <2>1, <2>2, Counts, AllKinds DEF Ship, outboxVars, FaultAt, Grounded, Ready, Announced
    <2>6. QED
        BY <2>3, <2>4, <2>5 DEF FaultAt
<1>3. QED
    BY <1>1, <1>2 DEF Ship

\* Reading a notice changes only whether it is on its way or read.
LEMMA FaultNotify ==
    ASSUME TypeOK, NEW o \in Orders, FaultAt(o), Notify(o)
    PROVE  FaultAt(o)'
<1>1. PICK n \in Notices : SendEmail(o, n)
    BY DEF Notify
<1>2. BusTypeOK /\ n \in Kinds
    BY DEF TypeOK, Kinds
<1>3. PICK again \in 0..1 :
        /\ redeliveries' = redeliveries + again
        /\ \A j \in Kinds :
             queue'[o][j] = (queue[o][j] + (IF j \in {} THEN 1 ELSE 0))
                              - (IF j = n THEN 1 - again ELSE 0)
    BY <1>1, <1>2, ConsumeAt DEF SendEmail
<1>4. \A m \in Notices : emails'[o][m] = emails[o][m] + (IF m = n THEN 1 ELSE 0)
    BY <1>1, Counts DEF SendEmail, TypeOK, NotificationTypeOK
<1>5. queue[o][n] > 0
    BY <1>1, <1>2, ConsumeAt DEF SendEmail
<1>6. Served(o)'
    BY <1>3, Counts, AllKinds DEF Notify, FaultAt, Served, Ready, Notices
<1>7. Conserved(o)'
    BY <1>3, Counts, AllKinds DEF Notify, outboxVars, FaultAt, Conserved, One, Notices
<1>8. Grounded(o)'
    BY <1>3, <1>4, <1>5, Counts, AllKinds DEF Notify, FaultAt, Grounded, Ready, Announced, Notices
<1>9. QED
    BY <1>6, <1>7, <1>8 DEF FaultAt

\* Each transition of the saga sends what its new state waits for.
LEMMA FaultHandle ==
    ASSUME TypeOK, NEW o \in Orders, FaultAt(o),
           NEW t \in Transitions, Handle(o, t), UNCHANGED <<captures, parcels, emails, outboxVars>>
    PROVE  FaultAt(o)'
<1>b. BusTypeOK
    BY DEF TypeOK
<1>k. SagaEvents \subseteq Kinds
    BY AllKinds DEF SagaEvents
<1> USE DEF outboxVars
<1>1. CASE /\ saga[o] = "None"
           /\ Consume(o, "OrderCreated", {"PaymentRequested"})
           /\ saga' = [saga EXCEPT ![o] = "AwaitingPayment"]
    <2>1. PICK again \in 0..1 :
            /\ redeliveries' = redeliveries + again
            /\ \A j \in Kinds :
                 queue'[o][j] = (queue[o][j] + (IF j \in {"PaymentRequested"} THEN 1 ELSE 0))
                                  - (IF j = "OrderCreated" THEN 1 - again ELSE 0)
        BY <1>b, <1>k, <1>1, ConsumeAt DEF SagaEvents
    <2>2. saga'[o] = "AwaitingPayment" /\ queue[o]["OrderCreated"] > 0
        BY <1>b, <1>k, <1>1, ConsumeAt DEF SagaEvents, TypeOK, SagaTypeOK
    <2>3. Served(o)'
        BY <2>1, <2>2, Counts, AllKinds DEF FaultAt, Served, Ready
    <2>4. Conserved(o)'
        BY <1>1, <2>1, <2>2, Counts, AllKinds DEF FaultAt, Conserved, One
    <2>5. Grounded(o)'
        BY <1>1, <2>1, <2>2, Counts, AllKinds DEF FaultAt, Grounded, Ready, Announced
    <2>6. QED
        BY <2>3, <2>4, <2>5 DEF FaultAt
<1>2. CASE /\ saga[o] = "AwaitingPayment"
           /\ Consume(o, "PaymentCompleted", {"ShipmentRequested"})
           /\ saga' = [saga EXCEPT ![o] = "AwaitingShipment"]
    <2>1. PICK again \in 0..1 :
            /\ redeliveries' = redeliveries + again
            /\ \A j \in Kinds :
                 queue'[o][j] = (queue[o][j] + (IF j \in {"ShipmentRequested"} THEN 1 ELSE 0))
                                  - (IF j = "PaymentCompleted" THEN 1 - again ELSE 0)
        BY <1>b, <1>k, <1>2, ConsumeAt DEF SagaEvents
    <2>2. saga'[o] = "AwaitingShipment" /\ queue[o]["PaymentCompleted"] > 0
        BY <1>b, <1>k, <1>2, ConsumeAt DEF SagaEvents, TypeOK, SagaTypeOK
    <2>3. Served(o)'
        BY <2>1, <2>2, Counts, AllKinds DEF FaultAt, Served, Ready
    <2>4. Conserved(o)'
        BY <1>2, <2>1, <2>2, Counts, AllKinds DEF FaultAt, Conserved, One
    <2>5. Grounded(o)'
        BY <1>2, <2>1, <2>2, Counts, AllKinds DEF FaultAt, Grounded, Ready, Announced
    <2>6. QED
        BY <2>3, <2>4, <2>5 DEF FaultAt
<1>3. CASE /\ saga[o] = "AwaitingPayment"
           /\ Consume(o, "PaymentFailed", {"OrderCancelled"})
           /\ saga' = [saga EXCEPT ![o] = "None"]
    <2>1. PICK again \in 0..1 :
            /\ redeliveries' = redeliveries + again
            /\ \A j \in Kinds :
                 queue'[o][j] = (queue[o][j] + (IF j \in {"OrderCancelled"} THEN 1 ELSE 0))
                                  - (IF j = "PaymentFailed" THEN 1 - again ELSE 0)
        BY <1>b, <1>k, <1>3, ConsumeAt DEF SagaEvents
    <2>2. saga'[o] = "None" /\ queue[o]["PaymentFailed"] > 0
        BY <1>b, <1>k, <1>3, ConsumeAt DEF SagaEvents, TypeOK, SagaTypeOK
    <2>3. Served(o)'
        BY <2>1, <2>2, Counts, AllKinds DEF FaultAt, Served, Ready
    <2>4. Conserved(o)'
        BY <1>3, <2>1, <2>2, Counts, AllKinds DEF FaultAt, Conserved, One
    <2>5. Grounded(o)'
        BY <1>3, <2>1, <2>2, Counts, AllKinds DEF FaultAt, Grounded, Ready, Announced
    <2>6. QED
        BY <2>3, <2>4, <2>5 DEF FaultAt
<1>4. CASE /\ saga[o] = "AwaitingShipment"
           /\ Consume(o, "ShipmentPrepared", {"OrderCompleted"})
           /\ saga' = [saga EXCEPT ![o] = "None"]
    <2>1. PICK again \in 0..1 :
            /\ redeliveries' = redeliveries + again
            /\ \A j \in Kinds :
                 queue'[o][j] = (queue[o][j] + (IF j \in {"OrderCompleted"} THEN 1 ELSE 0))
                                  - (IF j = "ShipmentPrepared" THEN 1 - again ELSE 0)
        BY <1>b, <1>k, <1>4, ConsumeAt DEF SagaEvents
    <2>2. saga'[o] = "None" /\ queue[o]["ShipmentPrepared"] > 0
        BY <1>b, <1>k, <1>4, ConsumeAt DEF SagaEvents, TypeOK, SagaTypeOK
    <2>3. Served(o)'
        BY <2>1, <2>2, Counts, AllKinds DEF FaultAt, Served, Ready
    <2>4. Conserved(o)'
        BY <1>4, <2>1, <2>2, Counts, AllKinds DEF FaultAt, Conserved, One
    <2>5. Grounded(o)'
        BY <1>4, <2>1, <2>2, Counts, AllKinds DEF FaultAt, Grounded, Ready, Announced
    <2>6. QED
        BY <2>3, <2>4, <2>5 DEF FaultAt
<1>5. CASE /\ saga[o] = "AwaitingShipment"
           /\ Consume(o, "ShipmentFailed", {"PaymentRefunded", "OrderCancelled"})
           /\ saga' = [saga EXCEPT ![o] = "None"]
    <2>1. PICK again \in 0..1 :
            /\ redeliveries' = redeliveries + again
            /\ \A j \in Kinds :
                 queue'[o][j] = (queue[o][j] + (IF j \in {"PaymentRefunded", "OrderCancelled"} THEN 1 ELSE 0))
                                  - (IF j = "ShipmentFailed" THEN 1 - again ELSE 0)
        BY <1>b, <1>k, <1>5, ConsumeAt DEF SagaEvents
    <2>2. saga'[o] = "None" /\ queue[o]["ShipmentFailed"] > 0
        BY <1>b, <1>k, <1>5, ConsumeAt DEF SagaEvents, TypeOK, SagaTypeOK
    <2>3. Served(o)'
        BY <2>1, <2>2, Counts, AllKinds DEF FaultAt, Served, Ready
    <2>4. Conserved(o)'
        BY <1>5, <2>1, <2>2, Counts, AllKinds DEF FaultAt, Conserved, One
    <2>5. Grounded(o)'
        BY <1>5, <2>1, <2>2, Counts, AllKinds DEF FaultAt, Grounded, Ready, Announced
    <2>6. QED
        BY <2>3, <2>4, <2>5 DEF FaultAt
<1>6. QED
    BY <1>1, <1>2, <1>3, <1>4, <1>5, HandleCases

\* A part of what a transition publishes is out while its event stays.
LEMMA FaultCutOff ==
    ASSUME TypeOK, NEW o \in Orders, FaultAt(o), NEW t \in Transitions, CutOff(o, t),
           UNCHANGED <<captures, parcels, emails, placed>>,
           outbox' \subseteq outbox, saga'[o] \in {saga[o], "None"}
    PROVE  FaultAt(o)'
<1>b. BusTypeOK
    BY DEF TypeOK
<1>1. PICK sent :
        /\ redeliveries' = redeliveries + 1
        /\ \A j \in Kinds : queue'[o][j] = queue[o][j] + (IF j \in sent THEN 1 ELSE 0)
        /\ \/ saga[o] = "None" /\ sent = {"PaymentRequested"}
           \/ /\ saga[o] = "AwaitingPayment" /\ queue[o]["PaymentCompleted"] > 0
              /\ sent = {"ShipmentRequested"}
           \/ saga[o] = "AwaitingPayment" /\ sent = {"OrderCancelled"}
           \/ /\ saga[o] = "AwaitingShipment" /\ queue[o]["ShipmentPrepared"] > 0
              /\ sent = {"OrderCompleted"}
           \/ /\ saga[o] = "AwaitingShipment"
              /\ \/ sent = {"PaymentRefunded"}
                 \/ sent = {"PaymentRefunded", "OrderCancelled"}
    BY <1>b, CutOffCases, RedeliverAt DEF Ready
<1>2. Served(o)'
    BY <1>1, Counts, AllKinds DEF FaultAt, Served, Ready
<1>3. Conserved(o)'
    BY <1>1, Counts, AllKinds DEF FaultAt, Conserved, One
<1>4. Grounded(o)'
    BY <1>1, Counts, AllKinds DEF FaultAt, Grounded, Ready, Announced
<1>5. QED
    BY <1>2, <1>3, <1>4 DEF FaultAt

\* A message the saga drops or rejects is none that its state waits for.
LEMMA FaultUnused ==
    ASSUME TypeOK, NEW o \in Orders, FaultAt(o), NEW k \in SagaEvents,
           DropUncorrelated(o, k) \/ RejectUnexpected(o, k),
           UNCHANGED <<captures, parcels, emails, outboxVars>>
    PROVE  FaultAt(o)'
<1>k. BusTypeOK /\ k \in Kinds
    BY AllKinds DEF TypeOK, SagaEvents
<1>1. PICK again \in 0..1 :
        /\ redeliveries' = redeliveries + again
        /\ \A j \in Kinds :
             queue'[o][j] = queue[o][j] - (IF j = k THEN 1 - again ELSE 0)
    <2>1. CASE DropUncorrelated(o, k)
        <3>1. Consume(o, k, {})
            BY <2>1 DEF DropUncorrelated
        <3>2. QED
            BY <1>k, <3>1, ConsumeAt, Counts
    <2>2. CASE RejectUnexpected(o, k)
        <3>1. DeadLetter(o, k)
            BY <2>2 DEF RejectUnexpected
        <3>2. queue' = Exchange(o, {k}, {}) /\ redeliveries' = redeliveries
            BY <3>1 DEF DeadLetter, Acknowledge
        <3>3. \A j \in Kinds : queue'[o][j] = queue[o][j] - (IF j = k THEN 1 ELSE 0)
            <4>1. \A j \in Kinds :
                    queue'[o][j] = (queue[o][j] + (IF j \in {} THEN 1 ELSE 0))
                                       - (IF j \in {k} THEN 1 ELSE 0)
                BY <1>k, <3>2, ExchangeAt
            <4>2. QED
                BY <4>1, Counts
        <3>4. redeliveries' = redeliveries + 0 /\ 0 \in 0..1
            BY <3>2, Counts
        <3>5. QED
            BY <3>3, <3>4
    <2>3. QED
        BY <2>1, <2>2
<1>2. /\ UNCHANGED saga
      /\ saga[o] = "AwaitingPayment" => k \notin {"PaymentCompleted", "PaymentFailed"}
      /\ saga[o] = "AwaitingShipment" => k \notin {"ShipmentPrepared", "ShipmentFailed"}
      /\ k # "PaymentRequested" /\ k # "ShipmentRequested"
    BY DEF DropUncorrelated, RejectUnexpected, Transitions, WhenPaymentCompleted,
           WhenPaymentFailed, WhenShipmentPrepared, WhenShipmentFailed, SagaEvents
<1>3. Served(o)'
    BY <1>1, <1>2, Counts, AllKinds DEF FaultAt, Served, Ready
<1>4. Conserved(o)'
    BY <1>1, <1>2, Counts, AllKinds DEF FaultAt, Conserved, One, outboxVars
<1>5. Grounded(o)'
    BY <1>1, <1>2, Counts, AllKinds DEF FaultAt, Grounded, Ready, Announced
<1>6. QED
    BY <1>3, <1>4, <1>5 DEF FaultAt

\* So every step of the saga keeps the invariant of its order.
LEMMA FaultOrchestrate ==
    ASSUME TypeOK, NEW o \in Orders, FaultAt(o), Orchestrate(o)
    PROVE  FaultAt(o)'
<1>1. ASSUME NEW t \in Transitions, Handle(o, t)
      PROVE  FaultAt(o)'
    BY <1>1, FaultHandle DEF Orchestrate
<1>2. ASSUME NEW t \in Transitions, Interrupt(o, t)
      PROVE  FaultAt(o)'
    BY <1>2, FaultCutOff DEF Orchestrate, Interrupt, outboxVars
<1>3. ASSUME NEW k \in SagaEvents, DropUncorrelated(o, k) \/ RejectUnexpected(o, k)
      PROVE  FaultAt(o)'
    BY <1>3, FaultUnused DEF Orchestrate
<1>4. QED
    BY <1>1, <1>2, <1>3 DEF Orchestrate

\* The other orders see of a step at most that the total of repetitions grows.
LEMMA OthersUntouched ==
    ASSUME TypeOK, NEW o \in Orders, NEW p \in Orders \ {o},
           Intake(o) \/ Orchestrate(o) \/ Pay(o) \/ Ship(o) \/ Notify(o)
    PROVE  /\ queue'[p] = queue[p] /\ captures'[p] = captures[p] /\ parcels'[p] = parcels[p]
           /\ emails'[p] = emails[p] /\ saga'[p] = saga[p]
           /\ (p \in placed) = (p \in placed') /\ (p \in outbox) = (p \in outbox')
           /\ redeliveries' >= redeliveries
<1>b. BusTypeOK
    BY DEF TypeOK
<1>n. redeliveries \in Nat
    BY Counts
<1>1. CASE Intake(o)
    <2>1. CASE PlaceOrder(o)
        BY <1>1, <1>n, <2>1 DEF Intake, PlaceOrder, busVars
    <2>2. CASE RelayOutbox(o)
        <3>1. queue'[p] = queue[p] /\ redeliveries' >= redeliveries
            BY <1>b, <1>n, <2>2, ExchangeAt, RedeliverAt DEF RelayOutbox
        <3>2. QED
            BY <1>1, <2>2, <3>1 DEF Intake, RelayOutbox
    <2>3. QED
        BY <1>1, <2>1, <2>2 DEF Intake
<1>2. CASE Orchestrate(o)
    <2>k. SagaEvents \subseteq Kinds
        BY AllKinds DEF SagaEvents
    <2>1. queue'[p] = queue[p] /\ saga'[p] = saga[p] /\ redeliveries' >= redeliveries
        <3>1. ASSUME NEW t \in Transitions, Handle(o, t)
              PROVE  queue'[p] = queue[p] /\ saga'[p] = saga[p] /\ redeliveries' >= redeliveries
            <4>1. saga'[p] = saga[p]
                BY <3>1 DEF Handle, TypeOK, SagaTypeOK
            <4>2. Consume(o, t.event, Published(t, Len(t.publishes))) /\ t.event \in SagaEvents
                BY <3>1 DEF Handle, SagaEvents, Transitions, WhenOrderCreated, WhenPaymentCompleted,
                   WhenPaymentFailed, WhenShipmentPrepared, WhenShipmentFailed
            <4>3. QED
                BY <1>b, <1>n, <2>k, <4>1, <4>2, ConsumeAt
        <3>2. ASSUME NEW t \in Transitions, Interrupt(o, t)
              PROVE  queue'[p] = queue[p] /\ saga'[p] = saga[p] /\ redeliveries' >= redeliveries
            BY <1>b, <1>n, <3>2, RedeliverAt DEF Interrupt, CutOff
        <3>3. ASSUME NEW k \in SagaEvents, DropUncorrelated(o, k)
              PROVE  queue'[p] = queue[p] /\ saga'[p] = saga[p] /\ redeliveries' >= redeliveries
            BY <1>b, <1>n, <2>k, <3>3, ConsumeAt DEF DropUncorrelated
        <3>4. ASSUME NEW k \in SagaEvents, RejectUnexpected(o, k)
              PROVE  queue'[p] = queue[p] /\ saga'[p] = saga[p] /\ redeliveries' >= redeliveries
            <4>1. UNCHANGED saga /\ DeadLetter(o, k)
                BY <3>4 DEF RejectUnexpected
            <4>2. queue' = Exchange(o, {k}, {}) /\ UNCHANGED redeliveries
                BY <4>1 DEF DeadLetter, Acknowledge
            <4>3. queue'[p] = queue[p]
                BY <1>b, <4>2, ExchangeAt
            <4>4. QED
                BY <1>n, <4>1, <4>2, <4>3
        <3>5. QED
            BY <1>2, <3>1, <3>2, <3>3, <3>4 DEF Orchestrate
    <2>2. QED
        BY <1>2, <2>1 DEF Orchestrate, outboxVars
<1>3. CASE Pay(o)
    <2>1. PICK sent : Consume(o, "PaymentRequested", sent)
        BY <1>3 DEF Pay, Charge, Decline
    <2>2. queue'[p] = queue[p] /\ redeliveries' >= redeliveries
        BY <1>b, <1>n, <2>1, ConsumeAt, AllKinds
    <2>3. QED
        BY <1>3, <2>2 DEF Pay, Charge, Decline, outboxVars, TypeOK, PaymentTypeOK
<1>4. CASE Ship(o)
    <2>1. PICK sent : Consume(o, "ShipmentRequested", sent)
        BY <1>4 DEF Ship, Prepare, RunOut
    <2>2. queue'[p] = queue[p] /\ redeliveries' >= redeliveries
        BY <1>b, <1>n, <2>1, ConsumeAt, AllKinds
    <2>3. QED
        BY <1>4, <2>2 DEF Ship, Prepare, RunOut, outboxVars, TypeOK, ShipmentTypeOK
<1>5. CASE Notify(o)
    <2>1. PICK n \in Notices : SendEmail(o, n)
        BY <1>5 DEF Notify
    <2>2. Consume(o, n, {}) /\ n \in Kinds
        BY <2>1 DEF SendEmail, Kinds
    <2>3. queue'[p] = queue[p] /\ redeliveries' >= redeliveries
        BY <1>b, <1>n, <2>2, ConsumeAt
    <2>4. QED
        BY <1>5, <2>1, <2>3 DEF Notify, SendEmail, outboxVars, TypeOK, NotificationTypeOK
<1>6. QED
    BY <1>1, <1>2, <1>3, <1>4, <1>5

\* A restart forgets the instances and the outbox, so nobody waits any more.
LEMMA FaultRestart ==
    ASSUME TypeOK, TypeOK', RestartOrderService, \A o \in Orders : FaultAt(o)
    PROVE  \A o \in Orders : FaultAt(o)'
<1>1. SUFFICES ASSUME NEW p \in Orders
               PROVE  FaultAt(p)'
    OBVIOUS
<1>2. /\ UNCHANGED <<captures, parcels, emails, placed>>
      /\ saga'[p] = "None" /\ outbox' \subseteq outbox
    BY DEF RestartOrderService, LoseInstances, LoseOutbox
<1>3. CASE UNCHANGED busVars
    BY <1>2, <1>3, FaultFrame, Counts DEF busVars
<1>4. ASSUME NEW o \in Orders, NEW t \in Transitions, CutOff(o, t)
      PROVE  FaultAt(p)'
    <2>1. CASE o = p
        BY <1>2, <1>4, <2>1, FaultCutOff
    <2>2. CASE o # p
        <3>1. queue'[p] = queue[p] /\ redeliveries' >= redeliveries
            BY <1>4, <2>2, RedeliverAt, Counts DEF CutOff, TypeOK
        <3>2. QED
            BY <1>2, <3>1, FaultFrame
    <2>3. QED
        BY <2>1, <2>2
<1>5. QED
    BY <1>3, <1>4 DEF RestartOrderService

\* Nothing is charged, sent or waited for in the beginning.
LEMMA InitFault == Init => FaultInv
<1> SUFFICES ASSUME Init
             PROVE  FaultInv
    OBVIOUS
<1>1. TypeOK
    BY InitType
<1>2. ASSUME NEW o \in Orders
      PROVE  Served(o) /\ Conserved(o) /\ Grounded(o)
    <2>1. \A k \in Kinds : queue[o][k] = 0
        BY DEF Init, BusInit
    <2>2. saga[o] = "None" /\ captures[o] = 0 /\ parcels[o] = 0 /\ redeliveries = 0
        BY DEF Init, BusInit, SagaInit, PaymentInit, ShipmentInit
    <2>3. \A n \in Notices : emails[o][n] = 0
        BY DEF Init, NotificationInit
    <2>4. o \notin outbox /\ o \notin placed
        BY DEF Init, OutboxInit
    <2>5. QED
        BY <2>1, <2>2, <2>3, <2>4, AllKinds
           DEF Served, Conserved, Grounded, Ready, Announced, One, Notices
<1>3. QED
    BY <1>1, <1>2 DEF FaultInv, NeverWaitsInVain

\* The invariant is inductive: one order moves, the others keep theirs.
LEMMA StepFault == FaultInv /\ [Next]_vars => FaultInv'
<1> SUFFICES ASSUME FaultInv, [Next]_vars
             PROVE  FaultInv'
    OBVIOUS
<1>1. TypeOK /\ \A p \in Orders : FaultAt(p)
    BY DEF FaultInv, NeverWaitsInVain, FaultAt
<1>2. TypeOK'
    BY <1>1, StepType
<1>3. ASSUME NEW p \in Orders
      PROVE  FaultAt(p)'
    <2>1. ASSUME NEW o \in Orders,
                 Intake(o) \/ Orchestrate(o) \/ Pay(o) \/ Ship(o) \/ Notify(o)
          PROVE  FaultAt(p)'
        <3>1. CASE o = p
            BY <1>1, <2>1, <3>1, FaultIntake, FaultOrchestrate, FaultPay, FaultShip, FaultNotify
        <3>2. CASE o # p
            BY <1>1, <1>2, <2>1, <3>2, OthersUntouched, FaultFrame
        <3>3. QED
            BY <3>1, <3>2
    <2>2. CASE RestartOrderService
        BY <1>1, <1>2, <2>2, FaultRestart
    <2>3. CASE UNCHANGED vars
        BY <1>1, <1>2, <2>3, FaultFrame, Counts DEF vars
    <2>4. QED
        BY <2>1, <2>2, <2>3 DEF Next
<1>4. QED
    BY <1>2, <1>3 DEF FaultInv, NeverWaitsInVain, FaultAt

\* Hence it holds in every reachable state.
LEMMA FaultInvariant == Spec => []FaultInv
BY InitFault, StepFault, PTL DEF Spec

--------------------------------------------------------------------------------
(***************************************************************************)
(* What follows from it.                                                   *)
(***************************************************************************)

\* No saga instance is ever stored without the message that will wake it up in
\* the broker, whatever is repeated and however often OrderService restarts.
THEOREM NoVainWait == Spec => []NeverWaitsInVain
<1>1. FaultInv => NeverWaitsInVain
    BY DEF FaultInv
<1>2. QED
    BY <1>1, FaultInvariant, PTL

\* No parcel is prepared for an order that was never charged.
THEOREM ParcelsArePaid == Spec => []ShipsOnlyPaid
<1>1. FaultInv => ShipsOnlyPaid
    BY Counts DEF FaultInv, Grounded, ShipsOnlyPaid
<1>2. QED
    BY <1>1, FaultInvariant, PTL

\* No customer reads of a delivery or a refund that has nothing behind it.
THEOREM NewsIsAlwaysTrue == Spec => []NewsIsTrue
<1>1. FaultInv => NewsIsTrue
    <2>1. ASSUME FaultInv, NEW o \in Orders
          PROVE  /\ Announced(o, "OrderCompleted") => parcels[o] > 0
                 /\ Announced(o, "PaymentRefunded") => captures[o] > 0
        <3>1. Grounded(o) /\ captures[o] \in Nat /\ parcels[o] \in Nat
            BY <2>1, Counts DEF FaultInv
        <3>2. QED
            BY <3>1 DEF Grounded
    <2>2. QED
        BY <2>1 DEF NewsIsTrue
<1>2. QED
    BY <1>1, FaultInvariant, PTL

\* Each repeated delivery costs at most one charge and one parcel too many.
THEOREM DamageStaysBounded == Spec => []DamageIsBounded
<1>1. FaultInv => DamageIsBounded
    <2>1. ASSUME FaultInv, NEW o \in Orders
          PROVE  /\ captures[o] <= 1 + redeliveries
                 /\ parcels[o] <= 1 + redeliveries
                 /\ parcels[o] <= captures[o] + redeliveries
        <3>1. TypeOK /\ Conserved(o)
            BY <2>1 DEF FaultInv
        <3>2. /\ queue[o]["OrderCreated"] \in Nat /\ queue[o]["PaymentRequested"] \in Nat
              /\ queue[o]["PaymentCompleted"] \in Nat /\ queue[o]["ShipmentRequested"] \in Nat
            BY <3>1, Counts, AllKinds
        <3>3. QED
            BY <3>1, <3>2, Counts DEF Conserved, One
    <2>2. QED
        BY <2>1 DEF DamageIsBounded
<1>2. QED
    BY <1>1, FaultInvariant, PTL

\* Whoever works on an order works on a message about it, or on its outbox row.
LEMMA WorkHasReason ==
    ASSUME NEW o \in Orders,
           RelayOutbox(o) \/ Orchestrate(o) \/ Pay(o) \/ Ship(o) \/ Notify(o)
    PROVE  o \in outbox \/ \E k \in Kinds : Ready(o, k)
<1>k. SagaEvents \subseteq Kinds /\ Notices \subseteq Kinds
      /\ {"PaymentRequested", "ShipmentRequested"} \subseteq Kinds
    BY DEF SagaEvents, Kinds, Work, Notices
<1>1. CASE RelayOutbox(o)
    BY <1>1 DEF RelayOutbox
<1>2. CASE Orchestrate(o)
    <2>1. ASSUME NEW t \in Transitions, Handle(o, t) \/ Interrupt(o, t)
          PROVE  t.event \in SagaEvents /\ Ready(o, t.event)
        <3>1. t.event \in SagaEvents
            BY DEF Transitions, SagaEvents, WhenOrderCreated, WhenPaymentCompleted,
               WhenPaymentFailed, WhenShipmentPrepared, WhenShipmentFailed
        <3>2. QED
            BY <2>1, <3>1 DEF Handle, Interrupt, CutOff, Consume
    <2>2. ASSUME NEW k \in SagaEvents, DropUncorrelated(o, k) \/ RejectUnexpected(o, k)
          PROVE  Ready(o, k)
        BY <2>2 DEF DropUncorrelated, RejectUnexpected, Consume, DeadLetter
    <2>3. QED
        BY <1>k, <1>2, <2>1, <2>2 DEF Orchestrate
<1>3. CASE Pay(o)
    BY <1>k, <1>3 DEF Pay, Charge, Decline, Consume
<1>4. CASE Ship(o)
    BY <1>k, <1>4 DEF Ship, Prepare, RunOut, Consume
<1>5. CASE Notify(o)
    BY <1>k, <1>5 DEF Notify, SendEmail, Consume
<1>6. QED
    BY <1>1, <1>2, <1>3, <1>4, <1>5

\* Acceptances are kept, and an order is not touched before its own.
LEMMA StepUntouched == TypeOK /\ NothingFromNothing /\ [Next]_vars => NothingFromNothing'
<1> SUFFICES ASSUME TypeOK, NothingFromNothing, [Next]_vars, NEW p \in Orders, p \notin placed'
             PROVE  Untouched(p)'
    BY DEF NothingFromNothing
<1>b. BusTypeOK /\ outbox \subseteq placed
    BY DEF TypeOK, OutboxTypeOK
<1>1. ASSUME NEW o \in Orders,
             Intake(o) \/ Orchestrate(o) \/ Pay(o) \/ Ship(o) \/ Notify(o)
      PROVE  Untouched(p)'
    <2>1. p \notin placed
        BY <1>1 DEF Intake, PlaceOrder, RelayOutbox, Orchestrate, Pay, Ship, Notify, outboxVars
    <2>2. Untouched(p) /\ p \notin outbox
        BY <1>b, <2>1 DEF NothingFromNothing
    <2>3. o # p
        BY <1>1, <2>2, WorkHasReason DEF Untouched, Intake, PlaceOrder
    <2>4. /\ queue'[p] = queue[p] /\ captures'[p] = captures[p] /\ parcels'[p] = parcels[p]
          /\ emails'[p] = emails[p] /\ saga'[p] = saga[p]
        BY <1>1, <2>3, OthersUntouched
    <2>5. QED
        BY <2>2, <2>4 DEF Untouched, Ready
<1>2. CASE RestartOrderService
    <2>1. p \notin placed /\ UNCHANGED <<captures, parcels, emails>> /\ saga'[p] = "None"
        BY <1>2 DEF RestartOrderService, LoseInstances, LoseOutbox
    <2>2. Untouched(p)
        BY <2>1 DEF NothingFromNothing
    <2>3. queue'[p] = queue[p]
        <3>1. ASSUME NEW o \in Orders, NEW t \in Transitions, CutOff(o, t)
              PROVE  queue'[p] = queue[p]
            <4>1. t.event \in Kinds /\ Ready(o, t.event)
                BY <3>1 DEF CutOff, Kinds, Work, Transitions, WhenOrderCreated,
                   WhenPaymentCompleted, WhenPaymentFailed, WhenShipmentPrepared,
                   WhenShipmentFailed
            <4>2. o # p
                BY <2>2, <4>1 DEF Untouched
            <4>3. QED
                BY <1>b, <3>1, <4>2, RedeliverAt DEF CutOff
        <3>2. QED
            BY <1>2, <3>1 DEF RestartOrderService, busVars
    <2>4. QED
        BY <2>1, <2>2, <2>3 DEF Untouched, Ready
<1>3. CASE UNCHANGED vars
    BY <1>3 DEF vars, NothingFromNothing, Untouched, Ready
<1>4. QED
    BY <1>1, <1>2, <1>3 DEF Next

\* No service ever does anything for an order that was not accepted, whatever is
\* redelivered and however often OrderService restarts.
THEOREM NothingComesFromNothing == Spec => []NothingFromNothing
<1>1. Init => NothingFromNothing
    <2> SUFFICES ASSUME Init, NEW o \in Orders
                 PROVE  Untouched(o)
        BY DEF NothingFromNothing
    <2>1. \A k \in Kinds : queue[o][k] = 0
        BY DEF Init, BusInit
    <2>2. \A n \in Notices : emails[o][n] = 0
        BY DEF Init, NotificationInit
    <2>3. saga[o] = "None" /\ captures[o] = 0 /\ parcels[o] = 0
        BY DEF Init, SagaInit, PaymentInit, ShipmentInit
    <2>4. QED
        BY <2>1, <2>2, <2>3 DEF Untouched, Ready
<1>2. QED
    BY <1>1, StepUntouched, TypeCorrect, PTL DEF Spec

--------------------------------------------------------------------------------
(***************************************************************************)
(* All work ends: every step about an order uses up its budget.            *)
(***************************************************************************)

Sent(S) == [k \in Kinds |-> One(k \in S)]

\* The sums are numbers of steps.
LEMMA LoadType ==
    ASSUME NEW q \in [Kinds -> Nat]
    PROVE  /\ PaymentSteps(q) \in Nat /\ ShipmentSteps(q) \in Nat /\ NoticeSteps(q) \in Nat
           /\ Load(q) \in Nat
<1>1. PaymentSteps(q) \in Nat /\ ShipmentSteps(q) \in Nat /\ NoticeSteps(q) \in Nat
    BY AllKinds DEF PaymentSteps, ShipmentSteps, NoticeSteps
<1>2. QED
    BY <1>1 DEF Load

\* What is added to the queues adds its load, what is taken takes it away.
LEMMA LoadAdds ==
    ASSUME NEW q \in [Kinds -> Nat], NEW s \in [Kinds -> Nat], NEW t \in [Kinds -> Nat],
           NEW r \in [Kinds -> Nat],
           \A k \in Kinds : r[k] = (q[k] + s[k]) - t[k]
    PROVE  Load(r) = (Load(q) + Load(s)) - Load(t)
<1>1. PaymentSteps(r) = (PaymentSteps(q) + PaymentSteps(s)) - PaymentSteps(t)
    BY AllKinds DEF PaymentSteps
<1>2. ShipmentSteps(r) = (ShipmentSteps(q) + ShipmentSteps(s)) - ShipmentSteps(t)
    BY AllKinds DEF ShipmentSteps
<1>3. NoticeSteps(r) = (NoticeSteps(q) + NoticeSteps(s)) - NoticeSteps(t)
    BY AllKinds DEF NoticeSteps
<1>4. /\ PaymentSteps(q) \in Nat /\ ShipmentSteps(q) \in Nat /\ NoticeSteps(q) \in Nat
      /\ PaymentSteps(s) \in Nat /\ ShipmentSteps(s) \in Nat /\ NoticeSteps(s) \in Nat
      /\ PaymentSteps(t) \in Nat /\ ShipmentSteps(t) \in Nat /\ NoticeSteps(t) \in Nat
    BY LoadType
<1>5. QED
    BY <1>1, <1>2, <1>3, <1>4 DEF Load

\* The loads of what the services publish, and of what they read.
LEMMA Loads ==
    /\ Load(Sent({})) = 0
    /\ Load(Sent({"OrderCreated", "CreatedNotice"})) = 8
    /\ Load(Sent({"OrderCreated"})) = 7
    /\ Load(Sent({"PaymentRequested"})) = 6
    /\ Load(Sent({"PaymentCompleted"})) = 5
    /\ Load(Sent({"ShipmentRequested"})) = 4
    /\ Load(Sent({"ShipmentFailed"})) = 3
    /\ Load(Sent({"ShipmentPrepared"})) = 2
    /\ Load(Sent({"PaymentFailed"})) = 2
    /\ Load(Sent({"PaymentRefunded", "OrderCancelled"})) = 2
    /\ \A n \in Notices : Load(Sent({n})) = 1
    /\ \A S : Sent(S) \in [Kinds -> Nat]
<1> USE AllKinds DEF Load, PaymentSteps, ShipmentSteps, NoticeSteps, Sent, One
<1>1. Load(Sent({})) = 0 /\ Load(Sent({"OrderCreated", "CreatedNotice"})) = 8
    OBVIOUS
<1>2. Load(Sent({"OrderCreated"})) = 7 /\ Load(Sent({"PaymentRequested"})) = 6
    OBVIOUS
<1>3. Load(Sent({"PaymentCompleted"})) = 5 /\ Load(Sent({"ShipmentRequested"})) = 4
    OBVIOUS
<1>4. Load(Sent({"ShipmentFailed"})) = 3 /\ Load(Sent({"ShipmentPrepared"})) = 2
    OBVIOUS
<1>5. Load(Sent({"PaymentFailed"})) = 2
    OBVIOUS
<1>6. Load(Sent({"PaymentRefunded", "OrderCancelled"})) = 2
    OBVIOUS
<1>7. ASSUME NEW n \in Notices
      PROVE  Load(Sent({n})) = 1
    BY DEF Notices
<1>8. ASSUME NEW S
      PROVE  Sent(S) \in [Kinds -> Nat]
    OBVIOUS
<1>9. QED
    BY <1>1, <1>2, <1>3, <1>4, <1>5, <1>6, <1>7, <1>8

\* The budget is a number of steps.
LEMMA BudgetType ==
    ASSUME TypeOK, NEW o \in Orders
    PROVE  /\ Budget(o) \in Nat /\ Load(queue[o]) \in Nat
           /\ MaxRedeliveries - redeliveries \in Nat /\ redeliveries \in Nat
<1>1. redeliveries \in 0..MaxRedeliveries /\ queue[o] \in [Kinds -> Nat]
    BY DEF TypeOK, BusTypeOK
<1>2. Load(queue[o]) \in Nat
    BY <1>1, LoadType
<1>3. MaxRedeliveries - redeliveries \in Nat /\ redeliveries \in Nat
    BY <1>1, BusAssumption
<1>4. QED
    BY <1>2, <1>3 DEF Budget, One

\* Before a step and after it.
LEMMA BudgetTypeNext == TypeOK' => (\A o \in Orders : Budget(o) \in Nat)'
<1>1. TypeOK => \A o \in Orders : Budget(o) \in Nat
    BY BudgetType
<1>2. QED
    BY <1>1, PTL

\* A repeated delivery costs more than it publishes.
LEMMA RepetitionCosts ==
    ASSUME TypeOK, TypeOK', NEW o \in Orders, NEW sent,
           redeliveries' = redeliveries + 1,
           \A j \in Kinds : queue'[o][j] = queue[o][j] + (IF j \in sent THEN 1 ELSE 0),
           Load(Sent(sent)) \in 0..8, placed' = placed, o \in outbox' => o \in outbox
    PROVE  Budget(o)' < Budget(o)
<1>1. queue[o] \in [Kinds -> Nat] /\ queue'[o] \in [Kinds -> Nat]
    BY DEF TypeOK, BusTypeOK
<1>2. \A j \in Kinds : queue'[o][j] = (queue[o][j] + Sent(sent)[j]) - Sent({})[j]
    BY <1>1 DEF Sent, One
<1>3. Load(queue'[o]) = (Load(queue[o]) + Load(Sent(sent))) - Load(Sent({}))
    <2>1. Sent(sent) \in [Kinds -> Nat] /\ Sent({}) \in [Kinds -> Nat]
        BY Loads
    <2>2. QED
        BY <1>1, <1>2, <2>1, LoadAdds
<1>4. Load(queue[o]) \in Nat /\ MaxRedeliveries \in Nat /\ redeliveries \in Nat
    BY BudgetType, BusAssumption
<1>5. QED
    BY <1>3, <1>4, Loads DEF Budget, One

\* A message that leaves the broker for less than it can set off uses the budget up.
LEMMA AcknowledgeCosts ==
    ASSUME TypeOK, TypeOK', NEW o \in Orders, NEW k \in Kinds, NEW sent,
           Acknowledge(o, k, sent), UNCHANGED outboxVars,
           Load(Sent(sent)) \in Nat, Load(Sent(sent)) < Load(Sent({k}))
    PROVE  Budget(o)' < Budget(o)
<1>1. queue' = Exchange(o, {k}, sent) /\ redeliveries' = redeliveries
    BY DEF Acknowledge
<1>2. queue[o] \in [Kinds -> Nat] /\ queue'[o] \in [Kinds -> Nat]
    BY DEF TypeOK, BusTypeOK
<1>3. Sent(sent) \in [Kinds -> Nat] /\ Sent({k}) \in [Kinds -> Nat]
    BY Loads
<1>4. \A j \in Kinds : queue'[o][j] = (queue[o][j] + Sent(sent)[j]) - Sent({k})[j]
    <2>1. \A j \in Kinds :
            queue'[o][j] = (queue[o][j] + (IF j \in sent THEN 1 ELSE 0))
                               - (IF j \in {k} THEN 1 ELSE 0)
        <3>1. BusTypeOK
            BY DEF TypeOK
        <3>2. ASSUME NEW taken, queue' = Exchange(o, taken, sent)
              PROVE  \A j \in Kinds :
                        queue'[o][j] = (queue[o][j] + (IF j \in sent THEN 1 ELSE 0))
                                           - (IF j \in taken THEN 1 ELSE 0)
            BY <3>1, <3>2, ExchangeAt
        <3>3. QED
            BY <1>1, <3>2
    <2>2. QED
        BY <2>1 DEF Sent, One
<1>5. ASSUME NEW t \in [Kinds -> Nat],
             \A j \in Kinds : queue'[o][j] = (queue[o][j] + Sent(sent)[j]) - t[j]
      PROVE  Load(queue'[o]) = (Load(queue[o]) + Load(Sent(sent))) - Load(t)
    BY <1>2, <1>3, <1>5, LoadAdds
<1>6. Load(queue'[o]) = (Load(queue[o]) + Load(Sent(sent))) - Load(Sent({k}))
    BY <1>3, <1>4, <1>5
<1>7. Load(queue[o]) \in Nat /\ MaxRedeliveries \in Nat /\ redeliveries \in Nat
    BY BudgetType, BusAssumption
<1>8. Load(Sent({k})) \in Nat
    BY <1>3, LoadType
<1>9. QED
    BY <1>1, <1>6, <1>7, <1>8 DEF Budget, One, outboxVars

\* So does one that its consumer has handled, delivered once more or not.
LEMMA ConsumeCosts ==
    ASSUME TypeOK, TypeOK', NEW o \in Orders, NEW k \in Kinds, NEW sent, Consume(o, k, sent),
           UNCHANGED outboxVars,
           Load(Sent(sent)) \in 0..8, Load(Sent(sent)) < Load(Sent({k}))
    PROVE  Budget(o)' < Budget(o)
<1>1. CASE Acknowledge(o, k, sent)
    BY <1>1, AcknowledgeCosts
<1>2. CASE Redeliver(o, sent)
    BY <1>2, RedeliverAt, RepetitionCosts DEF outboxVars, TypeOK
<1>3. QED
    BY <1>1, <1>2 DEF Consume

\* A handler that lost the broker half-way does too: its event comes back once.
LEMMA CutOffCosts ==
    ASSUME TypeOK, TypeOK', NEW o \in Orders, NEW t \in Transitions, CutOff(o, t),
           placed' = placed, o \in outbox' => o \in outbox
    PROVE  Budget(o)' < Budget(o)
<1>1. PICK sent \in {{"PaymentRequested"}, {"ShipmentRequested"}, {"OrderCancelled"},
                     {"OrderCompleted"}, {"PaymentRefunded"},
                     {"PaymentRefunded", "OrderCancelled"}} : Redeliver(o, sent)
    BY CutOffCases
<1>2. Load(Sent(sent)) \in 0..8
    <2>1. /\ Load(Sent({"OrderCancelled"})) = 1 /\ Load(Sent({"OrderCompleted"})) = 1
          /\ Load(Sent({"PaymentRefunded"})) = 1
        BY Loads DEF Notices
    <2>2. CASE sent = {"PaymentRequested"}
        BY <2>2, Loads
    <2>3. CASE sent = {"ShipmentRequested"}
        BY <2>3, Loads
    <2>4. CASE sent = {"PaymentRefunded", "OrderCancelled"}
        BY <2>4, Loads
    <2>5. CASE sent \in {{"OrderCancelled"}, {"OrderCompleted"}, {"PaymentRefunded"}}
        BY <2>1, <2>5
    <2>6. QED
        BY <1>1, <2>2, <2>3, <2>4, <2>5
<1>3. QED
    BY <1>1, <1>2, RedeliverAt, RepetitionCosts DEF TypeOK

\* Every event can set something off.
LEMMA EventLoads == \A k \in SagaEvents : k \in Kinds /\ Load(Sent({k})) \in 1..7
<1>1. ASSUME NEW k \in SagaEvents
      PROVE  Load(Sent({k})) \in 1..7
    <2>1. CASE k = "OrderCreated"
        BY <2>1, Loads
    <2>2. CASE k = "PaymentCompleted"
        BY <2>2, Loads
    <2>3. CASE k = "PaymentFailed"
        BY <2>3, Loads
    <2>4. CASE k = "ShipmentPrepared"
        BY <2>4, Loads
    <2>5. CASE k = "ShipmentFailed"
        BY <2>5, Loads
    <2>6. QED
        BY <2>1, <2>2, <2>3, <2>4, <2>5 DEF SagaEvents
<1>2. QED
    BY <1>1, AllKinds DEF SagaEvents

\* A saga, whatever it does with an event in whatever state, uses the budget up.
LEMMA OrchestrateCosts ==
    ASSUME TypeOK, TypeOK', NEW o \in Orders, Orchestrate(o)
    PROVE  Budget(o)' < Budget(o)
<1>u. UNCHANGED outboxVars
    BY DEF Orchestrate
<1>1. ASSUME NEW t \in Transitions, Handle(o, t)
      PROVE  Budget(o)' < Budget(o)
    <2>1. \/ Consume(o, "OrderCreated", {"PaymentRequested"})
          \/ Consume(o, "PaymentCompleted", {"ShipmentRequested"})
          \/ Consume(o, "PaymentFailed", {"OrderCancelled"})
          \/ Consume(o, "ShipmentPrepared", {"OrderCompleted"})
          \/ Consume(o, "ShipmentFailed", {"PaymentRefunded", "OrderCancelled"})
        BY <1>1, HandleCases
    <2>2. Load(Sent({"OrderCancelled"})) = 1 /\ Load(Sent({"OrderCompleted"})) = 1
        BY Loads DEF Notices
    <2>3. QED
        BY <1>u, <2>1, <2>2, AllKinds, Loads, ConsumeCosts
<1>2. ASSUME NEW t \in Transitions, Interrupt(o, t)
      PROVE  Budget(o)' < Budget(o)
    <2>1. CutOff(o, t)
        BY <1>2 DEF Interrupt
    <2>2. QED
        BY <1>u, <2>1, CutOffCosts DEF outboxVars
<1>3. ASSUME NEW k \in SagaEvents, DropUncorrelated(o, k)
      PROVE  Budget(o)' < Budget(o)
    <2>1. k \in Kinds /\ Consume(o, k, {})
        BY <1>3, EventLoads DEF DropUncorrelated
    <2>2. Load(Sent({})) \in 0..8 /\ Load(Sent({})) < Load(Sent({k}))
        BY EventLoads, Loads
    <2>3. QED
        BY <1>u, <2>1, <2>2, ConsumeCosts
<1>4. ASSUME NEW k \in SagaEvents, RejectUnexpected(o, k)
      PROVE  Budget(o)' < Budget(o)
    <2>1. k \in Kinds /\ Acknowledge(o, k, {})
        BY <1>4, EventLoads DEF RejectUnexpected, DeadLetter
    <2>2. Load(Sent({})) \in Nat /\ Load(Sent({})) < Load(Sent({k}))
        BY EventLoads, Loads
    <2>3. QED
        BY <1>u, <2>1, <2>2, AcknowledgeCosts
<1>5. QED
    BY <1>1, <1>2, <1>3, <1>4 DEF Orchestrate

\* An order that is accepted has one step less before it, one that is relayed as many
\* as its row.
LEMMA IntakeCosts ==
    ASSUME TypeOK, TypeOK', NEW o \in Orders, Intake(o)
    PROVE  Budget(o)' < Budget(o)
<1>1. CASE PlaceOrder(o)
    <2>1. /\ o \notin placed /\ o \notin outbox /\ o \in placed'
          /\ UNCHANGED <<queue, redeliveries>>
        BY <1>1 DEF PlaceOrder, busVars, TypeOK, OutboxTypeOK
    <2>2. QED
        BY <2>1, BudgetType, BusAssumption DEF Budget, One
<1>2. CASE RelayOutbox(o)
    <2>1. CASE Redeliver(o, {"OrderCreated", "CreatedNotice"}) /\ UNCHANGED outbox
        BY <1>2, <2>1, RedeliverAt, RepetitionCosts, Loads DEF RelayOutbox, TypeOK
    <2>2. CASE /\ queue' = Exchange(o, {}, {"OrderCreated", "CreatedNotice"})
               /\ outbox' = outbox \ {o} /\ UNCHANGED redeliveries
        <3>1. queue[o] \in [Kinds -> Nat] /\ queue'[o] \in [Kinds -> Nat]
            BY DEF TypeOK, BusTypeOK
        <3>2. /\ Sent({}) \in [Kinds -> Nat]
              /\ Sent({"OrderCreated", "CreatedNotice"}) \in [Kinds -> Nat]
            BY Loads
        <3>3. \A j \in Kinds : queue'[o][j] =
                  (queue[o][j] + Sent({"OrderCreated", "CreatedNotice"})[j]) - Sent({})[j]
            <4>1. \A j \in Kinds : queue'[o][j] =
                     (queue[o][j] + (IF j \in {"OrderCreated", "CreatedNotice"} THEN 1 ELSE 0))
                         - (IF j \in {} THEN 1 ELSE 0)
                BY <2>2, ExchangeAt DEF TypeOK
            <4>2. QED
                BY <4>1 DEF Sent, One
        <3>4. Load(queue'[o]) =
                  (Load(queue[o]) + Load(Sent({"OrderCreated", "CreatedNotice"}))) - Load(Sent({}))
            BY <3>1, <3>2, <3>3, LoadAdds
        <3>5. Load(queue'[o]) = Load(queue[o]) + 8
            BY <3>4, Loads, BudgetType
        <3>6. o \in outbox /\ o \notin outbox' /\ placed' = placed
            BY <1>2, <2>2 DEF RelayOutbox
        <3>7. QED
            BY <2>2, <3>5, <3>6, BudgetType, BusAssumption DEF Budget, One
    <2>3. QED
        BY <1>2, <2>1, <2>2 DEF RelayOutbox
<1>3. QED
    BY <1>1, <1>2 DEF Intake

\* Every step about an order uses up its budget.
LEMMA StepCosts ==
    ASSUME TypeOK, TypeOK', NEW o \in Orders,
           Intake(o) \/ Orchestrate(o) \/ Pay(o) \/ Ship(o) \/ Notify(o)
    PROVE  Budget(o)' < Budget(o)
<1>1. CASE Pay(o)
    <2>1. UNCHANGED outboxVars
        BY <1>1 DEF Pay
    <2>2. \/ Consume(o, "PaymentRequested", {"PaymentCompleted"})
          \/ Consume(o, "PaymentRequested", {"PaymentFailed"})
        BY <1>1 DEF Pay, Charge, Decline
    <2>3. QED
        BY <2>1, <2>2, AllKinds, Loads, ConsumeCosts
<1>2. CASE Ship(o)
    <2>1. UNCHANGED outboxVars
        BY <1>2 DEF Ship
    <2>2. \/ Consume(o, "ShipmentRequested", {"ShipmentPrepared"})
          \/ Consume(o, "ShipmentRequested", {"ShipmentFailed"})
        BY <1>2 DEF Ship, Prepare, RunOut
    <2>3. QED
        BY <2>1, <2>2, AllKinds, Loads, ConsumeCosts
<1>3. CASE Notify(o)
    <2>1. PICK n \in Notices : Consume(o, n, {})
        BY <1>3 DEF Notify, SendEmail
    <2>2. UNCHANGED outboxVars /\ n \in Kinds
        BY <1>3 DEF Notify, Kinds
    <2>3. Load(Sent({})) \in 0..8 /\ Load(Sent({})) < Load(Sent({n}))
        BY Loads
    <2>4. QED
        BY <2>1, <2>2, <2>3, ConsumeCosts
<1>4. QED
    BY <1>1, <1>2, <1>3, IntakeCosts, OrchestrateCosts

\* The budgets of the other orders do not grow.
LEMMA StepSpares ==
    ASSUME TypeOK, TypeOK', NEW p \in Orders,
           queue'[p] = queue[p], redeliveries' >= redeliveries,
           (p \in placed) = (p \in placed'), p \in outbox' => p \in outbox
    PROVE  Budget(p)' <= Budget(p)
<1>1. redeliveries' \in Nat
    BY DEF TypeOK, BusTypeOK
<1>2. QED
    BY <1>1, BudgetType, BusAssumption DEF Budget, One

\* Neither do those at a restart, not even of the order whose handler it cut off.
LEMMA RestartSpares ==
    ASSUME TypeOK, TypeOK', RestartOrderService, NEW p \in Orders
    PROVE  Budget(p)' <= Budget(p)
<1>1. outbox' = {} /\ placed' = placed
    BY DEF RestartOrderService, LoseOutbox
<1>2. CASE UNCHANGED busVars
    BY <1>1, <1>2, StepSpares, BudgetType DEF busVars
<1>3. ASSUME NEW o \in Orders, NEW t \in Transitions, CutOff(o, t)
      PROVE  Budget(p)' <= Budget(p)
    <2>1. CASE o = p
        <3>1. Budget(p)' < Budget(p)
            BY <1>1, <1>3, <2>1, CutOffCosts
        <3>2. Budget(p) \in Nat /\ (Budget(p) \in Nat)'
            BY BudgetType, BudgetTypeNext
        <3>3. QED
            BY <3>1, <3>2
    <2>2. CASE o # p
        <3>1. queue'[p] = queue[p] /\ redeliveries' >= redeliveries
            BY <1>3, <2>2, RedeliverAt, BudgetType DEF CutOff, TypeOK
        <3>2. QED
            BY <1>1, <3>1, StepSpares
    <2>3. QED
        BY <2>1, <2>2
<1>4. QED
    BY <1>2, <1>3 DEF RestartOrderService

\* The order process does a bounded amount of work for every order, whatever is
\* repeated and in whatever state an event meets the saga: no message goes round.
THEOREM WorkEnds == Spec => NoEndlessWork
<1>1. TypeOK /\ TypeOK' /\ [Next]_vars => [Spends]_vars
    <2> SUFFICES ASSUME TypeOK, TypeOK', Next
                 PROVE  Spends
        OBVIOUS
    <2>1. ASSUME NEW o \in Orders,
                 Intake(o) \/ Orchestrate(o) \/ Pay(o) \/ Ship(o) \/ Notify(o)
          PROVE  Budget(o)' < Budget(o) /\ \A p \in Orders : Budget(p)' <= Budget(p)
        <3>1. Budget(o)' < Budget(o)
            BY <2>1, StepCosts
        <3>2. Budget(o)' <= Budget(o)
            <4>1. Budget(o) \in Nat /\ (Budget(o) \in Nat)'
                BY BudgetType, BudgetTypeNext
            <4>2. QED
                BY <3>1, <4>1
        <3>3. ASSUME NEW p \in Orders \ {o}
              PROVE  Budget(p)' <= Budget(p)
            BY <2>1, <3>3, OthersUntouched, StepSpares
        <3>4. QED
            BY <3>1, <3>2, <3>3
    <2>2. CASE RestartOrderService
        <3>1. restarts' > restarts
            BY <2>2, RestartAssumption DEF RestartOrderService, TypeOK
        <3>2. QED
            BY <2>2, <3>1, RestartSpares DEF Spends
    <2>3. QED
        BY <2>1, <2>2 DEF Next, Spends
<1>2. QED
    BY <1>1, TypeCorrect, PTL DEF Spec, NoEndlessWork

--------------------------------------------------------------------------------
(***************************************************************************)
(* Work is never lost.                                                     *)
(***************************************************************************)

\* A message of kind k may go without o getting lost.
LEMMA PassesOn ==
    ASSUME TypeOK, NEW o \in Orders, NEW k \in Kinds, NEW sent, Consume(o, k, sent)
    PROVE  /\ \A j \in Kinds \ {k} : Ready(o, j) => Ready(o, j)'
           /\ \A j \in sent \cap Kinds : j # k => Ready(o, j)'
<1>1. PICK again \in 0..1 :
        \A j \in Kinds :
             queue'[o][j] = (queue[o][j] + (IF j \in sent THEN 1 ELSE 0))
                              - (IF j = k THEN 1 - again ELSE 0)
    BY ConsumeAt DEF TypeOK
<1>2. QED
    BY <1>1, Counts DEF Ready

\* An order stays in somebody's hands whatever its saga does with an event.
LEMMA OrchestrateKeeps ==
    ASSUME TypeOK, NEW o \in Orders, Orchestrate(o), OnItsWay(o)
    PROVE  OnItsWay(o)'
<1>u. UNCHANGED <<emails, outbox>>
    BY DEF Orchestrate, outboxVars
<1>k. /\ "OrderCompleted" \in Kinds /\ "OrderCancelled" \in Kinds /\ "OrderCreated" \in Kinds
      /\ SagaEvents \subseteq Kinds \ Notices
    BY AllKinds DEF SagaEvents, Notices
<1>1. ASSUME NEW t \in Transitions, Handle(o, t)
      PROVE  OnItsWay(o)'
    <2>1. \/ saga' = [saga EXCEPT ![o] = "AwaitingPayment"]
          \/ saga' = [saga EXCEPT ![o] = "AwaitingShipment"]
          \/ Consume(o, "PaymentFailed", {"OrderCancelled"})
          \/ Consume(o, "ShipmentPrepared", {"OrderCompleted"})
          \/ Consume(o, "ShipmentFailed", {"PaymentRefunded", "OrderCancelled"})
        BY <1>1, HandleCases
    <2>2. CASE saga' = [saga EXCEPT ![o] = "AwaitingPayment"]
               \/ saga' = [saga EXCEPT ![o] = "AwaitingShipment"]
        BY <2>2 DEF OnItsWay, TypeOK, SagaTypeOK
    <2>3. CASE Consume(o, "PaymentFailed", {"OrderCancelled"})
        BY <2>3, AllKinds, PassesOn DEF OnItsWay, Announced
    <2>4. CASE Consume(o, "ShipmentPrepared", {"OrderCompleted"})
        BY <2>4, AllKinds, PassesOn DEF OnItsWay, Announced
    <2>5. CASE Consume(o, "ShipmentFailed", {"PaymentRefunded", "OrderCancelled"})
        BY <2>5, AllKinds, PassesOn DEF OnItsWay, Announced
    <2>6. QED
        BY <2>1, <2>2, <2>3, <2>4, <2>5
<1>2. ASSUME NEW t \in Transitions, Interrupt(o, t)
      PROVE  OnItsWay(o)'
    <2>1. PICK sent : Redeliver(o, sent)
        BY <1>2 DEF Interrupt, CutOff
    <2>2. \A j \in Kinds : Ready(o, j) => Ready(o, j)'
        <3>1. BusTypeOK
            BY DEF TypeOK
        <3>2. \A j \in Kinds : queue'[o][j] = queue[o][j] + (IF j \in sent THEN 1 ELSE 0)
            BY <2>1, <3>1, RedeliverAt
        <3>3. QED
            BY <3>2, Counts DEF Ready
    <2>3. QED
        BY <1>2, <1>u, <1>k, <2>2 DEF Interrupt, OnItsWay, Announced
<1>3. ASSUME NEW k \in SagaEvents, DropUncorrelated(o, k)
      PROVE  OnItsWay(o)'
    <2>1. Consume(o, k, {}) /\ UNCHANGED saga /\ saga[o] = "None" /\ k # "OrderCreated"
        BY <1>3 DEF DropUncorrelated
    <2>2. \A j \in Kinds \ {k} : Ready(o, j) => Ready(o, j)'
        BY <1>k, <2>1, PassesOn
    <2>3. k # "OrderCompleted" /\ k # "OrderCancelled"
        BY DEF SagaEvents
    <2>4. QED
        BY <1>u, <1>k, <2>1, <2>2, <2>3 DEF OnItsWay, Announced
<1>4. ASSUME NEW k \in SagaEvents, RejectUnexpected(o, k)
      PROVE  OnItsWay(o)'
    BY <1>4 DEF RejectUnexpected, OnItsWay
<1>5. QED
    BY <1>1, <1>2, <1>3, <1>4 DEF Orchestrate

\* Or whatever is done about it anywhere.
LEMMA StepKeeps ==
    ASSUME TypeOK, NEW o \in Orders, o \in placed', o \in placed => OnItsWay(o),
           Intake(o) \/ Orchestrate(o) \/ Pay(o) \/ Ship(o) \/ Notify(o)
    PROVE  OnItsWay(o)'
<1>k. /\ "OrderCompleted" \in Kinds /\ "OrderCancelled" \in Kinds /\ "OrderCreated" \in Kinds
    BY AllKinds
<1>1. CASE PlaceOrder(o)
    BY <1>1 DEF PlaceOrder, OnItsWay
<1>2. CASE RelayOutbox(o)
    <2>1. CASE UNCHANGED outbox
        BY <1>2, <2>1 DEF RelayOutbox, OnItsWay
    <2>2. CASE queue' = Exchange(o, {}, {"OrderCreated", "CreatedNotice"})
        <3>1. BusTypeOK
            BY DEF TypeOK
        <3>2. queue'[o]["OrderCreated"] = (queue[o]["OrderCreated"] + 1) - 0
            BY <1>k, <2>2, <3>1, ExchangeAt
        <3>3. QED
            BY <1>k, <3>2, Counts DEF OnItsWay, Ready
    <2>3. QED
        BY <1>2, <2>1, <2>2 DEF RelayOutbox
<1>3. CASE Pay(o)
    <2>1. PICK sent : Consume(o, "PaymentRequested", sent)
        BY <1>3 DEF Pay, Charge, Decline
    <2>2. UNCHANGED <<saga, emails, placed, outbox>>
        BY <1>3 DEF Pay, outboxVars
    <2>3. QED
        BY <1>k, <2>1, <2>2, AllKinds, PassesOn DEF OnItsWay, Announced
<1>4. CASE Ship(o)
    <2>1. PICK sent : Consume(o, "ShipmentRequested", sent)
        BY <1>4 DEF Ship, Prepare, RunOut
    <2>2. UNCHANGED <<saga, emails, placed, outbox>>
        BY <1>4 DEF Ship, outboxVars
    <2>3. QED
        BY <1>k, <2>1, <2>2, AllKinds, PassesOn DEF OnItsWay, Announced
<1>5. CASE Notify(o)
    <2>1. PICK n \in Notices : SendEmail(o, n)
        BY <1>5 DEF Notify
    <2>2. UNCHANGED <<saga, placed, outbox>> /\ n \in Kinds /\ n # "OrderCreated"
        BY <1>5, <2>1 DEF Notify, outboxVars, Kinds, Notices
    <2>3. \A m \in Notices : Announced(o, m) => Announced(o, m)'
        <3>1. \A m \in Notices : emails'[o][m] = emails[o][m] + (IF m = n THEN 1 ELSE 0)
            BY <2>1, Counts DEF SendEmail, TypeOK, NotificationTypeOK
        <3>2. \A m \in Notices \ {n} : Ready(o, m) => Ready(o, m)'
            BY <2>1, <2>2, PassesOn DEF SendEmail, Kinds
        <3>3. QED
            BY <3>1, <3>2, Counts DEF Announced
    <2>4. Ready(o, "OrderCreated") => Ready(o, "OrderCreated")'
        BY <1>k, <2>1, <2>2, PassesOn DEF SendEmail
    <2>5. QED
        BY <2>2, <2>3, <2>4 DEF OnItsWay, Notices
<1>6. CASE Orchestrate(o)
    BY <1>6, OrchestrateKeeps DEF Orchestrate, outboxVars
<1>7. QED
    BY <1>1, <1>2, <1>3, <1>4, <1>5, <1>6 DEF Intake

\* Until a restart no order is lost.
LEMMA StepOnTheirWay ==
    TypeOK /\ TypeOK' /\ AllOnTheirWay /\ [Next]_vars => AllOnTheirWay'
<1> SUFFICES ASSUME TypeOK, TypeOK', AllOnTheirWay, [Next]_vars, restarts' = 0,
                    NEW p \in placed'
             PROVE  OnItsWay(p)'
    BY DEF AllOnTheirWay
<1>p. p \in Orders
    BY DEF TypeOK, OutboxTypeOK
<1>1. ASSUME NEW o \in Orders,
             Intake(o) \/ Orchestrate(o) \/ Pay(o) \/ Ship(o) \/ Notify(o)
      PROVE  OnItsWay(p)'
    <2>1. restarts = 0
        BY <1>1 DEF Intake, Orchestrate, Pay, Ship, Notify
    <2>2. p \in placed => OnItsWay(p)
        BY <2>1 DEF AllOnTheirWay
    <2>3. CASE o = p
        BY <1>1, <2>2, <2>3, StepKeeps
    <2>4. CASE o # p
        BY <1>1, <1>p, <2>2, <2>4, OthersUntouched DEF OnItsWay, Announced, Ready
    <2>5. QED
        BY <2>3, <2>4
<1>2. CASE RestartOrderService
    BY <1>2, RestartAssumption DEF RestartOrderService, TypeOK
<1>3. CASE UNCHANGED vars
    BY <1>3 DEF vars, AllOnTheirWay, OnItsWay, Announced, Ready
<1>4. QED
    BY <1>1, <1>2, <1>3 DEF Next

\* Until OrderService restarts, every accepted order whose customer knows no outcome
\* has a row or a message that somebody is about to work on.
THEOREM NothingIsForgotten == Spec => []NothingForgotten
<1>1. Init => AllOnTheirWay
    BY DEF Init, OutboxInit, AllOnTheirWay
<1>2. Spec => []AllOnTheirWay
    BY <1>1, StepOnTheirWay, TypeCorrect, PTL DEF Spec
<1>3. FaultInv /\ AllOnTheirWay => NothingForgotten
    <2> SUFFICES ASSUME FaultInv, AllOnTheirWay, restarts = 0, NEW o \in placed
                 PROVE  Decided(o) \/ Pending(o)
        BY DEF NothingForgotten
    <2>1. OnItsWay(o) /\ o \in Orders
        BY DEF AllOnTheirWay, FaultInv, TypeOK, OutboxTypeOK
    <2>2. CASE o \in outbox \/ Ready(o, "OrderCreated")
        BY <2>2, AllKinds DEF Pending
    <2>3. CASE saga[o] # "None"
        <3>1. saga[o] = "AwaitingPayment" \/ saga[o] = "AwaitingShipment"
            BY <2>1, <2>3 DEF FaultInv, TypeOK, SagaTypeOK, SagaStates
        <3>2. Served(o)
            BY <2>1 DEF FaultInv, NeverWaitsInVain
        <3>3. QED
            BY <3>1, <3>2, AllKinds DEF Served, Pending
    <2>4. CASE Announced(o, "OrderCompleted") \/ Announced(o, "OrderCancelled")
        BY <2>4, AllKinds DEF Announced, Pending, Decided
    <2>5. QED
        BY <2>1, <2>2, <2>3, <2>4 DEF OnItsWay
<1>4. QED
    BY <1>2, <1>3, FaultInvariant, PTL

--------------------------------------------------------------------------------
(***************************************************************************)
(* Without repeated deliveries.                                            *)
(***************************************************************************)

OnceAt(o) == OneToken(o) /\ TokenFits(o) /\ OutcomeFits(o)

\* The number of repeated deliveries only grows: none after a step, none before.
LEMMA NoneBefore ==
    ASSUME TypeOK, TypeOK', [Next]_vars, redeliveries' = 0
    PROVE  redeliveries = 0
<1>n. redeliveries \in Nat /\ BusTypeOK
    BY BusAssumption DEF TypeOK, BusTypeOK
<1>1. ASSUME NEW o \in Orders,
             Intake(o) \/ Orchestrate(o) \/ Pay(o) \/ Ship(o) \/ Notify(o)
      PROVE  redeliveries' >= redeliveries
    <2>k. SagaEvents \subseteq Kinds /\ Notices \subseteq Kinds
        BY AllKinds DEF SagaEvents, Notices
    <2>1. ASSUME NEW k \in Kinds, NEW sent, Consume(o, k, sent)
          PROVE  redeliveries' >= redeliveries
        BY <1>n, <2>1 DEF Consume, Acknowledge, Redeliver
    <2>2. ASSUME NEW sent, Redeliver(o, sent)
          PROVE  redeliveries' >= redeliveries
        BY <1>n, <2>2 DEF Redeliver
    <2>3. CASE Intake(o)
        BY <1>n, <2>2, <2>3 DEF Intake, PlaceOrder, RelayOutbox, busVars
    <2>4. CASE Orchestrate(o)
        <3>1. ASSUME NEW t \in Transitions, Handle(o, t)
              PROVE  redeliveries' >= redeliveries
            BY <1>n, <3>1 DEF Handle, Consume, Acknowledge, Redeliver
        <3>2. ASSUME NEW t \in Transitions, Interrupt(o, t)
              PROVE  redeliveries' >= redeliveries
            BY <2>2, <3>2 DEF Interrupt, CutOff
        <3>3. ASSUME NEW k \in SagaEvents, DropUncorrelated(o, k) \/ RejectUnexpected(o, k)
              PROVE  redeliveries' >= redeliveries
            BY <1>n, <2>1, <2>k, <3>3
               DEF DropUncorrelated, RejectUnexpected, DeadLetter, Acknowledge
        <3>4. QED
            BY <2>4, <3>1, <3>2, <3>3 DEF Orchestrate
    <2>5. CASE Pay(o)
        BY <2>1, <2>5, AllKinds DEF Pay, Charge, Decline
    <2>6. CASE Ship(o)
        BY <2>1, <2>6, AllKinds DEF Ship, Prepare, RunOut
    <2>7. CASE Notify(o)
        BY <2>1, <2>k, <2>7 DEF Notify, SendEmail
    <2>8. QED
        BY <1>1, <2>3, <2>4, <2>5, <2>6, <2>7
<1>2. CASE RestartOrderService
    BY <1>n, <1>2 DEF RestartOrderService, busVars, CutOff, Redeliver
<1>3. QED
    BY <1>n, <1>1, <1>2 DEF Next, vars

\* A message consumed without repetition is gone, and what was published is there.
LEMMA ConsumeOnce ==
    ASSUME TypeOK, NEW o \in Orders, NEW k \in Kinds, NEW sent, Consume(o, k, sent),
           redeliveries = 0, redeliveries' = 0
    PROVE  /\ queue[o][k] > 0
           /\ \A j \in Kinds :
                queue'[o][j] = (queue[o][j] + (IF j \in sent THEN 1 ELSE 0))
                                   - (IF j = k THEN 1 ELSE 0)
           /\ UNCHANGED errorQueue
<1>1. BusTypeOK
    BY DEF TypeOK
<1>2. UNCHANGED errorQueue
    BY DEF Consume
<1>3. QED
    BY <1>1, <1>2, ConsumeAt

--------------------------------------------------------------------------------
(***************************************************************************)
(* The token of an order, action by action.                                *)
(***************************************************************************)

\* Consuming the one message that is the token of an order leaves exactly what the
\* consumer published.
LEMMA TokenMoves ==
    ASSUME TypeOK, NEW o \in Orders, OneToken(o), NEW k \in Work, NEW sent, Consume(o, k, sent),
           redeliveries = 0, redeliveries' = 0
    PROVE  /\ Ready(o, k)
           /\ \A j \in Work \ {k} : ~ Ready(o, j)
           /\ \A j \in Work : queue'[o][j] = IF j \in sent THEN 1 ELSE 0
           /\ \A n \in Notices : queue'[o][n] = queue[o][n] + (IF n \in sent THEN 1 ELSE 0)
           /\ UNCHANGED errorQueue
<1>1. k \in Kinds /\ k \notin Notices
    BY DEF Kinds, Work, Notices
<1>2. /\ queue[o][k] > 0
      /\ \A j \in Kinds :
           queue'[o][j] = (queue[o][j] + (IF j \in sent THEN 1 ELSE 0))
                              - (IF j = k THEN 1 ELSE 0)
      /\ UNCHANGED errorQueue
    BY <1>1, ConsumeOnce
<1>3. \A j \in Kinds : queue[o][j] \in Nat
    BY Counts
<1>4. Work \subseteq Kinds /\ Notices \subseteq Kinds
    BY DEF Kinds
<1>5. queue[o][k] = 1 /\ \A j \in Work \ {k} : queue[o][j] = 0
    <2>1. queue[o][k] <= 1 /\ \A j \in Work \ {k} : ~ (queue[o][j] > 0)
        BY <1>2 DEF OneToken, Ready
    <2>2. QED
        BY <1>2, <1>3, <1>4, <2>1
<1>6. \A j \in Work : queue'[o][j] = IF j \in sent THEN 1 ELSE 0
    BY <1>2, <1>4, <1>5
<1>7. \A n \in Notices : queue'[o][n] = queue[o][n] + (IF n \in sent THEN 1 ELSE 0)
    BY <1>1, <1>2, <1>3, <1>4
<1>8. QED
    BY <1>2, <1>5, <1>6, <1>7 DEF Ready

\* PaymentService charges an order only while its token is the request.
LEMMA OncePay ==
    ASSUME TypeOK, NEW o \in Orders, OnceAt(o), Pay(o), redeliveries = 0, redeliveries' = 0
    PROVE  OnceAt(o)'
<1>k. "PaymentRequested" \in Work
    BY DEF Work
<1>1. CASE Charge(o)
    <2>1. /\ Ready(o, "PaymentRequested")
          /\ \A j \in Work \ {"PaymentRequested"} : ~ Ready(o, j)
          /\ \A j \in Work : queue'[o][j] = IF j \in {"PaymentCompleted"} THEN 1 ELSE 0
          /\ \A n \in Notices :
               queue'[o][n] = queue[o][n] + (IF n \in {"PaymentCompleted"} THEN 1 ELSE 0)
        BY <1>1, <1>k, TokenMoves DEF OnceAt, Charge
    <2>2. captures'[o] = captures[o] + 1
        BY <1>1 DEF Charge, TypeOK, PaymentTypeOK
    <2>3. UNCHANGED <<saga, parcels, emails, placed, outbox>>
        BY <1>1 DEF Pay, outboxVars
    <2>4. OneToken(o)'
        <3>1. captures[o] = 0 /\ parcels[o] = 0 /\ o \notin outbox
            BY <2>1, Counts DEF OnceAt, OneToken, TokenFits, Work
        <3>2. QED
            BY <2>1, <2>2, <2>3, <3>1 DEF OneToken, Ready, Work
    <2>5. TokenFits(o)'
        BY <2>1, <2>2, <2>3, Counts, AllKinds
           DEF OnceAt, OneToken, TokenFits, Untold, Ready, Announced, Work, Notices
    <2>6. OutcomeFits(o)'
        BY <2>1, <2>2, <2>3, Counts, AllKinds
           DEF OnceAt, OneToken, TokenFits, OutcomeFits, Untold, Ready, Announced, Work, Notices
    <2>7. QED
        BY <2>4, <2>5, <2>6 DEF OnceAt
<1>2. CASE Decline(o)
    <2>1. /\ Ready(o, "PaymentRequested")
          /\ \A j \in Work \ {"PaymentRequested"} : ~ Ready(o, j)
          /\ \A j \in Work : queue'[o][j] = IF j \in {"PaymentFailed"} THEN 1 ELSE 0
          /\ \A n \in Notices :
               queue'[o][n] = queue[o][n] + (IF n \in {"PaymentFailed"} THEN 1 ELSE 0)
        BY <1>2, <1>k, TokenMoves DEF OnceAt, Decline
    <2>2. captures' = captures
        BY <1>2 DEF Decline
    <2>3. UNCHANGED <<saga, parcels, emails, placed, outbox>>
        BY <1>2 DEF Pay, outboxVars
    <2>4. OneToken(o)'
        BY <2>1, <2>2, <2>3, Counts, AllKinds DEF OnceAt, OneToken, Ready, Work, Notices
    <2>5. TokenFits(o)'
        BY <2>1, <2>2, <2>3, Counts, AllKinds
           DEF OnceAt, OneToken, TokenFits, Untold, Ready, Announced, Work, Notices
    <2>6. OutcomeFits(o)'
        BY <2>1, <2>2, <2>3, Counts, AllKinds
           DEF OnceAt, OneToken, TokenFits, OutcomeFits, Untold, Ready, Announced, Work, Notices
    <2>7. QED
        BY <2>4, <2>5, <2>6 DEF OnceAt
<1>3. QED
    BY <1>1, <1>2 DEF Pay

\* ShipmentService prepares a parcel only while the token is its request.
LEMMA OnceShip ==
    ASSUME TypeOK, NEW o \in Orders, OnceAt(o), Ship(o), redeliveries = 0, redeliveries' = 0
    PROVE  OnceAt(o)'
<1>k. "ShipmentRequested" \in Work
    BY DEF Work
<1>1. CASE Prepare(o)
    <2>1. /\ Ready(o, "ShipmentRequested")
          /\ \A j \in Work \ {"ShipmentRequested"} : ~ Ready(o, j)
          /\ \A j \in Work : queue'[o][j] = IF j \in {"ShipmentPrepared"} THEN 1 ELSE 0
          /\ \A n \in Notices :
               queue'[o][n] = queue[o][n] + (IF n \in {"ShipmentPrepared"} THEN 1 ELSE 0)
        BY <1>1, <1>k, TokenMoves DEF OnceAt, Prepare
    <2>2. parcels'[o] = parcels[o] + 1
        BY <1>1 DEF Prepare, TypeOK, ShipmentTypeOK
    <2>3. UNCHANGED <<saga, captures, emails, placed, outbox>>
        BY <1>1 DEF Ship, outboxVars
    <2>4. OneToken(o)'
        <3>1. captures[o] = 1 /\ parcels[o] = 0 /\ o \notin outbox
            BY <2>1, Counts DEF OnceAt, OneToken, TokenFits, Work
        <3>2. QED
            BY <2>1, <2>2, <2>3, <3>1 DEF OneToken, Ready, Work
    <2>5. TokenFits(o)'
        BY <2>1, <2>2, <2>3, Counts, AllKinds
           DEF OnceAt, OneToken, TokenFits, Untold, Ready, Announced, Work, Notices
    <2>6. OutcomeFits(o)'
        BY <2>1, <2>2, <2>3, Counts, AllKinds
           DEF OnceAt, OneToken, TokenFits, OutcomeFits, Untold, Ready, Announced, Work, Notices
    <2>7. QED
        BY <2>4, <2>5, <2>6 DEF OnceAt
<1>2. CASE RunOut(o)
    <2>1. /\ Ready(o, "ShipmentRequested")
          /\ \A j \in Work \ {"ShipmentRequested"} : ~ Ready(o, j)
          /\ \A j \in Work : queue'[o][j] = IF j \in {"ShipmentFailed"} THEN 1 ELSE 0
          /\ \A n \in Notices :
               queue'[o][n] = queue[o][n] + (IF n \in {"ShipmentFailed"} THEN 1 ELSE 0)
        BY <1>2, <1>k, TokenMoves DEF OnceAt, RunOut
    <2>2. parcels' = parcels
        BY <1>2 DEF RunOut
    <2>3. UNCHANGED <<saga, captures, emails, placed, outbox>>
        BY <1>2 DEF Ship, outboxVars
    <2>4. OneToken(o)'
        BY <2>1, <2>2, <2>3, Counts, AllKinds DEF OnceAt, OneToken, Ready, Work, Notices
    <2>5. TokenFits(o)'
        BY <2>1, <2>2, <2>3, Counts, AllKinds
           DEF OnceAt, OneToken, TokenFits, Untold, Ready, Announced, Work, Notices
    <2>6. OutcomeFits(o)'
        BY <2>1, <2>2, <2>3, Counts, AllKinds
           DEF OnceAt, OneToken, TokenFits, OutcomeFits, Untold, Ready, Announced, Work, Notices
    <2>7. QED
        BY <2>4, <2>5, <2>6 DEF OnceAt
<1>3. QED
    BY <1>1, <1>2 DEF Ship

\* Each transition of the saga moves the token on and, at the end, announces the
\* outcome that fits it.
LEMMA OnceHandle ==
    ASSUME TypeOK, NEW o \in Orders, OnceAt(o), NEW t \in Transitions, Handle(o, t),
           UNCHANGED <<captures, parcels, emails, placed, outbox>>,
           redeliveries = 0, redeliveries' = 0
    PROVE  OnceAt(o)'
<1>k. {"OrderCreated", "PaymentCompleted", "PaymentFailed", "ShipmentPrepared", "ShipmentFailed"}
          \subseteq Work
    BY DEF Work
<1>1. CASE /\ saga[o] = "None"
           /\ Consume(o, "OrderCreated", {"PaymentRequested"})
           /\ saga' = [saga EXCEPT ![o] = "AwaitingPayment"]
    <2>1. /\ Ready(o, "OrderCreated")
          /\ \A j \in Work \ {"OrderCreated"} : ~ Ready(o, j)
          /\ \A j \in Work : queue'[o][j] = IF j \in {"PaymentRequested"} THEN 1 ELSE 0
          /\ \A n \in Notices :
               queue'[o][n] = queue[o][n] + (IF n \in {"PaymentRequested"} THEN 1 ELSE 0)
        BY <1>1, <1>k, TokenMoves DEF OnceAt
    <2>2. saga'[o] = "AwaitingPayment"
        BY <1>1 DEF TypeOK, SagaTypeOK
    <2>3. OneToken(o)'
        BY <2>1, <2>2, Counts, AllKinds DEF OnceAt, OneToken, Ready, Work, Notices
    <2>4. TokenFits(o)'
        BY <2>1, <2>2, Counts, AllKinds
           DEF OnceAt, OneToken, TokenFits, Untold, Ready, Announced, Work, Notices
    <2>5. OutcomeFits(o)'
        BY <2>1, <2>2, Counts, AllKinds
           DEF OnceAt, OneToken, TokenFits, OutcomeFits, Untold, Ready, Announced, Work, Notices
    <2>6. QED
        BY <2>3, <2>4, <2>5 DEF OnceAt
<1>2. CASE /\ saga[o] = "AwaitingPayment"
           /\ Consume(o, "PaymentCompleted", {"ShipmentRequested"})
           /\ saga' = [saga EXCEPT ![o] = "AwaitingShipment"]
    <2>1. /\ Ready(o, "PaymentCompleted")
          /\ \A j \in Work \ {"PaymentCompleted"} : ~ Ready(o, j)
          /\ \A j \in Work : queue'[o][j] = IF j \in {"ShipmentRequested"} THEN 1 ELSE 0
          /\ \A n \in Notices :
               queue'[o][n] = queue[o][n] + (IF n \in {"ShipmentRequested"} THEN 1 ELSE 0)
        BY <1>2, <1>k, TokenMoves DEF OnceAt
    <2>2. saga'[o] = "AwaitingShipment"
        BY <1>2 DEF TypeOK, SagaTypeOK
    <2>3. OneToken(o)'
        BY <2>1, <2>2, Counts, AllKinds DEF OnceAt, OneToken, Ready, Work, Notices
    <2>4. TokenFits(o)'
        BY <2>1, <2>2, Counts, AllKinds
           DEF OnceAt, OneToken, TokenFits, Untold, Ready, Announced, Work, Notices
    <2>5. OutcomeFits(o)'
        BY <2>1, <2>2, Counts, AllKinds
           DEF OnceAt, OneToken, TokenFits, OutcomeFits, Untold, Ready, Announced, Work, Notices
    <2>6. QED
        BY <2>3, <2>4, <2>5 DEF OnceAt
<1>3. CASE /\ saga[o] = "AwaitingPayment"
           /\ Consume(o, "PaymentFailed", {"OrderCancelled"})
           /\ saga' = [saga EXCEPT ![o] = "None"]
    <2>1. /\ Ready(o, "PaymentFailed")
          /\ \A j \in Work \ {"PaymentFailed"} : ~ Ready(o, j)
          /\ \A j \in Work : queue'[o][j] = IF j \in {"OrderCancelled"} THEN 1 ELSE 0
          /\ \A n \in Notices :
               queue'[o][n] = queue[o][n] + (IF n \in {"OrderCancelled"} THEN 1 ELSE 0)
        BY <1>3, <1>k, TokenMoves DEF OnceAt
    <2>2. saga'[o] = "None"
        BY <1>3 DEF TypeOK, SagaTypeOK
    <2>3. OneToken(o)'
        BY <2>1, <2>2, Counts, AllKinds DEF OnceAt, OneToken, Ready, Work, Notices
    <2>4. TokenFits(o)'
        BY <2>1, <2>2, Counts, AllKinds
           DEF OnceAt, OneToken, TokenFits, Untold, Ready, Announced, Work, Notices
    <2>5. OutcomeFits(o)'
        BY <2>1, <2>2, Counts, AllKinds
           DEF OnceAt, OneToken, TokenFits, OutcomeFits, Untold, Ready, Announced, Work, Notices
    <2>6. QED
        BY <2>3, <2>4, <2>5 DEF OnceAt
<1>4. CASE /\ saga[o] = "AwaitingShipment"
           /\ Consume(o, "ShipmentPrepared", {"OrderCompleted"})
           /\ saga' = [saga EXCEPT ![o] = "None"]
    <2>1. /\ Ready(o, "ShipmentPrepared")
          /\ \A j \in Work \ {"ShipmentPrepared"} : ~ Ready(o, j)
          /\ \A j \in Work : queue'[o][j] = IF j \in {"OrderCompleted"} THEN 1 ELSE 0
          /\ \A n \in Notices :
               queue'[o][n] = queue[o][n] + (IF n \in {"OrderCompleted"} THEN 1 ELSE 0)
        BY <1>4, <1>k, TokenMoves DEF OnceAt
    <2>2. saga'[o] = "None"
        BY <1>4 DEF TypeOK, SagaTypeOK
    <2>3. OneToken(o)'
        BY <2>1, <2>2, Counts, AllKinds DEF OnceAt, OneToken, Ready, Work, Notices
    <2>4. TokenFits(o)'
        BY <2>1, <2>2, Counts, AllKinds
           DEF OnceAt, OneToken, TokenFits, Untold, Ready, Announced, Work, Notices
    <2>5. OutcomeFits(o)'
        BY <2>1, <2>2, Counts, AllKinds
           DEF OnceAt, OneToken, TokenFits, OutcomeFits, Untold, Ready, Announced, Work, Notices
    <2>6. QED
        BY <2>3, <2>4, <2>5 DEF OnceAt
<1>5. CASE /\ saga[o] = "AwaitingShipment"
           /\ Consume(o, "ShipmentFailed", {"PaymentRefunded", "OrderCancelled"})
           /\ saga' = [saga EXCEPT ![o] = "None"]
    <2>1. /\ Ready(o, "ShipmentFailed")
          /\ \A j \in Work \ {"ShipmentFailed"} : ~ Ready(o, j)
          /\ \A j \in Work : queue'[o][j] = IF j \in {"PaymentRefunded", "OrderCancelled"} THEN 1 ELSE 0
          /\ \A n \in Notices :
               queue'[o][n] = queue[o][n] + (IF n \in {"PaymentRefunded", "OrderCancelled"} THEN 1 ELSE 0)
        BY <1>5, <1>k, TokenMoves DEF OnceAt
    <2>2. saga'[o] = "None"
        BY <1>5 DEF TypeOK, SagaTypeOK
    <2>3. OneToken(o)'
        BY <2>1, <2>2, Counts, AllKinds DEF OnceAt, OneToken, Ready, Work, Notices
    <2>4. TokenFits(o)'
        BY <2>1, <2>2, Counts, AllKinds
           DEF OnceAt, OneToken, TokenFits, Untold, Ready, Announced, Work, Notices
    <2>5. OutcomeFits(o)'
        BY <2>1, <2>2, Counts, AllKinds
           DEF OnceAt, OneToken, TokenFits, OutcomeFits, Untold, Ready, Announced, Work, Notices
    <2>6. QED
        BY <2>3, <2>4, <2>5 DEF OnceAt
<1>6. QED
    BY <1>1, <1>2, <1>3, <1>4, <1>5, HandleCases

\* What the saga drops is only the token of an order whose instance is gone; there is
\* never anything to reject.
LEMMA OnceUnused ==
    ASSUME TypeOK, NEW o \in Orders, OnceAt(o), NEW k \in SagaEvents,
           DropUncorrelated(o, k) \/ RejectUnexpected(o, k),
           UNCHANGED <<captures, parcels, emails, placed, outbox>>,
           redeliveries = 0, redeliveries' = 0
    PROVE  OnceAt(o)' /\ DropUncorrelated(o, k)
<1>k. k \in Work
    BY DEF SagaEvents, Work
<1>1. CASE DropUncorrelated(o, k)
    <2>1. /\ Ready(o, k)
          /\ \A j \in Work \ {k} : ~ Ready(o, j)
          /\ \A j \in Work : queue'[o][j] = 0
          /\ \A n \in Notices : queue'[o][n] = queue[o][n]
        <3>1. Consume(o, k, {}) /\ OneToken(o)
            BY <1>1 DEF DropUncorrelated, OnceAt
        <3>2. \A n \in Notices : queue[o][n] \in Nat
            BY Counts DEF Kinds
        <3>3. QED
            BY <1>k, <3>1, <3>2, TokenMoves
    <2>2. UNCHANGED saga
        BY <1>1 DEF DropUncorrelated
    <2>3. OneToken(o)'
        BY <2>1, <2>2, Counts DEF OnceAt, OneToken, Ready
    <2>4. TokenFits(o)'
        BY <2>1, <2>2, Counts DEF OnceAt, OneToken, TokenFits, Untold, Ready, Announced, Work, Notices
    <2>5. OutcomeFits(o)'
        BY <2>1, <2>2 DEF OnceAt, OutcomeFits, Ready, Announced, Notices
    <2>6. QED
        BY <1>1, <2>3, <2>4, <2>5 DEF OnceAt
<1>2. CASE RejectUnexpected(o, k)
    <2>1. Ready(o, k) /\ saga[o] \in {"AwaitingPayment", "AwaitingShipment"}
        BY <1>2 DEF RejectUnexpected, DeadLetter, TypeOK, SagaTypeOK, SagaStates
    <2>2. /\ saga[o] = "AwaitingPayment" => k \notin {"PaymentCompleted", "PaymentFailed"}
          /\ saga[o] = "AwaitingShipment" => k \notin {"ShipmentPrepared", "ShipmentFailed"}
        BY <1>2 DEF RejectUnexpected, Transitions, WhenPaymentCompleted, WhenPaymentFailed,
           WhenShipmentPrepared, WhenShipmentFailed
    <2>3. QED
        BY <2>1, <2>2 DEF OnceAt, TokenFits, SagaEvents
<1>3. QED
    BY <1>1, <1>2

\* The saga keeps the invariant; a handler is never cut off, and nothing rejected.
LEMMA OnceOrchestrate ==
    ASSUME TypeOK, NEW o \in Orders, OnceAt(o), Orchestrate(o), redeliveries = 0, redeliveries' = 0
    PROVE  /\ OnceAt(o)'
           /\ \/ \E t \in Transitions : Handle(o, t)
              \/ \E k \in SagaEvents : DropUncorrelated(o, k)
<1>1. UNCHANGED <<captures, parcels, emails, placed, outbox>>
    BY DEF Orchestrate, outboxVars
<1>2. ASSUME NEW t \in Transitions, Handle(o, t)
      PROVE  OnceAt(o)'
    BY <1>1, <1>2, OnceHandle
<1>3. ASSUME NEW t \in Transitions
      PROVE  ~ Interrupt(o, t)
    BY DEF Interrupt, CutOff, Redeliver
<1>4. ASSUME NEW k \in SagaEvents, DropUncorrelated(o, k) \/ RejectUnexpected(o, k)
      PROVE  OnceAt(o)' /\ DropUncorrelated(o, k)
    BY <1>1, <1>4, OnceUnused
<1>5. QED
    BY <1>2, <1>3, <1>4 DEF Orchestrate

\* Accepting an order makes its token, relaying it sends the token on its way.
LEMMA OnceIntake ==
    ASSUME TypeOK, NEW o \in Orders, OnceAt(o), Intake(o), redeliveries = 0, redeliveries' = 0
    PROVE  OnceAt(o)'
<1>u. UNCHANGED <<saga, captures, parcels, emails>>
    BY DEF Intake
<1>1. CASE PlaceOrder(o)
    <2>1. /\ o \notin placed /\ o \in placed' /\ o \in outbox' /\ UNCHANGED queue
        BY <1>1 DEF PlaceOrder, busVars
    <2>2. QED
        BY <1>u, <2>1 DEF OnceAt, OneToken, TokenFits, OutcomeFits, Untold, Ready, Announced
<1>2. CASE RelayOutbox(o)
    <2>1. /\ o \in outbox /\ o \notin outbox' /\ UNCHANGED placed
          /\ queue' = Exchange(o, {}, {"OrderCreated", "CreatedNotice"})
        BY <1>2 DEF RelayOutbox, Redeliver
    <2>2. \A j \in Kinds : queue'[o][j] =
              queue[o][j] + (IF j \in {"OrderCreated", "CreatedNotice"} THEN 1 ELSE 0)
        BY <2>1, ExchangeAt, Counts DEF TypeOK
    <2>3. \A j \in Work : queue[o][j] = 0
        BY <2>1, Counts DEF OnceAt, OneToken, Ready, Kinds
    <2>4. /\ \A j \in Work : queue'[o][j] = IF j = "OrderCreated" THEN 1 ELSE 0
          /\ \A n \in Notices \ {"CreatedNotice"} : queue'[o][n] = queue[o][n]
        BY <2>2, <2>3, Counts DEF Kinds, Work, Notices
    <2>5. o \in placed
        BY <2>1 DEF TypeOK, OutboxTypeOK
    <2>6. OneToken(o)'
        BY <1>u, <2>1, <2>4 DEF OnceAt, OneToken, Ready
    <2>7. TokenFits(o)'
        BY <1>u, <2>1, <2>4, <2>5 DEF OnceAt, TokenFits, Untold, Ready, Announced, Work, Notices
    <2>8. OutcomeFits(o)'
        BY <1>u, <2>4 DEF OnceAt, OutcomeFits, Ready, Announced, Notices
    <2>9. QED
        BY <2>6, <2>7, <2>8 DEF OnceAt
<1>3. QED
    BY <1>1, <1>2 DEF Intake

\* Reading a notice makes an e-mail of it: what was announced stays announced.
LEMMA OnceNotify ==
    ASSUME TypeOK, NEW o \in Orders, OnceAt(o), Notify(o), redeliveries = 0, redeliveries' = 0
    PROVE  /\ OnceAt(o)'
           /\ \A n \in Notices : Announced(o, n)' = Announced(o, n)
<1>u. UNCHANGED <<saga, captures, parcels, placed, outbox>>
    BY DEF Notify, outboxVars
<1>1. PICK n \in Notices : SendEmail(o, n)
    BY DEF Notify
<1>2. n \in Kinds /\ n \notin Work
    BY DEF Kinds, Work, Notices
<1>3. /\ queue[o][n] > 0
      /\ \A j \in Kinds : queue'[o][j] = queue[o][j] - (IF j = n THEN 1 ELSE 0)
    <2>1. Consume(o, n, {})
        BY <1>1 DEF SendEmail
    <2>2. QED
        BY <1>2, <2>1, ConsumeOnce, Counts
<1>4. \A m \in Notices : emails'[o][m] = emails[o][m] + (IF m = n THEN 1 ELSE 0)
    BY <1>1, Counts DEF SendEmail, TypeOK, NotificationTypeOK
<1>5. \A j \in Work : queue'[o][j] = queue[o][j]
    BY <1>2, <1>3, Counts DEF Kinds
<1>6. ASSUME NEW m \in Notices
      PROVE  Announced(o, m)' = Announced(o, m)
    BY <1>3, <1>4, Counts DEF Announced, Ready, Kinds
<1>7. OneToken(o)'
    BY <1>u, <1>5 DEF OnceAt, OneToken, Ready
<1>8. TokenFits(o)'
    BY <1>u, <1>5, <1>6 DEF OnceAt, TokenFits, Untold, Ready, Work, Notices
<1>9. OutcomeFits(o)'
    BY <1>u, <1>6 DEF OnceAt, OutcomeFits, Notices
<1>10. QED
    BY <1>6, <1>7, <1>8, <1>9 DEF OnceAt

\* An order whose messages, saga, charge, parcel and mails stay, or whose instance and
\* outbox row a restart removes, keeps the invariant.
LEMMA OnceFrame ==
    ASSUME NEW p \in Orders, OnceAt(p),
           queue'[p] = queue[p], captures'[p] = captures[p], parcels'[p] = parcels[p],
           emails'[p] = emails[p], saga'[p] \in {saga[p], "None"},
           (p \in placed) = (p \in placed'), p \in outbox' => p \in outbox
    PROVE  OnceAt(p)'
<1>1. OneToken(p)'
    BY DEF OnceAt, OneToken, Ready
<1>2. TokenFits(p)'
    BY DEF OnceAt, TokenFits, Untold, Ready, Announced
<1>3. OutcomeFits(p)'
    BY DEF OnceAt, OutcomeFits, Ready, Announced
<1>4. QED
    BY <1>1, <1>2, <1>3 DEF OnceAt

--------------------------------------------------------------------------------
(***************************************************************************)
(* The invariant of the whole process.                                     *)
(***************************************************************************)

\* No step ends with a message in an _error queue, an order with two tokens, or an
\* outcome that does not fit, unless a delivery was repeated.
LEMMA StepOnce == FlowInv /\ [Next]_vars => ExactlyOnce'
<1> SUFFICES ASSUME FlowInv, [Next]_vars, redeliveries' = 0
             PROVE  (errorQueue = {})' /\ \A p \in Orders : OnceAt(p)'
    BY DEF ExactlyOnce, OnceAt
<1>1. TypeOK /\ TypeOK'
    BY StepFault DEF FlowInv, FaultInv
<1>2. redeliveries = 0
    BY <1>1, NoneBefore
<1>3. errorQueue = {} /\ \A p \in Orders : OnceAt(p)
    BY <1>2 DEF FlowInv, ExactlyOnce, OnceAt
<1>4. ASSUME NEW o \in Orders, Intake(o) \/ Orchestrate(o) \/ Pay(o) \/ Ship(o) \/ Notify(o)
      PROVE  UNCHANGED errorQueue /\ \A p \in Orders : OnceAt(p)'
    <2>1. OnceAt(o)'
        BY <1>1, <1>2, <1>3, <1>4, OnceIntake, OnceOrchestrate, OncePay, OnceShip, OnceNotify
    <2>2. ASSUME NEW p \in Orders \ {o}
          PROVE  OnceAt(p)'
        BY <1>1, <1>3, <1>4, OthersUntouched, OnceFrame
    <2>3. UNCHANGED errorQueue
        <3>1. CASE Orchestrate(o)
            BY <1>1, <1>2, <1>3, <3>1, OnceOrchestrate DEF Handle, DropUncorrelated, Consume
        <3>2. CASE Intake(o)
            BY <3>2 DEF Intake, PlaceOrder, RelayOutbox, busVars
        <3>3. CASE Pay(o)
            BY <3>3 DEF Pay, Charge, Decline, Consume
        <3>4. CASE Ship(o)
            BY <3>4 DEF Ship, Prepare, RunOut, Consume
        <3>5. CASE Notify(o)
            BY <3>5 DEF Notify, SendEmail, Consume
        <3>6. QED
            BY <1>4, <3>1, <3>2, <3>3, <3>4, <3>5
    <2>4. QED
        BY <2>1, <2>2, <2>3
<1>5. CASE RestartOrderService
    <2>1. /\ UNCHANGED <<queue, errorQueue, captures, parcels, emails, placed>>
          /\ saga' = [o \in Orders |-> "None"] /\ outbox' = {}
        BY <1>2, <1>5 DEF RestartOrderService, LoseInstances, LoseOutbox, busVars, CutOff, Redeliver
    <2>2. QED
        BY <1>3, <2>1, OnceFrame
<1>6. CASE UNCHANGED vars
    BY <1>3, <1>6, OnceFrame DEF vars
<1>7. QED
    BY <1>3, <1>4, <1>5, <1>6 DEF Next

\* In the beginning there are no messages at all.
LEMMA InitOnce == Init => ExactlyOnce
<1> SUFFICES ASSUME Init, NEW o \in Orders
             PROVE  errorQueue = {} /\ OnceAt(o)
    BY DEF ExactlyOnce, OnceAt, Init, BusInit
<1>1. \A k \in Kinds : queue[o][k] = 0
    BY DEF Init, BusInit
<1>2. saga[o] = "None" /\ captures[o] = 0 /\ parcels[o] = 0 /\ errorQueue = {} /\ o \notin outbox
    BY DEF Init, BusInit, SagaInit, PaymentInit, ShipmentInit, OutboxInit
<1>3. \A n \in Notices : emails[o][n] = 0
    BY DEF Init, NotificationInit
<1>4. QED
    BY <1>1, <1>2, <1>3
       DEF OnceAt, OneToken, TokenFits, OutcomeFits, Untold, Ready, Announced, Kinds, Work, Notices

\* The inductive invariant of the order process, with its part about repeated
\* deliveries and its part about exactly-once delivery.
THEOREM FlowInvariant == Spec => []FlowInv
<1>1. Init => FlowInv
    BY InitFault, InitOnce DEF FlowInv
<1>2. FlowInv /\ [Next]_vars => FlowInv'
    BY StepFault, StepOnce DEF FlowInv
<1>3. QED
    BY <1>1, <1>2, PTL DEF Spec

\* A cancelled order is never also completed, and was never charged, or charged once,
\* not shipped and refunded.
THEOREM CompensationIsRight == Spec => []CompensationFits
<1>1. FlowInv => CompensationFits
    <2>1. ASSUME FlowInv, redeliveries = 0, NEW o \in Orders, Announced(o, "OrderCancelled")
          PROVE  /\ ~ Announced(o, "OrderCompleted")
                 /\ \/ captures[o] = 0 /\ ~ Announced(o, "PaymentRefunded")
                    \/ captures[o] = 1 /\ parcels[o] = 0 /\ Announced(o, "PaymentRefunded")
        <3>1. OneToken(o) /\ OutcomeFits(o) /\ TypeOK
            BY <2>1 DEF FlowInv, FaultInv, ExactlyOnce
        <3>2. captures[o] = 0 \/ captures[o] = 1
            BY <3>1, Counts DEF OneToken
        <3>3. QED
            BY <2>1, <3>1, <3>2 DEF OutcomeFits
    <2>2. QED
        BY <2>1 DEF CompensationFits
<1>2. QED
    BY <1>1, FlowInvariant, PTL

\* The saga has a transition for every message that reaches it.
THEOREM NothingIsRejected == Spec => []NothingRejected
<1>1. FlowInv => NothingRejected
    BY DEF FlowInv, ExactlyOnce, NothingRejected
<1>2. QED
    BY <1>1, FlowInvariant, PTL

--------------------------------------------------------------------------------
(***************************************************************************)
(* The services implement OrderLifecycle.                                  *)
(***************************************************************************)

\* A saga, payment or shipment step changes the news of its own order only, by what it
\* publishes.
LEMMA TellsNews ==
    ASSUME TypeOK, NEW o \in Orders, OneToken(o), NEW k \in Work, NEW sent, Consume(o, k, sent),
           UNCHANGED emails, redeliveries = 0, redeliveries' = 0
    PROVE  \A p \in Orders, n \in Notices :
               Announced(p, n)' <=> Announced(p, n) \/ (p = o /\ n \in sent)
<1>1. ASSUME NEW n \in Notices
      PROVE  Announced(o, n)' <=> Announced(o, n) \/ n \in sent
    <2>1. queue'[o][n] = queue[o][n] + (IF n \in sent THEN 1 ELSE 0)
        BY TokenMoves
    <2>2. queue[o][n] \in Nat
        BY Counts DEF Kinds
    <2>3. QED
        BY <2>1, <2>2 DEF Announced, Ready
<1>2. ASSUME NEW p \in Orders \ {o}, NEW n \in Notices
      PROVE  Announced(p, n)' <=> Announced(p, n)
    <2>1. queue'[p] = queue[p]
        BY ConsumeAt DEF TypeOK, Kinds
    <2>2. QED
        BY <2>1 DEF Announced, Ready
<1>3. QED
    BY <1>1, <1>2

\* Without news, the outcomes and the refunds stay what they are.
LEMMA NoNews ==
    ASSUME \A p \in Orders, n \in Notices : Announced(p, n)' <=> Announced(p, n)
    PROVE  /\ [p \in Orders |-> Outcome(p)]' = [p \in Orders |-> Outcome(p)]
           /\ {p \in Orders : Announced(p, "PaymentRefunded")}'
                  = {p \in Orders : Announced(p, "PaymentRefunded")}
<1>1. ASSUME NEW p \in Orders
      PROVE  Outcome(p)' = Outcome(p)
    BY DEF Outcome, Notices
<1>2. QED
    BY <1>1 DEF Notices

\* The process starts where the life cycle starts.
LEMMA InitRefines == Init => Lifecycle!Init
<1> SUFFICES ASSUME Init
             PROVE  Lifecycle!Init
    OBVIOUS
<1>1. ASSUME NEW o \in Orders, NEW n \in Notices
      PROVE  ~ Announced(o, n)
    BY DEF Init, BusInit, NotificationInit, Announced, Ready, Kinds
<1>2. \A o \in Orders : Outcome(o) = "open" /\ ~ Announced(o, "PaymentRefunded")
    BY <1>1 DEF Outcome, Notices
<1>3. QED
    BY <1>2 DEF Init, OutboxInit, PaymentInit, ShipmentInit, Lifecycle!Init

--------------------------------------------------------------------------------
(***************************************************************************)
(* Every step of a service is a step of the life cycle or none.            *)
(***************************************************************************)

\* PlaceOrder accepts the order; relaying it is invisible.
LEMMA IntakeRefines ==
    ASSUME FlowInv, NEW o \in Orders, Intake(o), redeliveries = 0, redeliveries' = 0
    PROVE  Lifecycle!Accept(o) \/ UNCHANGED Lifecycle!vars
<1>1. CASE PlaceOrder(o)
    <2>1. UNCHANGED <<queue, emails, captures, parcels>>
        BY <1>1 DEF Intake, PlaceOrder, busVars
    <2>2. \A p \in Orders, n \in Notices : Announced(p, n)' <=> Announced(p, n)
        BY <2>1 DEF Announced, Ready
    <2>3. QED
        BY <1>1, <2>1, <2>2, NoNews DEF PlaceOrder, Lifecycle!Accept
<1>2. CASE RelayOutbox(o)
    <2>1. UNCHANGED <<placed, emails, captures, parcels>>
        BY <1>2 DEF Intake, RelayOutbox
    <2>2. queue' = Exchange(o, {}, {"OrderCreated", "CreatedNotice"}) /\ BusTypeOK /\ TypeOK
        BY <1>2 DEF RelayOutbox, Redeliver, FlowInv, FaultInv, TypeOK
    <2>3. ASSUME NEW p \in Orders, NEW n \in {"OrderCompleted", "OrderCancelled", "PaymentRefunded"}
          PROVE  queue'[p][n] = queue[p][n]
        <3>1. CASE p = o
            <4>1. n \in Kinds /\ queue[o][n] \in Nat
                BY <2>2, Counts, AllKinds
            <4>2. QED
                BY <2>2, <3>1, <4>1, ExchangeAt
        <3>2. CASE p # o
            BY <2>2, <3>2, ExchangeAt
        <3>3. QED
            BY <3>1, <3>2
    <2>4. \A p \in Orders, n \in {"OrderCompleted", "OrderCancelled", "PaymentRefunded"} :
              Announced(p, n)' <=> Announced(p, n)
        BY <2>1, <2>3 DEF Announced, Ready
    <2>5. \A p \in Orders : Outcome(p)' = Outcome(p)
        BY <2>4 DEF Outcome
    <2>6. QED
        BY <2>1, <2>4, <2>5 DEF Lifecycle!vars
<1>3. QED
    BY <1>1, <1>2 DEF Intake

\* A charge takes the payment of an open order; a refusal is invisible.
LEMMA PayRefines ==
    ASSUME FlowInv, NEW o \in Orders, Pay(o), redeliveries = 0, redeliveries' = 0
    PROVE  Lifecycle!TakePayment(o) \/ UNCHANGED Lifecycle!vars
<1>1. TypeOK /\ OneToken(o) /\ TokenFits(o)
    BY DEF FlowInv, FaultInv, ExactlyOnce
<1>2. "PaymentRequested" \in Work
    BY DEF Work
<1>3. ASSUME NEW k \in Work, k \notin Notices, Consume(o, "PaymentRequested", {k})
      PROVE  /\ Ready(o, "PaymentRequested")
             /\ \A p \in Orders, n \in Notices : Announced(p, n)' <=> Announced(p, n)
    BY <1>1, <1>2, <1>3, TellsNews, TokenMoves DEF Pay
<1>4. CASE Charge(o)
    <2>1. /\ Ready(o, "PaymentRequested")
          /\ \A p \in Orders, n \in Notices : Announced(p, n)' <=> Announced(p, n)
        BY <1>3, <1>4 DEF Charge, Work, Notices
    <2>2. o \in placed /\ captures[o] = 0 /\ Untold(o)
        BY <1>1, <1>2, <2>1 DEF TokenFits
    <2>3. captures' = [captures EXCEPT ![o] = 1] /\ UNCHANGED <<placed, parcels>>
        BY <1>4, <2>2 DEF Pay, Charge, outboxVars
    <2>4. [p \in Orders |-> Outcome(p)][o] = "open"
        BY <2>2 DEF Outcome, Untold
    <2>5. QED
        BY <2>1, <2>2, <2>3, <2>4, NoNews DEF Lifecycle!TakePayment
<1>5. CASE Decline(o)
    <2>1. \A p \in Orders, n \in Notices : Announced(p, n)' <=> Announced(p, n)
        BY <1>3, <1>5 DEF Decline, Work, Notices
    <2>2. QED
        BY <1>5, <2>1, NoNews DEF Pay, Decline, outboxVars, Lifecycle!vars
<1>6. QED
    BY <1>4, <1>5 DEF Pay

\* A prepared parcel is sent for a charged, open order; "no stock" is invisible.
LEMMA ShipRefines ==
    ASSUME FlowInv, NEW o \in Orders, Ship(o), redeliveries = 0, redeliveries' = 0
    PROVE  Lifecycle!SendParcel(o) \/ UNCHANGED Lifecycle!vars
<1>1. TypeOK /\ OneToken(o) /\ TokenFits(o)
    BY DEF FlowInv, FaultInv, ExactlyOnce
<1>2. "ShipmentRequested" \in Work
    BY DEF Work
<1>3. ASSUME NEW k \in Work, k \notin Notices, Consume(o, "ShipmentRequested", {k})
      PROVE  /\ Ready(o, "ShipmentRequested")
             /\ \A p \in Orders, n \in Notices : Announced(p, n)' <=> Announced(p, n)
    BY <1>1, <1>2, <1>3, TellsNews, TokenMoves DEF Ship
<1>4. CASE Prepare(o)
    <2>1. /\ Ready(o, "ShipmentRequested")
          /\ \A p \in Orders, n \in Notices : Announced(p, n)' <=> Announced(p, n)
        BY <1>3, <1>4 DEF Prepare, Work, Notices
    <2>2. captures[o] = 1 /\ parcels[o] = 0 /\ Untold(o)
        BY <1>1, <2>1 DEF TokenFits
    <2>3. parcels' = [parcels EXCEPT ![o] = 1] /\ UNCHANGED <<placed, captures>>
        BY <1>4, <2>2 DEF Ship, Prepare, outboxVars
    <2>4. [p \in Orders |-> Outcome(p)][o] = "open"
        BY <2>2 DEF Outcome, Untold
    <2>5. QED
        BY <2>1, <2>2, <2>3, <2>4, NoNews DEF Lifecycle!SendParcel
<1>5. CASE RunOut(o)
    <2>1. \A p \in Orders, n \in Notices : Announced(p, n)' <=> Announced(p, n)
        BY <1>3, <1>5 DEF RunOut, Work, Notices
    <2>2. QED
        BY <1>5, <2>1, NoNews DEF Ship, RunOut, outboxVars, Lifecycle!vars
<1>6. QED
    BY <1>4, <1>5 DEF Ship

\* The saga's last transitions are the outcomes; the others are invisible.
LEMMA OrchestrateRefines ==
    ASSUME FlowInv, NEW o \in Orders, Orchestrate(o), redeliveries = 0, redeliveries' = 0
    PROVE  \/ Lifecycle!Complete(o) \/ Lifecycle!CancelUnpaid(o) \/ Lifecycle!CancelPaid(o)
           \/ UNCHANGED Lifecycle!vars
<1>1. TypeOK /\ OneToken(o) /\ TokenFits(o) /\ OnceAt(o)
    BY DEF FlowInv, FaultInv, ExactlyOnce, OnceAt
<1>u. UNCHANGED <<captures, parcels, emails, placed>>
    BY DEF Orchestrate, outboxVars
<1>2. ASSUME NEW k \in SagaEvents, NEW sent, Consume(o, k, sent)
      PROVE  /\ Ready(o, k)
             /\ \A p \in Orders, n \in Notices :
                    Announced(p, n)' <=> Announced(p, n) \/ (p = o /\ n \in sent)
    <2>1. k \in Work
        BY DEF SagaEvents, Work
    <2>2. QED
        BY <1>1, <1>2, <1>u, <2>1, TellsNews, TokenMoves
<1>3. ASSUME NEW k \in SagaEvents, NEW sent, Consume(o, k, sent), sent \cap Notices = {}
      PROVE  UNCHANGED Lifecycle!vars
    <2>1. \A p \in Orders, n \in Notices : Announced(p, n)' <=> Announced(p, n)
        BY <1>2, <1>3
    <2>2. QED
        BY <1>u, <2>1, NoNews DEF Lifecycle!vars
<1>4. ASSUME NEW k \in SagaEvents, DropUncorrelated(o, k)
      PROVE  UNCHANGED Lifecycle!vars
    BY <1>3, <1>4 DEF DropUncorrelated
<1>5. CASE Consume(o, "OrderCreated", {"PaymentRequested"})
    BY <1>3, <1>5 DEF SagaEvents, Notices
<1>6. CASE Consume(o, "PaymentCompleted", {"ShipmentRequested"})
    BY <1>3, <1>6 DEF SagaEvents, Notices
<1>7. CASE Consume(o, "PaymentFailed", {"OrderCancelled"})
    <2>1. /\ Ready(o, "PaymentFailed")
          /\ \A p \in Orders, n \in Notices :
                 Announced(p, n)' <=> Announced(p, n) \/ (p = o /\ n \in {"OrderCancelled"})
        BY <1>2, <1>7 DEF SagaEvents
    <2>2. captures[o] = 0 /\ Untold(o) /\ o \in placed
        BY <1>1, <2>1 DEF TokenFits, Work
    <2>3. \A p \in Orders : Outcome(p)' = IF p = o THEN "cancelled" ELSE Outcome(p)
        BY <2>1, <2>2 DEF Outcome, Untold, Notices
    <2>4. Outcome(o) = "open"
        BY <2>2 DEF Outcome, Untold
    <2>5. QED
        BY <1>u, <2>1, <2>2, <2>3, <2>4 DEF Lifecycle!CancelUnpaid, Notices
<1>8. CASE Consume(o, "ShipmentPrepared", {"OrderCompleted"})
    <2>1. /\ Ready(o, "ShipmentPrepared")
          /\ \A p \in Orders, n \in Notices :
                 Announced(p, n)' <=> Announced(p, n) \/ (p = o /\ n \in {"OrderCompleted"})
        BY <1>2, <1>8 DEF SagaEvents
    <2>2. parcels[o] = 1 /\ Untold(o)
        BY <1>1, <2>1 DEF TokenFits
    <2>3. \A p \in Orders : Outcome(p)' = IF p = o THEN "completed" ELSE Outcome(p)
        BY <2>1, <2>2 DEF Outcome, Untold, Notices
    <2>4. Outcome(o) = "open"
        BY <2>2 DEF Outcome, Untold
    <2>5. QED
        BY <1>u, <2>1, <2>2, <2>3, <2>4 DEF Lifecycle!Complete, Notices
<1>9. CASE Consume(o, "ShipmentFailed", {"PaymentRefunded", "OrderCancelled"})
    <2>1. /\ Ready(o, "ShipmentFailed")
          /\ \A p \in Orders, n \in Notices : Announced(p, n)'
                 <=> Announced(p, n) \/ (p = o /\ n \in {"PaymentRefunded", "OrderCancelled"})
        BY <1>2, <1>9 DEF SagaEvents
    <2>2. captures[o] = 1 /\ parcels[o] = 0 /\ Untold(o)
        BY <1>1, <2>1 DEF TokenFits
    <2>3. \A p \in Orders : Outcome(p)' = IF p = o THEN "cancelled" ELSE Outcome(p)
        BY <2>1, <2>2 DEF Outcome, Untold, Notices
    <2>4. Outcome(o) = "open"
        BY <2>2 DEF Outcome, Untold
    <2>5. {p \in Orders : Announced(p, "PaymentRefunded")}'
              = {p \in Orders : Announced(p, "PaymentRefunded")} \cup {o}
        BY <2>1 DEF Notices
    <2>6. QED
        BY <1>u, <2>2, <2>3, <2>4, <2>5 DEF Lifecycle!CancelPaid
<1>10. QED
    BY <1>1, <1>4, <1>5, <1>6, <1>7, <1>8, <1>9, OnceOrchestrate, HandleCases

\* E-mails and restarts are invisible.
LEMMA NotifyRefines ==
    ASSUME FlowInv, NEW o \in Orders, Notify(o), redeliveries = 0, redeliveries' = 0
    PROVE  UNCHANGED Lifecycle!vars
<1>1. TypeOK /\ OnceAt(o)
    BY DEF FlowInv, FaultInv, ExactlyOnce, OnceAt
<1>2. ASSUME NEW p \in Orders, NEW n \in Notices
      PROVE  Announced(p, n)' <=> Announced(p, n)
    <2>1. CASE p = o
        BY <1>1, <2>1, OnceNotify
    <2>2. CASE p # o
        BY <1>1, <2>2, OthersUntouched DEF Announced, Ready
    <2>3. QED
        BY <2>1, <2>2
<1>3. QED
    BY <1>2, NoNews DEF Notify, outboxVars, Lifecycle!vars

\* With exactly-once delivery the services together implement the life cycle of an
\* order, for any set of orders and any number of restarts of OrderService.
THEOREM Refinement ==
    ASSUME MaxRedeliveries = 0
    PROVE  Spec => ImplementsLifecycle
<1>1. ASSUME FlowInv, FlowInv', [Next]_vars
      PROVE  [Lifecycle!Next]_(Lifecycle!vars)
    <2>1. redeliveries = 0 /\ redeliveries' = 0
        BY <1>1 DEF FlowInv, FaultInv, TypeOK, BusTypeOK
    <2>2. ASSUME NEW o \in Orders,
                 Intake(o) \/ Orchestrate(o) \/ Pay(o) \/ Ship(o) \/ Notify(o)
          PROVE  [Lifecycle!Next]_(Lifecycle!vars)
        BY <1>1, <2>1, <2>2, IntakeRefines, OrchestrateRefines, PayRefines, ShipRefines,
           NotifyRefines DEF Lifecycle!Next
    <2>3. CASE RestartOrderService
        <3>1. UNCHANGED <<queue, emails, captures, parcels, placed>>
            BY <2>1, <2>3 DEF RestartOrderService, LoseOutbox, busVars, CutOff, Redeliver
        <3>2. \A p \in Orders, n \in Notices : Announced(p, n)' <=> Announced(p, n)
            BY <3>1 DEF Announced, Ready
        <3>3. QED
            BY <3>1, <3>2, NoNews DEF Lifecycle!vars
    <2>4. CASE UNCHANGED vars
        <3>1. \A p \in Orders, n \in Notices : Announced(p, n)' <=> Announced(p, n)
            BY <2>4 DEF vars, Announced, Ready
        <3>2. QED
            BY <2>4, <3>1, NoNews DEF vars, Lifecycle!vars
    <2>5. QED
        BY <1>1, <2>2, <2>3, <2>4 DEF Next
<1>2. QED
    BY <1>1, InitRefines, FlowInvariant, PTL DEF Spec, ImplementsLifecycle, Lifecycle!Spec

================================================================================
