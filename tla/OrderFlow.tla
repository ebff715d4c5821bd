------------------------------- MODULE OrderFlow -------------------------------
(***************************************************************************)
(* The order process of ECommerceApp: OrderService (outbox and saga),      *)
(* PaymentService, ShipmentService and NotificationService around one      *)
(* broker.  Two kinds of faults are part of it, each with a bound: a       *)
(* delivery that is repeated (MaxRedeliveries, in Bus) and a restart of    *)
(* OrderService (MaxRestarts), whose state is all in memory.  The other    *)
(* services keep nothing that a restart could lose; theirs is a repeated   *)
(* delivery.  An order is accepted when SaveChanges has stored it; whether *)
(* its client heard the 201 is a matter of OrderIntake.                    *)
(***************************************************************************)
EXTENDS OrderSaga, PaymentService, ShipmentService, NotificationService, OrderOutbox

vars == <<queue, errorQueue, redeliveries, saga, captures, parcels, emails,
          placed, outbox, restarts>>

TypeOK ==
    /\ BusTypeOK
    /\ SagaTypeOK
    /\ PaymentTypeOK
    /\ ShipmentTypeOK
    /\ NotificationTypeOK
    /\ OutboxTypeOK
    /\ restarts \in 0..MaxRestarts

Init ==
    /\ BusInit
    /\ SagaInit
    /\ PaymentInit
    /\ ShipmentInit
    /\ NotificationInit
    /\ OutboxInit
    /\ restarts = 0

--------------------------------------------------------------------------------
Intake(o) ==
    /\ PlaceOrder(o) \/ RelayOutbox(o)
    /\ UNCHANGED <<saga, captures, parcels, emails, restarts>>

Orchestrate(o) ==
    /\ \/ \E t \in Transitions : Handle(o, t) \/ Interrupt(o, t)
       \/ \E k \in SagaEvents : DropUncorrelated(o, k) \/ RejectUnexpected(o, k)
    /\ UNCHANGED <<captures, parcels, emails, outboxVars, restarts>>

Pay(o) ==
    /\ Charge(o) \/ Decline(o)
    /\ UNCHANGED <<saga, parcels, emails, outboxVars, restarts>>

Ship(o) ==
    /\ Prepare(o) \/ RunOut(o)
    /\ UNCHANGED <<saga, captures, emails, outboxVars, restarts>>

Notify(o) ==
    /\ \E n \in Notices : SendEmail(o, n)
    /\ UNCHANGED <<saga, captures, parcels, outboxVars, restarts>>

\* OrderService ends and starts again, between two messages or in the middle
\* of one that the saga was handling.
RestartOrderService ==
    /\ restarts < MaxRestarts
    /\ restarts' = restarts + 1
    /\ LoseInstances
    /\ LoseOutbox
    /\ \/ UNCHANGED busVars
       \/ \E o \in Orders, t \in Transitions : CutOff(o, t)
    /\ UNCHANGED <<captures, parcels, emails>>

Next ==
    \/ \E o \in Orders : Intake(o) \/ Orchestrate(o) \/ Pay(o) \/ Ship(o) \/ Notify(o)
    \/ RestartOrderService

Spec == Init /\ [][Next]_vars

(***************************************************************************)
(* Fairness: the outbox delivery service polls (QueryDelay), and every     *)
(* consumer keeps reading its queue.  Customers need not place orders, and *)
(* nothing need ever fail.                                                 *)
(***************************************************************************)
Fairness ==
    \A o \in Orders :
        /\ WF_vars(RelayOutbox(o) /\ Intake(o))
        /\ WF_vars(Orchestrate(o))
        /\ WF_vars(Pay(o))
        /\ WF_vars(Ship(o))
        /\ \A n \in Notices : WF_vars(SendEmail(o, n) /\ Notify(o))

FairSpec == Spec /\ Fairness

--------------------------------------------------------------------------------
(***************************************************************************)
(* Properties that hold whatever is redelivered and however often          *)
(* OrderService restarts.                                                  *)
(***************************************************************************)

\* The request that the instance of o waits on, or the answer, is in the broker.
Served(o) ==
    /\ saga[o] = "AwaitingPayment" =>
           \E k \in {"PaymentRequested", "PaymentCompleted", "PaymentFailed"} : Ready(o, k)
    /\ saga[o] = "AwaitingShipment" =>
           \E k \in {"ShipmentRequested", "ShipmentPrepared", "ShipmentFailed"} : Ready(o, k)

\* A stored saga never waits in vain: as long as the instance of an order is
\* in AwaitingPayment (AwaitingShipment), the request it sent or the answer to
\* it is still in the broker.  OrderSaga has no timeout that would get it out.
NeverWaitsInVain == \A o \in Orders : Served(o)

\* Goods leave the warehouse only for money: no parcel is prepared for an order
\* whose customer was never charged, also when a second saga runs on the
\* leftovers of the first.
ShipsOnlyPaid ==
    \A o \in Orders : parcels[o] > 0 => captures[o] > 0

\* The customer hears "completed" only if a parcel exists, and "refunded" only
\* if there was a charge (OrderSaga publishes both, other services did the work).
NewsIsTrue ==
    \A o \in Orders :
        /\ Announced(o, "OrderCompleted") => parcels[o] > 0
        /\ Announced(o, "PaymentRefunded") => captures[o] > 0

\* Nothing comes from nothing: for an order that OrderController has not stored,
\* no service has a message, an instance, a charge, a parcel or an e-mail.
Untouched(o) ==
    /\ \A k \in Kinds : ~ Ready(o, k)
    /\ saga[o] = "None"
    /\ captures[o] = 0
    /\ parcels[o] = 0
    /\ \A n \in Notices : emails[o][n] = 0

NothingFromNothing == \A o \in Orders \ placed : Untouched(o)

\* What at-least-once delivery can cost: PaymentService and ShipmentService do
\* not deduplicate, yet each repeated delivery, wherever between the outbox and
\* the parcel it happens, buys at most one charge and one parcel too many; a parcel
\* beyond the charges takes a repeated delivery of its own.
DamageIsBounded ==
    \A o \in Orders :
        /\ captures[o] <= 1 + redeliveries
        /\ parcels[o] <= 1 + redeliveries
        /\ parcels[o] <= captures[o] + redeliveries

\* Every accepted order is decided: unless OrderService restarts, the customer
\* of a placed order gets the completed or the cancelled e-mail.
Decided(o) == emails[o]["OrderCompleted"] > 0 \/ emails[o]["OrderCancelled"] > 0

EveryOrderDecided ==
    \A o \in Orders : o \in placed ~> (Decided(o) \/ restarts > 0)

--------------------------------------------------------------------------------
(***************************************************************************)
(* What EveryOrderDecided rests on, as safety: an order that is not decided*)
(* has work left, and there is an end to the work.                         *)
(***************************************************************************)

\* Somebody has something to do for o.
Pending(o) == o \in outbox \/ \E k \in Kinds : Ready(o, k)

\* No accepted order is forgotten: until OrderService restarts, an order whose
\* customer knows no outcome has its outbox row or a message about it to be consumed,
\* whatever was repeated, rejected or dropped.
NothingForgotten ==
    restarts = 0 => \A o \in placed : Decided(o) \/ Pending(o)

One(b) == IF b THEN 1 ELSE 0

\* The messages about one order, each weighed by the longest chain of consumers it
\* can set off.
PaymentSteps(q) == 7 * q["OrderCreated"] + 6 * q["PaymentRequested"]
                   + 5 * q["PaymentCompleted"] + 2 * q["PaymentFailed"]
ShipmentSteps(q) == 4 * q["ShipmentRequested"]
                    + 2 * q["ShipmentPrepared"] + 3 * q["ShipmentFailed"]
NoticeSteps(q) == q["CreatedNotice"] + q["OrderCompleted"]
                  + q["OrderCancelled"] + q["PaymentRefunded"]
Load(q) == PaymentSteps(q) + ShipmentSteps(q) + NoticeSteps(q)

\* How many steps may still be taken for o: acceptance, outbox row, messages, and for
\* each delivery that may still be repeated as much as the largest repetition, that of
\* an outbox row.
Budget(o) ==
    10 * One(o \notin placed) + 9 * One(o \in outbox) + Load(queue[o])
    + 9 * (MaxRedeliveries - redeliveries)

\* A step uses up the budget of an order, or is one of the restarts, and adds to none.
Spends ==
    /\ \A o \in Orders : Budget(o)' <= Budget(o)
    /\ restarts' > restarts \/ \E o \in Orders : Budget(o)' < Budget(o)

\* No message goes round: whatever saga and services do, in whatever state an event
\* finds them, all work on an order ends.
NoEndlessWork == [][Spends]_vars

--------------------------------------------------------------------------------
(***************************************************************************)
(* Properties that hold as long as no delivery was repeated, restarts of   *)
(* OrderService included.                                                  *)
(***************************************************************************)

\* Money, goods and news agree on one outcome (five handlers in three services have
\* to): a cancelled order is not reported complete as well, and was either never
\* charged, and no refund is announced, or it was charged once, nothing was
\* shipped, and the refund is announced too.
CompensationFits ==
    redeliveries = 0 => \A o \in Orders :
        Announced(o, "OrderCancelled") =>
            /\ ~ Announced(o, "OrderCompleted")
            /\ \/ captures[o] = 0 /\ ~ Announced(o, "PaymentRefunded")
               \/ captures[o] = 1 /\ parcels[o] = 0 /\ Announced(o, "PaymentRefunded")

\* The saga has a When for every event that can reach it: no message ends in an
\* _error queue.
NothingRejected == redeliveries = 0 => errorQueue = {}

--------------------------------------------------------------------------------
(***************************************************************************)
(* The inductive invariant behind these properties.                        *)
(***************************************************************************)
\* Whatever may still become a charge of o, with the charges made, stays within
\* the one acceptance of o and the repeated deliveries; so does, over both
\* services, whatever may still become a parcel; and from the charge on that
\* stays within the charges and the repeated deliveries.
Conserved(o) ==
    /\ One(o \in outbox) + queue[o]["OrderCreated"] + queue[o]["PaymentRequested"] + captures[o]
           <= One(o \in placed) + redeliveries
    /\ One(o \in outbox) + queue[o]["OrderCreated"] + queue[o]["PaymentRequested"]
           + queue[o]["PaymentCompleted"] + queue[o]["ShipmentRequested"] + parcels[o]
           <= One(o \in placed) + redeliveries
    /\ queue[o]["PaymentCompleted"] + queue[o]["ShipmentRequested"] + parcels[o]
           <= captures[o] + redeliveries

\* What comes after the payment (after the parcel) has it behind it.
Grounded(o) ==
    /\ captures[o] = 0 =>
           /\ \A k \in {"PaymentCompleted", "ShipmentRequested", "ShipmentPrepared", "ShipmentFailed"} :
                  ~ Ready(o, k)
           /\ saga[o] # "AwaitingShipment"
           /\ parcels[o] = 0
           /\ ~ Announced(o, "PaymentRefunded")
    /\ parcels[o] = 0 => ~ Ready(o, "ShipmentPrepared") /\ ~ Announced(o, "OrderCompleted")

Untold(o) == \A n \in {"OrderCompleted", "OrderCancelled", "PaymentRefunded"} : ~ Announced(o, n)

\* Without repeated deliveries an order is one token that moves from message to
\* message; where it is determines the charge, the parcel and, unless a restart
\* has removed the instance, the state of the saga.
OneToken(o) ==
    /\ \A k \in Work : queue[o][k] <= 1
    /\ \A j, k \in Work : Ready(o, j) /\ Ready(o, k) => j = k
    /\ o \in outbox => \A k \in Work : ~ Ready(o, k)
    /\ parcels[o] <= captures[o]
    /\ captures[o] <= 1

TokenFits(o) ==
    /\ o \notin placed \/ o \in outbox \/ Ready(o, "OrderCreated") =>
           saga[o] = "None" /\ captures[o] = 0 /\ Untold(o)
    /\ o \notin placed => \A k \in Work : ~ Ready(o, k)
    /\ Ready(o, "PaymentRequested") \/ Ready(o, "PaymentFailed") =>
           saga[o] # "AwaitingShipment" /\ captures[o] = 0 /\ Untold(o)
    /\ Ready(o, "PaymentCompleted") =>
           saga[o] # "AwaitingShipment" /\ captures[o] = 1 /\ parcels[o] = 0 /\ Untold(o)
    /\ Ready(o, "ShipmentRequested") \/ Ready(o, "ShipmentFailed") =>
           saga[o] # "AwaitingPayment" /\ captures[o] = 1 /\ parcels[o] = 0 /\ Untold(o)
    /\ Ready(o, "ShipmentPrepared") =>
           saga[o] # "AwaitingPayment" /\ captures[o] = 1 /\ parcels[o] = 1 /\ Untold(o)

OutcomeFits(o) ==
    /\ Announced(o, "OrderCompleted") =>
           /\ ~ Announced(o, "OrderCancelled")
           /\ ~ Announced(o, "PaymentRefunded")
           /\ captures[o] = 1 /\ parcels[o] = 1
    /\ Announced(o, "OrderCancelled") =>
           /\ parcels[o] = 0
           /\ captures[o] = 1 <=> Announced(o, "PaymentRefunded")
    /\ Announced(o, "PaymentRefunded") => Announced(o, "OrderCancelled")

ExactlyOnce ==
    redeliveries = 0 =>
        /\ errorQueue = {}
        /\ \A o \in Orders : OneToken(o) /\ TokenFits(o) /\ OutcomeFits(o)

\* An accepted order is in somebody's hands, and the last of them tells the customer.
OnItsWay(o) ==
    \/ o \in outbox
    \/ Ready(o, "OrderCreated")
    \/ saga[o] # "None"
    \/ Announced(o, "OrderCompleted") \/ Announced(o, "OrderCancelled")

AllOnTheirWay == restarts = 0 => \A o \in placed : OnItsWay(o)

FaultInv ==
    /\ TypeOK
    /\ NeverWaitsInVain
    /\ \A o \in Orders : Conserved(o) /\ Grounded(o)

FlowInv == FaultInv /\ ExactlyOnce

--------------------------------------------------------------------------------
(***************************************************************************)
(* What the customer is promised (OrderLifecycle), read off the state.     *)
(***************************************************************************)
Outcome(o) ==
    IF Announced(o, "OrderCompleted") THEN "completed"
    ELSE IF Announced(o, "OrderCancelled") THEN "cancelled"
    ELSE "open"

Lifecycle == INSTANCE OrderLifecycle WITH
    accepted <- placed,
    charges  <- captures,
    parcels  <- parcels,
    outcome  <- [o \in Orders |-> Outcome(o)],
    refunded <- {o \in Orders : Announced(o, "PaymentRefunded")}

\* With exactly-once delivery the services together implement the life cycle.
ImplementsLifecycle == Lifecycle!Spec

--------------------------------------------------------------------------------
(***************************************************************************)
(* What a document says of this process, and the code does not do.         *)
(***************************************************************************)

\* "Idempotency: on the consumer's side, always" (gun129_hafta18_ozet.md): no
\* order is charged twice because a message came twice.
ChargedAtMostOnce == \A o \in Orders : captures[o] <= 1

================================================================================
