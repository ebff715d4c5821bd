------------------------------- MODULE OrderSaga -------------------------------
(***************************************************************************)
(* The MassTransit state machine OrderSaga of OrderService, with the       *)
(* in-memory repository it is registered with.  The five When(...) clauses *)
(* of its constructor are the five transitions below: the state they       *)
(* apply in (Initially / During), the event, what they Publish in that     *)
(* order, and the state of TransitionTo.  Finalize with                    *)
(* SetCompletedWhenFinalized removes the instance, so Completed and        *)
(* Cancelled are never stored: both end in "None", no instance.            *)
(***************************************************************************)
EXTENDS Bus, Sequences

VARIABLE saga    \* saga[o]: CurrentState of the instance of o, "None" when there is none

SagaStates == {"None", "AwaitingPayment", "AwaitingShipment"}

SagaTypeOK == saga \in [Orders -> SagaStates]

SagaInit == saga = [o \in Orders |-> "None"]

--------------------------------------------------------------------------------
WhenOrderCreated ==
    [from |-> "None", event |-> "OrderCreated",
     publishes |-> <<"PaymentRequested">>, to |-> "AwaitingPayment"]

\* Mutant: the shipment is never asked for.
WhenPaymentCompletedNoRequest ==
    [from |-> "AwaitingPayment", event |-> "PaymentCompleted",
     publishes |-> <<>>, to |-> "AwaitingShipment"]

\* Mutant: the order is reported complete as soon as it is paid, as in the
\* two-step saga of day 128.
WhenPaymentCompletedTellsEarly ==
    [from |-> "AwaitingPayment", event |-> "PaymentCompleted",
     publishes |-> <<"OrderCompleted", "ShipmentRequested">>, to |-> "AwaitingShipment"]

\* Mutant: TransitionTo is missing.
WhenPaymentCompletedStays ==
    [from |-> "AwaitingPayment", event |-> "PaymentCompleted",
     publishes |-> <<"ShipmentRequested">>, to |-> "AwaitingPayment"]

WhenPaymentCompleted ==
    [from |-> "AwaitingPayment", event |-> "PaymentCompleted",
     publishes |-> <<"ShipmentRequested">>, to |-> "AwaitingShipment"]

\* Mutant: a failed payment is tried again.
WhenPaymentFailedTriesAgain ==
    [from |-> "AwaitingPayment", event |-> "PaymentFailed",
     publishes |-> <<"PaymentRequested">>, to |-> "AwaitingPayment"]

WhenPaymentFailed ==
    [from |-> "AwaitingPayment", event |-> "PaymentFailed",
     publishes |-> <<"OrderCancelled">>, to |-> "None"]

\* Mutant: Finalize is missing, the instance stays in Completed.
WhenShipmentPreparedNotFinal ==
    [from |-> "AwaitingShipment", event |-> "ShipmentPrepared",
     publishes |-> <<"OrderCompleted">>, to |-> "Completed"]

WhenShipmentPrepared ==
    [from |-> "AwaitingShipment", event |-> "ShipmentPrepared",
     publishes |-> <<"OrderCompleted">>, to |-> "None"]

\* Mutant: the compensation is missing.
WhenShipmentFailedNoRefund ==
    [from |-> "AwaitingShipment", event |-> "ShipmentFailed",
     publishes |-> <<"OrderCancelled">>, to |-> "None"]

\* Mutant: the order is never cancelled.
WhenShipmentFailedNoCancel ==
    [from |-> "AwaitingShipment", event |-> "ShipmentFailed",
     publishes |-> <<"PaymentRefunded">>, to |-> "None"]

\* The compensation: the refund is published first, then the cancellation.
WhenShipmentFailed ==
    [from |-> "AwaitingShipment", event |-> "ShipmentFailed",
     publishes |-> <<"PaymentRefunded", "OrderCancelled">>, to |-> "None"]

Transitions == {WhenOrderCreated, WhenPaymentCompleted, WhenPaymentFailed,
                WhenShipmentPrepared, WhenShipmentFailed}

\* The events the saga's queue receives.
SagaEvents == {"OrderCreated", "PaymentCompleted", "PaymentFailed",
               "ShipmentPrepared", "ShipmentFailed"}

\* What transition t has published once its first n Publish calls returned.
Published(t, n) == {t.publishes[i] : i \in 1..n}

--------------------------------------------------------------------------------
\* The event fits the state: everything is published and the state stored.
Handle(o, t) ==
    /\ saga[o] = t.from
    /\ Consume(o, t.event, Published(t, Len(t.publishes)))
    /\ saga' = [saga EXCEPT ![o] = t.to]

\* A Publish throws because the connection to the broker is gone: the calls
\* before it, perhaps that one too, are out; TransitionTo was not reached; the
\* unacknowledged event comes back.
CutOff(o, t) ==
    /\ saga[o] = t.from
    /\ Ready(o, t.event)
    /\ \E n \in 1..Len(t.publishes) : Redeliver(o, Published(t, n))
    /\ UNCHANGED errorQueue

Interrupt(o, t) == CutOff(o, t) /\ UNCHANGED saga

\* An event other than OrderCreated without an instance: MassTransit drops it.
DropUncorrelated(o, k) ==
    /\ saga[o] = "None"
    /\ k \in SagaEvents \ {"OrderCreated"}
    /\ Consume(o, k, {})
    /\ UNCHANGED saga

\* An event the state has no When for: UnhandledEventException, so _error.
RejectUnexpected(o, k) ==
    /\ saga[o] # "None"
    /\ k \in SagaEvents
    /\ \A t \in Transitions : ~ (t.from = saga[o] /\ t.event = k)
    /\ DeadLetter(o, k)
    /\ UNCHANGED saga

\* The process ends: the in-memory repository is empty afterwards.
LoseInstances == saga' = [o \in Orders |-> "None"]

================================================================================
