---------------------------------- MODULE Bus ----------------------------------
(***************************************************************************)
(* The RabbitMQ broker as the services of ECommerceApp use it through      *)
(* MassTransit.  Every contract of Shared/Contracts/Events is one kind of  *)
(* message; what a message carries besides its OrderId is never branched   *)
(* on and is left out.  A message that two services subscribe to is two    *)
(* kinds, one for each queue.                                              *)
(*                                                                         *)
(* The broker keeps a message until its consumer acknowledges it, in no    *)
(* order that a consumer could rely on (several endpoints, a prefetch      *)
(* above one).  An acknowledgement that is lost makes the broker deliver   *)
(* the same message again, after the consumer has done its work.           *)
(***************************************************************************)
EXTENDS Naturals

CONSTANTS
    Orders,           \* the identities of the orders (OrderId, a fresh Guid each)
    MaxRedeliveries   \* bound: how many messages may be delivered once more

ASSUME BusAssumption == MaxRedeliveries \in Nat

\* The messages that drive an order through the three services.
Work == {"OrderCreated", "PaymentRequested", "PaymentCompleted", "PaymentFailed",
         "ShipmentRequested", "ShipmentPrepared", "ShipmentFailed"}

\* The messages that only NotificationService reads.  "CreatedNotice" is its
\* own copy of the OrderCreatedEvent (queue "notification-order-created").
Notices == {"CreatedNotice", "OrderCompleted", "OrderCancelled", "PaymentRefunded"}

Kinds == Work \cup Notices

VARIABLES
    queue,          \* queue[o][k]: how many messages of kind k about o are in the broker
    errorQueue,     \* the messages MassTransit moved to an _error queue
    redeliveries    \* how many deliveries have been repeated so far

busVars == <<queue, errorQueue, redeliveries>>

BusTypeOK ==
    /\ queue \in [Orders -> [Kinds -> Nat]]
    /\ errorQueue \subseteq Orders \X Kinds
    /\ redeliveries \in 0..MaxRedeliveries

BusInit ==
    /\ queue = [o \in Orders |-> [k \in Kinds |-> 0]]
    /\ errorQueue = {}
    /\ redeliveries = 0

--------------------------------------------------------------------------------
Ready(o, k) == queue[o][k] > 0

\* The queues of o after the kinds in "taken" lost a message and the kinds in
\* "sent" gained one.
Exchange(o, taken, sent) ==
    [queue EXCEPT ![o] = [k \in Kinds |->
        (queue[o][k] + (IF k \in sent THEN 1 ELSE 0)) - (IF k \in taken THEN 1 ELSE 0)]]

Acknowledge(o, k, sent) ==
    /\ queue' = Exchange(o, {k}, sent)
    /\ UNCHANGED redeliveries

\* What the consumer published is out, but the message it worked on stays.
Redeliver(o, sent) ==
    /\ redeliveries < MaxRedeliveries
    /\ redeliveries' = redeliveries + 1
    /\ queue' = Exchange(o, {}, sent)

\* A consumer ran to its end on a message of kind k and published "sent".
Consume(o, k, sent) ==
    /\ Ready(o, k)
    /\ Acknowledge(o, k, sent) \/ Redeliver(o, sent)
    /\ UNCHANGED errorQueue

\* A consumer threw: no retry is configured, the message goes to _error.
DeadLetter(o, k) ==
    /\ Ready(o, k)
    /\ Acknowledge(o, k, {})
    /\ errorQueue' = errorQueue \cup {<<o, k>>}

================================================================================
