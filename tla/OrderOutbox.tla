------------------------------ MODULE OrderOutbox ------------------------------
(***************************************************************************)
(* The seam between OrderController and the broker: CreateOrder stores the *)
(* order and its OrderCreatedEvent with one SaveChanges, and MassTransit's *)
(* bus outbox later sends the stored event.  Both tables are in EF's       *)
(* in-memory database and end with the process; how often OrderService may *)
(* end and start again is bounded here for all of its parts.               *)
(***************************************************************************)
EXTENDS Bus

CONSTANT MaxRestarts    \* bound: how often OrderService may be restarted

ASSUME RestartAssumption == MaxRestarts \in Nat

VARIABLES
    placed,     \* the orders that CreateOrder has stored, ever, answered or not
    outbox,     \* the orders whose OrderCreatedEvent is still to be sent
    restarts    \* how often OrderService was restarted

outboxVars == <<placed, outbox>>

OutboxTypeOK ==
    /\ placed \subseteq Orders
    /\ outbox \subseteq placed

OutboxInit ==
    /\ placed = {}
    /\ outbox = {}

\* Mutant: the event is published after SaveChanges, into a scope nobody saves.
PlaceOrderThenPublish(o) ==
    /\ o \notin placed
    /\ placed' = placed \cup {o}
    /\ UNCHANGED outbox
    /\ UNCHANGED busVars

\* SaveChanges commits the order and its event together.
PlaceOrder(o) ==
    /\ o \notin placed
    /\ placed' = placed \cup {o}
    /\ outbox' = outbox \cup {o}
    /\ UNCHANGED busVars

\* Mutant: the row is not deleted after the event was sent.
RelayOutboxKeepsRow(o) ==
    /\ o \in outbox
    /\ queue' = Exchange(o, {}, {"OrderCreated", "CreatedNotice"})
    /\ UNCHANGED <<placed, outbox, errorQueue, redeliveries>>

\* The delivery service sends the event to both subscribers and deletes the
\* row; when the broker's confirmation is lost it keeps the row and sends again.
RelayOutbox(o) ==
    /\ o \in outbox
    /\ \/ /\ queue' = Exchange(o, {}, {"OrderCreated", "CreatedNotice"})
          /\ outbox' = outbox \ {o}
          /\ UNCHANGED redeliveries
       \/ /\ Redeliver(o, {"OrderCreated", "CreatedNotice"})
          /\ UNCHANGED outbox
    /\ UNCHANGED <<placed, errorQueue>>

\* The process ends: what was not sent yet is gone.
LoseOutbox ==
    /\ outbox' = {}
    /\ UNCHANGED placed

================================================================================
