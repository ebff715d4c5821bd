------------------------------- MODULE BusProofs -------------------------------
(***************************************************************************)
(* Lemmas about the broker: what consuming, repeating and rejecting a      *)
(* message does to the queues of its order, and that it keeps their types. *)
(***************************************************************************)
EXTENDS Bus, TLAPS

\* Taking only what is there leaves counts of messages.
LEMMA ExchangeType ==
    ASSUME BusTypeOK, NEW o \in Orders, NEW taken, NEW sent,
           \A k \in taken : Ready(o, k)
    PROVE  Exchange(o, taken, sent) \in [Orders -> [Kinds -> Nat]]
<1>1. \A k \in Kinds :
        (queue[o][k] + (IF k \in sent THEN 1 ELSE 0)) - (IF k \in taken THEN 1 ELSE 0) \in Nat
    BY DEF BusTypeOK, Ready
<1>2. [k \in Kinds |->
        (queue[o][k] + (IF k \in sent THEN 1 ELSE 0)) - (IF k \in taken THEN 1 ELSE 0)]
            \in [Kinds -> Nat]
    BY <1>1
<1>3. QED
    BY <1>2 DEF BusTypeOK, Exchange

\* An exchange touches the queues of one order, kind by kind.
LEMMA ExchangeAt ==
    ASSUME BusTypeOK, NEW o \in Orders, NEW taken, NEW sent,
           queue' = Exchange(o, taken, sent)
    PROVE  /\ \A k \in Kinds :
                queue'[o][k] = (queue[o][k] + (IF k \in sent THEN 1 ELSE 0))
                                   - (IF k \in taken THEN 1 ELSE 0)
           /\ \A p \in Orders \ {o} : queue'[p] = queue[p]
BY DEF BusTypeOK, Exchange

\* A repeated delivery stays within its bound and adds what was published.
LEMMA RedeliverType ==
    ASSUME BusTypeOK, NEW o \in Orders, NEW sent, Redeliver(o, sent), UNCHANGED errorQueue
    PROVE  BusTypeOK'
<1>1. queue' \in [Orders -> [Kinds -> Nat]]
    BY ExchangeType DEF Redeliver
<1>2. redeliveries' \in 0..MaxRedeliveries
    BY BusAssumption DEF Redeliver, BusTypeOK
<1>3. QED
    BY <1>1, <1>2 DEF BusTypeOK

\* A consumer that publishes kinds of messages keeps the broker's types.
LEMMA ConsumeType ==
    ASSUME BusTypeOK, NEW o \in Orders, NEW k \in Kinds, NEW sent, Consume(o, k, sent)
    PROVE  BusTypeOK'
<1>1. CASE Acknowledge(o, k, sent)
    <2>1. queue' \in [Orders -> [Kinds -> Nat]]
        BY <1>1, ExchangeType DEF Consume, Acknowledge
    <2>2. QED
        BY <1>1, <2>1 DEF Consume, Acknowledge, BusTypeOK
<1>2. CASE Redeliver(o, sent)
    BY <1>2, RedeliverType DEF Consume
<1>3. QED
    BY <1>1, <1>2 DEF Consume

\* So does a message that is moved to the _error queue.
LEMMA DeadLetterType ==
    ASSUME BusTypeOK, NEW o \in Orders, NEW k \in Kinds, DeadLetter(o, k)
    PROVE  BusTypeOK'
<1>1. queue' \in [Orders -> [Kinds -> Nat]]
    BY ExchangeType DEF DeadLetter, Acknowledge
<1>2. errorQueue' \subseteq Orders \X Kinds
    <2>1. <<o, k>> \in Orders \X Kinds
        OBVIOUS
    <2>2. QED
        BY <2>1 DEF DeadLetter, BusTypeOK
<1>3. QED
    BY <1>1, <1>2 DEF DeadLetter, Acknowledge, BusTypeOK

\* A consumed message leaves its queue unless it is delivered again ("again" is
\* 1), what was published is added, and the other orders are untouched.
LEMMA ConsumeAt ==
    ASSUME BusTypeOK, NEW o \in Orders, NEW k \in Kinds, NEW sent, Consume(o, k, sent)
    PROVE  /\ queue[o][k] > 0
           /\ \A p \in Orders \ {o} : queue'[p] = queue[p]
           /\ \E again \in 0..1 :
                /\ redeliveries' = redeliveries + again
                /\ \A j \in Kinds :
                    queue'[o][j] = (queue[o][j] + (IF j \in sent THEN 1 ELSE 0))
                                       - (IF j = k THEN 1 - again ELSE 0)
<1>1. queue[o][k] > 0
    BY DEF Consume, Ready
<1>2. CASE Acknowledge(o, k, sent)
    <2>1. queue' = Exchange(o, {k}, sent) /\ redeliveries' = redeliveries + 0
        BY <1>2 DEF Acknowledge, BusTypeOK
    <2>2. QED
        BY <1>1, <2>1, ExchangeAt
<1>3. CASE Redeliver(o, sent)
    <2>1. queue' = Exchange(o, {}, sent) /\ redeliveries' = redeliveries + 1
        BY <1>3 DEF Redeliver
    <2>2. \A j \in Kinds : queue[o][j] \in Nat
        BY DEF BusTypeOK
    <2>3. QED
        BY <1>1, <2>1, <2>2, ExchangeAt
<1>4. QED
    BY <1>2, <1>3 DEF Consume

\* A repeated delivery adds what was published and takes nothing.
LEMMA RedeliverAt ==
    ASSUME BusTypeOK, NEW o \in Orders, NEW sent, Redeliver(o, sent)
    PROVE  /\ redeliveries' = redeliveries + 1
           /\ \A p \in Orders \ {o} : queue'[p] = queue[p]
           /\ \A j \in Kinds :
                queue'[o][j] = queue[o][j] + (IF j \in sent THEN 1 ELSE 0)
<1>1. queue' = Exchange(o, {}, sent) /\ redeliveries' = redeliveries + 1
    BY DEF Redeliver
<1>2. \A j \in Kinds : queue[o][j] \in Nat
    BY DEF BusTypeOK
<1>3. QED
    BY <1>1, <1>2, ExchangeAt

================================================================================
