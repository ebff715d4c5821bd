----------------------------- MODULE OrderLifecycle -----------------------------
(***************************************************************************)
(* What the order process promises a customer, without services, messages  *)
(* or a saga: an accepted order is charged at most once, shipped at most   *)
(* once and only after it was charged, and gets at most one outcome, which *)
(* is final and in which money and goods agree.  That an order may stay    *)
(* open for ever is part of it (a restart of OrderService leaves it so).   *)
(***************************************************************************)
EXTENDS Naturals

CONSTANT Orders

VARIABLES
    accepted,    \* the orders the shop has accepted
    charges,     \* charges[o]: how often the customer was charged
    parcels,     \* parcels[o]: how many parcels were prepared
    outcome,     \* outcome[o]: what the customer was told in the end
    refunded     \* the orders whose customer was told of a refund

vars == <<accepted, charges, parcels, outcome, refunded>>

Init ==
    /\ accepted = {}
    /\ charges = [o \in Orders |-> 0]
    /\ parcels = [o \in Orders |-> 0]
    /\ outcome = [o \in Orders |-> "open"]
    /\ refunded = {}

Accept(o) ==
    /\ o \notin accepted
    /\ accepted' = accepted \cup {o}
    /\ UNCHANGED <<charges, parcels, outcome, refunded>>

TakePayment(o) ==
    /\ o \in accepted
    /\ outcome[o] = "open"
    /\ charges[o] = 0
    /\ charges' = [charges EXCEPT ![o] = 1]
    /\ UNCHANGED <<accepted, parcels, outcome, refunded>>

SendParcel(o) ==
    /\ outcome[o] = "open"
    /\ charges[o] = 1
    /\ parcels[o] = 0
    /\ parcels' = [parcels EXCEPT ![o] = 1]
    /\ UNCHANGED <<accepted, charges, outcome, refunded>>

Complete(o) ==
    /\ outcome[o] = "open"
    /\ parcels[o] = 1
    /\ outcome' = [outcome EXCEPT ![o] = "completed"]
    /\ UNCHANGED <<accepted, charges, parcels, refunded>>

CancelUnpaid(o) ==
    /\ o \in accepted
    /\ outcome[o] = "open"
    /\ charges[o] = 0
    /\ outcome' = [outcome EXCEPT ![o] = "cancelled"]
    /\ UNCHANGED <<accepted, charges, parcels, refunded>>

CancelPaid(o) ==
    /\ outcome[o] = "open"
    /\ charges[o] = 1
    /\ parcels[o] = 0
    /\ outcome' = [outcome EXCEPT ![o] = "cancelled"]
    /\ refunded' = refunded \cup {o}
    /\ UNCHANGED <<accepted, charges, parcels>>

Next ==
    \E o \in Orders :
        \/ Accept(o) \/ TakePayment(o) \/ SendParcel(o)
        \/ Complete(o) \/ CancelUnpaid(o) \/ CancelPaid(o)

Spec == Init /\ [][Next]_vars

================================================================================
