----------------------------- MODULE ProductLookup -----------------------------
(***************************************************************************)
(* What the product client promises its caller, without circuit, retries   *)
(* or timers: a lookup ends with an answer of ProductService, a fallback   *)
(* or a cancelled call; an answer and a cancellation come only from a      *)
(* lookup that was let in, and no more than Limit are inside at a time.    *)
(* These are the three ends that OrderIntake gives its lookups (Reach,     *)
(* FallBack, GiveUp).                                                      *)
(***************************************************************************)
EXTENDS Integers, FiniteSets

CONSTANTS Lookups, Limit

VARIABLES
    phase,      \* phase[c]: "idle", "asking", "inside" or "served"
    last        \* last[c]: how the last lookup of caller c ended, until it asks again

vars == <<phase, last>>

Inside == {c \in Lookups : phase[c] = "inside"}

Init ==
    /\ phase = [c \in Lookups |-> "idle"]
    /\ last = [c \in Lookups |-> "none"]

Ask(c) ==
    /\ phase[c] = "idle"
    /\ phase' = [phase EXCEPT ![c] = "asking"]
    /\ last' = [last EXCEPT ![c] = "none"]

Enter(c) ==
    /\ phase[c] = "asking"
    /\ Cardinality(Inside) < Limit
    /\ phase' = [phase EXCEPT ![c] = "inside"]
    /\ UNCHANGED last

Leave(c) ==
    /\ phase[c] = "inside"
    /\ phase' = [phase EXCEPT ![c] = "served"]
    /\ UNCHANGED last

Reply(c) ==
    /\ phase[c] = "served"
    /\ phase' = [phase EXCEPT ![c] = "idle"]
    /\ \E end \in {"product", "missing", "fallback", "cancelled"} :
          last' = [last EXCEPT ![c] = end]

Refuse(c) ==
    /\ phase[c] = "asking"
    /\ phase' = [phase EXCEPT ![c] = "idle"]
    /\ last' = [last EXCEPT ![c] = "fallback"]

Next == \E c \in Lookups : Ask(c) \/ Enter(c) \/ Leave(c) \/ Reply(c) \/ Refuse(c)

Spec == Init /\ [][Next]_vars

================================================================================
