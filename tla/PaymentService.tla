----------------------------- MODULE PaymentService -----------------------------
(***************************************************************************)
(* PaymentService: one consumer, which answers every PaymentRequestedEvent *)
(* with PaymentCompleted or PaymentFailed.  It keeps no record of the      *)
(* orders it has charged, so a second delivery charges again, and decides  *)
(* again.  Nothing in the service gives money back.                        *)
(***************************************************************************)
EXTENDS Bus

VARIABLE captures    \* captures[o]: how often the customer of o was charged (TXN- ids issued)

PaymentTypeOK == captures \in [Orders -> Nat]

PaymentInit == captures = [o \in Orders |-> 0]

\* The charge succeeds: a fresh transaction id is issued and published.
Charge(o) ==
    /\ Consume(o, "PaymentRequested", {"PaymentCompleted"})
    /\ captures' = [captures EXCEPT ![o] = @ + 1]

\* Mutant: both branches answer PaymentCompleted.
DeclineAnswersCompleted(o) ==
    /\ Consume(o, "PaymentRequested", {"PaymentCompleted"})
    /\ UNCHANGED captures

\* The charge is refused.
Decline(o) ==
    /\ Consume(o, "PaymentRequested", {"PaymentFailed"})
    /\ UNCHANGED captures

================================================================================
