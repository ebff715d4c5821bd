-------------------------- MODULE NotificationService --------------------------
(***************************************************************************)
(* NotificationService: four consumers, each of which writes one e-mail    *)
(* for the event it reads.  The retry of the OrderCreated consumer never   *)
(* fires: the consumer does nothing that can throw.                        *)
(***************************************************************************)
EXTENDS Bus

VARIABLE emails    \* emails[o][n]: how many e-mails of kind n the customer of o was sent

NotificationTypeOK == emails \in [Orders -> [Notices -> Nat]]

NotificationInit == emails = [o \in Orders |-> [n \in Notices |-> 0]]

\* The consumer of notices of kind n sends its e-mail.
SendEmail(o, n) ==
    /\ Consume(o, n, {})
    /\ emails' = [emails EXCEPT ![o][n] = @ + 1]

\* The news n about o has been published: it is on its way or was read.
Announced(o, n) == Ready(o, n) \/ emails[o][n] > 0

================================================================================
