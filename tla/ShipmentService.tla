---------------------------- MODULE ShipmentService ----------------------------
(***************************************************************************)
(* ShipmentService: one consumer, which answers every                      *)
(* ShipmentRequestedEvent with ShipmentPrepared or ShipmentFailed.  As in  *)
(* PaymentService nothing is remembered between two deliveries.            *)
(***************************************************************************)
EXTENDS Bus

VARIABLE parcels    \* parcels[o]: how many parcels were prepared for o (TR- numbers issued)

ShipmentTypeOK == parcels \in [Orders -> Nat]

ShipmentInit == parcels = [o \in Orders |-> 0]

\* The parcel is prepared and gets a tracking number.
Prepare(o) ==
    /\ Consume(o, "ShipmentRequested", {"ShipmentPrepared"})
    /\ parcels' = [parcels EXCEPT ![o] = @ + 1]

\* The warehouse has no stock left.
RunOut(o) ==
    /\ Consume(o, "ShipmentRequested", {"ShipmentFailed"})
    /\ UNCHANGED parcels

================================================================================
