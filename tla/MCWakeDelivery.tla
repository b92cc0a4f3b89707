--------------------------- MODULE MCWakeDelivery ---------------------------
(***************************************************************************)
(* The instance of WakeDelivery for TLC: one fiber owns every Operation.   *)
(***************************************************************************)
EXTENDS WakeDelivery

OneOwner == [o \in Operations |-> CHOOSE f \in Fibers : TRUE]

=============================================================================
