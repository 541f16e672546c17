------------------------- MODULE MCOneStepOffPolicy -------------------------
(* OneStepOffPolicy on small instances; the configurations give the constants. *)
EXTENDS OneStepOffPolicy
=============================================================================
