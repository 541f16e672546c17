---------------------- MODULE MCFSDPCheckpointManager ----------------------
(* Small instances of FSDPCheckpointManager for TLC. *)
EXTENDS FSDPCheckpointManager

CONSTANTS c1, c2

MCSteps == 1 .. 3
MCContents == {c1, c2}
=============================================================================
