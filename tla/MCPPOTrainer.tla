---------------------------- MODULE MCPPOTrainer ----------------------------
(* PPOTrainer on small instances; the configurations give the constants. *)
EXTENDS PPOTrainer
=============================================================================
