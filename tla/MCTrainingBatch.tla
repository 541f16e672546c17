--------------------------- MODULE MCTrainingBatch ---------------------------
(* Small instances of TrainingBatch for TLC. *)
EXTENDS TrainingBatch

Config(prompts, n, balance, filter, sp, tp, dynamic) ==
    [train_batch_size |-> prompts, rollout_n |-> n, balance_batch |-> balance, filter_groups |-> filter, sp_size |-> sp,
     tp_size |-> tp, use_dynamic_bsz |-> dynamic]

MCCallers == Ranks \cup {Driver}
MCConfigs ==
    {Config(3, 2, TRUE, TRUE, 1, 1, TRUE), Config(2, 3, FALSE, TRUE, 1, 2, TRUE),
     Config(2, 2, TRUE, FALSE, 2, 1, TRUE), Config(3, 1, TRUE, FALSE, 1, 2, TRUE),
     Config(3, 1, FALSE, FALSE, 1, 1, TRUE), Config(3, 2, FALSE, TRUE, 1, 1, FALSE)}
=============================================================================
