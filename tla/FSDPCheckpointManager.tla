------------------------ MODULE FSDPCheckpointManager ------------------------
(***************************************************************************)
(* FSDPCheckpointManager.save_checkpoint, run in a SPMD way by every rank  *)
(* of one FSDP worker group (the actor's or the critic's): one call of the *)
(* driver starts it on all ranks, the ranks meet in collectives, each      *)
(* writes its own shards, rank 0 rotates old checkpoints and writes the    *)
(* configuration and the full model, and the call returns when every rank  *)
(* has.  A restart of the job may strike between any two steps.            *)
(*                                                                         *)
(* A checkpoint directory global_step_<s>/<group> is named by its step s,  *)
(* and a file of it by <<s, r, k>>: the rank that wrote it and its kind.   *)
(* All ranks see one file system.                                          *)
(***************************************************************************)
EXTENDS Integers, Sequences, FiniteSets

CONSTANTS
    WorldSize,        \* number of ranks of the group
    Steps,            \* the steps at which a checkpoint may be saved
    MaxCkptToKeep,    \* max_ckpt_to_keep, 0 when it is None
    SaveContents,     \* checkpoint.save_contents
    Contents,         \* what the weights of the group can be
    Absent,           \* the content of a file that is not there, or torn
    MaxRestarts       \* bound on the restarts of the job

ShardKinds == {"model", "optimizer", "extra"}
Ranks      == 0 .. WorldSize - 1
Kinds      == ShardKinds \cup {"config", "hf_model"}
Files      == Steps \X Ranks \X Kinds

ASSUME ConstantsAssumption ==
    /\ WorldSize \in Nat \ {0}
    /\ Steps \subseteq Nat \ {0}
    /\ MaxCkptToKeep \in Nat
    /\ SaveContents \subseteq ShardKinds \cup {"hf_model"}
    /\ Absent \notin Contents
    /\ MaxRestarts \in Nat

VARIABLES
    pc,                    \* where each rank is in save_checkpoint
    local_path,            \* the directory being saved, 0 between calls
    previous_saved_paths,  \* the list of rank 0, the only one ever read
    disk,                  \* the content of every file
    model,                 \* the weights the group holds in memory
    restarts

vars == <<pc, local_path, previous_saved_paths, disk, model, restarts>>

(***************************************************************************)
(* The statements of save_checkpoint and of the worker's wrapper around    *)
(* it, which adds the fourth barrier, in their order; gather is            *)
(* get_fsdp_full_state_dict, which collects the shards of all ranks.       *)
(***************************************************************************)
Pos == [ idle |-> 0, begin |-> 1, barrier1 |-> 2, model |-> 3, optimizer |-> 4,
         extra |-> 5, config |-> 6, barrier2 |-> 7, gather |-> 8, hf_model |-> 9,
         barrier3 |-> 10, append |-> 11, barrier4 |-> 12, returned |-> 13 ]

Collectives == {"barrier1", "barrier2", "gather", "barrier3", "barrier4"}

SavesHFModel == "hf_model" \in SaveContents

\* Mutants of Path: the first or the second barrier is left out, or the third
\* or the fourth is only in the branch of rank 0.
Path_NoBarrier1(r) ==
    {"begin", "barrier2", "append", "barrier4", "returned"}
    \cup (ShardKinds \cap SaveContents)
    \cup (IF SavesHFModel THEN {"gather", "barrier3"} ELSE {})
    \cup (IF r = 0 THEN {"config"} \cup (SaveContents \cap {"hf_model"}) ELSE {})

Path_NoBarrier2(r) ==
    {"begin", "barrier1", "append", "barrier4", "returned"}
    \cup (ShardKinds \cap SaveContents)
    \cup (IF SavesHFModel THEN {"gather", "barrier3"} ELSE {})
    \cup (IF r = 0 THEN {"config"} \cup (SaveContents \cap {"hf_model"}) ELSE {})

Path_Barrier3OfRank0(r) ==
    {"begin", "barrier1", "barrier2", "append", "barrier4", "returned"}
    \cup (ShardKinds \cap SaveContents)
    \cup (IF SavesHFModel THEN {"gather"} ELSE {})
    \cup (IF r = 0 THEN {"config"} \cup (IF SavesHFModel THEN {"hf_model", "barrier3"} ELSE {}) ELSE {})

Path_Barrier4OfRank0(r) ==
    {"begin", "barrier1", "barrier2", "append", "returned"}
    \cup (ShardKinds \cap SaveContents)
    \cup (IF SavesHFModel THEN {"gather", "barrier3"} ELSE {})
    \cup (IF r = 0 THEN {"config", "barrier4"} \cup (SaveContents \cap {"hf_model"}) ELSE {})

\* The statements that rank r executes, by the branches it takes.
Path(r) ==
    {"begin", "barrier1", "barrier2", "append", "barrier4", "returned"}
    \cup (ShardKinds \cap SaveContents)
    \cup (IF SavesHFModel THEN {"gather", "barrier3"} ELSE {})
    \cup (IF r = 0 THEN {"config"} \cup (SaveContents \cap {"hf_model"}) ELSE {})

Follows(r, p, q) ==
    /\ q \in Path(r)
    /\ Pos[p] < Pos[q]
    /\ \A t \in Path(r) : Pos[p] < Pos[t] => Pos[q] <= Pos[t]

\* Rank r goes on to the next statement of its path.
Advance(r) == \E p \in Path(r) : Follows(r, pc[r], p) /\ pc' = [pc EXCEPT ![r] = p]

Idle == \A r \in Ranks : pc[r] = "idle"

Init ==
    /\ pc = [r \in Ranks |-> "idle"]
    /\ local_path = 0
    /\ previous_saved_paths = <<>>
    /\ disk = [f \in Files |-> Absent]
    /\ model \in Contents
    /\ restarts = 0

(***************************************************************************)
(* The driver's blocking call: execute_all_sync starts every rank, and     *)
(* ray.get waits for all of them.                                          *)
(***************************************************************************)
Call(s) ==
    /\ Idle
    /\ pc' = [r \in Ranks |-> "begin"]
    /\ local_path' = s
    /\ UNCHANGED <<previous_saved_paths, disk, model, restarts>>

Return ==
    /\ \A r \in Ranks : pc[r] = "returned"
    /\ pc' = [r \in Ranks |-> "idle"]
    /\ local_path' = 0
    /\ UNCHANGED <<previous_saved_paths, disk, model, restarts>>

\* The rotation test of rank 0, made before the new checkpoint is written.
MustRotate ==
    /\ MaxCkptToKeep > 0
    /\ Len(previous_saved_paths) >= MaxCkptToKeep

\* Mutant of RemoveOldest: the newest directory goes, the list loses its oldest.
RemoveOldest_WrongEnd ==
    /\ pc[0] = "begin"
    /\ MustRotate
    /\ disk' = [f \in Files |->
                    IF f[1] = previous_saved_paths[Len(previous_saved_paths)]
                    THEN Absent ELSE disk[f]]
    /\ previous_saved_paths' = Tail(previous_saved_paths)
    /\ UNCHANGED <<pc, local_path, model, restarts>>

\* One iteration of remove_previous_save_local_path over the oldest paths.
RemoveOldest ==
    /\ pc[0] = "begin"
    /\ MustRotate
    /\ disk' = [f \in Files |->
                    IF f[1] = Head(previous_saved_paths) THEN Absent ELSE disk[f]]
    /\ previous_saved_paths' = Tail(previous_saved_paths)
    /\ UNCHANGED <<pc, local_path, model, restarts>>

\* The directory is made, and the rank arrives at the first barrier.
Begin(r) ==
    /\ pc[r] = "begin"
    /\ r = 0 => ~MustRotate
    /\ Advance(r)
    /\ UNCHANGED <<local_path, previous_saved_paths, disk, model, restarts>>

\* How many collectives of this call rank r has entered.
Entered(r) == Cardinality({c \in Collectives \cap Path(r) : Pos[c] <= Pos[pc[r]]})

(***************************************************************************)
(* A collective does not know which line called it: the n-th that a rank   *)
(* enters is over when every rank has entered its n-th, wherever that is.  *)
(***************************************************************************)
LeaveCollective(r) ==
    /\ pc[r] \in Collectives
    /\ \A q \in Ranks : Entered(q) >= Entered(r)
    /\ Advance(r)
    /\ UNCHANGED <<local_path, previous_saved_paths, disk, model, restarts>>

\* torch.save of one shard, or rank 0's configuration and full HF model.
Write(r) ==
    /\ pc[r] \in Kinds
    /\ disk' = [disk EXCEPT ![<<local_path, r, pc[r]>>] = model]
    /\ Advance(r)
    /\ UNCHANGED <<local_path, previous_saved_paths, model, restarts>>

AppendPath(r) ==
    /\ pc[r] = "append"
    /\ previous_saved_paths' = IF r = 0 THEN Append(previous_saved_paths, local_path)
                                        ELSE previous_saved_paths
    /\ Advance(r)
    /\ UNCHANGED <<local_path, disk, model, restarts>>

(***************************************************************************)
(* The job dies and its processes start again with an empty list of saved  *)
(* paths and arbitrary weights.  A file that was being written is torn,    *)
(* and a directory that was being removed is left with any of its files.   *)
(***************************************************************************)
InFlight ==
    {<<local_path, r, pc[r]>> : r \in {q \in Ranks : pc[q] \in Kinds}}
    \cup {f \in Files : pc[0] = "begin" /\ MustRotate /\ f[1] = Head(previous_saved_paths)}

Tear(lost) == disk' = [f \in Files |-> IF f \in lost THEN Absent ELSE disk[f]]

Restart ==
    /\ restarts < MaxRestarts
    /\ \E lost \in SUBSET InFlight : Tear(lost)
    /\ pc' = [r \in Ranks |-> "idle"]
    /\ local_path' = 0
    /\ previous_saved_paths' = <<>>
    /\ model' \in Contents
    /\ restarts' = restarts + 1

\* update_actor, update_critic or load_checkpoint, never during a save.
UpdateModel ==
    /\ Idle
    /\ model' \in Contents
    /\ UNCHANGED <<pc, local_path, previous_saved_paths, disk, restarts>>

RankStep(r) == Begin(r) \/ LeaveCollective(r) \/ Write(r) \/ AppendPath(r)

\* Within a job global_steps only grows: every save is at a later step.
Later(s) == \A i \in 1 .. Len(previous_saved_paths) : previous_saved_paths[i] < s

Next ==
    \/ \E s \in Steps : Later(s) /\ Call(s)
    \/ Return
    \/ RemoveOldest
    \/ \E r \in Ranks : RankStep(r)
    \/ UpdateModel
    \/ Restart

\* A rank that can go on goes on, and the driver's ray.get notices the end.
Fairness ==
    /\ WF_vars(Return)
    /\ WF_vars(RemoveOldest)
    /\ \A r \in Ranks : WF_vars(RankStep(r))

Spec == Init /\ [][Next]_vars /\ Fairness

-----------------------------------------------------------------------------

TypeOK ==
    /\ pc \in [Ranks -> DOMAIN Pos]
    /\ local_path \in Steps \cup {0}
    /\ previous_saved_paths \in Seq(Steps)
    /\ disk \in [Files -> Contents \cup {Absent}]
    /\ model \in Contents
    /\ restarts \in Nat

\* Every shard of checkpoint s that load_checkpoint reads is there, and all
\* hold the weights c.
Whole(s, c) ==
    \A r \in Ranks : \A k \in ShardKinds \cap SaveContents : disk[<<s, r, k>>] = c

(***************************************************************************)
(* When any rank has got past the barrier "wait for everyone to dump to    *)
(* local", every rank's shards are on disk with the weights of this call:  *)
(* a call that returned has saved everything.                              *)
(***************************************************************************)
SavedIsWhole ==
    (\E r \in Ranks : Pos[pc[r]] > Pos["barrier2"]) => Whole(local_path, model)

(***************************************************************************)
(* Rank 0 never removes directories while another rank already writes the  *)
(* new checkpoint: mkdir and the first barrier separate the two.           *)
(***************************************************************************)
NoWriteDuringRotation ==
    pc[0] = "begin" => \A r \in Ranks : Pos[pc[r]] <= Pos["barrier1"]

(***************************************************************************)
(* With room for two, rotation never costs the newest checkpoint of this   *)
(* job: until the next one is complete, the last path of the list is whole *)
(* and of one set of weights.                                              *)
(***************************************************************************)
NewestSurvives ==
    previous_saved_paths # <<>> =>
        \E c \in Contents : Whole(previous_saved_paths[Len(previous_saved_paths)], c)

(***************************************************************************)
(* A call of save_checkpoint returns, or the job restarts: rank 0 takes    *)
(* branches that the others do not, and still every rank enters the same   *)
(* number of collectives.  One more or less on some ranks, and the last    *)
(* one of the others is never over.                                        *)
(***************************************************************************)
SaveReturns == local_path # 0 ~> local_path = 0

=============================================================================
