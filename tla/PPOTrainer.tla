------------------------------ MODULE PPOTrainer ------------------------------
(***************************************************************************)
(* RayPPOTrainer: the driver's loop fit() with _save_checkpoint and        *)
(* _load_checkpoint, composed with the checkpoint managers of the actor's  *)
(* and the critic's worker groups.  The job may be killed between any two  *)
(* steps and is launched again over the directory it left.                 *)
(*                                                                         *)
(* The weights of a group are abstracted to their history: the sequence of *)
(* updates <<run, batch>> that produced them, where run tells which launch *)
(* of the job made the update and batch is the position of the batch in    *)
(* the (seeded) pass over the dataset.                                     *)
(***************************************************************************)
EXTENDS Integers, Sequences, FiniteSets

CONSTANTS
    WorldSize,              \* ranks of each worker group
    BatchesPerEpoch,        \* len(train_dataloader)
    TotalEpochs,            \* trainer.total_epochs
    ConfiguredSteps,        \* trainer.total_training_steps, 0 when null
    SaveFreq,               \* trainer.save_freq
    CriticWarmup,           \* trainer.critic_warmup
    UseCritic,              \* use_critic
    MaxActorCkptToKeep,     \* 0 when null
    MaxCriticCkptToKeep,    \* 0 when null
    SaveContents,
    ResumeModes,            \* the resume_mode a launch may be given
    EsiCanExpire,           \* whether should_save_ckpt_esi can be true
    MaxRestarts,            \* bound on kills and further launches
    Absent,                 \* a file that is not there
    Torn                    \* a file that was opened and not fully written

TotalTrainingSteps ==
    IF ConfiguredSteps # 0 THEN ConfiguredSteps ELSE BatchesPerEpoch * TotalEpochs

\* A launch that resumes from the last step trains one step past it.
Steps   == 1 .. TotalTrainingSteps + MaxRestarts
Updates == (0 .. MaxRestarts) \X (1 .. BatchesPerEpoch)
Weights == Seq(Updates)

\* Loading is modelled for checkpoints that hold the model.
ASSUME TrainerAssumption ==
    /\ {WorldSize, BatchesPerEpoch, TotalEpochs} \subseteq Nat \ {0}
    /\ {ConfiguredSteps, CriticWarmup, MaxRestarts} \subseteq Nat
    /\ {MaxActorCkptToKeep, MaxCriticCkptToKeep} \subseteq Nat
    /\ SaveFreq \in Int
    /\ {UseCritic, EsiCanExpire} \subseteq BOOLEAN
    /\ ResumeModes \subseteq {"auto", "disable"} /\ ResumeModes # {}
    /\ "model" \in SaveContents
    /\ SaveContents \subseteq {"model", "optimizer", "extra", "hf_model"}
    /\ Absent # Torn
    /\ Absent \notin Nat \cup Weights /\ Torn \notin Nat

VARIABLES
    phase,          \* the statement of fit() the driver is at
    global_steps,
    epoch,          \* the loop variable: it starts at 0 in every launch
    pos,            \* batches the dataloader has yielded in this pass
    data,           \* global_step_<s>/data.pt, for each s
    tracker,        \* latest_checkpointed_iteration.txt
    restarts,
    actor, actor_pc, actor_path, actor_saved, actor_disk,
    critic, critic_pc, critic_path, critic_saved, critic_disk

driverVars == <<phase, global_steps, epoch, pos>>
fileVars   == <<data, tracker>>
actorVars  == <<actor, actor_pc, actor_path, actor_saved, actor_disk>>
criticVars == <<critic, critic_pc, critic_path, critic_saved, critic_disk>>
vars       == <<driverVars, fileVars, restarts, actorVars, criticVars>>

Actor == INSTANCE FSDPCheckpointManager WITH
            MaxCkptToKeep <- MaxActorCkptToKeep, Contents <- Weights,
            model <- actor, pc <- actor_pc, local_path <- actor_path,
            previous_saved_paths <- actor_saved, disk <- actor_disk

Critic == INSTANCE FSDPCheckpointManager WITH
            MaxCkptToKeep <- MaxCriticCkptToKeep, Contents <- Weights,
            model <- critic, pc <- critic_pc, local_path <- critic_path,
            previous_saved_paths <- critic_saved, disk <- critic_disk

Init ==
    /\ phase = "launch"
    /\ global_steps = 0 /\ epoch = 0 /\ pos = 0
    /\ data = [s \in Steps |-> Absent]
    /\ tracker = Absent
    /\ actor = <<>> /\ Actor!Init
    /\ critic = <<>> /\ Critic!Init

-----------------------------------------------------------------------------
(* _load_checkpoint, and fit() up to its loop *)

\* Mutant of EnterLoop: fit() does not add 1 after loading.
EnterLoop_SameStep(step) ==
    /\ phase' = "next_batch"
    /\ global_steps' = IF step = 0 THEN 1 ELSE step
    /\ epoch' = 0

\* Step 1 of the first pass, or the step after the checkpoint's.
EnterLoop(step) ==
    /\ phase' = "next_batch"
    /\ global_steps' = step + 1
    /\ epoch' = 0

StartFromScratch ==
    /\ phase = "launch"
    /\ \/ "disable" \in ResumeModes
       \/ "auto" \in ResumeModes /\ tracker = Absent
    /\ EnterLoop(0)
    /\ pos' = 0
    /\ actor' = <<>> /\ critic' = <<>>
    /\ UNCHANGED <<fileVars, restarts, actor_pc, actor_path, actor_saved, actor_disk,
                   critic_pc, critic_path, critic_saved, critic_disk>>

\* Every file that load_checkpoint opens is there.
CanLoad(disk, s) ==
    \A r \in 0 .. WorldSize - 1 : \A k \in Actor!ShardKinds \cap SaveContents :
        disk[<<s, r, k>>] # Absent

\* Mutant of ResumeFromTracker: the dataloader is not loaded.
ResumeFromTracker_NoDataloader ==
    /\ phase = "launch" /\ "auto" \in ResumeModes /\ tracker \in Steps
    /\ CanLoad(actor_disk, tracker) /\ CanLoad(critic_disk, tracker)
    /\ EnterLoop(tracker)
    /\ pos' = 0
    /\ actor' = actor_disk[<<tracker, 0, "model">>]
    /\ critic' = critic_disk[<<tracker, 0, "model">>]
    /\ UNCHANGED <<fileVars, restarts, actor_pc, actor_path, actor_saved, actor_disk,
                   critic_pc, critic_path, critic_saved, critic_disk>>

ResumeFromTracker ==
    /\ phase = "launch"
    /\ "auto" \in ResumeModes
    /\ tracker \in Steps
    /\ CanLoad(actor_disk, tracker)
    /\ UseCritic => CanLoad(critic_disk, tracker)
    /\ data[tracker] # Torn
    /\ EnterLoop(tracker)
    /\ pos' = IF data[tracker] = Absent THEN 0 ELSE data[tracker]
    /\ actor' = actor_disk[<<tracker, 0, "model">>]
    /\ critic' = IF UseCritic THEN critic_disk[<<tracker, 0, "model">>] ELSE <<>>
    /\ UNCHANGED <<fileVars, restarts, actor_pc, actor_path, actor_saved, actor_disk,
                   critic_pc, critic_path, critic_saved, critic_disk>>

\* int('') of a torn tracker raises; so does loading a missing or a torn file.
LoadFails ==
    /\ phase = "launch"
    /\ "auto" \in ResumeModes
    /\ \/ tracker = Torn
       \/ /\ tracker \in Steps
          /\ \/ ~CanLoad(actor_disk, tracker)
             \/ UseCritic /\ ~CanLoad(critic_disk, tracker)
             \/ data[tracker] = Torn
    /\ phase' = "failed"
    /\ UNCHANGED <<global_steps, epoch, pos, fileVars, restarts, actorVars, criticVars>>

-----------------------------------------------------------------------------
(* The body of the two nested loops *)

NextBatch ==
    /\ phase = "next_batch"
    /\ pos < BatchesPerEpoch
    /\ pos' = pos + 1
    /\ phase' = "update_critic"
    /\ UNCHANGED <<global_steps, epoch, fileVars, restarts, actorVars, criticVars>>

\* The pass ends; the loops end with the last pass, whatever global_steps is.
EndOfPass ==
    /\ phase = "next_batch"
    /\ pos = BatchesPerEpoch
    /\ IF epoch + 1 < TotalEpochs
       THEN epoch' = epoch + 1 /\ pos' = 0 /\ UNCHANGED phase
       ELSE phase' = "finished" /\ UNCHANGED <<epoch, pos>>
    /\ UNCHANGED <<global_steps, fileVars, restarts, actorVars, criticVars>>

Update == <<restarts, pos>>

UpdateCritic ==
    /\ phase = "update_critic"
    /\ critic' = IF UseCritic THEN Append(critic, Update) ELSE critic
    /\ phase' = "update_actor"
    /\ UNCHANGED <<global_steps, epoch, pos, fileVars, restarts, actorVars,
                   critic_pc, critic_path, critic_saved, critic_disk>>

UpdateActor ==
    /\ phase = "update_actor"
    /\ actor' = IF CriticWarmup <= global_steps THEN Append(actor, Update) ELSE actor
    /\ phase' = "decide_save"
    /\ UNCHANGED <<global_steps, epoch, pos, fileVars, restarts, criticVars,
                   actor_pc, actor_path, actor_saved, actor_disk>>

IsLastStep == global_steps >= TotalTrainingSteps

\* Mutant of DecideSave: the last step is no reason.
DecideSave_NotLast ==
    /\ phase = "decide_save"
    /\ phase' = IF SaveFreq > 0 /\ global_steps % SaveFreq = 0
                THEN "save_actor" ELSE "end_step"
    /\ UNCHANGED <<global_steps, epoch, pos, fileVars, restarts, actorVars, criticVars>>

DecideSave ==
    /\ phase = "decide_save"
    /\ \E esi_close_to_expiration \in {FALSE, EsiCanExpire} :
        phase' = IF /\ SaveFreq > 0
                    /\ \/ IsLastStep
                       \/ global_steps % SaveFreq = 0
                       \/ esi_close_to_expiration
                 THEN "save_actor" ELSE "end_step"
    /\ UNCHANGED <<global_steps, epoch, pos, fileVars, restarts, actorVars, criticVars>>

EndStep ==
    /\ phase = "end_step"
    /\ global_steps' = global_steps + 1
    /\ phase' = IF IsLastStep THEN "finished" ELSE "next_batch"
    /\ UNCHANGED <<epoch, pos, fileVars, restarts, actorVars, criticVars>>

-----------------------------------------------------------------------------
(* _save_checkpoint: actor, critic, dataloader, tracker, in this order *)

Goto(p) == phase' = p /\ UNCHANGED <<global_steps, epoch, pos>>

CallSaveActor ==
    /\ phase = "save_actor"
    /\ Actor!Call(global_steps)
    /\ Goto("saving_actor")
    /\ UNCHANGED <<fileVars, criticVars>>

\* Mutant of ActorSaved: the critic is not saved.
ActorSaved_SkipsCritic ==
    /\ phase = "saving_actor"
    /\ Actor!Return
    /\ Goto("save_data")
    /\ UNCHANGED <<fileVars, criticVars>>

ActorSaved ==
    /\ phase = "saving_actor"
    /\ Actor!Return
    /\ Goto(IF UseCritic THEN "save_critic" ELSE "save_data")
    /\ UNCHANGED <<fileVars, criticVars>>

CallSaveCritic ==
    /\ phase = "save_critic"
    /\ Critic!Call(global_steps)
    /\ Goto("saving_critic")
    /\ UNCHANGED <<fileVars, actorVars>>

CriticSaved ==
    /\ phase = "saving_critic"
    /\ Critic!Return
    /\ Goto("save_data")
    /\ UNCHANGED <<fileVars, actorVars>>

\* Mutant of SaveDataloader: the position of the next batch is saved.
SaveDataloader_OneAhead ==
    /\ phase = "save_data"
    /\ data' = [data EXCEPT ![global_steps] =
                    IF pos < BatchesPerEpoch THEN pos + 1 ELSE pos]
    /\ Goto("open_tracker")
    /\ UNCHANGED <<tracker, restarts, actorVars, criticVars>>

SaveDataloader ==
    /\ phase = "save_data"
    /\ data' = [data EXCEPT ![global_steps] = pos]
    /\ Goto("open_tracker")
    /\ UNCHANGED <<tracker, restarts, actorVars, criticVars>>

\* open(..., "w") truncates the tracker before anything is written to it.
OpenTracker ==
    /\ phase = "open_tracker"
    /\ tracker' = Torn
    /\ Goto("write_tracker")
    /\ UNCHANGED <<data, restarts, actorVars, criticVars>>

WriteTracker ==
    /\ phase = "write_tracker"
    /\ tracker' = global_steps
    /\ Goto("end_step")
    /\ UNCHANGED <<data, restarts, actorVars, criticVars>>

ActorWorkers ==
    /\ Actor!RemoveOldest \/ \E r \in Actor!Ranks : Actor!RankStep(r)
    /\ UNCHANGED <<driverVars, fileVars, criticVars>>

CriticWorkers ==
    /\ Critic!RemoveOldest \/ \E r \in Critic!Ranks : Critic!RankStep(r)
    /\ UNCHANGED <<driverVars, fileVars, actorVars>>

-----------------------------------------------------------------------------
(***************************************************************************)
(* The job is killed, or a job that ended is launched again: memory is     *)
(* lost, files being written are torn.                                     *)
(***************************************************************************)
Relaunch ==
    /\ phase \notin {"launch", "failed"}
    /\ actor' = <<>> /\ Actor!Restart
    /\ critic' = <<>> /\ Critic!Restart
    /\ phase' = "launch"
    /\ \/ data' = data
       \/ phase = "save_data" /\ data' = [data EXCEPT ![global_steps] = Torn]
    /\ pos' = 0
    /\ UNCHANGED <<global_steps, epoch, tracker>>

Driver ==
    \/ StartFromScratch \/ ResumeFromTracker \/ LoadFails
    \/ NextBatch \/ EndOfPass \/ UpdateCritic \/ UpdateActor \/ DecideSave \/ EndStep
    \/ CallSaveActor \/ ActorSaved \/ CallSaveCritic \/ CriticSaved
    \/ SaveDataloader \/ OpenTracker \/ WriteTracker

Next == Driver \/ ActorWorkers \/ CriticWorkers \/ Relaunch

\* The driver and the ranks go on while the job is up; a kill is never forced.
Fairness == WF_vars(Driver) /\ WF_vars(ActorWorkers) /\ WF_vars(CriticWorkers)

Spec == Init /\ [][Next]_vars /\ Fairness

-----------------------------------------------------------------------------

TypeOK ==
    /\ phase \in {"launch", "failed", "finished", "next_batch", "update_critic",
                  "update_actor", "decide_save", "save_actor", "saving_actor",
                  "save_critic", "saving_critic", "save_data", "open_tracker",
                  "write_tracker", "end_step"}
    /\ global_steps \in 0 .. TotalTrainingSteps + MaxRestarts + 1
    /\ epoch \in 0 .. TotalEpochs - 1
    /\ pos \in 0 .. BatchesPerEpoch
    /\ data \in [Steps -> (0 .. BatchesPerEpoch) \cup {Absent, Torn}]
    /\ tracker \in Steps \cup {Absent, Torn}
    /\ Actor!TypeOK
    /\ Critic!TypeOK

Loaded(disk, s) == disk[<<s, 0, "model">>]

(***************************************************************************)
(* "Tracker file records the latest checkpoint during training to restart  *)
(* from": whatever was torn or rotated away, the checkpoint it names has   *)
(* all the shards of both groups, each group's of one set of weights, and  *)
(* the state of the dataloader.  Needs room for two checkpoints.           *)
(***************************************************************************)
TrackedIsWhole ==
    tracker \in Steps =>
        /\ Loaded(actor_disk, tracker) # Absent
        /\ Actor!Whole(tracker, Loaded(actor_disk, tracker))
        /\ UseCritic => /\ Loaded(critic_disk, tracker) # Absent
                        /\ Critic!Whole(tracker, Loaded(critic_disk, tracker))
        /\ data[tracker] \in 0 .. BatchesPerEpoch

\* The batch that step i of an uninterrupted training uses.
BatchOf(i) == ((i - 1) % BatchesPerEpoch) + 1

FirstActorStep == IF CriticWarmup > 1 THEN CriticWarmup ELSE 1

(***************************************************************************)
(* However often the job was killed and resumed, the weights went through  *)
(* the updates of an uninterrupted training: every batch of every pass was *)
(* trained on once and in order, the actor from critic_warmup on.  It      *)
(* relates the step counter, both weights and the dataloader's position,   *)
(* each of which is saved to a file of its own.                            *)
(***************************************************************************)
LineageExact ==
    phase = "next_batch" =>
        /\ UseCritic => /\ Len(critic) = global_steps - 1
                        /\ \A i \in DOMAIN critic : critic[i][2] = BatchOf(i)
        /\ LET skipped == FirstActorStep - 1
           IN  /\ Len(actor) = IF global_steps > skipped
                               THEN global_steps - 1 - skipped ELSE 0
               /\ \A i \in DOMAIN actor : actor[i][2] = BatchOf(skipped + i)

(***************************************************************************)
(* The actor and the critic come from one history: a resumed job never     *)
(* pairs the actor of one launch with the critic of another.               *)
(***************************************************************************)
ActorCriticAgree ==
    phase = "next_batch" /\ UseCritic =>
        \A i \in DOMAIN actor :
            LET j == FirstActorStep - 1 + i
            IN  j \in DOMAIN critic /\ actor[i] = critic[j]

(***************************************************************************)
(* What a launch can resume from: a whole checkpoint, and weights of one   *)
(* history in every step that follows.                                     *)
(***************************************************************************)
CheckpointsOK == TypeOK /\ TrackedIsWhole /\ ActorCriticAgree

(***************************************************************************)
(* A kill costs at most save_freq steps of work: while the tracker can be  *)
(* read, it is never further behind the step under way.                    *)
(***************************************************************************)
LostWorkBounded ==
    SaveFreq > 0 /\ phase \notin {"launch", "failed", "finished"} /\ tracker # Torn =>
        global_steps <= SaveFreq + (IF tracker = Absent THEN 0 ELSE tracker)

(***************************************************************************)
(* The tracker is only ever rewritten for a later checkpoint, across       *)
(* launches too.                                                           *)
(***************************************************************************)
TrackerAdvances ==
    [][(tracker \in Steps /\ tracker' # tracker) => global_steps > tracker]_vars

(***************************************************************************)
(* "It's the last training step" is a reason to save: a training that      *)
(* ended has its last step in the checkpoint the tracker names.            *)
(***************************************************************************)
LastStepSaved ==
    phase = "finished" /\ SaveFreq > 0 => tracker = global_steps - 1

(***************************************************************************)
(* Both: checkpoints come at least every save_freq steps, and at the end.  *)
(***************************************************************************)
SavesOnTime == LostWorkBounded /\ LastStepSaved

(***************************************************************************)
(* "auto: resume from last checkpoint if available": once a checkpoint was *)
(* completed, no launch fails to load one.                                 *)
(***************************************************************************)
AutoResumes == phase # "failed"

(***************************************************************************)
(* Every launch comes to an end: the barriers of both groups let every     *)
(* save return, and the loops run out of batches or reach the last step.   *)
(***************************************************************************)
Ends == <>[](phase \in {"finished", "failed"})

-----------------------------------------------------------------------------
(***************************************************************************)
(* The refinement of DurableTraining.  A snapshot is committed when the    *)
(* tracker is opened: from then on no other checkpoint can be resumed.     *)
(***************************************************************************)
Snapshot(s, a, c, p) == [steps |-> s, actor |-> a, critic |-> c, pos |-> p]
Fresh == Snapshot(0, <<>>, <<>>, 0)

Up == phase \notin {"launch", "failed"}

DoneSteps ==
    IF phase \in {"next_batch", "finished"} THEN global_steps - 1 ELSE global_steps

Committed ==
    IF tracker = Absent THEN Fresh
    ELSE LET s == IF tracker = Torn THEN global_steps ELSE tracker
         IN  Snapshot(s, Loaded(actor_disk, s),
                      IF UseCritic THEN Loaded(critic_disk, s) ELSE <<>>, data[s])

Durable == INSTANCE DurableTraining WITH
               Snapshots <- [steps : Nat, actor : Weights, critic : Weights, pos : Nat],
               up <- Up,
               live <- IF Up THEN Snapshot(DoneSteps, actor, critic, pos) ELSE Fresh,
               committed <- Committed

(***************************************************************************)
(* PPOTrainer implements DurableTraining: the four files of a checkpoint   *)
(* and the four parts of memory change as one snapshot would.              *)
(***************************************************************************)
ImplementsDurableTraining == Durable!Spec

=============================================================================
