---------------------------- MODULE PPOTrainer_proofs ----------------------------
(***************************************************************************)
(* PPOTrainer for any number of ranks, batches, passes and restarts: what  *)
(* the tracker names is whole and of one history, a resumed training goes  *)
(* through the updates of an uninterrupted one, checkpoints come on time,  *)
(* and the four files of a checkpoint change as one (DurableTraining).     *)
(*                                                                         *)
(* The facts about one worker group's checkpoint manager are those of      *)
(* FSDPCheckpointManager_proofs, taken for the actor and for the critic.   *)
(***************************************************************************)
EXTENDS PPOTrainer, SequenceTheorems, TLAPS

ActorP == INSTANCE FSDPCheckpointManager_proofs WITH
            MaxCkptToKeep <- MaxActorCkptToKeep, Contents <- Weights,
            model <- actor, pc <- actor_pc, local_path <- actor_path,
            previous_saved_paths <- actor_saved, disk <- actor_disk

CriticP == INSTANCE FSDPCheckpointManager_proofs WITH
            MaxCkptToKeep <- MaxCriticCkptToKeep, Contents <- Weights,
            model <- critic, pc <- critic_pc, local_path <- critic_path,
            previous_saved_paths <- critic_saved, disk <- critic_disk

-----------------------------------------------------------------------------
(* The inductive invariant *)

BeforeSave == {"next_batch", "update_critic", "update_actor", "decide_save"}
Saving     == {"save_actor", "saving_actor", "save_critic", "saving_critic",
               "save_data", "open_tracker", "write_tracker"}
Working    == BeforeSave \cup Saving \cup {"end_step"}
InStep     == Working \ {"next_batch"}

\* The managers of both groups.
GroupsInv ==
    /\ ActorP!IInv /\ ActorP!PathsInv
    /\ CriticP!IInv /\ CriticP!PathsInv

DriverTypes ==
    /\ phase \in Working \cup {"launch", "failed", "finished"}
    /\ epoch \in 0 .. TotalEpochs - 1
    /\ pos \in 0 .. BatchesPerEpoch
    /\ data \in [Steps -> (0 .. BatchesPerEpoch) \cup {Absent, Torn}]
    /\ tracker \in Steps \cup {Absent, Torn}
    /\ restarts \in 0 .. MaxRestarts
    /\ phase \in {"save_critic", "saving_critic"} => UseCritic
    /\ ~UseCritic => critic = <<>>

\* The step under way, and the tracker never ahead of it.
StepInv ==
    /\ global_steps \in 0 .. TotalTrainingSteps + restarts + 1
    /\ phase \in Working => global_steps \in 1 .. TotalTrainingSteps + restarts
    /\ phase = "finished" => global_steps >= 1
    /\ phase = "write_tracker" <=> tracker = Torn /\ phase \notin {"launch", "failed"}
    /\ tracker \in Steps =>
          /\ phase = "launch" => tracker < TotalTrainingSteps + restarts
          /\ phase \in BeforeSave \cup Saving \cup {"finished"} => tracker < global_steps
          /\ phase = "end_step" => tracker <= global_steps

\* The saved paths of a group are no later than the tracked checkpoint.
NotLater(saved) ==
    \A i \in 1 .. Len(saved) : tracker \in Steps /\ saved[i] <= tracker

Appended(pc) == ActorP!Pos[pc[0]] > ActorP!Pos["append"]

\* What each group saves, and has saved, in each phase of the driver.
PathsOK ==
    /\ actor_path = IF phase = "saving_actor" THEN global_steps ELSE 0
    /\ critic_path = IF phase = "saving_critic" THEN global_steps ELSE 0
    /\ phase \in {"launch", "failed"} => actor_saved = <<>> /\ critic_saved = <<>>
    /\ phase \in Saving =>
          /\ \A i \in 1 .. Len(actor_saved) : actor_saved[i] <= global_steps
          /\ \A i \in 1 .. Len(critic_saved) : critic_saved[i] <= global_steps
    /\ \/ phase \in BeforeSave \cup {"save_actor", "end_step", "finished"}
       \/ phase = "saving_actor" /\ ~Appended(actor_pc)
       => NotLater(actor_saved)
    /\ \/ phase \in BeforeSave \cup {"save_actor", "saving_actor", "save_critic",
                                     "end_step", "finished"}
       \/ phase = "saving_critic" /\ ~Appended(critic_pc)
       => NotLater(critic_saved)

Skipped == FirstActorStep - 1

\* The weights after n steps of an uninterrupted training.
ActorHistory(w, n) ==
    /\ Len(w) = IF n > Skipped THEN n - Skipped ELSE 0
    /\ \A i \in 1 .. Len(w) : w[i][2] = BatchOf(Skipped + i)

CriticHistory(w, n) ==
    /\ Len(w) = n
    /\ \A i \in 1 .. Len(w) : w[i][2] = BatchOf(i)

Agree(a, c) ==
    \A i \in 1 .. Len(a) : Skipped + i \in 1 .. Len(c) /\ a[i] = c[Skipped + i]

ActorSteps == IF phase \in {"next_batch", "update_critic", "update_actor"}
              THEN global_steps - 1 ELSE global_steps
CriticSteps == IF phase \in {"next_batch", "update_critic"}
               THEN global_steps - 1 ELSE global_steps

\* The position in the pass and the weights in memory fit the step.
LiveInv ==
    /\ phase = "next_batch" =>
          BatchOf(global_steps) = IF pos = BatchesPerEpoch THEN 1 ELSE pos + 1
    /\ phase \in InStep => pos = BatchOf(global_steps)
    /\ phase \in Working => ActorHistory(actor, ActorSteps)
    /\ phase \in Working /\ UseCritic =>
          CriticHistory(critic, CriticSteps) /\ Agree(actor, critic)
    /\ phase = "update_actor" /\ UseCritic => critic[global_steps] = Update

\* What has been written of the checkpoint under way.
SavingInv ==
    /\ phase \in Saving \ {"save_actor", "saving_actor"} => Actor!Whole(global_steps, actor)
    /\ phase \in {"save_data", "open_tracker", "write_tracker"} /\ UseCritic =>
          Critic!Whole(global_steps, critic)
    /\ phase \in {"open_tracker", "write_tracker"} => data[global_steps] = pos

\* The checkpoint the tracker names.
TrackedInv ==
    tracker \in Steps =>
        LET a == Loaded(actor_disk, tracker)
            c == Loaded(critic_disk, tracker)
        IN  /\ a \in Weights /\ Actor!Whole(tracker, a) /\ ActorHistory(a, tracker)
            /\ UseCritic => /\ c \in Weights /\ Critic!Whole(tracker, c)
                            /\ CriticHistory(c, tracker) /\ Agree(a, c)
            /\ data[tracker] = BatchOf(tracker)

TrainerInv ==
    /\ GroupsInv /\ DriverTypes /\ StepInv /\ PathsOK
    /\ LiveInv /\ SavingInv /\ TrackedInv

\* No step in from .. to is one at which save_freq asks for a checkpoint.
NoneDue(from, to) == \A s \in from .. to : s % SaveFreq # 0

SavedStep == IF tracker \in Steps THEN tracker ELSE 0

\* Checkpoints were taken when they were due, and the passes that are left
\* have enough batches for the steps that are left.
ScheduleInv ==
    /\ phase \in BeforeSave \cup Saving /\ tracker # Torn =>
          NoneDue(SavedStep + 1, global_steps - 1)
    /\ phase = "end_step" => NoneDue(SavedStep + 1, global_steps)
    /\ phase = "end_step" /\ IsLastStep => tracker = global_steps
    /\ phase = "finished" => tracker = global_steps - 1
    /\ phase = "next_batch" /\ global_steps > TotalTrainingSteps => tracker = global_steps - 1
    /\ phase = "next_batch" =>
          TotalTrainingSteps - (global_steps - 1) <= (TotalEpochs - epoch) * BatchesPerEpoch - pos
    /\ phase \in InStep =>
          TotalTrainingSteps - global_steps <= (TotalEpochs - epoch) * BatchesPerEpoch - pos

-----------------------------------------------------------------------------
(* Arithmetic of the passes and of the schedule *)

\* Division by a positive number has one quotient and remainder.
LEMMA DivisionFacts ==
    ASSUME NEW d \in Nat \ {0}, NEW n \in Nat
    PROVE  /\ n \div d \in Nat
           /\ n % d \in 0 .. d - 1
           /\ n = d * (n \div d) + (n % d)
<1>1. n \div d \in Nat
  OBVIOUS
<1>2. n % d \in 0 .. d - 1
  OBVIOUS
<1>3. n = d * (n \div d) + (n % d)
  OBVIOUS
<1> QED BY <1>1, <1>2, <1>3

LEMMA RemainderUnique ==
    ASSUME NEW d \in Nat \ {0}, NEW q \in Nat, NEW r \in 0 .. d - 1,
           NEW n \in Nat, n = d * q + r
    PROVE  n % d = r
<1> DEFINE p == n \div d
           m == n % d
<1>1. p \in Nat /\ m \in 0 .. d - 1 /\ n = d * p + m
  BY DivisionFacts
<1> HIDE DEF p, m
<1>2. ASSUME NEW a \in Nat, NEW b \in Nat, a < b PROVE d * a + d <= d * b
  <2>1. PICK e \in Nat : b = a + 1 + e
    <3>1. b - a - 1 \in Nat /\ b = a + 1 + (b - a - 1)
      BY <1>2
    <3> QED BY <3>1
  <2>2. d * b = d * a + d + d * e
    BY <2>1
  <2>3. d * e \in Nat /\ d * a \in Nat
    OBVIOUS
  <2> QED BY <2>2, <2>3
<1>3. d * q \in Nat /\ d * p \in Nat
  BY <1>1
<1>4. CASE p < q
  BY <1>1, <1>2, <1>3, <1>4
<1>5. CASE q < p
  BY <1>1, <1>2, <1>3, <1>5
<1>6. CASE p = q
  BY <1>1, <1>3, <1>6 DEF m
<1> QED BY <1>1, <1>4, <1>5, <1>6

\* The batches of a pass come in order, and the first follows the last.
LEMMA BatchOfFacts ==
    ASSUME NEW n \in Nat \ {0}
    PROVE  /\ BatchOf(n) \in 1 .. BatchesPerEpoch
           /\ BatchOf(1) = 1
           /\ BatchOf(n + 1) = IF BatchOf(n) = BatchesPerEpoch THEN 1 ELSE BatchOf(n) + 1
<1> DEFINE B == BatchesPerEpoch
           q == (n - 1) \div B
           r == (n - 1) % B
<1>0. B \in Nat \ {0}
  BY TrainerAssumption
<1>a. n - 1 \in Nat
  OBVIOUS
<1>1. q \in Nat /\ r \in 0 .. B - 1 /\ n - 1 = B * q + r
  BY <1>0, <1>a, DivisionFacts
<1>2. BatchOf(n) = r + 1 /\ BatchOf(n + 1) = (n % B) + 1
  BY DEF BatchOf
<1> HIDE DEF B, q, r
<1>3. BatchOf(1) = 1
  <2>1. 0 = B * 0 + 0
    BY <1>0
  <2>2. 0 % B = 0
    BY <1>0, <2>1, RemainderUnique
  <2> QED BY <2>2 DEF BatchOf, B
<1>4. CASE r = B - 1
  <2>1. n = B * (q + 1) + 0
    BY <1>0, <1>1, <1>4
  <2>2. n % B = 0
    BY <1>0, <1>1, <2>1, RemainderUnique
  <2> QED BY <1>0, <1>1, <1>2, <1>3, <1>4, <2>2 DEF B
<1>5. CASE r # B - 1
  <2>1. n = B * q + (r + 1) /\ r + 1 \in 0 .. B - 1
    BY <1>0, <1>1, <1>5
  <2>2. n % B = r + 1
    BY <1>0, <1>1, <2>1, RemainderUnique
  <2> QED BY <1>0, <1>1, <1>2, <1>3, <1>5, <2>2 DEF B
<1> QED BY <1>4, <1>5

\* Any d consecutive steps hold one that d divides.
LEMMA MultipleWithin ==
    ASSUME NEW d \in Nat \ {0}, NEW t \in Nat
    PROVE  \E m \in t + 1 .. t + d : m % d = 0
<1> DEFINE q == t \div d
           r == t % d
           m == d * (q + 1) + 0
<1>1. q \in Nat /\ r \in 0 .. d - 1 /\ t = d * q + r
  BY DivisionFacts
<1> HIDE DEF q, r
<1>2. m = t + d - r /\ m \in Nat
  BY <1>1
<1>3. m \in t + 1 .. t + d
  BY <1>1, <1>2
<1>4. m % d = 0
  BY <1>1, <1>2, RemainderUnique
<1> QED BY <1>3, <1>4

-----------------------------------------------------------------------------
(* One worker group among the driver's steps *)

LEMMA ConstantFacts ==
    /\ TotalTrainingSteps \in Nat \ {0}
    /\ Steps \subseteq Nat \ {0}
    /\ MaxRestarts \in Nat
    /\ ActorP!ConstantsAssumption
    /\ CriticP!ConstantsAssumption
<1>1. /\ TotalEpochs \in Nat \ {0} /\ BatchesPerEpoch \in Nat \ {0}
      /\ ConfiguredSteps \in Nat /\ MaxRestarts \in Nat
  BY TrainerAssumption
<1>2. BatchesPerEpoch * TotalEpochs \in Nat \ {0}
  BY <1>1
<1>3. TotalTrainingSteps \in Nat \ {0}
  BY <1>1, <1>2 DEF TotalTrainingSteps
<1>4. Steps \subseteq Nat \ {0}
  BY <1>1, <1>3 DEF Steps
<1>5. ActorP!ConstantsAssumption
  BY <1>1, <1>4, TrainerAssumption DEF ActorP!ConstantsAssumption, ActorP!ShardKinds
<1>6. CriticP!ConstantsAssumption
  BY <1>1, <1>4, TrainerAssumption DEF CriticP!ConstantsAssumption, CriticP!ShardKinds
<1> QED BY <1>1, <1>3, <1>4, <1>5, <1>6

\* A group is idle whenever the driver does not wait for it to save.
LEMMA ActorIdle ==
    ASSUME TrainerInv, phase # "saving_actor"
    PROVE  ActorP!Idle
BY ConstantFacts DEF TrainerInv, GroupsInv, PathsOK, ActorP!IInv, ActorP!CallInv, ActorP!Idle

LEMMA CriticIdle ==
    ASSUME TrainerInv, phase # "saving_critic"
    PROVE  CriticP!Idle
BY ConstantFacts DEF TrainerInv, GroupsInv, PathsOK, CriticP!IInv, CriticP!CallInv, CriticP!Idle

\* The workers of a group take a step only while the driver waits for them.
LEMMA ActorWorkersFacts ==
    ASSUME TrainerInv, ActorWorkers
    PROVE  /\ phase = "saving_actor"
           /\ ActorP!RemoveOldest \/ \E r \in ActorP!Ranks : ActorP!RankStep(r)
           /\ UNCHANGED <<driverVars, fileVars, restarts, criticVars, actor, actor_path>>
<1>1. ActorP!RemoveOldest \/ \E r \in ActorP!Ranks : ActorP!RankStep(r)
  <2>1. /\ Actor!Ranks = ActorP!Ranks /\ Actor!Pos = ActorP!Pos /\ Actor!Collectives = ActorP!Collectives
        /\ Actor!Kinds = ActorP!Kinds /\ Actor!Files = ActorP!Files
    BY DEF Actor!Ranks, ActorP!Ranks, Actor!Pos, ActorP!Pos, Actor!Collectives, ActorP!Collectives,
           Actor!Kinds, ActorP!Kinds, Actor!ShardKinds, ActorP!ShardKinds, Actor!Files, ActorP!Files
  <2>2. \A r : Actor!Path(r) = ActorP!Path(r)
    BY DEF Actor!Path, ActorP!Path, Actor!SavesHFModel, ActorP!SavesHFModel,
           Actor!ShardKinds, ActorP!ShardKinds
  <2>3. \A r, p, q : Actor!Follows(r, p, q) <=> ActorP!Follows(r, p, q)
    BY <2>1, <2>2, Zenon DEF Actor!Follows, ActorP!Follows
  <2>4. \A r : Actor!Advance(r) => ActorP!Advance(r)
    BY <2>2, <2>3, Zenon DEF Actor!Advance, ActorP!Advance
  <2>5. \A r : Actor!Entered(r) = ActorP!Entered(r)
    <3>1. \A T : Actor!Cardinality(T) = ActorP!Cardinality(T)
      BY Zenon DEF Actor!Cardinality, ActorP!Cardinality
    <3>2. \A r : {c \in Actor!Collectives \cap Actor!Path(r) : Actor!Pos[c] <= Actor!Pos[actor_pc[r]]}
                = {c \in ActorP!Collectives \cap ActorP!Path(r) : ActorP!Pos[c] <= ActorP!Pos[actor_pc[r]]}
      BY <2>1, <2>2, Zenon
    <3> QED BY <3>1, <3>2, Zenon DEF Actor!Entered, ActorP!Entered
  <2>6. \A r : Actor!RankStep(r) => ActorP!RankStep(r)
    <3> SUFFICES ASSUME NEW r, Actor!RankStep(r) PROVE ActorP!RankStep(r)
      OBVIOUS
    <3>1. CASE Actor!Begin(r)
      BY <3>1, <2>4, Zenon DEF Actor!Begin, ActorP!Begin, ActorP!RankStep, Actor!MustRotate, ActorP!MustRotate
    <3>2. CASE Actor!LeaveCollective(r)
      BY <3>2, <2>1, <2>4, <2>5, Zenon DEF Actor!LeaveCollective, ActorP!LeaveCollective, ActorP!RankStep
    <3>3. CASE Actor!Write(r)
      BY <3>3, <2>1, <2>4, Zenon DEF Actor!Write, ActorP!Write, ActorP!RankStep
    <3>4. CASE Actor!AppendPath(r)
      BY <3>4, <2>4, Zenon DEF Actor!AppendPath, ActorP!AppendPath, ActorP!RankStep
    <3> QED BY <3>1, <3>2, <3>3, <3>4 DEF Actor!RankStep
  <2>7. Actor!RemoveOldest => ActorP!RemoveOldest
    BY <2>1 DEF Actor!RemoveOldest, ActorP!RemoveOldest, Actor!MustRotate, ActorP!MustRotate
  <2> QED BY <2>1, <2>6, <2>7 DEF ActorWorkers
<1>2. UNCHANGED <<driverVars, fileVars, restarts, criticVars, actor, actor_path>>
  BY DEF ActorWorkers, Actor!RemoveOldest, Actor!RankStep, Actor!Begin, Actor!LeaveCollective,
         Actor!Write, Actor!AppendPath
<1>3. phase = "saving_actor"
  <2> SUFFICES ASSUME ActorP!Idle PROVE FALSE
    BY ActorIdle
  <2>1. 0 \in ActorP!Ranks
    BY ConstantFacts DEF ActorP!ConstantsAssumption, ActorP!Ranks
  <2>2. ASSUME NEW r \in ActorP!Ranks, ActorP!RankStep(r) PROVE FALSE
    BY <2>2 DEF ActorP!RankStep, ActorP!Begin, ActorP!LeaveCollective, ActorP!Write,
               ActorP!AppendPath, ActorP!Collectives, ActorP!Kinds, ActorP!ShardKinds, ActorP!Idle
  <2>3. ~ActorP!RemoveOldest
    BY <2>1 DEF ActorP!RemoveOldest, ActorP!Idle
  <2> QED BY <1>1, <2>2, <2>3
<1> QED BY <1>1, <1>2, <1>3

LEMMA CriticWorkersFacts ==
    ASSUME TrainerInv, CriticWorkers
    PROVE  /\ phase = "saving_critic"
           /\ CriticP!RemoveOldest \/ \E r \in CriticP!Ranks : CriticP!RankStep(r)
           /\ UNCHANGED <<driverVars, fileVars, restarts, actorVars, critic, critic_path>>
<1>1. CriticP!RemoveOldest \/ \E r \in CriticP!Ranks : CriticP!RankStep(r)
  <2>1. /\ Critic!Ranks = CriticP!Ranks /\ Critic!Pos = CriticP!Pos /\ Critic!Collectives = CriticP!Collectives
        /\ Critic!Kinds = CriticP!Kinds /\ Critic!Files = CriticP!Files
    BY DEF Critic!Ranks, CriticP!Ranks, Critic!Pos, CriticP!Pos, Critic!Collectives, CriticP!Collectives,
           Critic!Kinds, CriticP!Kinds, Critic!ShardKinds, CriticP!ShardKinds, Critic!Files, CriticP!Files
  <2>2. \A r : Critic!Path(r) = CriticP!Path(r)
    BY DEF Critic!Path, CriticP!Path, Critic!SavesHFModel, CriticP!SavesHFModel,
           Critic!ShardKinds, CriticP!ShardKinds
  <2>3. \A r, p, q : Critic!Follows(r, p, q) <=> CriticP!Follows(r, p, q)
    BY <2>1, <2>2, Zenon DEF Critic!Follows, CriticP!Follows
  <2>4. \A r : Critic!Advance(r) => CriticP!Advance(r)
    BY <2>2, <2>3, Zenon DEF Critic!Advance, CriticP!Advance
  <2>5. \A r : Critic!Entered(r) = CriticP!Entered(r)
    <3>1. \A T : Critic!Cardinality(T) = CriticP!Cardinality(T)
      BY Zenon DEF Critic!Cardinality, CriticP!Cardinality
    <3>2. \A r : {c \in Critic!Collectives \cap Critic!Path(r) : Critic!Pos[c] <= Critic!Pos[critic_pc[r]]}
                = {c \in CriticP!Collectives \cap CriticP!Path(r) : CriticP!Pos[c] <= CriticP!Pos[critic_pc[r]]}
      BY <2>1, <2>2, Zenon
    <3> QED BY <3>1, <3>2, Zenon DEF Critic!Entered, CriticP!Entered
  <2>6. \A r : Critic!RankStep(r) => CriticP!RankStep(r)
    <3> SUFFICES ASSUME NEW r, Critic!RankStep(r) PROVE CriticP!RankStep(r)
      OBVIOUS
    <3>1. CASE Critic!Begin(r)
      BY <3>1, <2>4, Zenon DEF Critic!Begin, CriticP!Begin, CriticP!RankStep, Critic!MustRotate, CriticP!MustRotate
    <3>2. CASE Critic!LeaveCollective(r)
      BY <3>2, <2>1, <2>4, <2>5, Zenon DEF Critic!LeaveCollective, CriticP!LeaveCollective, CriticP!RankStep
    <3>3. CASE Critic!Write(r)
      BY <3>3, <2>1, <2>4, Zenon DEF Critic!Write, CriticP!Write, CriticP!RankStep
    <3>4. CASE Critic!AppendPath(r)
      BY <3>4, <2>4, Zenon DEF Critic!AppendPath, CriticP!AppendPath, CriticP!RankStep
    <3> QED BY <3>1, <3>2, <3>3, <3>4 DEF Critic!RankStep
  <2>7. Critic!RemoveOldest => CriticP!RemoveOldest
    BY <2>1 DEF Critic!RemoveOldest, CriticP!RemoveOldest, Critic!MustRotate, CriticP!MustRotate
  <2> QED BY <2>1, <2>6, <2>7 DEF CriticWorkers
<1>2. UNCHANGED <<driverVars, fileVars, restarts, actorVars, critic, critic_path>>
  BY DEF CriticWorkers, Critic!RemoveOldest, Critic!RankStep, Critic!Begin, Critic!LeaveCollective,
         Critic!Write, Critic!AppendPath
<1>3. phase = "saving_critic"
  <2> SUFFICES ASSUME CriticP!Idle PROVE FALSE
    BY CriticIdle
  <2>1. 0 \in CriticP!Ranks
    BY ConstantFacts DEF CriticP!ConstantsAssumption, CriticP!Ranks
  <2>2. ASSUME NEW r \in CriticP!Ranks, CriticP!RankStep(r) PROVE FALSE
    BY <2>2 DEF CriticP!RankStep, CriticP!Begin, CriticP!LeaveCollective, CriticP!Write,
               CriticP!AppendPath, CriticP!Collectives, CriticP!Kinds, CriticP!ShardKinds, CriticP!Idle
  <2>3. ~CriticP!RemoveOldest
    BY <2>1 DEF CriticP!RemoveOldest, CriticP!Idle
  <2> QED BY <1>1, <2>2, <2>3
<1> QED BY <1>1, <1>2, <1>3

LEMMA StepTyped ==
    ASSUME TrainerInv
    PROVE  /\ phase \in Working => global_steps \in Steps /\ global_steps \in Nat \ {0}
           /\ tracker \in Steps => tracker \in Nat \ {0}
           /\ global_steps \in Nat /\ restarts \in Nat /\ pos \in Nat
<1>1. /\ restarts \in 0 .. MaxRestarts /\ pos \in 0 .. BatchesPerEpoch
      /\ global_steps \in 0 .. TotalTrainingSteps + restarts + 1
      /\ phase \in Working => global_steps \in 1 .. TotalTrainingSteps + restarts
  BY DEF TrainerInv, DriverTypes, StepInv
<1> QED BY <1>1, ConstantFacts DEF Steps

LEMMA UpdateTyped ==
    ASSUME TrainerInv, phase \in {"update_critic", "update_actor"}
    PROVE  Update \in Updates
<1>1. global_steps \in Nat \ {0}
  BY ConstantFacts DEF TrainerInv, StepInv, DriverTypes, Working, BeforeSave
<1>2. pos \in 1 .. BatchesPerEpoch
  BY <1>1, BatchOfFacts DEF TrainerInv, LiveInv, InStep, Working, BeforeSave
<1> QED BY <1>2 DEF Update, Updates, TrainerInv, DriverTypes

\* Every step of the trainer is a step of the actor's group, or none of its.
LEMMA ActorGroupStep ==
    ASSUME TrainerInv, Next
    PROVE  [ActorP!Next]_(ActorP!vars)
<1> USE ConstantFacts
<1>a. /\ actor_path \in Nat /\ restarts \in 0 .. MaxRestarts
      /\ actor \in Weights
      /\ global_steps \in Nat
  BY DEF TrainerInv, GroupsInv, ActorP!IInv, ActorP!TypeOK, DriverTypes, StepInv
<1>1. CASE phase # "saving_actor" /\ actor' \in Weights
           /\ UNCHANGED <<actor_pc, actor_path, actor_saved, actor_disk, restarts>>
  <2>1. ActorP!UpdateModel
    BY <1>1, ActorIdle DEF ActorP!UpdateModel
  <2> QED BY <2>1 DEF ActorP!Next
<1>2. CASE StartFromScratch
  <2>1. <<>> \in Weights
    BY DEF Weights
  <2> QED BY <1>1, <1>2, <2>1 DEF StartFromScratch
<1>3. CASE ResumeFromTracker
  <2>1. actor_disk[<<tracker, 0, "model">>] \in Weights
    BY <1>3 DEF ResumeFromTracker, TrainerInv, TrackedInv, Loaded
  <2> QED BY <1>1, <1>3, <2>1 DEF ResumeFromTracker
<1>4. CASE UpdateActor
  <2>1. Update \in Updates
    BY <1>4, UpdateTyped DEF UpdateActor
  <2>2. actor' \in Weights
    BY <1>a, <1>4, <2>1, AppendProperties DEF UpdateActor, Weights
  <2> QED BY <1>1, <1>4, <2>2 DEF UpdateActor
<1>5. CASE CallSaveActor
  <2>1. global_steps \in Steps
    BY <1>5 DEF CallSaveActor, TrainerInv, StepInv, DriverTypes, Working, Saving, Steps
  <2>2. ActorP!Later(global_steps)
    <3>1. NotLater(actor_saved)
      BY <1>5 DEF CallSaveActor, TrainerInv, PathsOK
    <3>2. tracker \in Steps => tracker < global_steps
      BY <1>5 DEF CallSaveActor, TrainerInv, StepInv, Saving
    <3>3. \A i \in 1 .. Len(actor_saved) : actor_saved[i] \in Nat
      <4>1. actor_saved \in Seq(Steps)
        BY DEF TrainerInv, GroupsInv, ActorP!IInv, ActorP!TypeOK
      <4>2. \A i \in 1 .. Len(actor_saved) : actor_saved[i] \in Steps
        BY <4>1
      <4> QED BY <4>2
    <3>4. tracker \in Steps => tracker \in Nat
      OBVIOUS
    <3> QED BY <1>a, <3>1, <3>2, <3>3, <3>4 DEF NotLater, ActorP!Later
  <2>3. ActorP!Call(global_steps)
    BY <1>5 DEF CallSaveActor, Actor!Call, ActorP!Call, Actor!Idle, ActorP!Idle,
                Actor!Ranks, ActorP!Ranks
  <2> QED BY <2>1, <2>2, <2>3 DEF ActorP!Next
<1>6. CASE ActorSaved
  <2>1. ActorP!Return
    BY <1>6 DEF ActorSaved, Actor!Return, ActorP!Return, Actor!Ranks, ActorP!Ranks
  <2> QED BY <2>1 DEF ActorP!Next
<1>7. CASE ActorWorkers
  BY <1>7, ActorWorkersFacts DEF ActorP!Next
<1>8. CASE Relaunch
  <2>1. ActorP!Restart
    BY <1>8 DEF Relaunch, Actor!Restart, ActorP!Restart, Actor!InFlight, ActorP!InFlight,
       Actor!Tear, ActorP!Tear, Actor!Files, ActorP!Files, Actor!Ranks, ActorP!Ranks,
       Actor!Kinds, ActorP!Kinds, Actor!ShardKinds, ActorP!ShardKinds,
       Actor!MustRotate, ActorP!MustRotate
  <2> QED BY <2>1 DEF ActorP!Next
<1>9. CASE UNCHANGED <<actorVars, restarts>>
  BY <1>9 DEF actorVars, ActorP!vars
<1>10. CASE CriticWorkers
  BY <1>9, <1>10, CriticWorkersFacts
<1>11. CASE CallSaveCritic \/ CriticSaved
  BY <1>9, <1>11 DEF CallSaveCritic, CriticSaved, Critic!Call, Critic!Return
<1>12. CASE LoadFails \/ NextBatch \/ EndOfPass \/ UpdateCritic \/ DecideSave \/ EndStep
  BY <1>9, <1>12 DEF LoadFails, NextBatch, EndOfPass, UpdateCritic, DecideSave, EndStep
<1>13. CASE SaveDataloader \/ OpenTracker \/ WriteTracker
  BY <1>9, <1>13 DEF SaveDataloader, OpenTracker, WriteTracker
<1> QED BY <1>2, <1>3, <1>4, <1>5, <1>6, <1>7, <1>8, <1>10, <1>11, <1>12, <1>13 DEF Next, Driver

LEMMA NextActorGroup ==
    ASSUME TrainerInv, Next
    PROVE  ActorP!IInv' /\ ActorP!PathsInv'
<1>1. [ActorP!Next]_(ActorP!vars)
  BY ActorGroupStep
<1>2. ActorP!IInv /\ ActorP!PathsInv
  BY DEF TrainerInv, GroupsInv
<1>3. ActorP!IInv'
  BY <1>1, <1>2, ActorP!NextIInv, ConstantFacts
<1>4. ActorP!PathsInv'
  BY <1>1, <1>2, ActorP!NextPathsInv, ConstantFacts
<1> QED BY <1>3, <1>4

\* Every step of the trainer is a step of the critic's group, or none of its.
LEMMA CriticGroupStep ==
    ASSUME TrainerInv, Next
    PROVE  [CriticP!Next]_(CriticP!vars)
<1> USE ConstantFacts
<1>a. /\ critic_path \in Nat /\ restarts \in 0 .. MaxRestarts
      /\ critic \in Weights
      /\ global_steps \in Nat
  BY DEF TrainerInv, GroupsInv, CriticP!IInv, CriticP!TypeOK, DriverTypes, StepInv
<1>1. CASE phase # "saving_critic" /\ critic' \in Weights
           /\ UNCHANGED <<critic_pc, critic_path, critic_saved, critic_disk, restarts>>
  <2>1. CriticP!UpdateModel
    BY <1>1, CriticIdle DEF CriticP!UpdateModel
  <2> QED BY <2>1 DEF CriticP!Next
<1>2. CASE StartFromScratch
  <2>1. <<>> \in Weights
    BY DEF Weights
  <2> QED BY <1>1, <1>2, <2>1 DEF StartFromScratch
<1>3. CASE ResumeFromTracker
  <2>1. UseCritic => critic_disk[<<tracker, 0, "model">>] \in Weights
    BY <1>3 DEF ResumeFromTracker, TrainerInv, TrackedInv, Loaded
  <2>2. <<>> \in Weights
    BY DEF Weights
  <2>3. critic' \in Weights
    BY <1>3, <2>1, <2>2 DEF ResumeFromTracker
  <2> QED BY <1>1, <1>3, <2>3 DEF ResumeFromTracker
<1>4. CASE UpdateCritic
  <2>1. Update \in Updates
    BY <1>4, UpdateTyped DEF UpdateCritic
  <2>2. critic' \in Weights
    BY <1>a, <1>4, <2>1, AppendProperties DEF UpdateCritic, Weights
  <2> QED BY <1>1, <1>4, <2>2 DEF UpdateCritic
<1>5. CASE CallSaveCritic
  <2>1. global_steps \in Steps
    BY <1>5 DEF CallSaveCritic, TrainerInv, StepInv, DriverTypes, Working, Saving, Steps
  <2>2. CriticP!Later(global_steps)
    <3>1. NotLater(critic_saved)
      BY <1>5 DEF CallSaveCritic, TrainerInv, PathsOK
    <3>2. tracker \in Steps => tracker < global_steps
      BY <1>5 DEF CallSaveCritic, TrainerInv, StepInv, Saving
    <3>3. \A i \in 1 .. Len(critic_saved) : critic_saved[i] \in Nat
      <4>1. critic_saved \in Seq(Steps)
        BY DEF TrainerInv, GroupsInv, CriticP!IInv, CriticP!TypeOK
      <4>2. \A i \in 1 .. Len(critic_saved) : critic_saved[i] \in Steps
        BY <4>1
      <4> QED BY <4>2
    <3>4. tracker \in Steps => tracker \in Nat
      OBVIOUS
    <3> QED BY <1>a, <3>1, <3>2, <3>3, <3>4 DEF NotLater, CriticP!Later
  <2>3. CriticP!Call(global_steps)
    BY <1>5 DEF CallSaveCritic, Critic!Call, CriticP!Call, Critic!Idle, CriticP!Idle,
                Critic!Ranks, CriticP!Ranks
  <2> QED BY <2>1, <2>2, <2>3 DEF CriticP!Next
<1>6. CASE CriticSaved
  <2>1. CriticP!Return
    BY <1>6 DEF CriticSaved, Critic!Return, CriticP!Return, Critic!Ranks, CriticP!Ranks
  <2> QED BY <2>1 DEF CriticP!Next
<1>7. CASE CriticWorkers
  BY <1>7, CriticWorkersFacts DEF CriticP!Next
<1>8. CASE Relaunch
  <2>1. CriticP!Restart
    BY <1>8 DEF Relaunch, Critic!Restart, CriticP!Restart, Critic!InFlight, CriticP!InFlight,
       Critic!Tear, CriticP!Tear, Critic!Files, CriticP!Files, Critic!Ranks, CriticP!Ranks,
       Critic!Kinds, CriticP!Kinds, Critic!ShardKinds, CriticP!ShardKinds,
       Critic!MustRotate, CriticP!MustRotate
  <2> QED BY <2>1 DEF CriticP!Next
<1>9. CASE UNCHANGED <<criticVars, restarts>>
  BY <1>9 DEF criticVars, CriticP!vars
<1>10. CASE ActorWorkers
  BY <1>9, <1>10, ActorWorkersFacts
<1>11. CASE CallSaveActor \/ ActorSaved
  BY <1>9, <1>11 DEF CallSaveActor, ActorSaved, Actor!Call, Actor!Return
<1>12. CASE LoadFails \/ NextBatch \/ EndOfPass \/ UpdateActor \/ DecideSave \/ EndStep
  BY <1>9, <1>12 DEF LoadFails, NextBatch, EndOfPass, UpdateActor, DecideSave, EndStep
<1>13. CASE SaveDataloader \/ OpenTracker \/ WriteTracker
  BY <1>9, <1>13 DEF SaveDataloader, OpenTracker, WriteTracker
<1> QED BY <1>2, <1>3, <1>4, <1>5, <1>6, <1>7, <1>8, <1>10, <1>11, <1>12, <1>13 DEF Next, Driver

LEMMA NextCriticGroup ==
    ASSUME TrainerInv, Next
    PROVE  CriticP!IInv' /\ CriticP!PathsInv'
<1>1. [CriticP!Next]_(CriticP!vars)
  BY CriticGroupStep
<1>2. CriticP!IInv /\ CriticP!PathsInv
  BY DEF TrainerInv, GroupsInv
<1>3. CriticP!IInv'
  BY <1>1, <1>2, CriticP!NextIInv, ConstantFacts
<1>4. CriticP!PathsInv'
  BY <1>1, <1>2, CriticP!NextPathsInv, ConstantFacts
<1> QED BY <1>3, <1>4

LEMMA NextGroupsInv ==
    ASSUME TrainerInv, Next
    PROVE  GroupsInv'
BY NextActorGroup, NextCriticGroup DEF GroupsInv

-----------------------------------------------------------------------------
(* The driver's part of the invariant, one part at a time *)

\* What the driver's calls and the workers leave alone.
LEMMA GroupEffects ==
    ASSUME TrainerInv, Next
    PROVE  /\ ~Relaunch => UNCHANGED restarts
           /\ Relaunch => restarts < MaxRestarts /\ restarts' = restarts + 1
<1>1. CASE ActorWorkers \/ CriticWorkers
  <2>1. UNCHANGED <<restarts, phase>> /\ phase # "launch"
    BY <1>1, ActorWorkersFacts, CriticWorkersFacts DEF driverVars
  <2> QED BY <1>1, <2>1, ActorWorkersFacts, CriticWorkersFacts DEF driverVars, Relaunch
<1>2. CASE Relaunch
  BY <1>2 DEF Relaunch, Actor!Restart
<1>3. CASE Driver /\ ~Relaunch
  BY <1>3 DEF Driver, StartFromScratch, ResumeFromTracker, LoadFails, NextBatch, EndOfPass,
     UpdateCritic, UpdateActor, DecideSave, EndStep, CallSaveActor, ActorSaved,
     CallSaveCritic, CriticSaved, SaveDataloader, OpenTracker, WriteTracker,
     Actor!Call, Actor!Return, Critic!Call, Critic!Return
<1> QED BY <1>1, <1>2, <1>3 DEF Next

LEMMA NextDriverTypes ==
    ASSUME TrainerInv, Next
    PROVE  DriverTypes'
<1> USE DEF DriverTypes, Working, BeforeSave, Saving
<1>0. DriverTypes /\ GroupsInv /\ StepInv
  BY DEF TrainerInv
<1>1. restarts' \in 0 .. MaxRestarts
  BY <1>0, ConstantFacts, GroupEffects
<1>2. BatchesPerEpoch \in Nat \ {0} /\ TotalEpochs \in Nat \ {0}
  BY TrainerAssumption
<1>3. CASE StartFromScratch
  BY <1>0, <1>1, <1>2, <1>3 DEF StartFromScratch, EnterLoop, fileVars
<1>4. CASE ResumeFromTracker
  BY <1>0, <1>1, <1>2, <1>4 DEF ResumeFromTracker, EnterLoop, fileVars
<1>5. CASE LoadFails
  BY <1>0, <1>1, <1>5 DEF LoadFails, fileVars, criticVars
<1>6. CASE NextBatch \/ EndOfPass
  BY <1>0, <1>1, <1>2, <1>6 DEF NextBatch, EndOfPass, fileVars, criticVars
<1>7. CASE UpdateCritic \/ UpdateActor \/ DecideSave \/ EndStep
  BY <1>0, <1>1, <1>7 DEF UpdateCritic, UpdateActor, DecideSave, EndStep, fileVars, criticVars
<1>8. CASE CallSaveActor \/ ActorSaved
  BY <1>0, <1>1, <1>8, TrainerAssumption DEF CallSaveActor, ActorSaved, Goto, fileVars, criticVars
<1>9. CASE CallSaveCritic \/ CriticSaved
  BY <1>0, <1>1, <1>9 DEF CallSaveCritic, CriticSaved, Goto, fileVars, actorVars,
     Critic!Call, Critic!Return
<1>10. CASE SaveDataloader \/ OpenTracker
  BY <1>0, <1>1, <1>10 DEF SaveDataloader, OpenTracker, Goto, criticVars
<1>11. CASE WriteTracker
  <2>1. global_steps \in Steps
    BY <1>11, StepTyped DEF WriteTracker
  <2> QED BY <1>0, <1>1, <1>11, <2>1 DEF WriteTracker, Goto, criticVars
<1>12. CASE ActorWorkers \/ CriticWorkers
  BY <1>0, <1>1, <1>12, ActorWorkersFacts, CriticWorkersFacts DEF driverVars, fileVars, criticVars
<1>13. CASE Relaunch
  BY <1>0, <1>1, <1>2, <1>13 DEF Relaunch
<1> QED BY <1>3, <1>4, <1>5, <1>6, <1>7, <1>8, <1>9, <1>10, <1>11, <1>12, <1>13 DEF Next, Driver

LEMMA NextStepInv ==
    ASSUME TrainerInv, Next, ResumeModes = {"auto"}
    PROVE  StepInv'
<1> USE DEF StepInv, Working, BeforeSave, Saving
<1>0. DriverTypes /\ StepInv
  BY DEF TrainerInv
<1>1. /\ TotalTrainingSteps \in Nat \ {0}
      /\ global_steps \in Nat /\ restarts \in Nat
      /\ tracker \in Steps => tracker \in Nat \ {0}
      /\ tracker' \in Steps => tracker' \in Nat \ {0}
      /\ phase \in Working => global_steps \in Steps /\ global_steps \in Nat \ {0}
      /\ Absent \notin Steps /\ Torn \notin Steps /\ Absent # Torn
  BY StepTyped, ConstantFacts, TrainerAssumption
<1>2. tracker \in Steps \cup {Absent, Torn}
  BY <1>0 DEF DriverTypes
<1>3. CASE StartFromScratch
  BY <1>0, <1>1, <1>3 DEF StartFromScratch, EnterLoop, fileVars
<1>4. CASE ResumeFromTracker
  BY <1>0, <1>1, <1>4 DEF ResumeFromTracker, EnterLoop, fileVars
<1>5. CASE LoadFails
  BY <1>0, <1>1, <1>5 DEF LoadFails, fileVars, criticVars
<1>6. CASE NextBatch \/ EndOfPass
  BY <1>0, <1>1, <1>6 DEF NextBatch, EndOfPass, fileVars, criticVars
<1>7. CASE UpdateCritic \/ UpdateActor \/ DecideSave
  BY <1>0, <1>1, <1>7 DEF UpdateCritic, UpdateActor, DecideSave, fileVars, criticVars
<1>8. CASE EndStep
  BY <1>0, <1>1, <1>8 DEF EndStep, IsLastStep, fileVars, criticVars
<1>9. CASE CallSaveActor \/ ActorSaved
  BY <1>0, <1>1, <1>9, GroupEffects DEF CallSaveActor, ActorSaved, Goto, fileVars,
     Actor!Call, Actor!Return
<1>10. CASE CallSaveCritic \/ CriticSaved
  BY <1>0, <1>1, <1>10 DEF CallSaveCritic, CriticSaved, Goto, fileVars, Critic!Call, Critic!Return
<1>11. CASE SaveDataloader \/ OpenTracker \/ WriteTracker
  BY <1>0, <1>1, <1>11 DEF SaveDataloader, OpenTracker, WriteTracker, Goto
<1>12. CASE ActorWorkers \/ CriticWorkers
  BY <1>0, <1>1, <1>12, ActorWorkersFacts, CriticWorkersFacts DEF driverVars, fileVars
<1>13. CASE Relaunch
  <2>1. UNCHANGED <<global_steps, tracker>> /\ restarts' = restarts + 1 /\ phase' = "launch"
    BY <1>13, GroupEffects DEF Relaunch
  <2>2. tracker \in Steps => tracker <= TotalTrainingSteps + restarts
    BY <1>0, <1>1, <1>13 DEF Relaunch, DriverTypes
  <2> QED BY <1>0, <1>1, <2>1, <2>2
<1> QED BY <1>3, <1>4, <1>5, <1>6, <1>7, <1>8, <1>9, <1>10, <1>11, <1>12, <1>13 DEF Next, Driver

LEMMA NextPathsOK ==
    ASSUME TrainerInv, Next, ResumeModes = {"auto"}
    PROVE  PathsOK'
<1> USE DEF Working, BeforeSave, Saving
<1>0. DriverTypes /\ StepInv /\ PathsOK
  BY DEF TrainerInv
<1>1. /\ global_steps \in Nat
      /\ tracker \in Steps => tracker \in Nat /\ tracker \in Steps
      /\ phase \in Working => global_steps \in Steps /\ global_steps \in Nat \ {0}
      /\ Absent \notin Steps /\ Torn \notin Steps
      /\ Len(<<>>) = 0
  BY StepTyped, ConstantFacts, TrainerAssumption
<1>2. /\ \A i \in 1 .. Len(actor_saved) : actor_saved[i] \in Nat
      /\ \A i \in 1 .. Len(critic_saved) : critic_saved[i] \in Nat
  <2>1. actor_saved \in Seq(Steps) /\ critic_saved \in Seq(Steps)
    BY DEF TrainerInv, GroupsInv, ActorP!IInv, ActorP!TypeOK, CriticP!IInv, CriticP!TypeOK
  <2>2. /\ \A i \in 1 .. Len(actor_saved) : actor_saved[i] \in Steps
        /\ \A i \in 1 .. Len(critic_saved) : critic_saved[i] \in Steps
    BY <2>1
  <2> QED BY <2>2, ConstantFacts
<1>3. CASE StartFromScratch \/ ResumeFromTracker
  BY <1>0, <1>1, <1>3 DEF StartFromScratch, ResumeFromTracker, EnterLoop, PathsOK, NotLater
<1>4. CASE LoadFails
  BY <1>0, <1>4 DEF LoadFails, PathsOK, actorVars, criticVars
<1>5. CASE NextBatch \/ EndOfPass
  BY <1>0, <1>5 DEF NextBatch, EndOfPass, fileVars, actorVars, criticVars, PathsOK, NotLater
<1>6. CASE UpdateCritic \/ UpdateActor
  BY <1>0, <1>6 DEF UpdateCritic, UpdateActor, fileVars, actorVars, criticVars, PathsOK, NotLater
<1>7. CASE DecideSave
  BY <1>0, <1>1, <1>2, <1>7 DEF DecideSave, fileVars, actorVars, criticVars, PathsOK, NotLater, StepInv
<1>8. CASE EndStep
  BY <1>0, <1>1, <1>8 DEF EndStep, fileVars, actorVars, criticVars, PathsOK, NotLater
<1>9. CASE CallSaveActor
  BY <1>0, <1>1, <1>9 DEF CallSaveActor, Goto, Actor!Call, fileVars, criticVars, PathsOK, NotLater
<1>10. CASE ActorSaved
  BY <1>0, <1>1, <1>10 DEF ActorSaved, Goto, Actor!Return, fileVars, criticVars, PathsOK, NotLater
<1>11. CASE CallSaveCritic
  BY <1>0, <1>1, <1>11 DEF CallSaveCritic, Goto, Critic!Call, fileVars, actorVars, PathsOK, NotLater
<1>12. CASE CriticSaved
  BY <1>0, <1>1, <1>12 DEF CriticSaved, Goto, Critic!Return, fileVars, actorVars, PathsOK, NotLater
<1>13. CASE SaveDataloader \/ OpenTracker
  BY <1>0, <1>1, <1>13 DEF SaveDataloader, OpenTracker, Goto, actorVars, criticVars, PathsOK, NotLater
<1>14. CASE WriteTracker
  BY <1>0, <1>1, <1>14 DEF WriteTracker, Goto, actorVars, criticVars, PathsOK, NotLater
<1>15. CASE ActorWorkers
  <2>1. /\ phase = "saving_actor" /\ actor_path = global_steps
        /\ UNCHANGED <<phase, global_steps, tracker, actor_path, critic_saved, critic_path>>
    BY <1>0, <1>15, ActorWorkersFacts DEF PathsOK, driverVars, fileVars, criticVars
  <2>2. /\ \A i \in 1 .. Len(actor_saved') :
               \/ \E j \in 1 .. Len(actor_saved) : actor_saved'[i] = actor_saved[j]
               \/ actor_saved'[i] = actor_path /\ Appended(actor_pc)'
        /\ Appended(actor_pc) => Appended(actor_pc)'
    BY <1>15, ActorWorkersFacts, ActorP!WorkerPaths, ConstantFacts
       DEF Appended, TrainerInv, GroupsInv
  <2>3. /\ \A i \in 1 .. Len(actor_saved) : actor_saved[i] <= global_steps
        /\ ~Appended(actor_pc) => NotLater(actor_saved)
        /\ NotLater(critic_saved)
        /\ \A i \in 1 .. Len(critic_saved) : critic_saved[i] <= global_steps
    BY <1>0, <2>1 DEF PathsOK
  <2>4. \A i \in 1 .. Len(actor_saved') : actor_saved'[i] <= global_steps
    BY <1>1, <2>1, <2>2, <2>3
  <2>5. ~Appended(actor_pc)' => NotLater(actor_saved)'
    BY <2>1, <2>2, <2>3 DEF NotLater
  <2>6. NotLater(critic_saved)'
    BY <2>1, <2>3 DEF NotLater
  <2> HIDE DEF Appended, NotLater
  <2> QED BY <1>0, <2>1, <2>3, <2>4, <2>5, <2>6 DEF PathsOK
<1>16. CASE CriticWorkers
  <2>1. /\ phase = "saving_critic" /\ critic_path = global_steps
        /\ UNCHANGED <<phase, global_steps, tracker, critic_path, actor_saved, actor_path>>
    BY <1>0, <1>16, CriticWorkersFacts DEF PathsOK, driverVars, fileVars, actorVars
  <2>2. /\ \A i \in 1 .. Len(critic_saved') :
               \/ \E j \in 1 .. Len(critic_saved) : critic_saved'[i] = critic_saved[j]
               \/ critic_saved'[i] = critic_path /\ Appended(critic_pc)'
        /\ Appended(critic_pc) => Appended(critic_pc)'
    BY <1>16, CriticWorkersFacts, CriticP!WorkerPaths, ConstantFacts
       DEF Appended, TrainerInv, GroupsInv, ActorP!Pos, CriticP!Pos
  <2>3. /\ \A i \in 1 .. Len(critic_saved) : critic_saved[i] <= global_steps
        /\ ~Appended(critic_pc) => NotLater(critic_saved)
        /\ \A i \in 1 .. Len(actor_saved) : actor_saved[i] <= global_steps
    BY <1>0, <2>1 DEF PathsOK
  <2>4. \A i \in 1 .. Len(critic_saved') : critic_saved'[i] <= global_steps
    BY <1>1, <2>1, <2>2, <2>3
  <2>5. ~Appended(critic_pc)' => NotLater(critic_saved)'
    BY <2>1, <2>2, <2>3 DEF NotLater
  <2> QED BY <1>0, <2>1, <2>3, <2>4, <2>5 DEF PathsOK
<1>17. CASE Relaunch
  <2>1. /\ phase' = "launch"
        /\ actor_path' = 0 /\ critic_path' = 0
        /\ actor_saved' = <<>> /\ critic_saved' = <<>>
    BY <1>17 DEF Relaunch, Actor!Restart, Critic!Restart
  <2> QED BY <2>1 DEF PathsOK
<1> QED BY <1>3, <1>4, <1>5, <1>6, <1>7, <1>8, <1>9, <1>10, <1>11, <1>12, <1>13, <1>14,
           <1>15, <1>16, <1>17 DEF Next, Driver

-----------------------------------------------------------------------------
(* The history of the weights *)

LEMMA SkippedFacts ==
    /\ Skipped \in Nat
    /\ \A n \in Nat : CriticWarmup <= n + 1 <=> Skipped <= n
BY TrainerAssumption DEF Skipped, FirstActorStep

LEMMA FreshHistory ==
    ActorHistory(<<>>, 0) /\ CriticHistory(<<>>, 0) /\ Agree(<<>>, <<>>)
BY SkippedFacts DEF ActorHistory, CriticHistory, Agree

\* One more step adds its update to the critic, and to the actor once the
\* critic is warm.
LEMMA CriticHistoryStep ==
    ASSUME NEW w \in Weights, NEW n \in Nat, CriticHistory(w, n),
           NEW u \in Updates, u[2] = BatchOf(n + 1)
    PROVE  /\ CriticHistory(Append(w, u), n + 1)
           /\ Append(w, u)[n + 1] = u
<1> DEFINE v == Append(w, u)
<1>1. /\ Len(v) = Len(w) + 1 /\ Len(w) \in Nat
      /\ \A i \in 1 .. Len(w) : v[i] = w[i]
      /\ v[Len(w) + 1] = u
  BY AppendProperties DEF Weights
<1> HIDE DEF v
<1> QED BY <1>1 DEF CriticHistory, v

LEMMA ActorHistoryStep ==
    ASSUME NEW w \in Weights, NEW n \in Nat, ActorHistory(w, n),
           NEW u \in Updates, u[2] = BatchOf(n + 1)
    PROVE  ActorHistory(IF CriticWarmup <= n + 1 THEN Append(w, u) ELSE w, n + 1)
<1> DEFINE v == Append(w, u)
<1>1. /\ Len(v) = Len(w) + 1 /\ Len(w) \in Nat
      /\ \A i \in 1 .. Len(w) : v[i] = w[i]
      /\ v[Len(w) + 1] = u
  BY AppendProperties DEF Weights
<1> HIDE DEF v
<1>2. CASE Skipped <= n
  <2>1. Len(w) = n - Skipped /\ Skipped + Len(v) = n + 1
    BY <1>1, <1>2, SkippedFacts DEF ActorHistory
  <2>2. ASSUME NEW i \in 1 .. Len(v) PROVE v[i][2] = BatchOf(Skipped + i)
    <3>1. CASE i \in 1 .. Len(w)
      BY <1>1, <3>1 DEF ActorHistory
    <3>2. CASE i = Len(w) + 1
      <4>1. Skipped + i = n + 1
        BY <1>1, <2>1, <3>2
      <4> QED BY <1>1, <3>2, <4>1
    <3> QED BY <1>1, <3>1, <3>2
  <2>3. Len(v) = n + 1 - Skipped /\ n + 1 > Skipped
    BY <1>2, <2>1, <1>1, SkippedFacts
  <2> QED BY <1>2, <2>2, <2>3, SkippedFacts DEF ActorHistory, v
<1>3. CASE ~(Skipped <= n)
  BY <1>3, SkippedFacts DEF ActorHistory
<1> QED BY <1>2, <1>3

\* The critic is updated first, the actor after it with the same batch.
LEMMA AgreeStep ==
    ASSUME NEW a \in Weights, NEW c \in Weights, Agree(a, c), NEW u \in Updates
    PROVE  /\ Agree(a, Append(c, u))
           /\ \A n \in Nat : Len(c) = n + 1 /\ c[n + 1] = u /\ ActorHistory(a, n) =>
                 Agree(IF CriticWarmup <= n + 1 THEN Append(a, u) ELSE a, c)
<1>1. /\ Len(Append(c, u)) = Len(c) + 1 /\ Len(c) \in Nat
      /\ \A i \in 1 .. Len(c) : Append(c, u)[i] = c[i]
  BY AppendProperties DEF Weights
<1>2. /\ Len(Append(a, u)) = Len(a) + 1 /\ Len(a) \in Nat
      /\ \A i \in 1 .. Len(a) : Append(a, u)[i] = a[i]
      /\ Append(a, u)[Len(a) + 1] = u
  BY AppendProperties DEF Weights
<1>3. Agree(a, Append(c, u))
  BY <1>1, <1>2, SkippedFacts DEF Agree
<1>4. ASSUME NEW n \in Nat, Len(c) = n + 1, c[n + 1] = u, ActorHistory(a, n), Skipped <= n
      PROVE  Agree(Append(a, u), c)
  <2>1. Len(a) = n - Skipped
    BY <1>4, SkippedFacts DEF ActorHistory
  <2>2. Skipped + (Len(a) + 1) = n + 1
    BY <2>1, <1>2, SkippedFacts
  <2>3. \A i \in 1 .. Len(a) + 1 : i \in 1 .. Len(a) \/ i = Len(a) + 1
    BY <1>2
  <2>4. n + 1 \in 1 .. Len(c)
    BY <1>4
  <2> QED BY <1>2, <1>4, <2>2, <2>3, <2>4 DEF Agree
<1> QED BY <1>3, <1>4, SkippedFacts

LEMMA NextLiveInv ==
    ASSUME TrainerInv, Next, ResumeModes = {"auto"}
    PROVE  LiveInv'
<1> USE DEF Working, BeforeSave, Saving, InStep
<1>0. DriverTypes /\ StepInv /\ LiveInv
  BY DEF TrainerInv
<1>1. /\ global_steps \in Nat /\ pos \in Nat /\ BatchesPerEpoch \in Nat \ {0}
      /\ phase \in Working => global_steps \in Nat \ {0}
      /\ actor \in Weights /\ critic \in Weights
  BY StepTyped, TrainerAssumption DEF TrainerInv, GroupsInv, ActorP!IInv, ActorP!TypeOK,
     CriticP!IInv, CriticP!TypeOK
<1>2. CASE StartFromScratch
  <2>1. BatchOf(1) = 1
    BY BatchOfFacts
  <2>2. /\ phase' = "next_batch" /\ global_steps' = 1 /\ pos' = 0
        /\ actor' = <<>> /\ critic' = <<>>
        /\ ActorSteps' = 0 /\ CriticSteps' = 0
    BY <1>2 DEF StartFromScratch, EnterLoop, ActorSteps, CriticSteps
  <2>3. ActorHistory(actor, ActorSteps)' /\ CriticHistory(critic, CriticSteps)' /\ Agree(actor, critic)'
    BY <2>2, FreshHistory DEF ActorHistory, CriticHistory, Agree
  <2> QED BY <1>1, <2>1, <2>2, <2>3 DEF LiveInv
<1>3. CASE ResumeFromTracker
  <2> DEFINE a == Loaded(actor_disk, tracker)
             c == Loaded(critic_disk, tracker)
  <2>1. /\ tracker \in Nat \ {0} /\ tracker \in Steps
        /\ ActorHistory(a, tracker) /\ data[tracker] = BatchOf(tracker)
        /\ UseCritic => CriticHistory(c, tracker) /\ Agree(a, c)
    BY <1>3, StepTyped DEF ResumeFromTracker, TrainerInv, TrackedInv
  <2>2. /\ BatchOf(tracker) \in 1 .. BatchesPerEpoch
        /\ BatchOf(tracker + 1) = IF BatchOf(tracker) = BatchesPerEpoch
                                  THEN 1 ELSE BatchOf(tracker) + 1
    BY <2>1, BatchOfFacts
  <2>3. data[tracker] # Absent
    BY <2>1, <2>2, TrainerAssumption
  <2>4. tracker # 0 /\ (tracker + 1) - 1 = tracker
    BY <2>1
  <2>5. /\ phase' = "next_batch" /\ global_steps' = tracker + 1 /\ pos' = BatchOf(tracker)
        /\ actor' = a /\ (UseCritic => critic' = c)
        /\ ActorSteps' = tracker /\ CriticSteps' = tracker
    BY <1>3, <2>1, <2>3, <2>4 DEF ResumeFromTracker, EnterLoop, ActorSteps, CriticSteps, Loaded
  <2> QED BY <2>1, <2>2, <2>5 DEF LiveInv, ActorHistory, CriticHistory, Agree
<1>4. CASE LoadFails
  BY <1>4 DEF LoadFails, LiveInv
<1>5. CASE NextBatch
  <2>1. ActorSteps' = ActorSteps /\ CriticSteps' = CriticSteps
    BY <1>5 DEF NextBatch, ActorSteps, CriticSteps
  <2> QED BY <1>0, <1>1, <1>5, <2>1
          DEF NextBatch, LiveInv, ActorHistory, CriticHistory, Agree, actorVars, criticVars
<1>6. CASE EndOfPass
  <2>1. phase' = phase => ActorSteps' = ActorSteps /\ CriticSteps' = CriticSteps
    BY <1>6 DEF EndOfPass, ActorSteps, CriticSteps
  <2> QED BY <1>0, <1>1, <1>6, <2>1
          DEF EndOfPass, LiveInv, ActorHistory, CriticHistory, Agree, actorVars, criticVars
<1>7. CASE UpdateCritic
  <2>1. /\ CriticSteps = global_steps - 1 /\ CriticSteps' = global_steps
        /\ ActorSteps = global_steps - 1 /\ ActorSteps' = global_steps - 1
        /\ phase' = "update_actor" /\ UNCHANGED <<actor, global_steps, pos, restarts>>
    BY <1>7 DEF UpdateCritic, CriticSteps, ActorSteps, actorVars
  <2>2. pos = BatchOf(global_steps) /\ Update \in Updates /\ Update[2] = pos
    BY <1>0, <1>7, UpdateTyped DEF UpdateCritic, LiveInv, Update
  <2>3. ActorHistory(actor, ActorSteps)
    BY <1>0, <1>7 DEF UpdateCritic, LiveInv
  <2>4. ASSUME UseCritic
        PROVE  /\ CriticHistory(critic', global_steps) /\ Agree(actor, critic')
               /\ critic'[global_steps] = Update
    <3>1. CriticHistory(critic, global_steps - 1) /\ Agree(actor, critic)
      BY <1>0, <1>7, <2>1, <2>4 DEF UpdateCritic, LiveInv
    <3>2. critic' = Append(critic, Update)
      BY <1>7, <2>4 DEF UpdateCritic
    <3>3. global_steps - 1 \in Nat /\ (global_steps - 1) + 1 = global_steps
      BY <1>1, <1>7 DEF UpdateCritic
    <3> HIDE DEF Update
    <3>4. CriticHistory(critic', global_steps) /\ critic'[global_steps] = Update
      <4> DEFINE n == global_steps - 1
      <4>1. n \in Nat /\ n + 1 = global_steps /\ CriticHistory(critic, n)
        BY <3>1, <3>3
      <4> HIDE DEF n
      <4>2. Update[2] = BatchOf(n + 1)
        BY <2>2, <4>1
      <4>3. /\ CriticHistory(Append(critic, Update), n + 1)
            /\ Append(critic, Update)[n + 1] = Update
        BY <1>1, <2>2, <4>1, <4>2, CriticHistoryStep
      <4> QED BY <3>2, <4>1, <4>3
    <3>5. Agree(actor, critic')
      BY <1>1, <2>2, <3>1, <3>2, AgreeStep
    <3> QED BY <3>4, <3>5
  <2>5. Update' = Update
    BY <2>1 DEF Update
  <2> QED BY <2>1, <2>2, <2>3, <2>4, <2>5 DEF LiveInv, ActorHistory, CriticHistory, Agree
<1>8. CASE UpdateActor
  <2>1. /\ CriticSteps = global_steps /\ CriticSteps' = global_steps
        /\ ActorSteps = global_steps - 1 /\ ActorSteps' = global_steps
        /\ phase' = "decide_save" /\ UNCHANGED <<critic, global_steps, pos>>
    BY <1>8 DEF UpdateActor, CriticSteps, ActorSteps, criticVars
  <2>2. pos = BatchOf(global_steps) /\ Update \in Updates /\ Update[2] = pos
    BY <1>0, <1>8, UpdateTyped DEF UpdateActor, LiveInv, Update
  <2> DEFINE n == global_steps - 1
  <2>3. n \in Nat /\ n + 1 = global_steps
    BY <1>1, <1>8 DEF UpdateActor
  <2>4. ActorHistory(actor, n)
    BY <1>0, <1>8, <2>1 DEF UpdateActor, LiveInv
  <2>5. actor' = IF CriticWarmup <= n + 1 THEN Append(actor, Update) ELSE actor
    BY <1>8, <2>3 DEF UpdateActor
  <2>6. UseCritic => /\ CriticHistory(critic, global_steps) /\ Agree(actor, critic)
                     /\ critic[global_steps] = Update
    BY <1>0, <1>8, <2>1 DEF UpdateActor, LiveInv
  <2> HIDE DEF n, Update
  <2>7. ActorHistory(actor', global_steps)
    BY <1>1, <2>2, <2>3, <2>4, <2>5, ActorHistoryStep
  <2>8. UseCritic => Agree(actor', critic)
    <3>1. UseCritic => Len(critic) = n + 1 /\ critic[n + 1] = Update
      BY <2>3, <2>6 DEF CriticHistory
    <3> QED BY <1>1, <2>2, <2>3, <2>4, <2>5, <2>6, <3>1, AgreeStep
  <2> QED BY <2>1, <2>2, <2>6, <2>7, <2>8 DEF LiveInv, ActorHistory, CriticHistory, Agree
<1>9. CASE DecideSave
  <2>1. ActorSteps' = ActorSteps /\ CriticSteps' = CriticSteps
    BY <1>9 DEF DecideSave, ActorSteps, CriticSteps
  <2> QED BY <1>0, <1>9, <2>1
          DEF DecideSave, LiveInv, ActorHistory, CriticHistory, Agree, actorVars, criticVars
<1>10. CASE EndStep
  <2>1. /\ phase' = "next_batch" => global_steps' - 1 = global_steps
        /\ phase' \in {"next_batch", "finished"}
        /\ global_steps' = global_steps + 1
        /\ UNCHANGED <<actor, critic, pos>>
        /\ ActorSteps = global_steps /\ CriticSteps = global_steps
    BY <1>1, <1>10 DEF EndStep, ActorSteps, CriticSteps, actorVars, criticVars
  <2>2. phase' = "next_batch" => ActorSteps' = ActorSteps /\ CriticSteps' = CriticSteps
    BY <2>1 DEF ActorSteps, CriticSteps
  <2>3. /\ BatchOf(global_steps) \in 1 .. BatchesPerEpoch
        /\ BatchOf(global_steps + 1) = IF BatchOf(global_steps) = BatchesPerEpoch
                                  THEN 1 ELSE BatchOf(global_steps) + 1
        /\ pos = BatchOf(global_steps)
    BY <1>0, <1>1, <1>10, BatchOfFacts DEF EndStep, LiveInv
  <2>4. ActorHistory(actor, ActorSteps) /\ (UseCritic => CriticHistory(critic, CriticSteps) /\ Agree(actor, critic))
    BY <1>0, <1>10 DEF EndStep, LiveInv
  <2>5. BatchOf(global_steps)' = BatchOf(global_steps + 1)
    BY <2>1 DEF BatchOf
  <2> QED BY <2>1, <2>2, <2>3, <2>4, <2>5 DEF LiveInv, ActorHistory, CriticHistory, Agree
<1>11. CASE CallSaveActor \/ ActorSaved \/ CallSaveCritic \/ CriticSaved
  <2>1. /\ phase \in Saving /\ phase' \in Saving
        /\ UNCHANGED <<global_steps, pos, actor, critic>>
    BY <1>11 DEF CallSaveActor, ActorSaved, CallSaveCritic, CriticSaved, Goto, actorVars, criticVars,
       Actor!Call, Actor!Return, Critic!Call, Critic!Return
  <2>2. ActorSteps' = ActorSteps /\ CriticSteps' = CriticSteps
    BY <2>1 DEF ActorSteps, CriticSteps
  <2> QED BY <1>0, <2>1, <2>2 DEF LiveInv, ActorHistory, CriticHistory, Agree
<1>12. CASE SaveDataloader \/ OpenTracker \/ WriteTracker
  <2>1. /\ phase \in Saving /\ phase' \in Saving \cup {"end_step"}
        /\ UNCHANGED <<global_steps, pos, actor, critic>>
    BY <1>12 DEF SaveDataloader, OpenTracker, WriteTracker, Goto, actorVars, criticVars
  <2>2. ActorSteps' = ActorSteps /\ CriticSteps' = CriticSteps
    BY <2>1 DEF ActorSteps, CriticSteps
  <2> QED BY <1>0, <2>1, <2>2 DEF LiveInv, ActorHistory, CriticHistory, Agree
<1>13. CASE ActorWorkers \/ CriticWorkers
  <2>1. /\ phase \in Saving
        /\ UNCHANGED <<phase, global_steps, pos, actor, critic>>
    BY <1>13, ActorWorkersFacts, CriticWorkersFacts DEF driverVars, actorVars, criticVars
  <2>2. ActorSteps' = ActorSteps /\ CriticSteps' = CriticSteps
    BY <2>1 DEF ActorSteps, CriticSteps
  <2> QED BY <1>0, <2>1, <2>2 DEF LiveInv, ActorHistory, CriticHistory, Agree
<1>14. CASE Relaunch
  BY <1>14 DEF Relaunch, LiveInv
<1> QED BY <1>2, <1>3, <1>4, <1>5, <1>6, <1>7, <1>8, <1>9, <1>10, <1>11, <1>12, <1>13, <1>14
        DEF Next, Driver

-----------------------------------------------------------------------------
(* The checkpoint under way, and the one that is tracked *)

LEMMA NextSavingInv ==
    ASSUME TrainerInv, Next
    PROVE  SavingInv'
<1> USE DEF Working, BeforeSave, Saving
<1>0. DriverTypes /\ StepInv /\ SavingInv
  BY DEF TrainerInv
<1>1. CASE phase' \notin Saving
  BY <1>1 DEF SavingInv
<1>2. CASE DecideSave \/ CallSaveActor
  BY <1>2 DEF DecideSave, CallSaveActor, Goto, SavingInv
<1>3. CASE ActorSaved
  <2>1. ActorP!Whole(actor_path, actor)
    <3>1. \A r \in ActorP!Ranks : actor_pc[r] = "returned"
      BY <1>3 DEF ActorSaved, Actor!Return, Actor!Ranks, ActorP!Ranks
    <3> QED BY <3>1, ActorP!ReturnedIsWhole, ConstantFacts DEF TrainerInv, GroupsInv
  <2>2. actor_path = global_steps
    BY <1>3 DEF ActorSaved, TrainerInv, PathsOK
  <2>3. UNCHANGED <<actor_disk, actor, global_steps>> /\ phase' \in {"save_critic", "save_data"}
    BY <1>3 DEF ActorSaved, Actor!Return, Goto
  <2>4. Actor!Whole(global_steps, actor)'
    BY <2>1, <2>2, <2>3 DEF ActorP!Whole, Actor!Whole, ActorP!Ranks, Actor!Ranks,
       ActorP!ShardKinds, Actor!ShardKinds
  <2>5. phase' = "save_data" => ~UseCritic
    BY <1>3, TrainerAssumption DEF ActorSaved, Goto
  <2> QED BY <2>3, <2>4, <2>5 DEF SavingInv
<1>4. CASE CallSaveCritic
  BY <1>0, <1>4 DEF CallSaveCritic, Critic!Call, Goto, actorVars, SavingInv, Actor!Whole
<1>5. CASE CriticSaved
  <2>1. CriticP!Whole(critic_path, critic)
    <3>1. \A r \in CriticP!Ranks : critic_pc[r] = "returned"
      BY <1>5 DEF CriticSaved, Critic!Return, Critic!Ranks, CriticP!Ranks
    <3> QED BY <3>1, CriticP!ReturnedIsWhole, ConstantFacts DEF TrainerInv, GroupsInv
  <2>2. critic_path = global_steps
    BY <1>5 DEF CriticSaved, TrainerInv, PathsOK
  <2>3. /\ UNCHANGED <<critic_disk, critic, actor_disk, actor, global_steps>>
        /\ phase' = "save_data"
    BY <1>5 DEF CriticSaved, Critic!Return, Goto, actorVars
  <2>4. Critic!Whole(global_steps, critic)'
    BY <2>1, <2>2, <2>3 DEF CriticP!Whole, Critic!Whole, CriticP!Ranks, Critic!Ranks,
       CriticP!ShardKinds, Critic!ShardKinds
  <2>5. Actor!Whole(global_steps, actor)'
    BY <1>0, <1>5, <2>3 DEF CriticSaved, SavingInv, Actor!Whole
  <2> QED BY <2>3, <2>4, <2>5 DEF SavingInv
<1>6. CASE SaveDataloader
  <2>1. data'[global_steps] = pos
    BY <1>0, <1>6, StepTyped DEF SaveDataloader, DriverTypes
  <2> QED BY <1>0, <1>6, <2>1
          DEF SaveDataloader, Goto, actorVars, criticVars, SavingInv, Actor!Whole, Critic!Whole
<1>7. CASE OpenTracker
  BY <1>0, <1>7 DEF OpenTracker, Goto, actorVars, criticVars, SavingInv, Actor!Whole, Critic!Whole
<1>8. CASE ActorWorkers
  BY <1>8, ActorWorkersFacts DEF SavingInv, driverVars
<1>9. CASE CriticWorkers
  BY <1>0, <1>9, CriticWorkersFacts DEF SavingInv, driverVars, actorVars, Actor!Whole
<1>10. CASE \/ StartFromScratch \/ ResumeFromTracker \/ LoadFails \/ NextBatch \/ EndOfPass
            \/ UpdateCritic \/ UpdateActor \/ EndStep \/ WriteTracker \/ Relaunch
  <2>1. phase' \notin Saving
    BY <1>10 DEF StartFromScratch, ResumeFromTracker, EnterLoop, LoadFails, NextBatch, EndOfPass,
       UpdateCritic, UpdateActor, EndStep, WriteTracker, Goto, Relaunch
  <2> QED BY <1>1, <2>1
<1> QED BY <1>2, <1>3, <1>4, <1>5, <1>6, <1>7, <1>8, <1>9, <1>10 DEF Next, Driver

\* No step touches the shards of the checkpoint that the tracker names.
LEMMA ActorKept ==
    ASSUME TrainerInv, Next, MaxActorCkptToKeep # 1, tracker \in Steps,
           NEW r \in Actor!Ranks, NEW k \in Actor!ShardKinds
    PROVE  actor_disk'[<<tracker, r, k>>] = actor_disk[<<tracker, r, k>>]
<1>1. ActorP!IInv /\ ActorP!PathsInv /\ ActorP!TypeOK
  BY DEF TrainerInv, GroupsInv, ActorP!IInv
<1>2. [ActorP!Next]_(ActorP!vars)
  BY ActorGroupStep
<1>3. tracker # actor_path
  <2>1. tracker \in Nat \ {0} /\ global_steps \in Nat
    BY StepTyped
  <2>2. phase = "saving_actor" => tracker < global_steps
    BY DEF TrainerInv, StepInv, Saving
  <2> QED BY <2>1, <2>2 DEF TrainerInv, PathsOK
<1>4. ASSUME actor_pc[0] = "begin", ActorP!MustRotate
      PROVE  Head(actor_saved) # tracker
  <2>1. phase = "saving_actor"
    <3>1. 0 \in ActorP!Ranks
      BY ConstantFacts DEF ActorP!ConstantsAssumption, ActorP!Ranks
    <3> QED BY <1>4, <3>1, ActorIdle DEF ActorP!Idle
  <2>2. ~Appended(actor_pc)
    BY <1>4 DEF Appended, ActorP!Pos
  <2>3. \A i \in 1 .. Len(actor_saved) : actor_saved[i] <= tracker
    BY <2>1, <2>2 DEF TrainerInv, PathsOK, NotLater
  <2> QED BY <1>1, <1>4, <2>3, ActorP!RotationSparesLater, ConstantFacts
<1>5. r \in ActorP!Ranks /\ k \in ActorP!ShardKinds
  BY DEF Actor!Ranks, ActorP!Ranks, Actor!ShardKinds, ActorP!ShardKinds
<1> QED BY <1>1, <1>2, <1>3, <1>4, <1>5, ActorP!OthersUnchanged, ConstantFacts

LEMMA CriticKept ==
    ASSUME TrainerInv, Next, MaxCriticCkptToKeep # 1, tracker \in Steps,
           NEW r \in Critic!Ranks, NEW k \in Critic!ShardKinds
    PROVE  critic_disk'[<<tracker, r, k>>] = critic_disk[<<tracker, r, k>>]
<1>1. CriticP!IInv /\ CriticP!PathsInv /\ CriticP!TypeOK
  BY DEF TrainerInv, GroupsInv, CriticP!IInv
<1>2. [CriticP!Next]_(CriticP!vars)
  BY CriticGroupStep
<1>3. tracker # critic_path
  <2>1. tracker \in Nat \ {0} /\ global_steps \in Nat
    BY StepTyped
  <2>2. phase = "saving_critic" => tracker < global_steps
    BY DEF TrainerInv, StepInv, Saving
  <2> QED BY <2>1, <2>2 DEF TrainerInv, PathsOK
<1>4. ASSUME critic_pc[0] = "begin", CriticP!MustRotate
      PROVE  Head(critic_saved) # tracker
  <2>1. phase = "saving_critic"
    <3>1. 0 \in CriticP!Ranks
      BY ConstantFacts DEF CriticP!ConstantsAssumption, CriticP!Ranks
    <3> QED BY <1>4, <3>1, CriticIdle DEF CriticP!Idle
  <2>2. ~Appended(critic_pc)
    BY <1>4 DEF Appended, ActorP!Pos
  <2>3. \A i \in 1 .. Len(critic_saved) : critic_saved[i] <= tracker
    BY <2>1, <2>2 DEF TrainerInv, PathsOK, NotLater
  <2> QED BY <1>1, <1>4, <2>3, CriticP!RotationSparesLater, ConstantFacts
<1>5. r \in CriticP!Ranks /\ k \in CriticP!ShardKinds
  BY DEF Critic!Ranks, CriticP!Ranks, Critic!ShardKinds, CriticP!ShardKinds
<1> QED BY <1>1, <1>2, <1>3, <1>4, <1>5, CriticP!OthersUnchanged, ConstantFacts

LEMMA DataKept ==
    ASSUME TrainerInv, Next, tracker \in Steps
    PROVE  data'[tracker] = data[tracker]
<1> USE DEF Saving
<1>1. CASE UNCHANGED data
  BY <1>1
<1>2. tracker \in Nat /\ global_steps \in Nat
  BY StepTyped
<1>3. data \in [Steps -> (0 .. BatchesPerEpoch) \cup {Absent, Torn}]
  BY DEF TrainerInv, DriverTypes
<1>4. CASE SaveDataloader \/ Relaunch
  BY <1>2, <1>3, <1>4 DEF SaveDataloader, Relaunch, TrainerInv, StepInv
<1>5. CASE ActorWorkers \/ CriticWorkers
  BY <1>1, <1>5 DEF ActorWorkers, CriticWorkers, fileVars
<1>6. CASE Driver /\ ~SaveDataloader
  BY <1>1, <1>6 DEF Driver, StartFromScratch, ResumeFromTracker, LoadFails, NextBatch, EndOfPass,
     UpdateCritic, UpdateActor, DecideSave, EndStep, CallSaveActor, ActorSaved, CallSaveCritic,
     CriticSaved, OpenTracker, WriteTracker, fileVars
<1> QED BY <1>4, <1>5, <1>6 DEF Next

LEMMA FirstShard ==
    /\ 0 \in Actor!Ranks /\ "model" \in Actor!ShardKinds \cap SaveContents
    /\ 0 \in Critic!Ranks /\ "model" \in Critic!ShardKinds \cap SaveContents
BY TrainerAssumption DEF Actor!Ranks, Critic!Ranks, Actor!ShardKinds, Critic!ShardKinds

\* With room for two checkpoints in each group.
Roomy == MaxActorCkptToKeep # 1 /\ (UseCritic => MaxCriticCkptToKeep # 1)

LEMMA NextTrackedInv ==
    ASSUME TrainerInv, Next, Roomy
    PROVE  TrackedInv'
<1>0. TrackedInv /\ LiveInv /\ SavingInv /\ StepInv /\ DriverTypes
  BY DEF TrainerInv
<1>1. CASE tracker \in Steps /\ tracker' = tracker
  <2> DEFINE a == Loaded(actor_disk, tracker)
             c == Loaded(critic_disk, tracker)
  <2>1. /\ a \in Weights /\ Actor!Whole(tracker, a) /\ ActorHistory(a, tracker)
        /\ UseCritic => /\ c \in Weights /\ Critic!Whole(tracker, c)
                        /\ CriticHistory(c, tracker) /\ Agree(a, c)
        /\ data[tracker] = BatchOf(tracker)
    BY <1>0, <1>1 DEF TrackedInv
  <2>2. Loaded(actor_disk', tracker') = a
    BY <1>1, ActorKept, FirstShard DEF Loaded, Roomy
  <2>3. UseCritic => Loaded(critic_disk', tracker') = c
    BY <1>1, CriticKept, FirstShard DEF Loaded, Roomy
  <2>4. \A r \in Actor!Ranks : \A k \in Actor!ShardKinds \cap SaveContents :
           actor_disk'[<<tracker', r, k>>] = a
    BY <1>1, <2>1, ActorKept DEF Roomy, Actor!Whole
  <2>5. UseCritic => \A r \in Critic!Ranks : \A k \in Critic!ShardKinds \cap SaveContents :
           critic_disk'[<<tracker', r, k>>] = c
    BY <1>1, <2>1, CriticKept DEF Roomy, Critic!Whole
  <2>6. data'[tracker'] = BatchOf(tracker)
    BY <1>1, <2>1, DataKept
  <2> HIDE DEF a, c
  <2> QED BY <1>1, <2>1, <2>2, <2>3, <2>4, <2>5, <2>6 DEF TrackedInv, Actor!Whole, Critic!Whole
<1>2. CASE WriteTracker
  <2>1. /\ tracker' = global_steps /\ phase = "write_tracker"
        /\ UNCHANGED <<data, actor_disk, critic_disk>>
    BY <1>2 DEF WriteTracker, actorVars, criticVars
  <2>2. /\ Actor!Whole(global_steps, actor) /\ data[global_steps] = pos
        /\ UseCritic => Critic!Whole(global_steps, critic)
    BY <1>0, <2>1 DEF SavingInv, Saving
  <2>3. /\ pos = BatchOf(global_steps) /\ ActorHistory(actor, global_steps)
        /\ UseCritic => CriticHistory(critic, global_steps) /\ Agree(actor, critic)
    BY <1>0, <2>1 DEF LiveInv, ActorSteps, CriticSteps, InStep, Working, Saving
  <2>4. /\ Loaded(actor_disk, global_steps) = actor
        /\ UseCritic => Loaded(critic_disk, global_steps) = critic
    BY <2>2, FirstShard DEF Loaded, Actor!Whole, Critic!Whole
  <2>5. actor \in Weights /\ critic \in Weights
    BY DEF TrainerInv, GroupsInv, ActorP!IInv, ActorP!TypeOK, CriticP!IInv, CriticP!TypeOK
  <2>6. /\ Loaded(actor_disk', tracker') = actor
        /\ UseCritic => Loaded(critic_disk', tracker') = critic
    BY <2>1, <2>4
  <2>7. /\ \A r \in Actor!Ranks : \A k \in Actor!ShardKinds \cap SaveContents :
             actor_disk'[<<tracker', r, k>>] = actor
        /\ UseCritic => \A r \in Critic!Ranks : \A k \in Critic!ShardKinds \cap SaveContents :
             critic_disk'[<<tracker', r, k>>] = critic
    BY <2>1, <2>2 DEF Actor!Whole, Critic!Whole
  <2> QED BY <2>1, <2>2, <2>3, <2>5, <2>6, <2>7 DEF TrackedInv, Actor!Whole, Critic!Whole
<1>3. CASE tracker' \notin Steps
  BY <1>3 DEF TrackedInv
<1>4. ASSUME tracker' # tracker, ~WriteTracker PROVE tracker' \notin Steps
  <2>1. OpenTracker
    BY <1>4 DEF Next, Driver, StartFromScratch, ResumeFromTracker, LoadFails, NextBatch, EndOfPass,
     UpdateCritic, UpdateActor, DecideSave, EndStep, CallSaveActor, ActorSaved, CallSaveCritic,
     CriticSaved, SaveDataloader, ActorWorkers, CriticWorkers, Relaunch, fileVars
  <2> QED BY <2>1, ConstantFacts, TrainerAssumption DEF OpenTracker
<1> QED BY <1>1, <1>2, <1>3, <1>4

-----------------------------------------------------------------------------
(* The theorems *)

\* What the trainer is run with: every launch resumes automatically, and
\* rotation leaves room for two checkpoints.
Resumes == ResumeModes = {"auto"} /\ Roomy

LEMMA InitTrainerInv == Init => TrainerInv
<1> SUFFICES ASSUME Init PROVE TrainerInv
  OBVIOUS
<1> USE DEF Working, BeforeSave, Saving, InStep
<1>1. /\ phase = "launch" /\ global_steps = 0 /\ epoch = 0 /\ pos = 0 /\ restarts = 0
      /\ data = [s \in Steps |-> Absent] /\ tracker = Absent
      /\ actor = <<>> /\ critic = <<>>
      /\ actor_path = 0 /\ critic_path = 0 /\ actor_saved = <<>> /\ critic_saved = <<>>
  BY DEF Init, Actor!Init, Critic!Init
<1>2. ActorP!Init /\ CriticP!Init
  BY DEF Init, Actor!Init, Critic!Init, ActorP!Init, CriticP!Init, Actor!Ranks, ActorP!Ranks,
     Critic!Ranks, CriticP!Ranks, Actor!Files, ActorP!Files, Critic!Files, CriticP!Files,
     Actor!Kinds, ActorP!Kinds, Critic!Kinds, CriticP!Kinds,
     Actor!ShardKinds, ActorP!ShardKinds, Critic!ShardKinds, CriticP!ShardKinds
<1>3. ActorP!IInv /\ CriticP!IInv
  BY <1>2, ActorP!InitIInv, CriticP!InitIInv, ConstantFacts
<1>4. ActorP!PathsInv /\ CriticP!PathsInv
  BY <1>1 DEF ActorP!PathsInv, CriticP!PathsInv
<1>5. DriverTypes
  BY <1>1, ConstantFacts, TrainerAssumption DEF DriverTypes
<1>6. StepInv
  <2>1. tracker \notin Steps /\ tracker # Torn
    BY <1>1, ConstantFacts, TrainerAssumption
  <2>2. 0 \in 0 .. TotalTrainingSteps + 0 + 1
    BY ConstantFacts
  <2> QED BY <1>1, <2>1, <2>2 DEF StepInv
<1>7. PathsOK
  BY <1>1 DEF PathsOK, NotLater
<1>8. LiveInv /\ SavingInv
  BY <1>1 DEF LiveInv, SavingInv
<1>9. TrackedInv
  BY <1>1, ConstantFacts, TrainerAssumption DEF TrackedInv
<1> QED BY <1>3, <1>4, <1>5, <1>6, <1>7, <1>8, <1>9 DEF TrainerInv, GroupsInv

LEMMA NextTrainerInv ==
    ASSUME Resumes
    PROVE  TrainerInv /\ [Next]_vars => TrainerInv'
<1> SUFFICES ASSUME TrainerInv, [Next]_vars PROVE TrainerInv'
  OBVIOUS
<1>1. CASE Next
  BY <1>1, NextGroupsInv, NextDriverTypes, NextStepInv, NextPathsOK, NextLiveInv, NextSavingInv,
     NextTrackedInv DEF TrainerInv, Resumes
<1>2. CASE UNCHANGED vars
  <2> USE <1>2 DEF vars, driverVars, fileVars, actorVars, criticVars
  <2>1. UNCHANGED <<ActorP!vars, CriticP!vars>>
    BY DEF ActorP!vars, CriticP!vars
  <2>2. GroupsInv'
    BY <2>1, ActorP!NextIInv, ActorP!NextPathsInv, CriticP!NextIInv, CriticP!NextPathsInv,
       ConstantFacts DEF TrainerInv, GroupsInv
  <2>3. DriverTypes' /\ StepInv'
    BY DEF TrainerInv, DriverTypes, StepInv
  <2>4. PathsOK'
    BY DEF TrainerInv, PathsOK, NotLater, Appended
  <2>5. LiveInv'
    BY DEF TrainerInv, LiveInv, ActorHistory, CriticHistory, Agree, ActorSteps, CriticSteps, Update
  <2>6. SavingInv'
    BY DEF TrainerInv, SavingInv, Actor!Whole, Critic!Whole
  <2>7. TrackedInv'
    BY DEF TrainerInv, TrackedInv, Loaded, ActorHistory, CriticHistory, Agree,
       Actor!Whole, Critic!Whole
  <2> QED BY <2>2, <2>3, <2>4, <2>5, <2>6, <2>7 DEF TrainerInv
<1> QED BY <1>1, <1>2

LEMMA TrainerInvariance ==
    ASSUME Resumes
    PROVE  Spec => []TrainerInv
BY InitTrainerInv, NextTrainerInv, PTL DEF Spec

\* Whatever is killed, torn or rotated away, the checkpoint that the tracker
\* names has every shard of both groups, each group's of one set of weights,
\* and the dataloader's state; actor and critic are always of one history.
THEOREM CheckpointsAreWhole ==
    ASSUME Resumes
    PROVE  Spec => []CheckpointsOK
<1>1. TrainerInv => CheckpointsOK
  <2> SUFFICES ASSUME TrainerInv PROVE CheckpointsOK
    OBVIOUS
  <2>1. Actor!TypeOK /\ Critic!TypeOK
    BY DEF TrainerInv, GroupsInv, ActorP!IInv, ActorP!TypeOK, CriticP!IInv, CriticP!TypeOK,
       Actor!TypeOK, Critic!TypeOK, Actor!Ranks, ActorP!Ranks, Critic!Ranks, CriticP!Ranks,
       Actor!Files, ActorP!Files, Critic!Files, CriticP!Files, Actor!Kinds, ActorP!Kinds,
       Critic!Kinds, CriticP!Kinds, Actor!ShardKinds, ActorP!ShardKinds, Critic!ShardKinds,
       CriticP!ShardKinds, Actor!Pos, ActorP!Pos, Critic!Pos, CriticP!Pos
  <2>2. global_steps \in 0 .. TotalTrainingSteps + MaxRestarts + 1
    BY ConstantFacts DEF TrainerInv, StepInv, DriverTypes
  <2>3. TypeOK
    BY <2>1, <2>2 DEF TypeOK, TrainerInv, DriverTypes, Working, BeforeSave, Saving
  <2>4. TrackedIsWhole
    <3> SUFFICES ASSUME tracker \in Steps
                 PROVE  /\ Loaded(actor_disk, tracker) # Absent
                        /\ Actor!Whole(tracker, Loaded(actor_disk, tracker))
                        /\ UseCritic => /\ Loaded(critic_disk, tracker) # Absent
                                        /\ Critic!Whole(tracker, Loaded(critic_disk, tracker))
                        /\ data[tracker] \in 0 .. BatchesPerEpoch
      BY DEF TrackedIsWhole
    <3>1. BatchOf(tracker) \in 1 .. BatchesPerEpoch
      BY StepTyped, BatchOfFacts
    <3> QED BY <3>1, TrainerAssumption DEF TrainerInv, TrackedInv
  <2>5. ActorCriticAgree
    <3> SUFFICES ASSUME phase = "next_batch", UseCritic, NEW i \in DOMAIN actor
                 PROVE  /\ FirstActorStep - 1 + i \in DOMAIN critic
                        /\ actor[i] = critic[FirstActorStep - 1 + i]
      BY DEF ActorCriticAgree
    <3>1. DOMAIN actor = 1 .. Len(actor) /\ DOMAIN critic = 1 .. Len(critic)
      BY DEF TrainerInv, GroupsInv, ActorP!IInv, ActorP!TypeOK, CriticP!IInv, CriticP!TypeOK, Weights
    <3>2. Agree(actor, critic)
      BY DEF TrainerInv, LiveInv, Working, BeforeSave
    <3> QED BY <3>1, <3>2 DEF Agree, Skipped
  <2> QED BY <2>3, <2>4, <2>5 DEF CheckpointsOK
<1> QED BY <1>1, TrainerInvariance, PTL

\* However often it was killed and resumed, a training went through the
\* updates of an uninterrupted one, each batch of each pass once and in order.
THEOREM ResumedTrainingIsExact ==
    ASSUME Resumes
    PROVE  Spec => []LineageExact
<1>1. TrainerInv => LineageExact
  <2> SUFFICES ASSUME TrainerInv, phase = "next_batch" PROVE LineageExact
    BY DEF LineageExact
  <2>1. DOMAIN actor = 1 .. Len(actor) /\ DOMAIN critic = 1 .. Len(critic)
    BY DEF TrainerInv, GroupsInv, ActorP!IInv, ActorP!TypeOK, CriticP!IInv, CriticP!TypeOK, Weights
  <2>2. /\ ActorHistory(actor, global_steps - 1)
        /\ UseCritic => CriticHistory(critic, global_steps - 1)
    BY DEF TrainerInv, LiveInv, ActorSteps, CriticSteps, Working, BeforeSave
  <2>3. global_steps > Skipped => (global_steps - 1 > Skipped \/ global_steps - 1 - Skipped = 0)
    BY SkippedFacts, StepTyped
  <2>4. global_steps - 1 > Skipped => global_steps > Skipped
    BY SkippedFacts, StepTyped
  <2> QED BY <2>1, <2>2, <2>3, <2>4, SkippedFacts, StepTyped
          DEF LineageExact, ActorHistory, CriticHistory, Skipped
<1> QED BY <1>1, TrainerInvariance, PTL

\* The tracker is only ever rewritten for a later checkpoint.
THEOREM TrackerOnlyAdvances ==
    ASSUME Resumes
    PROVE  Spec => TrackerAdvances
<1>1. TrainerInv /\ [Next]_vars => [(tracker \in Steps /\ tracker' # tracker) => global_steps > tracker]_vars
  <2> SUFFICES ASSUME TrainerInv, Next, tracker \in Steps, tracker' # tracker
               PROVE  global_steps > tracker
    BY DEF vars, fileVars
  <2>1. OpenTracker \/ WriteTracker
    BY DEF Next, Driver, StartFromScratch, ResumeFromTracker, LoadFails, NextBatch, EndOfPass,
     UpdateCritic, UpdateActor, DecideSave, EndStep, CallSaveActor, ActorSaved, CallSaveCritic,
     CriticSaved, SaveDataloader, ActorWorkers, CriticWorkers, Relaunch, fileVars
  <2>2. phase \in Saving
    BY <2>1 DEF OpenTracker, WriteTracker, Saving
  <2> QED BY <2>2, StepTyped DEF TrainerInv, StepInv
<1> QED BY <1>1, TrainerInvariance, PTL DEF Spec, TrackerAdvances

-----------------------------------------------------------------------------
(* Checkpoints come on time *)

LEMMA BatchOfAtMost ==
    ASSUME NEW n \in Nat \ {0}
    PROVE  BatchOf(n) <= n
<1> DEFINE q == (n - 1) \div BatchesPerEpoch
           r == (n - 1) % BatchesPerEpoch
<1>1. n - 1 \in Nat /\ BatchesPerEpoch \in Nat \ {0}
  BY TrainerAssumption
<1>2. q \in Nat /\ r \in 0 .. BatchesPerEpoch - 1 /\ n - 1 = BatchesPerEpoch * q + r
  BY <1>1, DivisionFacts
<1>3. BatchOf(n) = r + 1
  BY DEF BatchOf
<1> HIDE DEF q, r
<1>4. BatchesPerEpoch * q \in Nat
  BY <1>1, <1>2
<1> QED BY <1>1, <1>2, <1>3, <1>4

\* The batches left in this pass and the passes after it.
BatchesLeft == (TotalEpochs - epoch) * BatchesPerEpoch - pos

\* The passes hold the configured steps.
EnoughBatches == ConfiguredSteps <= BatchesPerEpoch * TotalEpochs

LEMMA NextScheduleInv ==
    ASSUME TrainerInv, TrainerInv', Next, ScheduleInv, Resumes, EnoughBatches, SaveFreq > 0
    PROVE  ScheduleInv'
<1> USE DEF Working, BeforeSave, Saving, InStep
<1>0. DriverTypes /\ StepInv
  BY DEF TrainerInv
<1>1. /\ global_steps \in Nat /\ pos \in Nat
      /\ TotalTrainingSteps \in Nat \ {0}
      /\ tracker \in Steps => tracker \in Nat \ {0}
      /\ phase \in Working => global_steps \in Steps /\ global_steps \in Nat \ {0}
      /\ Absent \notin Steps /\ Torn \notin Steps /\ Absent # Torn
  BY StepTyped, ConstantFacts, TrainerAssumption
<1>2. /\ BatchesPerEpoch \in Nat \ {0} /\ TotalEpochs \in Nat \ {0}
      /\ epoch \in 0 .. TotalEpochs - 1
      /\ BatchesPerEpoch * TotalEpochs \in Nat
      /\ (TotalEpochs - 0) * BatchesPerEpoch = BatchesPerEpoch * TotalEpochs
      /\ (TotalEpochs - epoch) * BatchesPerEpoch \in Nat
      /\ (TotalEpochs - (epoch + 1)) * BatchesPerEpoch
            = (TotalEpochs - epoch) * BatchesPerEpoch - BatchesPerEpoch
  <2>1. /\ BatchesPerEpoch \in Nat \ {0} /\ TotalEpochs \in Nat \ {0}
        /\ epoch \in 0 .. TotalEpochs - 1
    BY <1>0, TrainerAssumption DEF DriverTypes
  <2>2. (TotalEpochs - 0) * BatchesPerEpoch = BatchesPerEpoch * TotalEpochs
    BY <2>1
  <2>3. TotalEpochs - epoch \in Nat
    BY <2>1
  <2>4. (TotalEpochs - epoch) * BatchesPerEpoch \in Nat
    BY <2>1, <2>3
  <2>5. (TotalEpochs - (epoch + 1)) * BatchesPerEpoch
            = (TotalEpochs - epoch) * BatchesPerEpoch - BatchesPerEpoch
    BY <2>1, <2>3
  <2> QED BY <2>1, <2>2, <2>4, <2>5
<1>3. TotalTrainingSteps <= BatchesPerEpoch * TotalEpochs
  BY <1>2 DEF TotalTrainingSteps, EnoughBatches
<1>4. CASE StartFromScratch
  <2>1. /\ phase' = "next_batch" /\ global_steps' = 1 /\ epoch' = 0 /\ pos' = 0
        /\ tracker' = Absent
    BY <1>4, <1>0, <1>1 DEF StartFromScratch, EnterLoop, fileVars, Resumes
  <2>2. SavedStep' = 0
    BY <1>1, <2>1 DEF SavedStep
  <2>3. NoneDue(SavedStep + 1, global_steps - 1)'
    BY <2>1, <2>2 DEF NoneDue
  <2> QED BY <1>1, <1>2, <1>3, <2>1, <2>3 DEF ScheduleInv
<1>5. CASE ResumeFromTracker
  <2>1. /\ phase' = "next_batch" /\ global_steps' = tracker + 1 /\ epoch' = 0
        /\ tracker' = tracker /\ tracker \in Steps
    BY <1>5, <1>1 DEF ResumeFromTracker, EnterLoop, fileVars
  <2>2. pos' = BatchOf(tracker)
    <3>1. data[tracker] = BatchOf(tracker)
      BY <2>1 DEF TrainerInv, TrackedInv
    <3>2. BatchOf(tracker) \in 1 .. BatchesPerEpoch
      BY <1>1, <2>1, BatchOfFacts
    <3> QED BY <1>5, <3>1, <3>2, TrainerAssumption DEF ResumeFromTracker
  <2>3. BatchOf(tracker) <= tracker /\ BatchOf(tracker) \in Nat
    BY <1>1, <1>2, <2>1, BatchOfAtMost, BatchOfFacts
  <2>4. SavedStep' = tracker
    BY <2>1 DEF SavedStep
  <2>5. NoneDue(SavedStep + 1, global_steps - 1)'
    BY <1>1, <2>1, <2>4 DEF NoneDue
  <2> QED BY <1>1, <1>2, <1>3, <2>1, <2>2, <2>3, <2>5 DEF ScheduleInv
<1>6. CASE LoadFails
  BY <1>6 DEF LoadFails, ScheduleInv
<1>7. CASE NextBatch
  BY <1>0, <1>1, <1>2, <1>7 DEF NextBatch, fileVars, ScheduleInv, NoneDue, SavedStep
<1>8. CASE EndOfPass
  BY <1>0, <1>1, <1>2, <1>8 DEF EndOfPass, fileVars, ScheduleInv, NoneDue, SavedStep
<1>9. CASE UpdateCritic \/ UpdateActor
  BY <1>0, <1>1, <1>9 DEF UpdateCritic, UpdateActor, fileVars, ScheduleInv, NoneDue, SavedStep
<1>10. CASE DecideSave
  <2>1. /\ phase = "decide_save" /\ UNCHANGED <<global_steps, epoch, pos, tracker>>
        /\ tracker # Torn
        /\ \/ phase' = "save_actor"
           \/ phase' = "end_step" /\ ~IsLastStep /\ global_steps % SaveFreq # 0
    BY <1>0, <1>10 DEF DecideSave, fileVars, StepInv
  <2>2. SavedStep' = SavedStep /\ IsLastStep' = IsLastStep /\ SavedStep \in Nat
    BY <1>1, <2>1 DEF SavedStep, IsLastStep
  <2>3. NoneDue(SavedStep + 1, global_steps - 1)
    BY <2>1 DEF ScheduleInv
  <2>4. phase' = "end_step" => NoneDue(SavedStep + 1, global_steps)
    BY <1>1, <2>1, <2>2, <2>3 DEF NoneDue
  <2> QED BY <2>1, <2>2, <2>3, <2>4 DEF ScheduleInv, NoneDue
<1>11. CASE EndStep
  <2>1. /\ phase = "end_step" /\ UNCHANGED <<epoch, pos, tracker>>
        /\ global_steps' = global_steps + 1
        /\ phase' = IF IsLastStep THEN "finished" ELSE "next_batch"
    BY <1>11 DEF EndStep, fileVars
  <2>2. SavedStep' = SavedStep /\ global_steps' - 1 = global_steps
    BY <1>1, <2>1 DEF SavedStep
  <2>3. NoneDue(SavedStep + 1, global_steps)
    BY <2>1 DEF ScheduleInv
  <2>4. NoneDue(SavedStep + 1, global_steps - 1)'
    BY <2>2, <2>3 DEF NoneDue
  <2> QED BY <1>1, <1>2, <2>1, <2>2, <2>4 DEF ScheduleInv, IsLastStep
<1>12. CASE CallSaveActor \/ ActorSaved \/ CallSaveCritic \/ CriticSaved \/ SaveDataloader
  <2>1. /\ phase \in Saving /\ phase' \in Saving
        /\ UNCHANGED <<global_steps, epoch, pos, tracker>>
    BY <1>12 DEF CallSaveActor, ActorSaved, CallSaveCritic, CriticSaved, SaveDataloader, Goto, fileVars
  <2> QED BY <2>1 DEF ScheduleInv, NoneDue, SavedStep
<1>13. CASE OpenTracker
  BY <1>13 DEF OpenTracker, Goto, ScheduleInv, NoneDue, SavedStep
<1>14. CASE WriteTracker
  <2>1. /\ phase = "write_tracker" /\ phase' = "end_step" /\ tracker' = global_steps
        /\ UNCHANGED <<global_steps, epoch, pos>>
    BY <1>14 DEF WriteTracker, Goto
  <2>2. SavedStep' = global_steps
    BY <1>1, <2>1 DEF SavedStep
  <2>3. NoneDue(SavedStep + 1, global_steps)'
    BY <1>1, <2>1, <2>2 DEF NoneDue
  <2> QED BY <2>1, <2>3 DEF ScheduleInv
<1>15. CASE ActorWorkers \/ CriticWorkers
  <2>1. UNCHANGED <<phase, global_steps, epoch, pos, tracker>>
    BY <1>15, ActorWorkersFacts, CriticWorkersFacts DEF driverVars, fileVars
  <2> QED BY <2>1 DEF ScheduleInv, NoneDue, SavedStep, IsLastStep
<1>16. CASE Relaunch
  BY <1>16 DEF Relaunch, ScheduleInv
<1> QED BY <1>4, <1>5, <1>6, <1>7, <1>8, <1>9, <1>10, <1>11, <1>12, <1>13, <1>14, <1>15, <1>16
        DEF Next, Driver

\* When the passes hold the configured steps: a kill costs at most save_freq
\* steps, and a training that ended has its last step in a checkpoint.
THEOREM CheckpointsComeOnTime ==
    ASSUME Resumes, EnoughBatches
    PROVE  Spec => []SavesOnTime
<1>1. CASE SaveFreq > 0
  <2>1. Init => ScheduleInv
    BY DEF Init, ScheduleInv, BeforeSave, Saving, InStep, Working
  <2>2. TrainerInv /\ TrainerInv' /\ ScheduleInv /\ [Next]_vars => ScheduleInv'
    <3> SUFFICES ASSUME TrainerInv, TrainerInv', ScheduleInv, [Next]_vars PROVE ScheduleInv'
      OBVIOUS
    <3>1. CASE Next
      BY <1>1, <3>1, NextScheduleInv
    <3>2. CASE UNCHANGED vars
      BY <3>2 DEF vars, driverVars, fileVars, ScheduleInv, NoneDue, SavedStep, IsLastStep
    <3> QED BY <3>1, <3>2
  <2>3. TrainerInv /\ ScheduleInv => SavesOnTime
    <3> SUFFICES ASSUME TrainerInv, ScheduleInv PROVE LostWorkBounded /\ LastStepSaved
      BY DEF SavesOnTime
    <3>1. LastStepSaved
      BY DEF ScheduleInv, LastStepSaved
    <3>2. ASSUME phase \notin {"launch", "failed", "finished"}, tracker # Torn
          PROVE  global_steps <= SaveFreq + SavedStep
      <4> DEFINE t == SavedStep
      <4>1. global_steps \in Nat /\ t \in Nat /\ SaveFreq \in Nat \ {0}
        BY <1>1, StepTyped, TrainerAssumption DEF SavedStep
      <4>2. NoneDue(t + 1, global_steps - 1)
        <5>1. phase \in BeforeSave \cup Saving \/ phase = "end_step"
          BY <3>2 DEF TrainerInv, DriverTypes, Working
        <5>2. CASE phase \in BeforeSave \cup Saving
          BY <3>2, <5>2 DEF ScheduleInv
        <5>3. CASE phase = "end_step"
          <6>1. NoneDue(t + 1, global_steps)
            BY <5>3 DEF ScheduleInv
          <6>2. t + 1 .. global_steps - 1 \subseteq t + 1 .. global_steps
            BY <4>1
          <6> QED BY <6>1, <6>2 DEF NoneDue
        <5> QED BY <5>1, <5>2, <5>3
      <4>3. PICK m \in t + 1 .. t + SaveFreq : m % SaveFreq = 0
        BY <4>1, MultipleWithin
      <4> HIDE DEF t
      <4>4. ~(m <= global_steps - 1)
        BY <4>1, <4>2, <4>3 DEF NoneDue
      <4> QED BY <4>1, <4>3, <4>4 DEF t
    <3>3. tracker # Torn => SavedStep = IF tracker = Absent THEN 0 ELSE tracker
      BY ConstantFacts, TrainerAssumption DEF SavedStep, TrainerInv, DriverTypes
    <3>4. LostWorkBounded
      BY <3>2, <3>3 DEF LostWorkBounded
    <3> QED BY <3>1, <3>4
  <2> QED BY <2>1, <2>2, <2>3, TrainerInvariance, PTL DEF Spec
<1>2. CASE ~(SaveFreq > 0)
  <2>1. SavesOnTime
    BY <1>2 DEF SavesOnTime, LostWorkBounded, LastStepSaved
  <2> QED BY <2>1, PTL
<1> QED BY <1>1, <1>2

-----------------------------------------------------------------------------
(* The refinement of DurableTraining *)

Live == IF Up THEN Snapshot(DoneSteps, actor, critic, pos) ELSE Fresh

\* The shards of a checkpoint that is neither being saved nor being removed.
LEMMA IdleShardsKept ==
    ASSUME TrainerInv, Next, phase \notin {"saving_actor", "saving_critic"}, NEW n \in Steps
    PROVE  /\ Loaded(actor_disk', n) = Loaded(actor_disk, n)
           /\ Loaded(critic_disk', n) = Loaded(critic_disk, n)
<1>1. /\ ActorP!IInv /\ [ActorP!Next]_(ActorP!vars) /\ actor_path = 0
      /\ CriticP!IInv /\ [CriticP!Next]_(CriticP!vars) /\ critic_path = 0
  BY ActorGroupStep, CriticGroupStep DEF TrainerInv, GroupsInv, PathsOK
<1>2. n # 0
  BY ConstantFacts
<1>3. actor_pc[0] # "begin" /\ critic_pc[0] # "begin"
  <2>1. 0 \in ActorP!Ranks /\ 0 \in CriticP!Ranks
    BY ConstantFacts DEF ActorP!ConstantsAssumption, ActorP!Ranks, CriticP!Ranks
  <2> QED BY <2>1, ActorIdle, CriticIdle DEF ActorP!Idle, CriticP!Idle
<1>4. /\ 0 \in ActorP!Ranks /\ "model" \in ActorP!ShardKinds
      /\ 0 \in CriticP!Ranks /\ "model" \in CriticP!ShardKinds
  BY FirstShard DEF Actor!Ranks, Critic!Ranks, ActorP!Ranks, CriticP!Ranks,
     ActorP!ShardKinds, CriticP!ShardKinds
<1>5. actor_disk'[<<n, 0, "model">>] = actor_disk[<<n, 0, "model">>]
  BY <1>1, <1>2, <1>3, <1>4, ActorP!OthersUnchanged, ConstantFacts
<1>6. critic_disk'[<<n, 0, "model">>] = critic_disk[<<n, 0, "model">>]
  BY <1>1, <1>2, <1>3, <1>4, CriticP!OthersUnchanged, ConstantFacts
<1> QED BY <1>5, <1>6 DEF Loaded

\* Only opening the tracker changes what a launch would resume from, or would
\* have: a torn tracker still means the checkpoint it is being written for.
LEMMA CommittedKept ==
    ASSUME TrainerInv, Next, Resumes, ~OpenTracker
    PROVE  Committed' = Committed
<1>0. DriverTypes /\ StepInv
  BY DEF TrainerInv
<1>1. tracker \in Steps \cup {Absent, Torn} /\ Absent \notin Steps /\ Torn \notin Steps
      /\ Absent # Torn
  BY <1>0, ConstantFacts, TrainerAssumption DEF DriverTypes
<1>2. tracker' # tracker => WriteTracker
  BY DEF Next, Driver, StartFromScratch, ResumeFromTracker, LoadFails, NextBatch, EndOfPass,
     UpdateCritic, UpdateActor, DecideSave, EndStep, CallSaveActor, ActorSaved, CallSaveCritic,
     CriticSaved, SaveDataloader, ActorWorkers, CriticWorkers, Relaunch, fileVars
<1>3. CASE WriteTracker
  <2>1. /\ tracker = Torn /\ tracker' = global_steps /\ global_steps \in Steps
        /\ UNCHANGED <<actor_disk, critic_disk, data>>
    BY <1>0, <1>3, StepTyped DEF WriteTracker, StepInv, Working, Saving, actorVars, criticVars
  <2> QED BY <1>1, <2>1 DEF Committed, Loaded
<1>4. CASE tracker \in Steps /\ tracker' = tracker
  <2>1. /\ Loaded(actor_disk', tracker) = Loaded(actor_disk, tracker)
        /\ UseCritic => Loaded(critic_disk', tracker) = Loaded(critic_disk, tracker)
    BY <1>4, ActorKept, CriticKept, FirstShard DEF Loaded, Resumes, Roomy
  <2>2. data'[tracker] = data[tracker]
    BY <1>4, DataKept
  <2> QED BY <1>1, <1>4, <2>1, <2>2 DEF Committed
<1>5. CASE tracker = Absent /\ tracker' = tracker
  BY <1>5 DEF Committed
<1>6. CASE tracker = Torn /\ tracker' = tracker
  <2>1. phase \in {"write_tracker", "launch", "failed"}
    BY <1>0, <1>6 DEF StepInv
  <2>2. LoadFails \/ Relaunch
    <3>1. ~StartFromScratch /\ ~ResumeFromTracker
      BY <1>1, <1>6 DEF StartFromScratch, ResumeFromTracker, Resumes
    <3>2. ~WriteTracker
      <4>1. phase \in Working => global_steps \in Steps
        BY StepTyped DEF Working
      <4> QED BY <1>1, <1>6, <4>1 DEF WriteTracker, Working, Saving
    <3>3. /\ ~NextBatch /\ ~EndOfPass /\ ~UpdateCritic /\ ~UpdateActor /\ ~DecideSave
          /\ ~EndStep /\ ~CallSaveActor /\ ~ActorSaved /\ ~CallSaveCritic /\ ~CriticSaved
          /\ ~SaveDataloader
      BY <2>1 DEF NextBatch, EndOfPass, UpdateCritic, UpdateActor, DecideSave, EndStep,
         CallSaveActor, ActorSaved, CallSaveCritic, CriticSaved, SaveDataloader
    <3>4. ~ActorWorkers /\ ~CriticWorkers
      BY <2>1, ActorWorkersFacts, CriticWorkersFacts
    <3> QED BY <3>1, <3>2, <3>3, <3>4 DEF Next, Driver
  <2>3. CASE LoadFails
    BY <1>6, <2>3 DEF LoadFails, Committed, Loaded, actorVars, criticVars, fileVars
  <2>4. CASE Relaunch
    <3>1. phase = "write_tracker" /\ UNCHANGED <<global_steps, data>>
      BY <2>1, <2>4 DEF Relaunch
    <3>2. global_steps \in Steps
      BY <3>1, StepTyped DEF Working, Saving
    <3>3. /\ Loaded(actor_disk', global_steps) = Loaded(actor_disk, global_steps)
          /\ Loaded(critic_disk', global_steps) = Loaded(critic_disk, global_steps)
      BY <3>1, <3>2, IdleShardsKept
    <3> QED BY <1>1, <1>6, <3>1, <3>3 DEF Committed
  <2> QED BY <2>2, <2>3, <2>4
<1> QED BY <1>1, <1>2, <1>3, <1>4, <1>5, <1>6

\* Every step of the trainer is one of DurableTraining's, or changes nothing
\* that it can tell apart.
LEMMA DurableStep ==
    ASSUME TrainerInv, TrainerInv', Next, Resumes
    PROVE  \/ ~Up /\ Up' /\ Live' = Committed /\ Committed' = Committed
           \/ /\ Up /\ Up' /\ Committed' = Committed
              /\ Live' = Snapshot(Live'.steps, actor', critic', pos')
              /\ Live'.steps \in {Live.steps, Live.steps + 1} /\ Live'.steps \in Nat
           \/ Up /\ Up' /\ Committed' = Live /\ Live' = Live
           \/ Up /\ ~Up' /\ Live' = Fresh /\ Committed' = Committed
           \/ UNCHANGED <<Up, Live, Committed>>
<1> USE DEF Up
<1>0. DriverTypes /\ StepInv
  BY DEF TrainerInv
<1>1. /\ global_steps \in Nat
      /\ phase \in Working => global_steps \in Nat \ {0}
      /\ Absent \notin Steps /\ Torn \notin Steps /\ Absent # Torn
  BY StepTyped, ConstantFacts, TrainerAssumption
<1>2. CASE StartFromScratch
  <2>1. /\ ~Up /\ phase' = "next_batch" /\ global_steps' = 1 /\ pos' = 0
        /\ actor' = <<>> /\ critic' = <<>> /\ tracker = Absent
    BY <1>2 DEF StartFromScratch, EnterLoop, Resumes
  <2>2. Committed = Fresh
    BY <2>1 DEF Committed
  <2>3. Live' = Snapshot(0, <<>>, <<>>, 0)
    BY <2>1 DEF Live, DoneSteps, Snapshot
  <2>4. Committed' = Committed
    BY <1>2, CommittedKept DEF StartFromScratch, OpenTracker
  <2> QED BY <2>1, <2>2, <2>3, <2>4 DEF Fresh
<1>3. CASE ResumeFromTracker
  <2>1. /\ ~Up /\ phase' = "next_batch" /\ global_steps' = tracker + 1 /\ tracker \in Steps
        /\ actor' = Loaded(actor_disk, tracker)
        /\ critic' = IF UseCritic THEN Loaded(critic_disk, tracker) ELSE <<>>
    BY <1>1, <1>3, ConstantFacts DEF ResumeFromTracker, EnterLoop, Loaded
  <2>2. pos' = data[tracker]
    <3>1. data[tracker] = BatchOf(tracker)
      BY <2>1 DEF TrainerInv, TrackedInv
    <3>2. BatchOf(tracker) \in 1 .. BatchesPerEpoch
      BY <2>1, StepTyped, BatchOfFacts
    <3> QED BY <1>3, <3>1, <3>2, TrainerAssumption DEF ResumeFromTracker
  <2>3. DoneSteps' = tracker
    <3>1. tracker \in Nat
      BY <2>1, StepTyped
    <3> QED BY <2>1, <3>1 DEF DoneSteps
  <2>4. Live' = Snapshot(tracker, actor', critic', pos')
    BY <2>1, <2>3 DEF Live, Snapshot
  <2>5. Committed = Snapshot(tracker, actor', critic', pos')
    BY <1>1, <2>1, <2>2 DEF Committed
  <2>6. Committed' = Committed
    BY <1>3, CommittedKept DEF ResumeFromTracker, OpenTracker
  <2> QED BY <2>1, <2>4, <2>5, <2>6
<1>4. CASE LoadFails
  <2>1. ~Up /\ ~Up' /\ Committed' = Committed
    BY <1>4, CommittedKept DEF LoadFails, OpenTracker
  <2> QED BY <2>1 DEF Live, Fresh, Snapshot
<1>5. CASE OpenTracker
  <2>1. /\ phase = "open_tracker" /\ phase' = "write_tracker" /\ tracker' = Torn
        /\ UNCHANGED <<global_steps, pos, data, actor, critic, actor_disk, critic_disk>>
    BY <1>5 DEF OpenTracker, Goto, actorVars, criticVars
  <2>2. /\ Actor!Whole(global_steps, actor) /\ data[global_steps] = pos
        /\ UseCritic => Critic!Whole(global_steps, critic)
        /\ ~UseCritic => critic = <<>>
    BY <1>0, <2>1 DEF TrainerInv, SavingInv, Saving, DriverTypes
  <2>3. /\ Loaded(actor_disk, global_steps) = actor
        /\ critic = IF UseCritic THEN Loaded(critic_disk, global_steps) ELSE <<>>
    BY <2>2, FirstShard DEF Loaded, Actor!Whole, Critic!Whole
  <2>4. DoneSteps = global_steps /\ DoneSteps' = global_steps
    BY <2>1 DEF DoneSteps
  <2>5. Live = Snapshot(global_steps, actor, critic, pos) /\ Live' = Live
    BY <2>1, <2>4 DEF Live
  <2>6. Committed' = Snapshot(global_steps, actor, critic, pos)
    BY <1>1, <2>1, <2>2, <2>3 DEF Committed, Loaded
  <2> QED BY <2>1, <2>5, <2>6
<1>6. CASE Relaunch
  <2>1. phase \notin {"launch", "failed"} /\ phase' = "launch"
    BY <1>6 DEF Relaunch
  <2>2. ~OpenTracker
    BY <2>1 DEF OpenTracker, Goto
  <2>3. Committed' = Committed
    BY <2>2, CommittedKept
  <2> QED BY <2>1, <2>3 DEF Live, Fresh, Snapshot
<1>7. ASSUME Up, Up', ~OpenTracker, DoneSteps' \in {DoneSteps, DoneSteps + 1}, DoneSteps' \in Nat
      PROVE  /\ Up /\ Up' /\ Committed' = Committed
             /\ Live' = Snapshot(Live'.steps, actor', critic', pos')
             /\ Live'.steps \in {Live.steps, Live.steps + 1} /\ Live'.steps \in Nat
  <2>1. Committed' = Committed
    BY <1>7, CommittedKept
  <2>2. Live.steps = DoneSteps /\ Live'.steps = DoneSteps'
    BY <1>7 DEF Live, Snapshot
  <2>3. Live' = Snapshot(DoneSteps', actor', critic', pos')
    BY <1>7 DEF Live, Snapshot
  <2> QED BY <1>7, <2>1, <2>2, <2>3
<1>8. CASE NextBatch \/ EndOfPass \/ EndStep
  <2>1. /\ Up /\ Up' /\ ~OpenTracker
        /\ DoneSteps' \in {DoneSteps, DoneSteps + 1} /\ DoneSteps' \in Nat
    BY <1>1, <1>8 DEF NextBatch, EndOfPass, EndStep, OpenTracker, DoneSteps, Working, BeforeSave
  <2> QED BY <1>7, <2>1
<1>9. CASE \/ UpdateCritic \/ UpdateActor \/ DecideSave \/ CallSaveActor \/ ActorSaved
           \/ CallSaveCritic \/ CriticSaved \/ SaveDataloader \/ WriteTracker
           \/ ActorWorkers \/ CriticWorkers
  <2>1. /\ phase \in InStep /\ phase' \in InStep /\ UNCHANGED global_steps /\ ~OpenTracker
    BY <1>9, ActorWorkersFacts, CriticWorkersFacts, TrainerAssumption
       DEF UpdateCritic, UpdateActor, DecideSave, CallSaveActor, ActorSaved, CallSaveCritic,
       CriticSaved, SaveDataloader, WriteTracker, OpenTracker, Goto, driverVars,
       InStep, Working, BeforeSave, Saving
  <2>2. DoneSteps = global_steps /\ DoneSteps' = global_steps /\ Up /\ Up'
    BY <2>1 DEF DoneSteps, InStep, Working, BeforeSave, Saving
  <2> QED BY <1>1, <1>7, <2>1, <2>2
<1> QED BY <1>2, <1>3, <1>4, <1>5, <1>6, <1>8, <1>9 DEF Next, Driver

\* The four files of a checkpoint and the four parts of memory change as one
\* snapshot would: PPOTrainer implements DurableTraining.
THEOREM TrainingIsDurable ==
    ASSUME Resumes
    PROVE  Spec => ImplementsDurableTraining
<1>1. Init => Durable!Init
  BY DEF Init, Durable!Init, Up, Committed
<1>2. TrainerInv /\ TrainerInv' /\ [Next]_vars => [Durable!Next]_(Durable!vars)
  <2> SUFFICES ASSUME TrainerInv, TrainerInv', [Next]_vars
               PROVE  [Durable!Next]_(Durable!vars)
    OBVIOUS
  <2>1. CASE UNCHANGED vars
    BY <2>1 DEF vars, driverVars, fileVars, actorVars, criticVars, Durable!vars, Up, DoneSteps,
                Committed, Loaded
  <2>2. CASE Next
    <3>1. CASE ~Up /\ Up' /\ Live' = Committed /\ Committed' = Committed
      BY <3>1 DEF Durable!Next, Durable!Start, Live
    <3>2. CASE /\ Up /\ Up' /\ Committed' = Committed
               /\ Live' = Snapshot(Live'.steps, actor', critic', pos')
               /\ Live'.steps \in {Live.steps, Live.steps + 1} /\ Live'.steps \in Nat
      <4>1. actor' \in Weights /\ critic' \in Weights /\ pos' \in Nat
        BY StepTyped DEF TrainerInv, GroupsInv, ActorP!IInv, ActorP!TypeOK, CriticP!IInv,
           CriticP!TypeOK, DriverTypes
      <4>2. Live' \in [steps : Nat, actor : Weights, critic : Weights, pos : Nat]
        BY <3>2, <4>1 DEF Snapshot
      <4> QED BY <3>2, <4>2 DEF Durable!Next, Durable!Train, Live
    <3>3. CASE Up /\ Up' /\ Committed' = Live /\ Live' = Live
      BY <3>3 DEF Durable!Next, Durable!Commit, Live
    <3>4. CASE Up /\ ~Up' /\ Live' = Fresh /\ Committed' = Committed
      BY <3>4 DEF Durable!Next, Durable!Kill, Live
    <3>5. CASE UNCHANGED <<Up, Live, Committed>>
      BY <3>5 DEF Durable!vars, Live
    <3> QED BY <2>2, <3>1, <3>2, <3>3, <3>4, <3>5, DurableStep
  <2> QED BY <2>1, <2>2
<1> QED BY <1>1, <1>2, TrainerInvariance, PTL DEF Spec, ImplementsDurableTraining, Durable!Spec

=============================================================================
