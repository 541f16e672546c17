--------------------------- MODULE OneStepOffPolicy ---------------------------
(***************************************************************************)
(* recipe/one_step_off_policy: the driver trains on one batch while the    *)
(* rollout workers generate the next.  Driver, actor workers and rollout   *)
(* workers are three processes; a worker executes the calls the driver     *)
(* sends it one after the other (a Ray actor), and weights go from actor   *)
(* to rollout tensor by tensor over a collective group.                    *)
(*                                                                         *)
(* The ranks of each worker group act in unison here: one actor and one    *)
(* rollout process stand for them.  A version of the weights is the number *)
(* of updates behind them, 0 for the base model.  Saving and loading of a  *)
(* checkpoint are atomic (PPOTrainer models what they are made of).        *)
(* Batches are numbered 1, 2, ... over the epochs of the dataloader, which *)
(* a checkpoint remembers the position of.                                 *)
(***************************************************************************)
EXTENDS Integers, Sequences, FiniteSets

CONSTANTS
    EpochLength,         \* len(train_dataloader)
    TotalEpochs,
    TotalTrainingSteps,
    SaveFreq, TestFreq,  \* <= 0 when off
    ValBeforeTrain,
    CriticWarmup,
    Tensors,             \* len(_weights_info)
    LoaderCanFail,       \* whether next() of the dataloader may raise
    MaxKills             \* bound on kills and relaunches of the job

ASSUME OneStepOffAssumption ==
    /\ {EpochLength, TotalEpochs, TotalTrainingSteps, Tensors} \subseteq Nat \ {0}
    /\ {SaveFreq, TestFreq} \subseteq Int
    /\ {ValBeforeTrain, LoaderCanFail} \subseteq BOOLEAN
    /\ {CriticWarmup, MaxKills} \subseteq Nat

None == 0

\* Bound on the batches of one behaviour: every launch iterates over TotalEpochs epochs.
NumBatches == EpochLength * TotalEpochs * (MaxKills + 1)

VARIABLES
    phase,       \* where the driver is
    after_sync,  \* where it goes after sync_rollout_weights
    global_steps,
    next,        \* the batch the continuous iterator yields next
    limit,       \* the last one it yields
    future,      \* the batch of batch_data_future, None without one
    batch,       \* the batch being trained on
    actor_calls, rollout_calls,      \* calls not finished yet, oldest first
    actor,       \* version of the actor's weights
    sent,        \* tensors sent in the sync under way
    channel,     \* versions of the tensors on their way
    rollout,     \* version of each tensor of the inference engine
    received,    \* tensors received in the sync under way
    generated,   \* generated[b] is the version that generated batch b, -1 before
    trained,     \* history: the batches the actor's weights were trained on
    saved,       \* the last checkpoint
    kills

driverVars  == <<phase, after_sync, global_steps, next, limit, future, batch>>
actorVars   == <<actor, sent, trained>>
rolloutVars == <<rollout, received, generated>>
vars == <<driverVars, actorVars, rolloutVars, actor_calls, rollout_calls, channel, saved, kills>>

NoCheckpoint == [step |-> 0, actor |-> 0, next |-> 1, trained |-> <<>>]

\* init_workers ends with sync_rollout_weights, fit() begins with the checkpoint.
Init ==
    /\ phase = "sync" /\ after_sync = "load"
    /\ global_steps = 0 /\ next = 1 /\ limit = 0 /\ future = None /\ batch = None
    /\ actor_calls = <<>> /\ rollout_calls = <<>> /\ channel = <<>>
    /\ actor = 0 /\ sent = 0 /\ trained = <<>>
    /\ rollout = [t \in 1 .. Tensors |-> 0] /\ received = 0
    /\ generated = [b \in 1 .. NumBatches |-> -1]
    /\ saved = NoCheckpoint
    /\ kills = 0

Goto(p) == phase' = p

-----------------------------------------------------------------------------
(* The driver *)

\* sync_rollout_weights: the actor's call is not waited for, the rollout's is.
CallSync ==
    /\ phase = "sync"
    /\ actor_calls' = Append(actor_calls, [op |-> "sync", batch |-> None])
    /\ rollout_calls' = Append(rollout_calls, [op |-> "sync", batch |-> None])
    /\ Goto("wait_sync")
    /\ UNCHANGED <<after_sync, global_steps, next, limit, future, batch, actorVars, rolloutVars,
                   channel, saved, kills>>

\* ray.get of a call on the rollout workers: it and all before it are done.
RolloutDone == rollout_calls = <<>>
ActorDone   == actor_calls = <<>>

SyncDone ==
    /\ phase = "wait_sync"
    /\ RolloutDone
    /\ Goto(after_sync)
    /\ UNCHANGED <<after_sync, global_steps, next, limit, future, batch, actorVars, rolloutVars,
                   actor_calls, rollout_calls, channel, saved, kills>>

\* The iterator goes over the rest of the epoch that the dataloader was in when
\* it was saved, then over TotalEpochs - 1 more: the epoch is not remembered.
LastBatch(n) ==
    LET epoch == IF n = 1 THEN 1 ELSE (n - 2) \div EpochLength + 1
    IN  (epoch + TotalEpochs - 1) * EpochLength

\* Mutant of LoadCheckpoint: the dataloader starts over.
LoadCheckpoint_NoDataloader ==
    /\ phase = "load"
    /\ ActorDone
    /\ actor' = saved.actor /\ trained' = saved.trained
    /\ next' = 1 /\ limit' = LastBatch(1)
    /\ global_steps' = saved.step + 1
    /\ Goto(IF ValBeforeTrain THEN "val_before_train" ELSE "prefetch")
    /\ UNCHANGED <<after_sync, future, batch, sent, rolloutVars, actor_calls,
                   rollout_calls, channel, saved, kills>>

LoadCheckpoint ==
    /\ phase = "load"
    /\ ActorDone
    /\ actor' = saved.actor /\ trained' = saved.trained
    /\ next' = saved.next /\ limit' = LastBatch(saved.next)
    /\ global_steps' = saved.step + 1
    /\ Goto(IF ValBeforeTrain THEN "val_before_train" ELSE "prefetch")
    /\ UNCHANGED <<after_sync, future, batch, sent, rolloutVars, actor_calls,
                   rollout_calls, channel, saved, kills>>

\* _validate runs on the rollout workers, behind what they still have to do.
CallValidate ==
    /\ phase \in {"val_before_train", "validate"}
    /\ rollout_calls' = Append(rollout_calls, [op |-> "validate", batch |-> None])
    /\ Goto(IF phase = "validate" THEN "wait_validate" ELSE "wait_val_before_train")
    /\ UNCHANGED <<after_sync, global_steps, next, limit, future, batch, actorVars, rolloutVars,
                   actor_calls, channel, saved, kills>>

ValidateDone ==
    /\ phase \in {"wait_val_before_train", "wait_validate"}
    /\ RolloutDone
    /\ Goto(IF phase = "wait_validate" THEN "save" ELSE "prefetch")
    /\ UNCHANGED <<after_sync, global_steps, next, limit, future, batch, actorVars, rolloutVars,
                   actor_calls, rollout_calls, channel, saved, kills>>

IsLastStep == global_steps >= TotalTrainingSteps

\* Where fit() goes on after _async_gen_next_batch: its loop, or the step.
AfterPrefetch == IF batch = None THEN "loop" ELSE "train"

\* Mutant of NoNextBatch: the loop is left with a batch in hand.
NoNextBatch_EndsTheLoop ==
    /\ phase = "prefetch"
    /\ next > limit \/ LoaderCanFail
    /\ future' = None
    /\ Goto("loop")
    /\ UNCHANGED <<after_sync, global_steps, next, limit, batch, actorVars, rolloutVars,
                   actor_calls, rollout_calls, channel, saved, kills>>

(***************************************************************************)
(* _async_gen_next_batch: the next batch is taken, the weights are         *)
(* synchronised, and generation starts without being waited for.  At the   *)
(* end of the data, and on any exception, there is no future.              *)
(***************************************************************************)
NoNextBatch ==
    /\ phase = "prefetch"
    /\ next > limit \/ LoaderCanFail
    /\ future' = None
    /\ Goto(AfterPrefetch)
    /\ UNCHANGED <<after_sync, global_steps, next, limit, batch, actorVars, rolloutVars,
                   actor_calls, rollout_calls, channel, saved, kills>>

\* Mutant of TakeNextBatch: the weights are not synchronised.
TakeNextBatch_NoSync ==
    /\ phase = "prefetch"
    /\ next <= limit
    /\ future' = next /\ next' = next + 1
    /\ Goto("call_generate")
    /\ UNCHANGED <<after_sync, global_steps, limit, batch, actorVars, rolloutVars, actor_calls,
                   rollout_calls, channel, saved, kills>>

TakeNextBatch ==
    /\ phase = "prefetch"
    /\ next <= limit
    /\ future' = next /\ next' = next + 1
    /\ Goto("sync") /\ after_sync' = "call_generate"
    /\ UNCHANGED <<global_steps, limit, batch, actorVars, rolloutVars, actor_calls,
                   rollout_calls, channel, saved, kills>>

CallGenerate ==
    /\ phase = "call_generate"
    /\ rollout_calls' = Append(rollout_calls, [op |-> "generate", batch |-> future])
    /\ Goto(AfterPrefetch)
    /\ UNCHANGED <<after_sync, global_steps, next, limit, future, batch, actorVars, rolloutVars,
                   actor_calls, channel, saved, kills>>

\* batch_data_future.get(), then the prefetch unless this is the last step.
GetBatch ==
    /\ phase = "loop"
    /\ future # None
    /\ generated[future] # -1
    /\ batch' = future
    /\ Goto(IF IsLastStep THEN "train" ELSE "prefetch")
    /\ UNCHANGED <<after_sync, global_steps, next, limit, future, actorVars, rolloutVars,
                   actor_calls, rollout_calls, channel, saved, kills>>

NoFuture ==
    /\ phase = "loop"
    /\ future = None
    /\ Goto("finished")
    /\ UNCHANGED <<after_sync, global_steps, next, limit, future, batch, actorVars, rolloutVars,
                   actor_calls, rollout_calls, channel, saved, kills>>

\* update_actor is blocking; before critic_warmup only the critic is updated.
CallUpdate ==
    /\ phase = "train"
    /\ IF CriticWarmup <= global_steps
       THEN actor_calls' = Append(actor_calls, [op |-> "update", batch |-> batch])
       ELSE UNCHANGED actor_calls
    /\ Goto("wait_update")
    /\ UNCHANGED <<after_sync, global_steps, next, limit, future, batch, actorVars, rolloutVars,
                   rollout_calls, channel, saved, kills>>

\* Mutant of Due: the last step is like any other.
Due_LastStepIsLikeAnyOther(freq) == freq > 0 /\ global_steps % freq = 0

Due(freq) == freq > 0 /\ (IsLastStep \/ global_steps % freq = 0)

UpdateDone ==
    /\ phase = "wait_update"
    /\ ActorDone
    /\ Goto(IF Due(TestFreq) THEN "validate" ELSE "save")
    /\ UNCHANGED <<after_sync, global_steps, next, limit, future, batch, actorVars, rolloutVars,
                   actor_calls, rollout_calls, channel, saved, kills>>

SaveAndEndStep ==
    /\ phase = "save"
    /\ saved' = IF Due(SaveFreq)
                THEN [step |-> global_steps, actor |-> actor, next |-> next,
                      trained |-> trained]
                ELSE saved
    /\ global_steps' = global_steps + 1
    /\ batch' = None
    /\ Goto(IF IsLastStep THEN "finished" ELSE "loop")
    /\ UNCHANGED <<after_sync, next, limit, future, actorVars, rolloutVars, actor_calls,
                   rollout_calls, channel, kills>>

Driver ==
    \/ CallSync \/ SyncDone \/ LoadCheckpoint \/ CallValidate \/ ValidateDone
    \/ NoNextBatch \/ TakeNextBatch \/ CallGenerate \/ GetBatch \/ NoFuture
    \/ CallUpdate \/ UpdateDone \/ SaveAndEndStep

-----------------------------------------------------------------------------
(* The workers: each works on the oldest call it was sent *)

Doing(calls, op) == calls # <<>> /\ Head(calls).op = op

\* Mutant of SendTensor: the loop over the tensors ends one too early.
SendTensor_StopsEarly ==
    /\ Doing(actor_calls, "sync")
    /\ channel' = Append(channel, actor)
    /\ IF sent + 2 = Tensors
       THEN sent' = 0 /\ actor_calls' = Tail(actor_calls)
       ELSE sent' = sent + 1 /\ UNCHANGED actor_calls
    /\ UNCHANGED <<driverVars, actor, trained, rolloutVars, rollout_calls, saved, kills>>

\* One collective.broadcast of the loop over _weights_info, on the actor's side.
SendTensor ==
    /\ Doing(actor_calls, "sync")
    /\ channel' = Append(channel, actor)
    /\ IF sent + 1 = Tensors
       THEN sent' = 0 /\ actor_calls' = Tail(actor_calls)
       ELSE sent' = sent + 1 /\ UNCHANGED actor_calls
    /\ UNCHANGED <<driverVars, actor, trained, rolloutVars, rollout_calls, saved, kills>>

\* Mutant of ReceiveTensor: the loop over the tensors ends one too early.
ReceiveTensor_StopsEarly ==
    /\ Doing(rollout_calls, "sync")
    /\ channel # <<>>
    /\ rollout' = [rollout EXCEPT ![received + 1] = Head(channel)]
    /\ channel' = Tail(channel)
    /\ IF received + 2 = Tensors
       THEN received' = 0 /\ rollout_calls' = Tail(rollout_calls)
       ELSE received' = received + 1 /\ UNCHANGED rollout_calls
    /\ UNCHANGED <<driverVars, actorVars, generated, actor_calls, saved, kills>>

ReceiveTensor ==
    /\ Doing(rollout_calls, "sync")
    /\ channel # <<>>
    /\ rollout' = [rollout EXCEPT ![received + 1] = Head(channel)]
    /\ channel' = Tail(channel)
    /\ IF received + 1 = Tensors
       THEN received' = 0 /\ rollout_calls' = Tail(rollout_calls)
       ELSE received' = received + 1 /\ UNCHANGED rollout_calls
    /\ UNCHANGED <<driverVars, actorVars, generated, actor_calls, saved, kills>>

UpdateActor ==
    /\ Doing(actor_calls, "update")
    /\ actor' = actor + 1
    /\ trained' = Append(trained, Head(actor_calls).batch)
    /\ actor_calls' = Tail(actor_calls)
    /\ UNCHANGED <<driverVars, sent, rolloutVars, rollout_calls, channel, saved, kills>>

Generate ==
    /\ Doing(rollout_calls, "generate")
    /\ generated' = [generated EXCEPT ![Head(rollout_calls).batch] = rollout[1]]
    /\ rollout_calls' = Tail(rollout_calls)
    /\ UNCHANGED <<driverVars, actorVars, rollout, received, actor_calls, channel, saved, kills>>

Validate ==
    /\ Doing(rollout_calls, "validate")
    /\ rollout_calls' = Tail(rollout_calls)
    /\ UNCHANGED <<driverVars, actorVars, rolloutVars, actor_calls, channel, saved, kills>>

Actor   == SendTensor \/ UpdateActor
Rollout == ReceiveTensor \/ Generate \/ Validate

\* The job is killed at any point, or has finished, and is launched again: only
\* the checkpoint is left.
Kill ==
    /\ kills < MaxKills
    /\ phase' = "sync" /\ after_sync' = "load"
    /\ global_steps' = 0 /\ next' = 1 /\ limit' = 0 /\ future' = None /\ batch' = None
    /\ actor_calls' = <<>> /\ rollout_calls' = <<>> /\ channel' = <<>>
    /\ actor' = 0 /\ sent' = 0 /\ trained' = <<>>
    /\ rollout' = [t \in 1 .. Tensors |-> 0] /\ received' = 0
    /\ generated' = [b \in 1 .. NumBatches |-> -1]
    /\ kills' = kills + 1
    /\ UNCHANGED saved

Next == Driver \/ Actor \/ Rollout \/ Kill

\* Each of the three processes goes on while it has something to do.
Fairness == WF_vars(Driver) /\ WF_vars(Actor) /\ WF_vars(Rollout)

Spec == Init /\ [][Next]_vars /\ Fairness

-----------------------------------------------------------------------------

Calls(ops) == [op : ops, batch : 0 .. NumBatches]

TypeOK ==
    /\ phase \in {"sync", "wait_sync", "load", "val_before_train", "wait_val_before_train",
                  "prefetch", "call_generate", "loop", "train", "wait_update", "validate",
                  "wait_validate", "save", "finished"}
    /\ after_sync \in {"load", "call_generate"}
    /\ global_steps \in 0 .. TotalTrainingSteps + MaxKills + 1
    /\ next \in 1 .. NumBatches + 1 /\ limit \in 0 .. NumBatches
    /\ {future, batch} \subseteq 0 .. NumBatches
    /\ actor_calls \in Seq(Calls({"sync", "update"}))
    /\ rollout_calls \in Seq(Calls({"sync", "generate", "validate"}))
    /\ actor \in Nat
    /\ {sent, received} \subseteq 0 .. Tensors - 1
    /\ channel \in Seq(Nat)
    /\ rollout \in [1 .. Tensors -> Nat]
    /\ generated \in [1 .. NumBatches -> Nat \cup {-1}]
    /\ trained \in Seq(1 .. NumBatches)

(***************************************************************************)
(* "generation and training parameters maintain a one-step off policy":    *)
(* the actor is updated with a batch that its own weights, or those one    *)
(* update earlier, have generated.                                         *)
(***************************************************************************)
OneStepOff ==
    Doing(actor_calls, "update") =>
        LET v == generated[Head(actor_calls).batch]
        IN  v # -1 /\ v \in {actor - 1, actor}

(***************************************************************************)
(* No response comes from a model whose tensors are of different updates,  *)
(* although they are replaced one by one while the driver and the actor    *)
(* are busy.                                                               *)
(***************************************************************************)
GeneratesWithOneVersion ==
    Doing(rollout_calls, "generate") \/ Doing(rollout_calls, "validate") =>
        \A t \in 1 .. Tensors : rollout[t] = rollout[1]

(***************************************************************************)
(* The actor and the rollout workers are never at different broadcasts for *)
(* good: what is on its way is for the sync both are in.                   *)
(***************************************************************************)
ChannelMatches ==
    channel # <<>> => /\ Doing(rollout_calls, "sync")
                      /\ received + Len(channel) <= Tensors

(***************************************************************************)
(* "Create a continuous data iterator across epoch": the actor is trained  *)
(* on the batches in their order and on none twice, over kills and         *)
(* resumes too.  Each resume may leave out one batch, the one that was     *)
(* prefetched when the dataloader was saved.                               *)
(***************************************************************************)
ResumeSkipsAtMostOne ==
    LET step(i) == trained[i] - trained[i - 1]
        later   == 2 .. Len(trained)
    IN  /\ \A i \in later : step(i) \in {1, 2}
        /\ Cardinality({i \in later : step(i) = 2}) <= kills

(***************************************************************************)
(* A validation during training measures weights that are one update old;  *)
(* two, if no batch was prefetched in its step, because the weights are    *)
(* only synchronised for a prefetch.                                       *)
(***************************************************************************)
ValidatesRecentWeights ==
    phase = "wait_validate" /\ Doing(rollout_calls, "validate") =>
        actor - rollout[1] <= IF IsLastStep \/ future = None THEN 2 ELSE 1

(***************************************************************************)
(* The weights move as a whole and on time: a broadcast never mixes two    *)
(* syncs, and no generation comes between its tensors.                     *)
(***************************************************************************)
SyncIsAtomic == TypeOK /\ ChannelMatches /\ GeneratesWithOneVersion

(***************************************************************************)
(* No worker uses weights that are older than the pipeline makes them, in  *)
(* training and in the validations during it.  The validation before it    *)
(* is not meant: after a resume it measures the base model.                *)
(***************************************************************************)
WeightsAreRecent == OneStepOff /\ ValidatesRecentWeights

(***************************************************************************)
(* Every launch ends: the two sides of a broadcast always meet, and a      *)
(* future that is waited for is one that will be there.                    *)
(***************************************************************************)
Ends == <>[](phase = "finished")

(***************************************************************************)
(* A launch that ended at a last step has saved that very step, one past   *)
(* the total for every launch of a finished job; only one that could not   *)
(* get the next batch ends without a future.                               *)
(***************************************************************************)
LastStepSaved ==
    phase = "finished" /\ future # None /\ SaveFreq > 0 => saved.step = global_steps - 1

(***************************************************************************)
(* The batch in hand is still trained on when the data ends or the loader  *)
(* raises: of the batches that a launch took, none is left at its end.     *)
(***************************************************************************)
LastBatchTrained ==
    /\ phase = "finished"
    /\ \E b \in 1 .. NumBatches : generated[b] # -1
    /\ CriticWarmup < global_steps
    => trained # <<>> /\ trained[Len(trained)] = next - 1

(***************************************************************************)
(* However a launch ends, what it began is done: the last batch it took is *)
(* in the weights, and the last step in the checkpoint.                    *)
(***************************************************************************)
EndsInOrder == LastStepSaved /\ LastBatchTrained

=============================================================================
