------------------------ MODULE OneStepOffPolicy_proofs ------------------------
(***************************************************************************)
(* The pipeline of OneStepOffPolicy for any number of tensors, epochs,     *)
(* steps and kills: weights move as a whole, and no worker uses older ones *)
(* than the pipeline makes them.                                           *)
(*                                                                         *)
(* The driver does not wait for all it calls, so the invariant says what   *)
(* may be left in the two queues in each of its phases (CallsInv), how far *)
(* the two sides of a sync are apart (SyncInv) and how old the weights are *)
(* behind the batch that is trained on and the one that is prefetched      *)
(* (WeightsInv).  What a resume skips is in OrderInv, further down.        *)
(***************************************************************************)
EXTENDS OneStepOffPolicy, SequenceTheorems, FiniteSetTheorems, TLAPS

BeforeLoad  == phase = "load" \/ (phase \in {"sync", "wait_sync"} /\ after_sync = "load")
Prefetching == phase = "call_generate" \/ (phase \in {"sync", "wait_sync"} /\ after_sync = "call_generate")

(* The two halves of a training step. *)
BeforeUpdate == phase = "train" \/ (phase = "wait_update" /\ actor_calls # <<>>)
AfterUpdate  == phase \in {"validate", "wait_validate", "save"} \/ (phase = "wait_update" /\ actor_calls = <<>>)

(* Batches that the first k + 1 launches may take. *)
Reach(k) == EpochLength * TotalEpochs * (k + 1)

SavedOK ==
    /\ saved.step \in Nat /\ saved.actor \in Nat /\ saved.next \in Nat \ {0}
    /\ saved.trained \in Seq(1 .. NumBatches)
    /\ kills \in 0 .. MaxKills

(* A launch that is not at its end has a step to do, and every launch adds at most one step to
   the total. *)
StepInv ==
    /\ phase # "finished" => /\ global_steps <= TotalTrainingSteps + kills
                             /\ saved.step < TotalTrainingSteps + kills
    /\ global_steps <= TotalTrainingSteps + kills + 1 /\ saved.step <= TotalTrainingSteps + kills

(* A launch goes at most TotalEpochs epochs on from the checkpoint. *)
BoundInv ==
    /\ limit <= Reach(kills) /\ next <= Reach(kills) + 1 /\ saved.next <= Reach(kills) + 1
    /\ BeforeLoad => saved.next <= Reach(kills - 1) + 1

(* What the driver holds, and that no batch is generated before it is taken. *)
BatchInv ==
    /\ batch < next /\ future < next
    /\ \A b \in 1 .. NumBatches : b >= next => generated[b] = -1
    /\ BeforeLoad => next = 1
    /\ Prefetching => future # None /\ future # batch /\ generated[future] = -1
    /\ phase \in {"val_before_train", "wait_val_before_train", "loop"} => batch = None
    /\ BeforeUpdate \/ AfterUpdate => batch # None /\ (future = batch => IsLastStep)

SyncCall     == [op |-> "sync", batch |-> None]
ValidateCall == [op |-> "validate", batch |-> None]
UpdateCall   == [op |-> "update", batch |-> batch]
GenerateCall == [op |-> "generate", batch |-> future]

(* The calls that may be left in each phase. *)
ActorCallsInv ==
    actor_calls # <<>> =>
        \/ phase = "wait_sync" /\ actor_calls = <<SyncCall>>
        \/ phase = "wait_update" /\ actor_calls = <<UpdateCall>>

RolloutCallsInv ==
    rollout_calls # <<>> =>
        \/ phase = "wait_sync" /\ rollout_calls = <<SyncCall>>
        \/ phase \in {"wait_val_before_train", "wait_validate"} /\ rollout_calls = <<ValidateCall>>
        \/ /\ phase \in {"loop", "train", "wait_update", "validate", "save", "finished"}
           /\ rollout_calls = <<GenerateCall>>
        \/ phase = "wait_validate" /\ rollout_calls = <<GenerateCall, ValidateCall>>

(* A batch whose generation is waited for has not been generated before. *)
GenerateInv == Doing(rollout_calls, "generate") => future # None /\ generated[future] = -1

CallsInv == ActorCallsInv /\ RolloutCallsInv /\ GenerateInv

(* Every tensor of a sync is to be sent, on its way, or in its place. *)
SyncInv ==
    /\ ~ Doing(actor_calls, "sync") => sent = 0
    /\ ~ Doing(rollout_calls, "sync") =>
           /\ received = 0 /\ channel = <<>> /\ ~ Doing(actor_calls, "sync")
           /\ \A t \in 1 .. Tensors : rollout[t] = rollout[1]
    /\ Doing(rollout_calls, "sync") =>
           /\ received + Len(channel) = IF Doing(actor_calls, "sync") THEN sent ELSE Tensors
           /\ \A i \in 1 .. Len(channel) : channel[i] = actor
           /\ \A t \in 1 .. received : rollout[t] = actor

Recent(updates) == actor - rollout[1] <= updates

(* The version that generates, or has generated, the prefetched batch. *)
FutureVersion == IF Doing(rollout_calls, "generate") THEN rollout[1] ELSE generated[future]

WeightsInv ==
    /\ (phase = "wait_sync" /\ rollout_calls = <<>>) \/ phase = "call_generate" => rollout[1] = actor
    /\ batch # None /\ (phase = "prefetch" \/ Prefetching \/ BeforeUpdate) =>
           generated[batch] # -1 /\ generated[batch] \in {actor - 1, actor}
    /\ phase = "prefetch" /\ batch # None => Recent(1)
    /\ BeforeUpdate =>
           /\ Recent(1)
           /\ future \notin {None, batch} => rollout[1] = actor /\ FutureVersion = actor
    /\ AfterUpdate =>
           /\ Recent(2)
           /\ future \notin {None, batch} => Recent(1) /\ FutureVersion \in {actor - 1, actor}
    /\ phase = "loop" /\ future # None => Recent(1) /\ FutureVersion \in {actor - 1, actor}

Inv ==
    /\ TypeOK /\ SavedOK /\ StepInv /\ BoundInv /\ BatchInv
    /\ CallsInv /\ SyncInv /\ WeightsInv /\ LastStepSaved

-----------------------------------------------------------------------------

(* What the assumption says of each constant. *)
LEMMA Constants ==
    /\ EpochLength \in Nat \ {0} /\ TotalEpochs \in Nat \ {0} /\ TotalTrainingSteps \in Nat \ {0}
    /\ Tensors \in Nat \ {0} /\ MaxKills \in Nat /\ CriticWarmup \in Nat
    /\ SaveFreq \in Int /\ TestFreq \in Int
BY OneStepOffAssumption

(* Multiplication keeps the order. *)
LEMMA TimesMonotone ==
    ASSUME NEW a \in Nat, NEW b \in Nat, NEW c \in Nat, a <= b
    PROVE  a * c \in Nat /\ b * c \in Nat /\ a * c <= b * c
<1>1. PICK d \in Nat : b = a + d
  BY b - a \in Nat
<1>2. b * c = a * c + d * c /\ d * c \in Nat /\ a * c \in Nat
  BY <1>1
<1> QED
  BY <1>2

(* Each launch allows for more batches, and the bound is that of the last. *)
LEMMA ReachGrows ==
    ASSUME NEW k \in 0 .. MaxKills
    PROVE  /\ Reach(k) \in Nat \ {0} /\ Reach(k - 1) \in Nat
           /\ Reach(k - 1) <= Reach(k) /\ Reach(k) <= NumBatches /\ NumBatches \in Nat \ {0}
<1> USE Constants
<1> DEFINE p == EpochLength * TotalEpochs
<1>1. p \in Nat /\ p > 0
  OBVIOUS
<1> HIDE DEF p
<1>2. Reach(k) = (k + 1) * p /\ Reach(k - 1) = k * p /\ NumBatches = (MaxKills + 1) * p
  <2>1. Reach(k) = p * (k + 1) /\ Reach(k - 1) = p * ((k - 1) + 1) /\ NumBatches = p * (MaxKills + 1)
    BY DEF p, Reach, NumBatches
  <2>2. p * (k + 1) = (k + 1) * p /\ p * ((k - 1) + 1) = k * p /\ p * (MaxKills + 1) = (MaxKills + 1) * p
    BY <1>1
  <2> QED
    BY <2>1, <2>2
<1>3. (k + 1) * p = k * p + p /\ k * p \in Nat
  BY <1>1
<1>4. (k + 1) * p \in Nat /\ (MaxKills + 1) * p \in Nat /\ (k + 1) * p <= (MaxKills + 1) * p
  BY <1>1, TimesMonotone
<1> QED
  BY <1>1, <1>2, <1>3, <1>4

(* The iterator of a launch ends within the bound of its kills. *)
LEMMA LastBatchInReach ==
    ASSUME NEW k \in 0 .. MaxKills, NEW n \in Nat \ {0}, n <= Reach(k - 1) + 1
    PROVE  LastBatch(n) \in Nat /\ LastBatch(n) <= Reach(k)
<1> USE Constants
<1> DEFINE E == EpochLength
           T == TotalEpochs
<1>1. E \in Nat /\ E > 0 /\ T \in Nat /\ T > 0
  OBVIOUS
<1>2. Reach(k - 1) = E * T * ((k - 1) + 1) /\ Reach(k) = E * T * (k + 1)
  BY DEF Reach
<1> HIDE DEF E, T
<1>3. Reach(k - 1) = (T * k) * E /\ Reach(k) = (T * k + T) * E
  <2>1. E * T * ((k - 1) + 1) = (T * k) * E
    BY <1>1
  <2>2. E * T * (k + 1) = (T * k + T) * E
    BY <1>1
  <2> QED
    BY <1>2, <2>1, <2>2
<1>4. T * k \in Nat
  BY <1>1
<1>5. CASE n = 1
  <2>1. LastBatch(n) = (1 + T - 1) * E
    BY <1>5 DEF LastBatch, E, T
  <2>2. LastBatch(n) = T * E
    BY <1>1, <2>1
  <2>3. T <= T * k + T
    BY <1>1, <1>4
  <2>4. T * E \in Nat /\ T * E <= (T * k + T) * E
    BY <1>1, <1>4, <2>3, TimesMonotone
  <2> QED
    BY <1>3, <2>2, <2>4
<1>6. CASE n # 1
  <2> DEFINE q == (n - 2) \div E
  <2>1. q \in Nat /\ q * E <= n - 2
    <3>1. n - 2 \in Nat
      BY <1>6
    <3>2. q \in Nat
      BY <1>1, <3>1
    <3>3. E * q <= n - 2
      BY <1>1, <3>1
    <3>4. E * q = q * E
      BY <1>1, <3>2
    <3> QED
      BY <3>2, <3>3, <3>4
  <2>2. LastBatch(n) = (q + 1 + T - 1) * E
    BY <1>6 DEF LastBatch, E, T
  <2> HIDE DEF q
  <2>3. q < T * k
    <3> SUFFICES ASSUME T * k <= q PROVE FALSE
      BY <1>4, <2>1
    <3>1. (T * k) * E <= q * E /\ (T * k) * E \in Nat /\ q * E \in Nat
      BY <1>1, <1>4, <2>1, TimesMonotone
    <3> QED
      BY <1>3, <2>1, <3>1
  <2>4. LastBatch(n) = (q + T) * E
    <3>1. q + 1 + T - 1 = q + T
      BY <1>1, <2>1
    <3> QED
      BY <2>2, <3>1
  <2>5. q + T <= T * k + T
    BY <1>1, <1>4, <2>1, <2>3
  <2>6. (q + T) * E \in Nat /\ (q + T) * E <= (T * k + T) * E
    <3>1. q + T \in Nat /\ T * k + T \in Nat /\ E \in Nat
      BY <1>1, <1>4, <2>1
    <3> QED
      BY <2>5, <3>1, TimesMonotone
  <2> QED
    BY <1>3, <2>4, <2>6
<1> QED
  BY <1>5, <1>6

(* There is at least one batch. *)
LEMMA NumBatchesIsNat == NumBatches \in Nat \ {0}
BY ReachGrows, Constants

(* The queues hold one call or two. *)
LEMMA ShortQueues ==
    ASSUME NEW x, NEW y
    PROVE  /\ Append(<<>>, x) = <<x>> /\ Append(<<x>>, y) = <<x, y>>
           /\ <<x>> # <<>> /\ Head(<<x>>) = x /\ Tail(<<x>>) = <<>>
           /\ <<x, y>> # <<>> /\ Head(<<x, y>>) = x /\ Tail(<<x, y>>) = <<y>>
<1> DEFINE s == Append(<<x>>, y)
<1>1. /\ <<x>> \in Seq({x, y}) /\ <<x, y>> \in Seq({x, y})
      /\ Len(<<x, y>>) = 2 /\ <<x, y>>[1] = x /\ <<x, y>>[2] = y
  OBVIOUS
<1>2. s \in Seq({x, y}) /\ Len(s) = 2 /\ s[1] = x /\ s[2] = y
  BY <1>1
<1> HIDE DEF s
<1>3. \A i \in 1 .. Len(s) : s[i] = <<x, y>>[i]
  BY <1>1, <1>2
<1>4. s = <<x, y>>
  BY <1>1, <1>2, <1>3, SeqEqual
<1>5. Append(<<x>>, y) = <<x, y>>
  BY <1>4 DEF s
<1>6. Tail(<<x, y>>) = <<y>>
  OBVIOUS
<1> QED
  BY <1>5, <1>6

(* Whatever the invariant leaves in a queue has the type of a queue. *)
LEMMA QueueTypes ==
    ASSUME TypeOK
    PROVE  /\ <<SyncCall>> \in Seq(Calls({"sync", "update"}))
           /\ <<UpdateCall>> \in Seq(Calls({"sync", "update"}))
           /\ <<>> \in Seq(Calls({"sync", "update"})) /\ <<>> \in Seq(Calls({"sync", "generate", "validate"}))
           /\ <<SyncCall>> \in Seq(Calls({"sync", "generate", "validate"}))
           /\ <<ValidateCall>> \in Seq(Calls({"sync", "generate", "validate"}))
           /\ <<GenerateCall>> \in Seq(Calls({"sync", "generate", "validate"}))
           /\ <<GenerateCall, ValidateCall>> \in Seq(Calls({"sync", "generate", "validate"}))
<1>1. /\ SyncCall \in Calls({"sync", "update"}) /\ UpdateCall \in Calls({"sync", "update"})
      /\ SyncCall \in Calls({"sync", "generate", "validate"})
      /\ ValidateCall \in Calls({"sync", "generate", "validate"})
      /\ GenerateCall \in Calls({"sync", "generate", "validate"})
  BY NumBatchesIsNat DEF TypeOK, Calls, SyncCall, UpdateCall, ValidateCall, GenerateCall, None
<1> QED
  BY <1>1

-----------------------------------------------------------------------------
(* One lemma per action *)

(* Nothing is left in the queues when a sync is called. *)
LEMMA CallSyncKeepsInv ==
    ASSUME Inv, CallSync
    PROVE  Inv'
<1> USE Constants, NumBatchesIsNat DEF CallSync, Goto, driverVars, actorVars, rolloutVars
<1>1. actor_calls = <<>> /\ rollout_calls = <<>>
  BY DEF Inv, CallsInv, ActorCallsInv, RolloutCallsInv
<1>2. actor_calls' = <<SyncCall>> /\ rollout_calls' = <<SyncCall>>
  BY <1>1, ShortQueues DEF SyncCall
<1>3. TypeOK'
  BY <1>2, QueueTypes DEF Inv, TypeOK
<1>4. SavedOK' /\ StepInv'
  BY DEF Inv, TypeOK, SavedOK, StepInv, IsLastStep
<1>5. BoundInv'
  BY DEF Inv, TypeOK, SavedOK, BoundInv, BeforeLoad
<1>6. BatchInv'
  BY DEF Inv, TypeOK, BatchInv, BeforeLoad, Prefetching, BeforeUpdate, AfterUpdate, IsLastStep, None
<1>7. ActorCallsInv'
  BY <1>2 DEF Inv, CallsInv, ActorCallsInv, SyncCall, UpdateCall
<1>8. RolloutCallsInv'
  BY <1>2 DEF Inv, CallsInv, RolloutCallsInv, SyncCall, GenerateCall, ValidateCall
<1>9. GenerateInv'
  BY <1>1, <1>2, ShortQueues DEF Inv, CallsInv, RolloutCallsInv, GenerateInv, SyncCall, GenerateCall,
     ValidateCall, Doing
<1>10. SyncInv'
  BY <1>1, <1>2, ShortQueues DEF Inv, CallsInv, ActorCallsInv, RolloutCallsInv, SyncInv, SyncCall,
     GenerateCall, ValidateCall, UpdateCall, Doing
<1>11. WeightsInv'
  BY <1>1, <1>2, ShortQueues DEF Inv, TypeOK, BatchInv, WeightsInv, Prefetching, BeforeUpdate,
     AfterUpdate, Recent, FutureVersion, Doing
<1>12. LastStepSaved'
  BY DEF Inv, TypeOK, LastStepSaved
<1> QED
  BY <1>3, <1>4, <1>5, <1>6, <1>7, <1>8, <1>9, <1>10, <1>11, <1>12 DEF Inv, CallsInv

(* The last tensor has been sent when it has been received: both queues are empty, and the rollout
   has the actor's weights. *)
LEMMA SyncDoneKeepsInv ==
    ASSUME Inv, SyncDone
    PROVE  Inv'
<1> USE Constants, NumBatchesIsNat DEF SyncDone, Goto, RolloutDone, driverVars, actorVars, rolloutVars
<1>1. actor_calls = <<>>
  BY DEF Inv, CallsInv, ActorCallsInv, SyncInv, Doing, SyncCall
<1>2. TypeOK'
  BY DEF Inv, TypeOK
<1>3. SavedOK' /\ StepInv'
  BY DEF Inv, TypeOK, SavedOK, StepInv, IsLastStep
<1>4. BoundInv'
  BY DEF Inv, TypeOK, SavedOK, BoundInv, BeforeLoad
<1>5. BatchInv'
  BY DEF Inv, TypeOK, BatchInv, BeforeLoad, Prefetching, BeforeUpdate, AfterUpdate, IsLastStep, None
<1>6. ActorCallsInv'
  BY <1>1 DEF Inv, CallsInv, ActorCallsInv, SyncCall, UpdateCall
<1>7. RolloutCallsInv'
  BY DEF Inv, CallsInv, RolloutCallsInv, SyncCall, GenerateCall, ValidateCall
<1>8. GenerateInv'
  BY DEF Inv, CallsInv, RolloutCallsInv, GenerateInv, SyncCall, GenerateCall, ValidateCall, Doing
<1>9. SyncInv'
  BY DEF Inv, CallsInv, ActorCallsInv, RolloutCallsInv, SyncInv, SyncCall, GenerateCall, ValidateCall,
     UpdateCall, Doing
<1>10. WeightsInv'
  BY <1>1 DEF Inv, TypeOK, BatchInv, WeightsInv, Prefetching, BeforeUpdate, AfterUpdate, Recent,
     FutureVersion, Doing
<1>11. LastStepSaved'
  BY DEF Inv, TypeOK, LastStepSaved
<1> QED
  BY <1>2, <1>3, <1>4, <1>5, <1>6, <1>7, <1>8, <1>9, <1>10, <1>11 DEF Inv, CallsInv

LEMMA LoadCheckpointKeepsInv ==
    ASSUME Inv, LoadCheckpoint
    PROVE  Inv'
<1> USE Constants, NumBatchesIsNat DEF LoadCheckpoint, Goto, driverVars, actorVars, rolloutVars
<1>1. rollout_calls = <<>>
  BY DEF Inv, CallsInv, ActorCallsInv, RolloutCallsInv
<1>2. kills \in 0 .. MaxKills /\ saved.next \in Nat \ {0} /\ saved.next <= Reach(kills - 1) + 1
  BY DEF Inv, SavedOK, BoundInv, BeforeLoad
<1>3. LastBatch(saved.next) \in Nat /\ LastBatch(saved.next) <= Reach(kills)
  BY <1>2, LastBatchInReach
<1>4. /\ Reach(kills) \in Nat /\ Reach(kills - 1) \in Nat
      /\ Reach(kills - 1) <= Reach(kills) /\ Reach(kills) <= NumBatches
  BY <1>2, ReachGrows
<1>5. /\ saved.next \in 1 .. NumBatches + 1 /\ LastBatch(saved.next) \in 0 .. NumBatches
      /\ saved.step + 1 \in 0 .. TotalTrainingSteps + MaxKills + 1
      /\ saved.actor \in Nat /\ saved.trained \in Seq(1 .. NumBatches)
  <2>1. /\ saved.step \in Nat /\ saved.step + 1 <= TotalTrainingSteps + kills
        /\ saved.actor \in Nat /\ saved.trained \in Seq(1 .. NumBatches)
    BY DEF Inv, SavedOK, StepInv
  <2>2. saved.next \in 1 .. NumBatches + 1
    BY <1>2, <1>4
  <2>3. LastBatch(saved.next) \in 0 .. NumBatches
    BY <1>3, <1>4
  <2>4. saved.step + 1 \in 0 .. TotalTrainingSteps + MaxKills + 1
    BY <1>2, <2>1
  <2> QED
    BY <2>1, <2>2, <2>3, <2>4
<1>6. batch = None
  BY DEF Inv, TypeOK, BatchInv, BeforeLoad, None
<1>7. TypeOK'
  BY <1>5 DEF Inv, TypeOK
<1>8. SavedOK' /\ StepInv'
  <2>1. SavedOK'
    BY DEF Inv, SavedOK
  <2>2. saved.step \in Nat /\ saved.step < TotalTrainingSteps + kills
    BY DEF Inv, SavedOK, StepInv
  <2>3. StepInv'
    BY <1>2, <2>2 DEF StepInv
  <2> QED
    BY <2>1, <2>3
<1>9. BoundInv'
  BY <1>2, <1>3, <1>4 DEF Inv, TypeOK, SavedOK, BoundInv, BeforeLoad
<1>10. BatchInv'
  <2>1. /\ BeforeLoad /\ next = 1 /\ future < 1 /\ saved.next \in Nat \ {0} /\ future \in Nat
        /\ \A b \in 1 .. NumBatches : generated[b] = -1
    BY DEF Inv, TypeOK, BatchInv, BeforeLoad, SavedOK
  <2>2. /\ phase' \in {"val_before_train", "prefetch"} /\ next' = saved.next
        /\ UNCHANGED <<future, batch, generated>>
    OBVIOUS
  <2>3. batch' < next' /\ future' < next'
    BY <1>6, <2>1, <2>2 DEF None
  <2>4. \A b \in 1 .. NumBatches : b >= next' => generated'[b] = -1
    BY <2>1, <2>2
  <2>5. ~ BeforeLoad' /\ ~ Prefetching' /\ ~ BeforeUpdate' /\ ~ AfterUpdate'
    BY <2>2 DEF BeforeLoad, Prefetching, BeforeUpdate, AfterUpdate
  <2> QED
    BY <1>6, <2>2, <2>3, <2>4, <2>5 DEF BatchInv
<1>11. ActorCallsInv'
  BY DEF Inv, CallsInv, ActorCallsInv, SyncCall, UpdateCall
<1>12. RolloutCallsInv'
  BY DEF Inv, CallsInv, RolloutCallsInv, SyncCall, GenerateCall, ValidateCall
<1>13. GenerateInv'
  BY <1>1 DEF Inv, CallsInv, RolloutCallsInv, GenerateInv, SyncCall, GenerateCall, ValidateCall, Doing
<1>14. SyncInv'
  BY <1>1 DEF Inv, CallsInv, ActorCallsInv, RolloutCallsInv, SyncInv, SyncCall, GenerateCall,
     ValidateCall, UpdateCall, Doing
<1>15. WeightsInv'
  BY <1>6 DEF Inv, WeightsInv, Prefetching, BeforeUpdate, AfterUpdate
<1>16. LastStepSaved'
  BY DEF Inv, TypeOK, LastStepSaved
<1> QED
  BY <1>7, <1>8, <1>9, <1>10, <1>11, <1>12, <1>13, <1>14, <1>15, <1>16 DEF Inv, CallsInv

(* A validation is behind the generation of the prefetched batch, if that has not ended. *)
LEMMA CallValidateKeepsInv ==
    ASSUME Inv, CallValidate
    PROVE  Inv'
<1> USE Constants, NumBatchesIsNat DEF CallValidate, Goto, driverVars, actorVars, rolloutVars
<1>1. \/ rollout_calls = <<>> /\ rollout_calls' = <<ValidateCall>>
      \/ rollout_calls = <<GenerateCall>> /\ phase = "validate"
         /\ rollout_calls' = <<GenerateCall, ValidateCall>>
  BY ShortQueues DEF Inv, CallsInv, RolloutCallsInv, ValidateCall
<1>2. TypeOK'
  BY <1>1, QueueTypes DEF Inv, TypeOK
<1>3. SavedOK' /\ StepInv'
  BY DEF Inv, TypeOK, SavedOK, StepInv, IsLastStep
<1>4. BoundInv'
  BY DEF Inv, TypeOK, SavedOK, BoundInv, BeforeLoad
<1>5. BatchInv'
  BY DEF Inv, TypeOK, BatchInv, BeforeLoad, Prefetching, BeforeUpdate, AfterUpdate, IsLastStep, None
<1>6. ActorCallsInv'
  BY DEF Inv, CallsInv, ActorCallsInv, SyncCall, UpdateCall
<1>7. RolloutCallsInv'
  BY <1>1, ShortQueues DEF Inv, CallsInv, RolloutCallsInv, SyncCall, GenerateCall, ValidateCall
<1>8. GenerateInv'
  BY <1>1, ShortQueues DEF Inv, CallsInv, RolloutCallsInv, GenerateInv, SyncCall, GenerateCall,
     ValidateCall, Doing
<1>9. SyncInv'
  BY <1>1, ShortQueues DEF Inv, CallsInv, ActorCallsInv, RolloutCallsInv, SyncInv, SyncCall,
     GenerateCall, ValidateCall, UpdateCall, Doing
<1>10. WeightsInv'
  BY <1>1, ShortQueues DEF Inv, TypeOK, BatchInv, WeightsInv, Prefetching, BeforeUpdate, AfterUpdate,
     Recent, FutureVersion, Doing, CallsInv, RolloutCallsInv, GenerateCall, ValidateCall
<1>11. LastStepSaved'
  BY DEF Inv, TypeOK, LastStepSaved
<1> QED
  BY <1>2, <1>3, <1>4, <1>5, <1>6, <1>7, <1>8, <1>9, <1>10, <1>11 DEF Inv, CallsInv

LEMMA ValidateDoneKeepsInv ==
    ASSUME Inv, ValidateDone
    PROVE  Inv'
<1> USE Constants, NumBatchesIsNat DEF ValidateDone, Goto, RolloutDone, driverVars, actorVars,
   rolloutVars
<1>1. TypeOK'
  BY DEF Inv, TypeOK
<1>2. SavedOK' /\ StepInv'
  BY DEF Inv, TypeOK, SavedOK, StepInv, IsLastStep
<1>3. BoundInv'
  BY DEF Inv, TypeOK, SavedOK, BoundInv, BeforeLoad
<1>4. BatchInv'
  BY DEF Inv, TypeOK, BatchInv, BeforeLoad, Prefetching, BeforeUpdate, AfterUpdate, IsLastStep, None
<1>5. ActorCallsInv'
  BY DEF Inv, CallsInv, ActorCallsInv, SyncCall, UpdateCall
<1>6. RolloutCallsInv'
  BY DEF Inv, CallsInv, RolloutCallsInv, SyncCall, GenerateCall, ValidateCall
<1>7. GenerateInv'
  BY DEF Inv, CallsInv, RolloutCallsInv, GenerateInv, SyncCall, GenerateCall, ValidateCall, Doing
<1>8. SyncInv'
  BY DEF Inv, CallsInv, ActorCallsInv, RolloutCallsInv, SyncInv, SyncCall, GenerateCall, ValidateCall,
     UpdateCall, Doing
<1>9. WeightsInv'
  BY DEF Inv, TypeOK, BatchInv, WeightsInv, Prefetching, BeforeUpdate, AfterUpdate, Recent,
     FutureVersion, Doing
<1>10. LastStepSaved'
  BY DEF Inv, TypeOK, LastStepSaved
<1> QED
  BY <1>1, <1>2, <1>3, <1>4, <1>5, <1>6, <1>7, <1>8, <1>9, <1>10 DEF Inv, CallsInv

LEMMA NoNextBatchKeepsInv ==
    ASSUME Inv, NoNextBatch
    PROVE  Inv'
<1> USE Constants, NumBatchesIsNat DEF NoNextBatch, Goto, AfterPrefetch, driverVars, actorVars,
   rolloutVars
<1>1. rollout_calls = <<>> /\ actor_calls = <<>>
  BY DEF Inv, CallsInv, ActorCallsInv, RolloutCallsInv
<1>2. TypeOK'
  BY DEF Inv, TypeOK, None
<1>3. SavedOK' /\ StepInv'
  BY DEF Inv, TypeOK, SavedOK, StepInv, IsLastStep
<1>4. BoundInv'
  BY DEF Inv, TypeOK, SavedOK, BoundInv, BeforeLoad
<1>5. BatchInv'
  BY DEF Inv, TypeOK, BatchInv, BeforeLoad, Prefetching, BeforeUpdate, AfterUpdate, IsLastStep, None
<1>6. ActorCallsInv'
  BY DEF Inv, CallsInv, ActorCallsInv, SyncCall, UpdateCall
<1>7. RolloutCallsInv'
  BY <1>1 DEF Inv, CallsInv, RolloutCallsInv, SyncCall, GenerateCall, ValidateCall
<1>8. GenerateInv'
  BY <1>1 DEF Inv, CallsInv, RolloutCallsInv, GenerateInv, SyncCall, GenerateCall, ValidateCall, Doing
<1>9. SyncInv'
  BY DEF Inv, CallsInv, ActorCallsInv, RolloutCallsInv, SyncInv, SyncCall, GenerateCall, ValidateCall,
     UpdateCall, Doing
<1>10. WeightsInv'
  BY <1>1 DEF Inv, TypeOK, BatchInv, WeightsInv, Prefetching, BeforeUpdate, AfterUpdate, Recent,
     FutureVersion, Doing, None
<1>11. LastStepSaved'
  BY DEF Inv, TypeOK, LastStepSaved
<1> QED
  BY <1>2, <1>3, <1>4, <1>5, <1>6, <1>7, <1>8, <1>9, <1>10, <1>11 DEF Inv, CallsInv

LEMMA TakeNextBatchKeepsInv ==
    ASSUME Inv, TakeNextBatch
    PROVE  Inv'
<1> USE Constants, NumBatchesIsNat DEF TakeNextBatch, Goto, driverVars, actorVars, rolloutVars
<1>1. rollout_calls = <<>> /\ actor_calls = <<>>
  BY DEF Inv, CallsInv, ActorCallsInv, RolloutCallsInv
<1>2. kills \in 0 .. MaxKills /\ Reach(kills) \in Nat /\ Reach(kills) <= NumBatches
  BY ReachGrows DEF Inv, SavedOK
<1>3. TypeOK'
  BY <1>2 DEF Inv, TypeOK
<1>4. SavedOK' /\ StepInv'
  BY DEF Inv, TypeOK, SavedOK, StepInv, IsLastStep
<1>5. BoundInv'
  BY <1>2 DEF Inv, TypeOK, SavedOK, BoundInv, BeforeLoad
<1>6. BatchInv'
  BY <1>2 DEF Inv, TypeOK, BatchInv, BeforeLoad, Prefetching, BeforeUpdate, AfterUpdate, IsLastStep,
     None
<1>7. ActorCallsInv'
  BY DEF Inv, CallsInv, ActorCallsInv, SyncCall, UpdateCall
<1>8. RolloutCallsInv'
  BY DEF Inv, CallsInv, RolloutCallsInv, SyncCall, GenerateCall, ValidateCall
<1>9. GenerateInv'
  BY DEF Inv, CallsInv, RolloutCallsInv, GenerateInv, SyncCall, GenerateCall, ValidateCall, Doing
<1>10. SyncInv'
  BY DEF Inv, CallsInv, ActorCallsInv, RolloutCallsInv, SyncInv, SyncCall, GenerateCall, ValidateCall,
     UpdateCall, Doing
<1>11. WeightsInv'
  BY <1>1 DEF Inv, TypeOK, BatchInv, WeightsInv, Prefetching, BeforeUpdate, AfterUpdate, Recent,
     FutureVersion, Doing, None
<1>12. LastStepSaved'
  BY DEF Inv, TypeOK, LastStepSaved
<1> QED
  BY <1>3, <1>4, <1>5, <1>6, <1>7, <1>8, <1>9, <1>10, <1>11, <1>12 DEF Inv, CallsInv

LEMMA CallGenerateKeepsInv ==
    ASSUME Inv, CallGenerate
    PROVE  Inv'
<1> USE Constants, NumBatchesIsNat DEF CallGenerate, Goto, AfterPrefetch, driverVars, actorVars,
   rolloutVars
<1>1. rollout_calls = <<>> /\ actor_calls = <<>>
  BY DEF Inv, CallsInv, ActorCallsInv, RolloutCallsInv
<1>2. rollout_calls' = <<GenerateCall>>
  BY <1>1, ShortQueues DEF GenerateCall
<1>3. TypeOK'
  BY <1>2, QueueTypes DEF Inv, TypeOK
<1>4. SavedOK' /\ StepInv'
  BY DEF Inv, TypeOK, SavedOK, StepInv, IsLastStep
<1>5. BoundInv'
  BY DEF Inv, TypeOK, SavedOK, BoundInv, BeforeLoad
<1>6. BatchInv'
  BY DEF Inv, TypeOK, BatchInv, BeforeLoad, Prefetching, BeforeUpdate, AfterUpdate, IsLastStep, None
<1>7. ActorCallsInv'
  BY DEF Inv, CallsInv, ActorCallsInv, SyncCall, UpdateCall
<1>8. RolloutCallsInv'
  BY <1>2 DEF Inv, CallsInv, RolloutCallsInv, SyncCall, GenerateCall, ValidateCall
<1>9. GenerateInv'
  BY <1>2, ShortQueues DEF Inv, CallsInv, RolloutCallsInv, GenerateInv, SyncCall, GenerateCall,
     ValidateCall, Doing, BatchInv, Prefetching
<1>10. SyncInv'
  BY <1>1, <1>2, ShortQueues DEF Inv, CallsInv, ActorCallsInv, RolloutCallsInv, SyncInv, SyncCall,
     GenerateCall, ValidateCall, UpdateCall, Doing
<1>11. WeightsInv'
  BY <1>1, <1>2, ShortQueues DEF Inv, TypeOK, BatchInv, WeightsInv, Prefetching, BeforeUpdate,
     AfterUpdate, Recent, FutureVersion, Doing, GenerateCall
<1>12. LastStepSaved'
  BY DEF Inv, TypeOK, LastStepSaved
<1> QED
  BY <1>3, <1>4, <1>5, <1>6, <1>7, <1>8, <1>9, <1>10, <1>11, <1>12 DEF Inv, CallsInv

(* A batch that was got has been generated: no call is left when the next sync begins. *)
LEMMA GetBatchKeepsInv ==
    ASSUME Inv, GetBatch
    PROVE  Inv'
<1> USE Constants, NumBatchesIsNat DEF GetBatch, Goto, driverVars, actorVars, rolloutVars
<1>1. rollout_calls = <<>> /\ actor_calls = <<>>
  BY ShortQueues DEF Inv, CallsInv, ActorCallsInv, RolloutCallsInv, GenerateInv, GenerateCall, Doing
<1>2. TypeOK'
  BY DEF Inv, TypeOK
<1>3. SavedOK' /\ StepInv'
  BY DEF Inv, TypeOK, SavedOK, StepInv, IsLastStep
<1>4. BoundInv'
  BY DEF Inv, TypeOK, SavedOK, BoundInv, BeforeLoad
<1>5. BatchInv'
  BY DEF Inv, TypeOK, BatchInv, BeforeLoad, Prefetching, BeforeUpdate, AfterUpdate, IsLastStep, None
<1>6. ActorCallsInv'
  BY DEF Inv, CallsInv, ActorCallsInv, SyncCall, UpdateCall
<1>7. RolloutCallsInv'
  BY <1>1 DEF Inv, CallsInv, RolloutCallsInv, SyncCall, GenerateCall, ValidateCall
<1>8. GenerateInv'
  BY DEF Inv, CallsInv, RolloutCallsInv, GenerateInv, SyncCall, GenerateCall, ValidateCall, Doing
<1>9. SyncInv'
  BY DEF Inv, CallsInv, ActorCallsInv, RolloutCallsInv, SyncInv, SyncCall, GenerateCall, ValidateCall,
     UpdateCall, Doing
<1>10. WeightsInv'
  BY <1>1 DEF Inv, TypeOK, BatchInv, WeightsInv, Prefetching, BeforeUpdate, AfterUpdate, Recent,
     FutureVersion, Doing, None
<1>11. LastStepSaved'
  BY DEF Inv, TypeOK, LastStepSaved
<1> QED
  BY <1>2, <1>3, <1>4, <1>5, <1>6, <1>7, <1>8, <1>9, <1>10, <1>11 DEF Inv, CallsInv

LEMMA NoFutureKeepsInv ==
    ASSUME Inv, NoFuture
    PROVE  Inv'
<1> USE Constants, NumBatchesIsNat DEF NoFuture, Goto, driverVars, actorVars, rolloutVars
<1>1. TypeOK'
  BY DEF Inv, TypeOK
<1>2. SavedOK' /\ StepInv'
  BY DEF Inv, TypeOK, SavedOK, StepInv, IsLastStep
<1>3. BoundInv'
  BY DEF Inv, TypeOK, SavedOK, BoundInv, BeforeLoad
<1>4. BatchInv'
  BY DEF Inv, TypeOK, BatchInv, BeforeLoad, Prefetching, BeforeUpdate, AfterUpdate, IsLastStep, None
<1>5. ActorCallsInv'
  BY DEF Inv, CallsInv, ActorCallsInv, SyncCall, UpdateCall
<1>6. RolloutCallsInv'
  BY DEF Inv, CallsInv, RolloutCallsInv, SyncCall, GenerateCall, ValidateCall
<1>7. GenerateInv'
  BY DEF Inv, CallsInv, RolloutCallsInv, GenerateInv, SyncCall, GenerateCall, ValidateCall, Doing
<1>8. SyncInv'
  BY DEF Inv, CallsInv, ActorCallsInv, RolloutCallsInv, SyncInv, SyncCall, GenerateCall, ValidateCall,
     UpdateCall, Doing
<1>9. WeightsInv'
  BY DEF Inv, TypeOK, BatchInv, WeightsInv, Prefetching, BeforeUpdate, AfterUpdate, Recent,
     FutureVersion, Doing
<1>10. LastStepSaved'
  BY DEF Inv, LastStepSaved
<1> QED
  BY <1>1, <1>2, <1>3, <1>4, <1>5, <1>6, <1>7, <1>8, <1>9, <1>10 DEF Inv, CallsInv

LEMMA CallUpdateKeepsInv ==
    ASSUME Inv, CallUpdate
    PROVE  Inv'
<1> USE Constants, NumBatchesIsNat DEF CallUpdate, Goto, driverVars, actorVars, rolloutVars
<1>1. actor_calls = <<>>
  BY DEF Inv, CallsInv, ActorCallsInv, RolloutCallsInv
<1>2. actor_calls' = <<UpdateCall>> \/ actor_calls' = <<>>
  BY <1>1, ShortQueues DEF UpdateCall
<1>3. TypeOK'
  BY <1>2, QueueTypes DEF Inv, TypeOK
<1>4. SavedOK' /\ StepInv'
  BY DEF Inv, TypeOK, SavedOK, StepInv, IsLastStep
<1>5. BoundInv'
  BY DEF Inv, TypeOK, SavedOK, BoundInv, BeforeLoad
<1>6. BatchInv'
  BY DEF Inv, TypeOK, BatchInv, BeforeLoad, Prefetching, BeforeUpdate, AfterUpdate, IsLastStep, None
<1>7. ActorCallsInv'
  BY <1>2 DEF Inv, CallsInv, ActorCallsInv, SyncCall, UpdateCall
<1>8. RolloutCallsInv'
  BY DEF Inv, CallsInv, RolloutCallsInv, SyncCall, GenerateCall, ValidateCall
<1>9. GenerateInv'
  BY DEF Inv, CallsInv, RolloutCallsInv, GenerateInv, SyncCall, GenerateCall, ValidateCall, Doing
<1>10. SyncInv'
  BY <1>1, <1>2, ShortQueues DEF Inv, CallsInv, ActorCallsInv, RolloutCallsInv, SyncInv, SyncCall,
     GenerateCall, ValidateCall, UpdateCall, Doing
<1>11. WeightsInv'
  BY <1>1, <1>2 DEF Inv, TypeOK, BatchInv, WeightsInv, Prefetching, BeforeUpdate, AfterUpdate, Recent,
     FutureVersion, Doing
<1>12. LastStepSaved'
  BY DEF Inv, TypeOK, LastStepSaved
<1> QED
  BY <1>3, <1>4, <1>5, <1>6, <1>7, <1>8, <1>9, <1>10, <1>11, <1>12 DEF Inv, CallsInv

LEMMA UpdateDoneKeepsInv ==
    ASSUME Inv, UpdateDone
    PROVE  Inv'
<1> USE Constants, NumBatchesIsNat DEF UpdateDone, Goto, ActorDone, driverVars, actorVars, rolloutVars
<1>1. TypeOK'
  BY DEF Inv, TypeOK
<1>2. SavedOK' /\ StepInv'
  BY DEF Inv, TypeOK, SavedOK, StepInv, IsLastStep
<1>3. BoundInv'
  BY DEF Inv, TypeOK, SavedOK, BoundInv, BeforeLoad
<1>4. BatchInv'
  BY DEF Inv, TypeOK, BatchInv, BeforeLoad, Prefetching, BeforeUpdate, AfterUpdate, IsLastStep, None
<1>5. ActorCallsInv'
  BY DEF Inv, CallsInv, ActorCallsInv, SyncCall, UpdateCall
<1>6. RolloutCallsInv'
  BY DEF Inv, CallsInv, RolloutCallsInv, SyncCall, GenerateCall, ValidateCall
<1>7. GenerateInv'
  BY DEF Inv, CallsInv, RolloutCallsInv, GenerateInv, SyncCall, GenerateCall, ValidateCall, Doing
<1>8. SyncInv'
  BY DEF Inv, CallsInv, ActorCallsInv, RolloutCallsInv, SyncInv, SyncCall, GenerateCall, ValidateCall,
     UpdateCall, Doing
<1>9. WeightsInv'
  BY DEF Inv, TypeOK, BatchInv, WeightsInv, Prefetching, BeforeUpdate, AfterUpdate, Recent,
     FutureVersion, Doing
<1>10. LastStepSaved'
  BY DEF Inv, TypeOK, LastStepSaved
<1> QED
  BY <1>1, <1>2, <1>3, <1>4, <1>5, <1>6, <1>7, <1>8, <1>9, <1>10 DEF Inv, CallsInv

(* The last step saves; in any other one the prefetched batch is not the one just trained on. *)
LEMMA SaveAndEndStepKeepsInv ==
    ASSUME Inv, SaveAndEndStep
    PROVE  Inv'
<1> USE Constants, NumBatchesIsNat DEF SaveAndEndStep, Goto, IsLastStep, driverVars, actorVars,
   rolloutVars
<1>0. /\ kills \in 0 .. MaxKills /\ global_steps \in Nat /\ saved.step \in Nat
      /\ global_steps <= TotalTrainingSteps + kills /\ saved.step < TotalTrainingSteps + kills
  BY DEF Inv, TypeOK, SavedOK, StepInv
<1>1. TypeOK'
  BY <1>0 DEF Inv, TypeOK, None
<1>2. SavedOK' /\ StepInv'
  <2>1. SavedOK'
    BY <1>0 DEF Inv, TypeOK, SavedOK
  <2>2. phase' # "finished" => global_steps < TotalTrainingSteps
    BY <1>0
  <2>3. global_steps' = global_steps + 1 /\ saved'.step \in {global_steps, saved.step}
    OBVIOUS
  <2>4. StepInv'
    BY <1>0, <2>2, <2>3 DEF StepInv
  <2> QED
    BY <2>1, <2>4
<1>3. BoundInv'
  BY DEF Inv, TypeOK, SavedOK, BoundInv, BeforeLoad
<1>4. BatchInv'
  BY DEF Inv, TypeOK, BatchInv, BeforeLoad, Prefetching, BeforeUpdate, AfterUpdate, IsLastStep, None
<1>5. ActorCallsInv'
  BY DEF Inv, CallsInv, ActorCallsInv, SyncCall, UpdateCall
<1>6. RolloutCallsInv'
  BY DEF Inv, CallsInv, RolloutCallsInv, SyncCall, GenerateCall, ValidateCall
<1>7. GenerateInv'
  BY DEF Inv, CallsInv, RolloutCallsInv, GenerateInv, SyncCall, GenerateCall, ValidateCall, Doing
<1>8. SyncInv'
  BY DEF Inv, CallsInv, ActorCallsInv, RolloutCallsInv, SyncInv, SyncCall, GenerateCall, ValidateCall,
     UpdateCall, Doing
<1>9. WeightsInv'
  BY DEF Inv, TypeOK, BatchInv, WeightsInv, Prefetching, BeforeUpdate, AfterUpdate, Recent,
     FutureVersion, Doing
<1>10. LastStepSaved'
  BY DEF Inv, TypeOK, LastStepSaved, StepInv, Due
<1> QED
  BY <1>1, <1>2, <1>3, <1>4, <1>5, <1>6, <1>7, <1>8, <1>9, <1>10 DEF Inv, CallsInv

(* The rollout is in the sync as long as the actor is. *)
LEMMA SendTensorKeepsInv ==
    ASSUME Inv, SendTensor
    PROVE  Inv'
<1> USE Constants, NumBatchesIsNat DEF SendTensor, driverVars, actorVars, rolloutVars
<1>1. phase = "wait_sync" /\ actor_calls = <<SyncCall>>
  BY ShortQueues DEF Inv, CallsInv, ActorCallsInv, UpdateCall, Doing
<1>2. Tail(actor_calls) = <<>>
  BY <1>1, ShortQueues
<1>3. Doing(rollout_calls, "sync")
  BY DEF Inv, SyncInv
<1>4. TypeOK'
  <2>1. actor_calls' \in Seq(Calls({"sync", "update"}))
    BY <1>2, QueueTypes DEF Inv, TypeOK
  <2>2. channel' \in Seq(Nat) /\ {sent', received'} \subseteq 0 .. Tensors - 1
    BY DEF Inv, TypeOK
  <2> QED
    BY <2>1, <2>2 DEF Inv, TypeOK
<1>5. SavedOK' /\ StepInv'
  BY DEF Inv, TypeOK, SavedOK, StepInv, IsLastStep
<1>6. BoundInv'
  BY DEF Inv, TypeOK, SavedOK, BoundInv, BeforeLoad
<1>7. BatchInv'
  BY DEF Inv, TypeOK, BatchInv, BeforeLoad, Prefetching, BeforeUpdate, AfterUpdate, IsLastStep, None
<1>8. ActorCallsInv'
  BY <1>1, <1>2 DEF Inv, CallsInv, ActorCallsInv, SyncCall, UpdateCall
<1>9. RolloutCallsInv'
  BY DEF Inv, CallsInv, RolloutCallsInv, SyncCall, GenerateCall, ValidateCall
<1>10. GenerateInv'
  BY DEF Inv, CallsInv, RolloutCallsInv, GenerateInv, SyncCall, GenerateCall, ValidateCall, Doing
<1>11. SyncInv'
  <2>1. /\ received + Len(channel) = sent
        /\ \A i \in 1 .. Len(channel) : channel[i] = actor
        /\ \A t \in 1 .. received : rollout[t] = actor
    BY <1>3 DEF Inv, SyncInv
  <2>2. /\ Len(channel') = Len(channel) + 1 /\ {sent, received, Len(channel)} \subseteq Nat
        /\ \A i \in 1 .. Len(channel') : channel'[i] = actor
    <3>1. /\ channel \in Seq(Nat) /\ actor \in Nat /\ channel' = Append(channel, actor)
          /\ {sent, received} \subseteq Nat
      BY DEF Inv, TypeOK
    <3>2. Len(channel) \in Nat /\ Len(channel') = Len(channel) + 1
      BY <3>1
    <3>3. \A i \in 1 .. Len(channel') : channel'[i] = IF i = Len(channel) + 1 THEN actor ELSE channel[i]
      BY <3>1, <3>2
    <3> QED
      BY <2>1, <3>1, <3>2, <3>3
  <2>3. Doing(rollout_calls', "sync") /\ UNCHANGED <<actor, received, rollout>>
    BY <1>3
  <2>4. CASE sent + 1 = Tensors
    <3>1. sent' = 0 /\ actor_calls' = <<>>
      BY <1>2, <2>4
    <3> QED
      BY <2>1, <2>2, <2>3, <2>4, <3>1 DEF SyncInv, Doing
  <2>5. CASE sent + 1 # Tensors
    <3>1. sent' = sent + 1 /\ Doing(actor_calls', "sync")
      BY <2>5
    <3> QED
      BY <2>1, <2>2, <2>3, <3>1 DEF SyncInv
  <2> QED
    BY <2>4, <2>5
<1>12. WeightsInv'
  BY <1>1, <1>2 DEF Inv, TypeOK, BatchInv, WeightsInv, Prefetching, BeforeUpdate, AfterUpdate, Recent,
     FutureVersion, Doing
<1>13. LastStepSaved'
  BY DEF Inv, TypeOK, LastStepSaved
<1> QED
  BY <1>4, <1>5, <1>6, <1>7, <1>8, <1>9, <1>10, <1>11, <1>12, <1>13 DEF Inv, CallsInv

(* What arrives is the actor's version, and after the last tensor nothing is on its way. *)
LEMMA ReceiveTensorKeepsInv ==
    ASSUME Inv, ReceiveTensor
    PROVE  Inv'
<1> USE Constants, NumBatchesIsNat DEF ReceiveTensor, driverVars, actorVars, rolloutVars
<1>1. phase = "wait_sync" /\ rollout_calls = <<SyncCall>>
  BY ShortQueues DEF Inv, CallsInv, RolloutCallsInv, GenerateCall, ValidateCall, Doing
<1>2. Tail(rollout_calls) = <<>>
  BY <1>1, ShortQueues
<1>3. /\ received + Len(channel) = IF Doing(actor_calls, "sync") THEN sent ELSE Tensors
      /\ \A i \in 1 .. Len(channel) : channel[i] = actor
      /\ \A t \in 1 .. received : rollout[t] = actor
  BY DEF Inv, SyncInv
<1>4. /\ channel \in Seq(Nat) /\ channel # <<>> /\ Len(channel) \in Nat \ {0} /\ actor \in Nat
      /\ {sent, received} \subseteq 0 .. Tensors - 1 /\ rollout \in [1 .. Tensors -> Nat]
  BY DEF Inv, TypeOK
<1>5. /\ Head(channel) = actor /\ Tail(channel) \in Seq(Nat) /\ Len(Tail(channel)) = Len(channel) - 1
      /\ \A i \in 1 .. Len(Tail(channel)) : Tail(channel)[i] = actor
  BY <1>3, <1>4
<1>6. /\ rollout' = [rollout EXCEPT ![received + 1] = actor] /\ rollout' \in [1 .. Tensors -> Nat]
      /\ \A t \in 1 .. received + 1 : rollout'[t] = actor
  <2>1. rollout' = [rollout EXCEPT ![received + 1] = actor] /\ received + 1 \in 1 .. Tensors
    <3>1. received \in Int /\ 0 <= received /\ received <= Tensors - 1
      BY <1>4
    <3>2. received + 1 \in 1 .. Tensors
      BY <3>1
    <3>3. rollout' = [rollout EXCEPT ![received + 1] = Head(channel)]
      OBVIOUS
    <3> QED
      BY <1>5, <3>2, <3>3
  <2>2. rollout' \in [1 .. Tensors -> Nat]
    BY <1>4, <2>1
  <2>3. ASSUME NEW t \in 1 .. received + 1 PROVE rollout'[t] = actor
    <3>1. received \in Nat /\ t \in 1 .. Tensors /\ DOMAIN rollout = 1 .. Tensors
      BY <1>4
    <3>2. CASE t = received + 1
      BY <2>1, <3>1, <3>2, Zenon
    <3>3. CASE t # received + 1
      <4>1. t \in 1 .. received
        BY <3>1, <3>3
      <4>2. rollout'[t] = rollout[t]
        BY <2>1, <3>1, <3>3, Zenon
      <4> QED
        BY <1>3, <4>1, <4>2, Zenon
    <3> QED
      BY <3>2, <3>3
  <2> QED
    BY <2>1, <2>2, <2>3
<1>7. received + 1 = Tensors => ~ Doing(actor_calls, "sync") /\ Tail(channel) = <<>>
  BY <1>3, <1>4, <1>5
<1>8. TypeOK'
  <2>1. rollout_calls' \in Seq(Calls({"sync", "generate", "validate"}))
    BY <1>2, QueueTypes DEF Inv, TypeOK
  <2>2. channel' \in Seq(Nat) /\ {sent', received'} \subseteq 0 .. Tensors - 1
    BY <1>4, <1>5
  <2> QED
    BY <1>6, <2>1, <2>2 DEF Inv, TypeOK
<1>9. SavedOK' /\ StepInv'
  BY DEF Inv, TypeOK, SavedOK, StepInv, IsLastStep
<1>10. BoundInv'
  BY DEF Inv, TypeOK, SavedOK, BoundInv, BeforeLoad
<1>11. BatchInv'
  BY DEF Inv, TypeOK, BatchInv, BeforeLoad, Prefetching, BeforeUpdate, AfterUpdate, IsLastStep, None
<1>12. ActorCallsInv'
  BY DEF Inv, CallsInv, ActorCallsInv, SyncCall, UpdateCall
<1>13. RolloutCallsInv'
  BY <1>1, <1>2 DEF Inv, CallsInv, RolloutCallsInv, SyncCall, GenerateCall, ValidateCall
<1>14. GenerateInv'
  BY <1>1, <1>2, ShortQueues DEF Inv, CallsInv, RolloutCallsInv, GenerateInv, SyncCall, GenerateCall,
     ValidateCall, Doing
<1>15. SyncInv'
  <2>1. /\ UNCHANGED <<actor_calls, actor, sent>> /\ channel' = Tail(channel)
        /\ (~ Doing(actor_calls, "sync") => sent = 0)
    BY DEF Inv, SyncInv
  <2>2. CASE received + 1 = Tensors
    <3>1. received' = 0 /\ rollout_calls' = <<>> /\ ~ Doing(rollout_calls', "sync")
      BY <1>2, <2>2 DEF Doing
    <3>2. \A t \in 1 .. Tensors : rollout'[t] = rollout'[1]
      BY <1>6, <2>2
    <3> QED
      BY <1>7, <2>1, <2>2, <3>1, <3>2 DEF SyncInv
  <2>3. CASE received + 1 # Tensors
    <3>1. received' = received + 1 /\ Doing(rollout_calls', "sync")
      BY <2>3
    <3> QED
      BY <1>3, <1>4, <1>5, <1>6, <2>1, <3>1 DEF SyncInv
  <2> QED
    BY <2>2, <2>3
<1>16. WeightsInv'
  <2>1. rollout_calls' = <<>> => rollout'[1] = actor
    <3>1. rollout_calls' = <<>> => received + 1 = Tensors
      BY <1>1, ShortQueues
    <3> QED
      BY <1>4, <1>6, <3>1
  <2> QED
    BY <1>1, <2>1 DEF Inv, WeightsInv, Prefetching, BeforeUpdate, AfterUpdate
<1>17. LastStepSaved'
  BY DEF Inv, TypeOK, LastStepSaved
<1> QED
  BY <1>8, <1>9, <1>10, <1>11, <1>12, <1>13, <1>14, <1>15, <1>16, <1>17 DEF Inv, CallsInv

(* The update makes the batch trained on and the prefetched one older by one. *)
LEMMA UpdateActorKeepsInv ==
    ASSUME Inv, UpdateActor
    PROVE  Inv'
<1> USE Constants, NumBatchesIsNat DEF UpdateActor, driverVars, actorVars, rolloutVars
<1>1. phase = "wait_update" /\ actor_calls = <<UpdateCall>>
  BY ShortQueues DEF Inv, CallsInv, ActorCallsInv, SyncCall, Doing
<1>2. Tail(actor_calls) = <<>> /\ Head(actor_calls).batch = batch
  BY <1>1, ShortQueues DEF UpdateCall
<1>3. batch # None
  BY <1>1, ShortQueues DEF Inv, BatchInv, BeforeUpdate
<1>4. TypeOK'
  BY <1>1, <1>2, <1>3 DEF Inv, TypeOK, None
<1>5. SavedOK' /\ StepInv'
  BY DEF Inv, TypeOK, SavedOK, StepInv, IsLastStep
<1>6. BoundInv'
  BY DEF Inv, TypeOK, SavedOK, BoundInv, BeforeLoad
<1>7. BatchInv'
  BY DEF Inv, TypeOK, BatchInv, BeforeLoad, Prefetching, BeforeUpdate, AfterUpdate, IsLastStep, None
<1>8. ActorCallsInv'
  BY <1>1, <1>2 DEF Inv, CallsInv, ActorCallsInv, SyncCall, UpdateCall
<1>9. RolloutCallsInv'
  BY DEF Inv, CallsInv, RolloutCallsInv, SyncCall, GenerateCall, ValidateCall
<1>10. GenerateInv'
  BY DEF Inv, CallsInv, RolloutCallsInv, GenerateInv, SyncCall, GenerateCall, ValidateCall, Doing
<1>11. SyncInv'
  BY DEF Inv, CallsInv, ActorCallsInv, RolloutCallsInv, SyncInv, SyncCall, GenerateCall, ValidateCall,
     UpdateCall, Doing
<1>12. WeightsInv'
  <2>1. /\ BeforeUpdate /\ AfterUpdate' /\ ~ BeforeUpdate' /\ ~ Prefetching' /\ phase' = "wait_update"
        /\ actor \in Nat /\ rollout[1] \in Nat /\ actor' = actor + 1
    BY <1>1, <1>2 DEF Inv, TypeOK, Prefetching, BeforeUpdate, AfterUpdate
  <2>2. Recent(1) /\ (future \notin {None, batch} => rollout[1] = actor /\ FutureVersion = actor)
    BY <2>1 DEF Inv, WeightsInv
  <2>3. FutureVersion' = FutureVersion
    BY DEF FutureVersion, Doing
  <2>4. Recent(2)' /\ (future \notin {None, batch} => Recent(1)' /\ FutureVersion' \in {actor' - 1, actor'})
    BY <2>1, <2>2, <2>3 DEF Recent
  <2> QED
    BY <2>1, <2>4 DEF WeightsInv
<1>13. LastStepSaved'
  BY DEF Inv, TypeOK, LastStepSaved
<1> QED
  BY <1>4, <1>5, <1>6, <1>7, <1>8, <1>9, <1>10, <1>11, <1>12, <1>13 DEF Inv, CallsInv

(* Only the prefetched batch is generated, and it has not been before. *)
LEMMA GenerateKeepsInv ==
    ASSUME Inv, Generate
    PROVE  Inv'
<1> USE Constants, NumBatchesIsNat DEF Generate, driverVars, actorVars, rolloutVars
<1>1. \/ rollout_calls = <<GenerateCall>> /\ rollout_calls' = <<>>
      \/ /\ phase = "wait_validate" /\ rollout_calls = <<GenerateCall, ValidateCall>>
         /\ rollout_calls' = <<ValidateCall>>
  <2>1. \/ rollout_calls = <<GenerateCall>>
        \/ (phase = "wait_validate" /\ rollout_calls = <<GenerateCall, ValidateCall>>)
    BY ShortQueues DEF Inv, CallsInv, RolloutCallsInv, SyncCall, ValidateCall, Doing
  <2> QED
    BY <2>1, ShortQueues
<1>2. Head(rollout_calls).batch = future
  BY <1>1, ShortQueues DEF GenerateCall
<1>3. future # None /\ generated[future] = -1 /\ generated' = [generated EXCEPT ![future] = rollout[1]]
  BY <1>2 DEF Inv, CallsInv, GenerateInv
<1>4. /\ future \in 1 .. NumBatches /\ rollout[1] \in Nat /\ generated'[future] = rollout[1]
      /\ \A b \in 1 .. NumBatches : b # future => generated'[b] = generated[b]
  <2>1. /\ future \in 1 .. NumBatches /\ rollout[1] \in Nat
        /\ generated \in [1 .. NumBatches -> Nat \cup {-1}]
    BY <1>3 DEF Inv, TypeOK, None
  <2> QED
    BY <1>3, <2>1
<1>5. ~ Doing(rollout_calls', "generate")
  BY <1>1, ShortQueues DEF ValidateCall, Doing
<1>6. TypeOK'
  <2>1. rollout_calls' \in Seq(Calls({"sync", "generate", "validate"}))
    BY <1>1, QueueTypes DEF Inv, TypeOK
  <2>2. generated' \in [1 .. NumBatches -> Nat \cup {-1}]
    BY <1>3, <1>4 DEF Inv, TypeOK
  <2> QED
    BY <2>1, <2>2 DEF Inv, TypeOK
<1>7. SavedOK' /\ StepInv'
  BY DEF Inv, TypeOK, SavedOK, StepInv, IsLastStep
<1>8. BoundInv'
  BY DEF Inv, TypeOK, SavedOK, BoundInv, BeforeLoad
<1>9. BatchInv'
  <2>1. ~ Prefetching
    BY <1>1, ShortQueues DEF Inv, CallsInv, RolloutCallsInv, Prefetching, SyncCall, GenerateCall,
       ValidateCall
  <2>2. \A b \in 1 .. NumBatches : b >= next => generated'[b] = -1
    BY <1>4 DEF Inv, TypeOK, BatchInv
  <2> QED
    BY <2>1, <2>2 DEF Inv, BatchInv, BeforeLoad, Prefetching, BeforeUpdate, AfterUpdate, IsLastStep
<1>10. ActorCallsInv'
  BY DEF Inv, CallsInv, ActorCallsInv, SyncCall, UpdateCall
<1>11. RolloutCallsInv'
  BY <1>1, ShortQueues DEF Inv, CallsInv, RolloutCallsInv, SyncCall, GenerateCall, ValidateCall
<1>12. GenerateInv'
  BY <1>5 DEF GenerateInv
<1>13. SyncInv'
  BY <1>1, ShortQueues DEF Inv, CallsInv, ActorCallsInv, RolloutCallsInv, SyncInv, SyncCall,
     GenerateCall, ValidateCall, UpdateCall, Doing
<1>14. WeightsInv'
  <2>1. FutureVersion = rollout[1] /\ FutureVersion' = rollout[1]
    BY <1>4, <1>5 DEF FutureVersion
  <2>2. phase # "call_generate" /\ phase # "wait_sync" /\ phase # "prefetch" /\ ~ Prefetching
    BY <1>1, ShortQueues DEF Inv, CallsInv, RolloutCallsInv, Prefetching, SyncCall, GenerateCall,
       ValidateCall
  <2>3. BeforeUpdate => generated'[batch] = generated[batch]
    BY <1>3, <1>4 DEF Inv, TypeOK, BatchInv, WeightsInv, None
  <2> QED
    BY <2>1, <2>2, <2>3 DEF Inv, WeightsInv, Prefetching, BeforeUpdate, AfterUpdate, Recent
<1>15. LastStepSaved'
  BY DEF Inv, TypeOK, LastStepSaved
<1> QED
  BY <1>6, <1>7, <1>8, <1>9, <1>10, <1>11, <1>12, <1>13, <1>14, <1>15 DEF Inv, CallsInv

LEMMA ValidateKeepsInv ==
    ASSUME Inv, Validate
    PROVE  Inv'
<1> USE Constants, NumBatchesIsNat DEF Validate, driverVars, actorVars, rolloutVars
<1>1. rollout_calls = <<ValidateCall>>
  BY ShortQueues DEF Inv, CallsInv, RolloutCallsInv, SyncCall, GenerateCall, Doing
<1>2. rollout_calls' = <<>>
  BY <1>1, ShortQueues
<1>3. ~ Doing(rollout_calls, "generate") /\ ~ Doing(rollout_calls', "generate") /\ phase # "wait_sync"
  BY <1>1, <1>2, ShortQueues DEF Inv, CallsInv, RolloutCallsInv, SyncCall, GenerateCall, ValidateCall,
     Doing
<1>4. TypeOK'
  BY <1>2, QueueTypes DEF Inv, TypeOK
<1>5. SavedOK' /\ StepInv'
  BY DEF Inv, TypeOK, SavedOK, StepInv, IsLastStep
<1>6. BoundInv'
  BY DEF Inv, TypeOK, SavedOK, BoundInv, BeforeLoad
<1>7. BatchInv'
  BY DEF Inv, TypeOK, BatchInv, BeforeLoad, Prefetching, BeforeUpdate, AfterUpdate, IsLastStep, None
<1>8. ActorCallsInv'
  BY DEF Inv, CallsInv, ActorCallsInv, SyncCall, UpdateCall
<1>9. RolloutCallsInv'
  BY <1>2 DEF Inv, CallsInv, RolloutCallsInv, SyncCall, GenerateCall, ValidateCall
<1>10. GenerateInv'
  BY <1>2 DEF Inv, CallsInv, RolloutCallsInv, GenerateInv, SyncCall, GenerateCall, ValidateCall, Doing
<1>11. SyncInv'
  BY <1>1, <1>2, ShortQueues DEF Inv, CallsInv, ActorCallsInv, RolloutCallsInv, SyncInv, SyncCall,
     GenerateCall, ValidateCall, UpdateCall, Doing
<1>12. WeightsInv'
  BY <1>3 DEF Inv, WeightsInv, Prefetching, BeforeUpdate, AfterUpdate, Recent, FutureVersion
<1>13. LastStepSaved'
  BY DEF Inv, TypeOK, LastStepSaved
<1> QED
  BY <1>4, <1>5, <1>6, <1>7, <1>8, <1>9, <1>10, <1>11, <1>12, <1>13 DEF Inv, CallsInv

(* A kill allows one more launch, and each launch its own TotalEpochs epochs. *)
LEMMA KillKeepsInv ==
    ASSUME Inv, Kill
    PROVE  Inv'
<1> USE Constants, NumBatchesIsNat DEF Kill, driverVars, actorVars, rolloutVars
<1>1. kills \in 0 .. MaxKills /\ kills' = kills + 1 /\ kills' \in 0 .. MaxKills
  BY DEF Inv, SavedOK
<1>2. /\ Reach(kills) \in Nat /\ Reach(kills' - 1) \in Nat /\ Reach(kills' - 1) = Reach(kills)
      /\ Reach(kills') \in Nat /\ Reach(kills) <= Reach(kills')
  BY <1>1, ReachGrows, kills' - 1 = kills
<1>3. TypeOK'
  BY NumBatchesIsNat DEF Inv, TypeOK, None
<1>4. SavedOK' /\ StepInv'
  <2>1. /\ saved' = saved /\ global_steps' = 0 /\ phase' = "sync" /\ kills \in Nat
        /\ TotalTrainingSteps \in Nat /\ saved.step \in Nat
        /\ saved.step <= TotalTrainingSteps + kills
    BY <1>1 DEF Inv, SavedOK, StepInv
  <2>2. SavedOK'
    BY <1>1, <2>1 DEF Inv, SavedOK
  <2>3. /\ saved.step < TotalTrainingSteps + kills' /\ 0 <= TotalTrainingSteps + kills'
        /\ 0 <= TotalTrainingSteps + kills' + 1
    BY <1>1, <2>1
  <2>4. StepInv'
    BY <2>1, <2>3 DEF StepInv
  <2> QED
    BY <2>2, <2>4
<1>5. BoundInv'
  <2>1. limit' = 0 /\ next' = 1 /\ saved' = saved /\ saved.next \in Nat /\ saved.next <= Reach(kills) + 1
    BY DEF Inv, SavedOK, BoundInv
  <2>2. saved.next <= Reach(kills') + 1
    BY <1>2, <2>1
  <2> QED
    BY <1>2, <2>1, <2>2 DEF BoundInv
<1>6. BatchInv'
  BY DEF Inv, TypeOK, BatchInv, BeforeLoad, Prefetching, BeforeUpdate, AfterUpdate, IsLastStep, None
<1>7. ActorCallsInv'
  BY DEF Inv, CallsInv, ActorCallsInv, SyncCall, UpdateCall
<1>8. RolloutCallsInv'
  BY DEF Inv, CallsInv, RolloutCallsInv, SyncCall, GenerateCall, ValidateCall
<1>9. GenerateInv'
  BY DEF Inv, CallsInv, RolloutCallsInv, GenerateInv, SyncCall, GenerateCall, ValidateCall, Doing
<1>10. SyncInv'
  BY DEF Inv, CallsInv, ActorCallsInv, RolloutCallsInv, SyncInv, SyncCall, GenerateCall, ValidateCall,
     UpdateCall, Doing
<1>11. WeightsInv'
  BY DEF Inv, TypeOK, BatchInv, WeightsInv, Prefetching, BeforeUpdate, AfterUpdate, Recent,
     FutureVersion, Doing
<1>12. LastStepSaved'
  BY DEF Inv, TypeOK, LastStepSaved
<1> QED
  BY <1>3, <1>4, <1>5, <1>6, <1>7, <1>8, <1>9, <1>10, <1>11, <1>12 DEF Inv, CallsInv

-----------------------------------------------------------------------------

(* The first launch begins before its first sync. *)
LEMMA InitInv == Init => Inv
<1> USE Constants, NumBatchesIsNat DEF Init
<1> SUFFICES ASSUME Init PROVE Inv
  OBVIOUS
<1>1. TypeOK
  BY DEF TypeOK, None
<1>2. SavedOK /\ StepInv /\ LastStepSaved
  BY DEF SavedOK, StepInv, LastStepSaved, NoCheckpoint
<1>3. BoundInv
  <2>1. Reach(0) \in Nat /\ Reach(0 - 1) \in Nat /\ kills = 0 /\ saved.next = 1
    BY ReachGrows DEF NoCheckpoint
  <2> QED
    BY <2>1 DEF BoundInv
<1>4. BatchInv
  BY DEF BatchInv, Prefetching, BeforeUpdate, AfterUpdate, None
<1>5. CallsInv
  BY DEF CallsInv, ActorCallsInv, RolloutCallsInv, GenerateInv, Doing
<1>6. SyncInv
  BY DEF SyncInv, Doing
<1>7. WeightsInv
  BY DEF WeightsInv, Prefetching, BeforeUpdate, AfterUpdate, None
<1> QED
  BY <1>1, <1>2, <1>3, <1>4, <1>5, <1>6, <1>7 DEF Inv

(* No part of the invariant refers to more than the variables. *)
LEMMA StutterKeepsInv ==
    ASSUME Inv, UNCHANGED vars
    PROVE  Inv'
<1> USE DEF vars, driverVars, actorVars, rolloutVars
<1>1. TypeOK' /\ SavedOK' /\ StepInv' /\ BoundInv' /\ LastStepSaved'
  BY DEF Inv, TypeOK, SavedOK, StepInv, BoundInv, BeforeLoad, LastStepSaved
<1>2. BatchInv' /\ CallsInv'
  BY DEF Inv, BatchInv, CallsInv, ActorCallsInv, RolloutCallsInv, GenerateInv, BeforeLoad, Prefetching,
         BeforeUpdate, AfterUpdate, IsLastStep, UpdateCall, GenerateCall
<1>3. SyncInv' /\ WeightsInv'
  BY DEF Inv, SyncInv, WeightsInv, Prefetching, BeforeUpdate, AfterUpdate, Recent, FutureVersion
<1> QED
  BY <1>1, <1>2, <1>3 DEF Inv

(* The invariant holds in every behaviour, for any values of the constants. *)
THEOREM Invariance == Spec => []Inv
<1>1. Inv /\ [Next]_vars => Inv'
  <2> SUFFICES ASSUME Inv, [Next]_vars PROVE Inv'
    OBVIOUS
  <2>1. CASE Driver
    BY <2>1, CallSyncKeepsInv, SyncDoneKeepsInv, LoadCheckpointKeepsInv, CallValidateKeepsInv,
       ValidateDoneKeepsInv, NoNextBatchKeepsInv, TakeNextBatchKeepsInv, CallGenerateKeepsInv,
       GetBatchKeepsInv, NoFutureKeepsInv, CallUpdateKeepsInv, UpdateDoneKeepsInv,
       SaveAndEndStepKeepsInv DEF Driver
  <2>2. CASE Actor
    BY <2>2, SendTensorKeepsInv, UpdateActorKeepsInv DEF Actor
  <2>3. CASE Rollout
    BY <2>3, ReceiveTensorKeepsInv, GenerateKeepsInv, ValidateKeepsInv DEF Rollout
  <2>4. CASE Kill
    BY <2>4, KillKeepsInv
  <2>5. CASE UNCHANGED vars
    BY <2>5, StutterKeepsInv
  <2> QED
    BY <2>1, <2>2, <2>3, <2>4, <2>5 DEF Next
<1> QED
  BY <1>1, InitInv, PTL DEF Spec

(***************************************************************************)
(* However many tensors there are and whenever the job is killed, no       *)
(* response comes from tensors of two updates, and what is on its way      *)
(* belongs to the sync both sides are in.                                  *)
(***************************************************************************)
THEOREM SyncNeverMixes == Spec => []SyncIsAtomic
<1>1. Inv => SyncIsAtomic
  <2> SUFFICES ASSUME Inv PROVE SyncIsAtomic
    OBVIOUS
  <2>1. TypeOK /\ SyncInv
    BY DEF Inv
  <2>2. ChannelMatches
    <3> SUFFICES ASSUME channel # <<>> PROVE Doing(rollout_calls, "sync") /\ received + Len(channel) <= Tensors
      BY DEF ChannelMatches
    <3>1. /\ Doing(rollout_calls, "sync")
          /\ received + Len(channel) = IF Doing(actor_calls, "sync") THEN sent ELSE Tensors
      BY <2>1 DEF SyncInv
    <3>2. sent \in 0 .. Tensors - 1
      BY <2>1 DEF TypeOK
    <3> QED
      BY <3>1, <3>2, Constants
  <2>3. GeneratesWithOneVersion
    <3>1. Doing(rollout_calls, "generate") \/ Doing(rollout_calls, "validate") => ~ Doing(rollout_calls, "sync")
      BY DEF Doing
    <3> QED
      BY <2>1, <3>1 DEF SyncInv, GeneratesWithOneVersion
  <2> QED
    BY <2>1, <2>2, <2>3 DEF SyncIsAtomic
<1> QED
  BY <1>1, Invariance, PTL

(***************************************************************************)
(* The promise in the recipe's name, for any length of training: what the  *)
(* actor is trained on is at most one update old, and a validation         *)
(* measures weights at most one update old, two where nothing was          *)
(* prefetched.                                                             *)
(***************************************************************************)
THEOREM AlwaysOneStepOff == Spec => []WeightsAreRecent
<1>1. Inv => WeightsAreRecent
  <2> SUFFICES ASSUME Inv PROVE WeightsAreRecent
    OBVIOUS
  <2>1. TypeOK /\ BatchInv /\ WeightsInv /\ ActorCallsInv
    BY DEF Inv, CallsInv
  <2>2. OneStepOff
    <3> SUFFICES ASSUME Doing(actor_calls, "update")
                 PROVE  LET v == generated[Head(actor_calls).batch] IN v # -1 /\ v \in {actor - 1, actor}
      BY DEF OneStepOff
    <3>1. phase = "wait_update" /\ actor_calls # <<>> /\ Head(actor_calls).batch = batch
      BY <2>1, ShortQueues DEF ActorCallsInv, SyncCall, UpdateCall, Doing
    <3>2. BeforeUpdate /\ batch # None
      BY <2>1, <3>1 DEF BatchInv, BeforeUpdate
    <3> QED
      BY <2>1, <3>1, <3>2 DEF WeightsInv
  <2>3. ValidatesRecentWeights
    <3> SUFFICES ASSUME phase = "wait_validate"
                 PROVE  actor - rollout[1] <= IF IsLastStep \/ future = None THEN 2 ELSE 1
      BY DEF ValidatesRecentWeights
    <3>1. AfterUpdate
      BY DEF AfterUpdate
    <3>2. future = batch => IsLastStep
      BY <2>1, <3>1 DEF BatchInv
    <3> QED
      BY <2>1, <3>1, <3>2 DEF WeightsInv, Recent
  <2> QED
    BY <2>2, <2>3 DEF WeightsAreRecent
<1> QED
  BY <1>1, Invariance, PTL

-----------------------------------------------------------------------------
(***************************************************************************)
(* The order of the batches.  Two facts on top of Inv make                 *)
(* ResumeSkipsAtMostOne inductive: which batch is trained on next, which   *)
(* the driver may already hold or still has to take (PipelineInv), and     *)
(* that a skip is paid for by the kill before it, so that the batches of a *)
(* checkpoint leave room for the one a resume may skip (TrainedInv).       *)
(***************************************************************************)
Skipped(s)      == {i \in 2 .. Len(s) : s[i] - s[i - 1] = 2}
InOrder(s, k)   == (\A i \in 2 .. Len(s) : s[i] - s[i - 1] \in {1, 2}) /\ Cardinality(Skipped(s)) <= k
Gap(s, b)       == IF s = <<>> THEN 1 ELSE b - s[Len(s)]

\* With b as the next batch the order still holds.
Follows(s, b, k) ==
    /\ Gap(s, b) \in {1, 2}
    /\ InOrder(s, IF Gap(s, b) = 2 THEN k - 1 ELSE k)

\* The batch that is trained on next, unless the data ends before it.
UpNext == IF batch # None THEN batch ELSE IF future # None THEN future ELSE next

\* The iterator is right behind what the driver holds.
PipelineInv ==
    /\ batch # None =>
           IF future \in {None, batch} THEN next = batch + 1 ELSE future = batch + 1 /\ next = batch + 2
    /\ batch = None /\ future # None => next = future + 1
    /\ phase = "prefetch" => future = batch
    /\ BeforeLoad \/ phase \in {"val_before_train", "wait_val_before_train"} => future = None /\ batch = None

\* Once the actor is trained it is trained in every step.
WarmupInv ==
    /\ trained # <<>> => CriticWarmup <= global_steps
    /\ saved.trained # <<>> => CriticWarmup <= saved.step
    /\ BeforeLoad => trained = <<>>
    /\ phase = "wait_update" /\ actor_calls # <<>> => CriticWarmup <= global_steps

TrainedInv ==
    /\ ~ AfterUpdate /\ phase # "finished" => Follows(trained, UpNext, kills)
    /\ AfterUpdate /\ trained # <<>> => trained[Len(trained)] = batch
    /\ InOrder(trained, kills)
    /\ Follows(saved.trained, saved.next, kills + 1)
    /\ BeforeLoad => Follows(saved.trained, saved.next, kills)

OrderInv == PipelineInv /\ WarmupInv /\ TrainedInv

(* Skips are counted, and one more batch adds one if there is a gap before it. *)
LEMMA SkippedFinite ==
    ASSUME NEW s \in Seq(Nat)
    PROVE  IsFiniteSet(Skipped(s)) /\ Cardinality(Skipped(s)) \in Nat
<1>1. Len(s) \in Nat /\ IsFiniteSet(2 .. Len(s))
  BY FS_Interval
<1>2. Skipped(s) \subseteq 2 .. Len(s)
  BY DEF Skipped
<1> QED
  BY <1>1, <1>2, FS_Subset, FS_CardinalityType

LEMMA OrderMonotone ==
    ASSUME NEW s \in Seq(Nat), NEW k \in Int, InOrder(s, k)
    PROVE  InOrder(s, k + 1)
BY SkippedFinite DEF InOrder

LEMMA FollowsFacts ==
    ASSUME NEW s \in Seq(Nat), NEW b \in Int, NEW k \in Int, Follows(s, b, k)
    PROVE  InOrder(s, k) /\ Follows(s, b, k + 1)
<1>1. k - 1 \in Int /\ (k - 1) + 1 = k /\ (k + 1) - 1 = k
  OBVIOUS
<1>2. CASE Gap(s, b) = 2
  <2>1. InOrder(s, k - 1)
    BY <1>2 DEF Follows
  <2>2. InOrder(s, k)
    BY <1>1, <2>1, OrderMonotone
  <2> QED
    BY <1>1, <1>2, <2>2 DEF Follows
<1>3. CASE Gap(s, b) # 2
  <2>1. InOrder(s, k) /\ Gap(s, b) \in {1, 2}
    BY <1>3 DEF Follows
  <2>2. InOrder(s, k + 1)
    BY <2>1, OrderMonotone
  <2> QED
    BY <1>3, <2>1, <2>2 DEF Follows
<1> QED
  BY <1>2, <1>3

LEMMA RoomForSkip ==
    ASSUME NEW s \in Seq(Nat), NEW b \in Int, NEW k \in Int, InOrder(s, k), Gap(s, b) \in {1, 2}
    PROVE  Follows(s, b, k + 1) /\ (Gap(s, b) = 1 => Follows(s, b, k))
<1>1. InOrder(s, k + 1) /\ (k + 1) - 1 = k
  BY OrderMonotone
<1> QED
  BY <1>1 DEF Follows

LEMMA AppendKeepsOrder ==
    ASSUME NEW s \in Seq(Nat), NEW b \in Nat, NEW k \in Int, Follows(s, b, k)
    PROVE  InOrder(Append(s, b), k)
<1> DEFINE n == Len(s)
           t == Append(s, b)
<1>1. n \in Nat /\ t \in Seq(Nat) /\ Len(t) = n + 1 /\ t[n + 1] = b /\ \A i \in 1 .. n : t[i] = s[i]
  OBVIOUS
<1> HIDE DEF t
<1>2. \A i \in 2 .. n : i \in 1 .. n /\ i - 1 \in 1 .. n
  BY <1>1
<1>3. \A i \in 2 .. n : t[i] - t[i - 1] = s[i] - s[i - 1]
  BY <1>1, <1>2
<1>4. \A i \in 2 .. n : s[i] - s[i - 1] \in {1, 2}
  BY DEF Follows, InOrder
<1>5. CASE n = 0
  <2>1. 2 .. n + 1 = {}
    BY <1>5
  <2>2. Skipped(t) = {} /\ s = <<>>
    BY <1>1, <1>5, <2>1 DEF Skipped
  <2>3. Cardinality({}) = 0 /\ Cardinality(Skipped(s)) \in Nat
    BY FS_EmptySet, SkippedFinite
  <2>4. Gap(s, b) = 1
    BY <2>2 DEF Gap
  <2>5. Cardinality(Skipped(s)) <= k
    BY <2>4 DEF Follows, InOrder
  <2> QED
    BY <1>1, <2>1, <2>2, <2>3, <2>5 DEF InOrder, t
<1>6. CASE n # 0
  <2>1. Gap(s, b) = b - s[n] /\ b - s[n] \in {1, 2}
    BY <1>1, <1>6 DEF Gap, Follows
  <2>2. t[n + 1] - t[(n + 1) - 1] = b - s[n]
    <3>1. n \in 1 .. n /\ (n + 1) - 1 = n
      BY <1>1, <1>6
    <3>2. t[n] = s[n] /\ t[n + 1] = b
      BY <1>1, <3>1
    <3> QED
      BY <3>1, <3>2
  <2>3. \A i \in 2 .. n + 1 : i \in 2 .. n \/ i = n + 1
    BY <1>1
  <2>4. \A i \in 2 .. n + 1 : t[i] - t[i - 1] \in {1, 2}
    BY <1>3, <1>4, <2>1, <2>2, <2>3
  <2>5. 2 .. n \subseteq 2 .. n + 1 /\ n + 1 \in 2 .. n + 1 /\ n + 1 \notin 2 .. n
    BY <1>1, <1>6
  <2>6. IsFiniteSet(Skipped(s)) /\ Cardinality(Skipped(s)) \in Nat /\ n + 1 \notin Skipped(s)
    BY <2>5, SkippedFinite DEF Skipped
  <2>7. CASE Gap(s, b) = 2
    <3>1. Skipped(t) = Skipped(s) \cup {n + 1}
      BY <1>1, <1>3, <2>1, <2>2, <2>3, <2>5, <2>7 DEF Skipped
    <3>2. Cardinality(Skipped(t)) = Cardinality(Skipped(s)) + 1
      BY <2>6, <3>1, FS_AddElement
    <3>3. Cardinality(Skipped(s)) <= k - 1
      BY <2>7 DEF Follows, InOrder
    <3>4. Cardinality(Skipped(t)) <= k
      BY <2>6, <3>2, <3>3
    <3>5. InOrder(t, k)
      BY <1>1, <2>4, <3>4 DEF InOrder
    <3> QED
      BY <3>5 DEF t
  <2>8. CASE Gap(s, b) # 2
    <3>1. Skipped(t) = Skipped(s)
      BY <1>1, <1>3, <2>1, <2>2, <2>3, <2>5, <2>8 DEF Skipped
    <3>2. Cardinality(Skipped(s)) <= k
      BY <2>8 DEF Follows, InOrder
    <3> QED
      BY <1>1, <2>4, <3>1, <3>2 DEF InOrder, t
  <2> QED
    BY <2>7, <2>8
<1> QED
  BY <1>1, <1>5, <1>6

(* What the proofs use of the types. *)
LEMMA OrderTypes ==
    ASSUME Inv
    PROVE  /\ trained \in Seq(Nat) /\ saved.trained \in Seq(Nat)
           /\ {batch, future, kills, global_steps, saved.step} \subseteq Nat /\ {next, saved.next} \subseteq Nat \ {0}
<1>1. trained \in Seq(1 .. NumBatches) /\ saved.trained \in Seq(1 .. NumBatches)
  BY DEF Inv, TypeOK, SavedOK
<1>2. 1 .. NumBatches \subseteq Nat
  OBVIOUS
<1>3. trained \in Seq(Nat) /\ saved.trained \in Seq(Nat)
  BY <1>1, <1>2, SeqMonotonic
<1> QED
  BY <1>3, Constants, NumBatchesIsNat DEF Inv, TypeOK, SavedOK

(* A step of which the driver keeps what it holds and stays before the update, or after it. *)
LEMMA HoldingKeepsOrder ==
    ASSUME Inv, OrderInv,
           UNCHANGED <<global_steps, next, future, batch, trained, saved, kills>>,
           BeforeLoad' => BeforeLoad,
           AfterUpdate' <=> AfterUpdate,
           phase' = "finished" <=> phase = "finished",
           phase' = "prefetch" => phase = "prefetch" \/ (future = batch),
           phase' \in {"val_before_train", "wait_val_before_train"} => future = None /\ batch = None,
           phase' = "wait_update" /\ actor_calls' # <<>> => CriticWarmup <= global_steps
    PROVE  OrderInv'
<1>1. PipelineInv'
  BY DEF OrderInv, PipelineInv
<1>2. WarmupInv'
  BY DEF OrderInv, WarmupInv
<1>3. UpNext' = UpNext
  BY DEF UpNext
<1>4. TrainedInv'
  BY <1>3 DEF OrderInv, TrainedInv
<1> QED
  BY <1>1, <1>2, <1>4 DEF OrderInv

(* The steps of a worker on a call that is not an update, and most of the driver's. *)
LEMMA CallsKeepOrder ==
    ASSUME Inv, OrderInv,
           CallSync \/ SyncDone \/ CallValidate \/ ValidateDone \/ CallGenerate
    PROVE  OrderInv'
<1> USE DEF Goto, driverVars, actorVars, rolloutVars
<1>1. CASE CallSync
  <2>1. (BeforeLoad' <=> BeforeLoad) /\ ~ AfterUpdate' /\ ~ AfterUpdate
    BY <1>1 DEF CallSync, BeforeLoad, AfterUpdate
  <2> QED
    BY <1>1, <2>1, HoldingKeepsOrder DEF CallSync
<1>2. CASE SyncDone
  <2>1. after_sync \in {"load", "call_generate"}
    BY DEF Inv, TypeOK
  <2>2. (BeforeLoad' => BeforeLoad) /\ ~ AfterUpdate' /\ ~ AfterUpdate
    BY <1>2, <2>1 DEF SyncDone, BeforeLoad, AfterUpdate
  <2> QED
    BY <1>2, <2>1, <2>2, HoldingKeepsOrder DEF SyncDone
<1>3. CASE CallValidate
  <2>1. ~ BeforeLoad' /\ (AfterUpdate' <=> AfterUpdate)
    BY <1>3 DEF CallValidate, BeforeLoad, AfterUpdate
  <2>2. phase = "val_before_train" => future = None /\ batch = None
    BY DEF OrderInv, PipelineInv
  <2> QED
    BY <1>3, <2>1, <2>2, HoldingKeepsOrder DEF CallValidate
<1>4. CASE ValidateDone
  <2>1. ~ BeforeLoad' /\ (AfterUpdate' <=> AfterUpdate)
    BY <1>4 DEF ValidateDone, BeforeLoad, AfterUpdate
  <2>2. phase = "wait_val_before_train" => future = None /\ batch = None
    BY DEF OrderInv, PipelineInv
  <2> QED
    BY <1>4, <2>1, <2>2, HoldingKeepsOrder DEF ValidateDone
<1>5. CASE CallGenerate
  <2>1. phase' \in {"loop", "train"}
    BY <1>5 DEF CallGenerate, AfterPrefetch
  <2>2. ~ BeforeLoad' /\ ~ AfterUpdate' /\ ~ AfterUpdate
    BY <1>5, <2>1 DEF CallGenerate, BeforeLoad, AfterUpdate
  <2> QED
    BY <1>5, <2>1, <2>2, HoldingKeepsOrder DEF CallGenerate
<1> QED
  BY <1>1, <1>2, <1>3, <1>4, <1>5

LEMMA WorkersKeepOrder ==
    ASSUME Inv, OrderInv,
           SendTensor \/ Rollout \/ UNCHANGED vars
    PROVE  OrderInv'
<1>1. UNCHANGED <<driverVars, trained, saved, kills>>
  BY DEF SendTensor, Rollout, ReceiveTensor, Generate, Validate, vars, actorVars
<1>2. phase = "wait_update" => UNCHANGED actor_calls
  <2>1. CASE SendTensor
    BY <2>1, ShortQueues DEF SendTensor, Doing, Inv, CallsInv, ActorCallsInv, UpdateCall
  <2>2. CASE Rollout \/ UNCHANGED vars
    BY <2>2 DEF Rollout, ReceiveTensor, Generate, Validate, vars
  <2> QED
    BY <2>1, <2>2
<1>3. BeforeLoad' = BeforeLoad
  BY <1>1 DEF BeforeLoad, driverVars
<1>4. AfterUpdate' = AfterUpdate
  BY <1>1, <1>2 DEF AfterUpdate, driverVars
<1>5. /\ phase = "prefetch" => future = batch
      /\ phase \in {"val_before_train", "wait_val_before_train"} => future = None /\ batch = None
      /\ phase = "wait_update" /\ actor_calls # <<>> => CriticWarmup <= global_steps
  BY DEF OrderInv, PipelineInv, WarmupInv
<1> QED
  BY <1>1, <1>2, <1>3, <1>4, <1>5, HoldingKeepsOrder DEF driverVars

(* A launch goes on where the checkpoint's iterator was, and the kill pays for what it skips. *)
LEMMA LoadCheckpointKeepsOrder ==
    ASSUME Inv, OrderInv, LoadCheckpoint
    PROVE  OrderInv'
<1> USE DEF LoadCheckpoint, Goto, rolloutVars
<1>1. /\ BeforeLoad /\ future = None /\ batch = None /\ phase' \in {"val_before_train", "prefetch"}
      /\ Follows(saved.trained, saved.next, kills) /\ Follows(saved.trained, saved.next, kills + 1)
      /\ saved.trained # <<>> => CriticWarmup <= saved.step
  BY DEF OrderInv, PipelineInv, WarmupInv, TrainedInv, BeforeLoad
<1>2. ~ BeforeLoad' /\ ~ AfterUpdate' /\ actor_calls' = <<>>
  BY <1>1 DEF BeforeLoad, AfterUpdate, ActorDone
<1>3. PipelineInv'
  BY <1>1, <1>2 DEF PipelineInv
<1>4. WarmupInv'
  BY <1>1, <1>2, OrderTypes, Constants DEF WarmupInv
<1>5. UpNext' = saved.next /\ trained' = saved.trained /\ saved' = saved /\ kills' = kills
  BY <1>1 DEF UpNext
<1>6. InOrder(saved.trained, kills)
  BY <1>1, OrderTypes, FollowsFacts
<1>7. TrainedInv'
  BY <1>1, <1>2, <1>5, <1>6 DEF TrainedInv
<1> QED
  BY <1>3, <1>4, <1>7 DEF OrderInv

LEMMA NoNextBatchKeepsOrder ==
    ASSUME Inv, OrderInv, NoNextBatch
    PROVE  OrderInv'
<1> USE DEF NoNextBatch, Goto, actorVars, rolloutVars
<1>1. /\ phase' \in {"loop", "train"} /\ future = batch /\ future' = None
      /\ UNCHANGED <<global_steps, next, batch, trained, saved, kills>>
  BY DEF AfterPrefetch, OrderInv, PipelineInv
<1>2. ~ BeforeLoad' /\ ~ AfterUpdate' /\ ~ AfterUpdate /\ phase # "finished"
  BY <1>1 DEF BeforeLoad, AfterUpdate
<1>3. PipelineInv'
  BY <1>1, <1>2 DEF OrderInv, PipelineInv
<1>4. WarmupInv'
  BY <1>1, <1>2 DEF OrderInv, WarmupInv
<1>5. UpNext' = UpNext
  BY <1>1 DEF UpNext
<1>6. TrainedInv'
  BY <1>1, <1>2, <1>5 DEF OrderInv, TrainedInv
<1> QED
  BY <1>3, <1>4, <1>6 DEF OrderInv

LEMMA TakeNextBatchKeepsOrder ==
    ASSUME Inv, OrderInv, TakeNextBatch
    PROVE  OrderInv'
<1> USE DEF TakeNextBatch, Goto, actorVars, rolloutVars
<1>1. /\ phase' = "sync" /\ after_sync' = "call_generate" /\ future = batch
      /\ future' = next /\ next' = next + 1 /\ UNCHANGED <<global_steps, batch, trained, saved, kills>>
  BY DEF OrderInv, PipelineInv
<1>2. ~ BeforeLoad' /\ ~ AfterUpdate' /\ ~ AfterUpdate /\ phase # "finished"
  BY <1>1 DEF BeforeLoad, AfterUpdate
<1>3. next \in Nat \ {0} /\ batch \in Nat /\ (batch # None => next = batch + 1)
  BY <1>1, OrderTypes DEF OrderInv, PipelineInv
<1>4. PipelineInv'
  BY <1>1, <1>2, <1>3 DEF PipelineInv, None
<1>5. WarmupInv'
  BY <1>1, <1>2 DEF OrderInv, WarmupInv
<1>6. UpNext' = UpNext
  BY <1>1, <1>3 DEF UpNext, None
<1>7. TrainedInv'
  BY <1>1, <1>2, <1>6 DEF OrderInv, TrainedInv
<1> QED
  BY <1>4, <1>5, <1>7 DEF OrderInv

LEMMA GetBatchKeepsOrder ==
    ASSUME Inv, OrderInv, GetBatch
    PROVE  OrderInv'
<1> USE DEF GetBatch, Goto, actorVars, rolloutVars
<1>1. /\ phase = "loop" /\ phase' \in {"train", "prefetch"} /\ batch = None /\ future # None /\ batch' = future
      /\ UNCHANGED <<global_steps, next, future, trained, saved, kills>> /\ next = future + 1
  BY DEF Inv, BatchInv, OrderInv, PipelineInv
<1>2. ~ BeforeLoad' /\ ~ AfterUpdate' /\ ~ AfterUpdate
  BY <1>1 DEF BeforeLoad, AfterUpdate
<1>3. PipelineInv'
  BY <1>1, <1>2 DEF PipelineInv
<1>4. WarmupInv'
  BY <1>1, <1>2 DEF OrderInv, WarmupInv
<1>5. UpNext' = UpNext
  BY <1>1 DEF UpNext
<1>6. TrainedInv'
  BY <1>1, <1>2, <1>5 DEF OrderInv, TrainedInv
<1> QED
  BY <1>3, <1>4, <1>6 DEF OrderInv

LEMMA NoFutureKeepsOrder ==
    ASSUME Inv, OrderInv, NoFuture
    PROVE  OrderInv'
<1> USE DEF NoFuture, Goto, actorVars, rolloutVars
<1>1. phase' = "finished" /\ UNCHANGED <<global_steps, next, future, batch, trained, saved, kills>>
  OBVIOUS
<1>2. ~ BeforeLoad' /\ ~ AfterUpdate'
  BY <1>1 DEF BeforeLoad, AfterUpdate
<1>3. PipelineInv' /\ WarmupInv'
  BY <1>1, <1>2 DEF OrderInv, PipelineInv, WarmupInv
<1>4. TrainedInv'
  BY <1>1, <1>2 DEF OrderInv, TrainedInv
<1> QED
  BY <1>3, <1>4 DEF OrderInv

(* Before critic_warmup the step is over without an update of the actor. *)
LEMMA CallUpdateKeepsOrder ==
    ASSUME Inv, OrderInv, CallUpdate
    PROVE  OrderInv'
<1> USE DEF CallUpdate, Goto, actorVars, rolloutVars
<1>1. /\ phase = "train" /\ phase' = "wait_update"
      /\ UNCHANGED <<global_steps, next, future, batch, trained, saved, kills>>
  OBVIOUS
<1>2. actor_calls = <<>>
  BY <1>1 DEF Inv, CallsInv, ActorCallsInv
<1>3. ~ BeforeLoad' /\ ~ AfterUpdate
  BY <1>1 DEF BeforeLoad, AfterUpdate
<1>4. AfterUpdate' => trained = <<>>
  <2>1. CriticWarmup <= global_steps => actor_calls' # <<>>
    BY <1>2, ShortQueues
  <2>2. AfterUpdate' => ~ CriticWarmup <= global_steps
    BY <1>1, <2>1 DEF AfterUpdate
  <2> QED
    BY <2>2 DEF OrderInv, WarmupInv
<1>5. PipelineInv'
  BY <1>1, <1>3 DEF OrderInv, PipelineInv
<1>6. WarmupInv'
  BY <1>1, <1>2, <1>3 DEF OrderInv, WarmupInv
<1>7. UpNext' = UpNext
  BY <1>1 DEF UpNext
<1>8. TrainedInv'
  BY <1>1, <1>3, <1>4, <1>7 DEF OrderInv, TrainedInv
<1> QED
  BY <1>5, <1>6, <1>8 DEF OrderInv

LEMMA UpdateDoneKeepsOrder ==
    ASSUME Inv, OrderInv, UpdateDone
    PROVE  OrderInv'
<1> USE DEF UpdateDone, Goto, actorVars, rolloutVars
<1>1. ~ BeforeLoad' /\ AfterUpdate' /\ AfterUpdate
  BY DEF BeforeLoad, AfterUpdate, ActorDone
<1> QED
  BY <1>1, HoldingKeepsOrder

(* The checkpoint's iterator is one or two batches behind the last it has trained on. *)
LEMMA SaveAndEndStepKeepsOrder ==
    ASSUME Inv, OrderInv, SaveAndEndStep
    PROVE  OrderInv'
<1> USE DEF SaveAndEndStep, Goto, actorVars, rolloutVars
<1> DEFINE last == trained[Len(trained)]
<1>1. /\ phase = "save" /\ AfterUpdate /\ batch' = None /\ phase' = IF IsLastStep THEN "finished" ELSE "loop"
      /\ UNCHANGED <<next, future, trained, kills>> /\ global_steps' = global_steps + 1
  BY DEF AfterUpdate
<1>2. ~ BeforeLoad' /\ ~ AfterUpdate' /\ ~ BeforeLoad
  BY <1>1 DEF BeforeLoad, AfterUpdate
<1>3. /\ batch # None /\ batch \in Nat /\ next \in Nat /\ future \in Nat /\ (future = batch => IsLastStep)
      /\ global_steps \in Nat /\ kills \in Nat /\ trained \in Seq(Nat) /\ CriticWarmup \in Nat
  BY <1>1, OrderTypes, Constants DEF Inv, BatchInv
<1>4. /\ IF future \in {None, batch} THEN next = batch + 1 ELSE future = batch + 1 /\ next = batch + 2
      /\ trained # <<>> => last = batch
      /\ InOrder(trained, kills)
  BY <1>1, <1>3 DEF OrderInv, PipelineInv, TrainedInv
<1> HIDE DEF last
<1>5. Gap(trained, next) \in {1, 2} /\ Gap(trained, batch + 1) = 1
  BY <1>3, <1>4 DEF Gap, last
<1>6. Follows(trained, next, kills + 1) /\ Follows(trained, batch + 1, kills)
  <2>1. next \in Int /\ batch + 1 \in Int /\ kills \in Int /\ Gap(trained, batch + 1) \in {1, 2}
    BY <1>3, <1>5
  <2>2. Follows(trained, next, kills + 1)
    BY <1>3, <1>4, <1>5, <2>1, RoomForSkip
  <2>3. Follows(trained, batch + 1, kills)
    BY <1>3, <1>4, <1>5, <2>1, RoomForSkip
  <2> QED
    BY <2>2, <2>3
<1>7. PipelineInv'
  BY <1>1, <1>2, <1>3, <1>4 DEF PipelineInv, None
<1>8. WarmupInv'
  <2>1. saved' = saved \/ (saved'.trained = trained /\ saved'.step = global_steps)
    OBVIOUS
  <2> QED
    BY <1>1, <1>2, <1>3, <2>1 DEF OrderInv, WarmupInv
<1>9. saved' = saved \/ (saved'.trained = trained /\ saved'.next = next)
  OBVIOUS
<1>10. Follows(saved'.trained, saved'.next, kills' + 1)
  BY <1>1, <1>6, <1>9 DEF OrderInv, TrainedInv
<1>11. phase' # "finished" => UpNext' = batch + 1
  BY <1>1, <1>3, <1>4 DEF UpNext, None
<1>12. TrainedInv'
  BY <1>1, <1>2, <1>4, <1>6, <1>10, <1>11 DEF TrainedInv
<1> QED
  BY <1>7, <1>8, <1>12 DEF OrderInv

LEMMA UpdateActorKeepsOrder ==
    ASSUME Inv, OrderInv, UpdateActor
    PROVE  OrderInv'
<1> USE DEF UpdateActor, driverVars, rolloutVars
<1>1. /\ phase = "wait_update" /\ actor_calls = <<UpdateCall>> /\ actor_calls' = <<>>
      /\ Head(actor_calls).batch = batch
  <2>1. actor_calls # <<>> /\ Head(actor_calls).op = "update"
    BY DEF Doing
  <2>2. actor_calls # <<SyncCall>>
    BY <2>1, ShortQueues DEF SyncCall
  <2>3. phase = "wait_update" /\ actor_calls = <<UpdateCall>>
    BY <2>1, <2>2 DEF Inv, CallsInv, ActorCallsInv
  <2>4. Head(<<UpdateCall>>) = UpdateCall /\ Tail(<<UpdateCall>>) = <<>>
    BY ShortQueues
  <2>5. UpdateCall.batch = batch
    BY DEF UpdateCall
  <2>. HIDE DEF UpdateActor
  <2>6. actor_calls' = Tail(actor_calls)
    BY DEF UpdateActor
  <2> QED
    BY <2>3, <2>4, <2>5, <2>6
<1>2. /\ UNCHANGED <<phase, global_steps, next, future, batch, saved, kills, after_sync>>
      /\ trained' = Append(trained, batch)
  BY <1>1
<1>3. ~ BeforeLoad' /\ AfterUpdate' /\ ~ AfterUpdate /\ BeforeUpdate /\ actor_calls # <<>> /\ ~ BeforeLoad
  BY <1>1, <1>2, ShortQueues DEF BeforeLoad, AfterUpdate, BeforeUpdate
<1>4. batch # None /\ UpNext = batch /\ trained \in Seq(Nat) /\ batch \in Nat /\ kills \in Int
  BY <1>3, OrderTypes DEF Inv, BatchInv, UpNext
<1>5. Follows(trained, batch, kills)
  BY <1>1, <1>3, <1>4 DEF OrderInv, TrainedInv
<1>6. InOrder(trained', kills)
  BY <1>2, <1>4, <1>5, AppendKeepsOrder
<1>7. trained'[Len(trained')] = batch
  BY <1>2, <1>4
<1>8. PipelineInv'
  BY <1>1, <1>2, <1>3 DEF OrderInv, PipelineInv
<1>9. WarmupInv'
  BY <1>1, <1>2, <1>3 DEF OrderInv, WarmupInv
<1>10. TrainedInv'
  BY <1>2, <1>3, <1>6, <1>7 DEF OrderInv, TrainedInv
<1> QED
  BY <1>8, <1>9, <1>10 DEF OrderInv

LEMMA EmptyInOrder ==
    ASSUME NEW b \in Int, NEW k \in Nat
    PROVE  InOrder(<<>>, k) /\ Follows(<<>>, b, k)
<1>1. 2 .. Len(<<>>) = {}
  OBVIOUS
<1>2. Skipped(<<>>) = {} /\ Cardinality({}) = 0
  BY <1>1, FS_EmptySet DEF Skipped
<1>3. InOrder(<<>>, k)
  BY <1>1, <1>2 DEF InOrder
<1> QED
  BY <1>3 DEF Follows, Gap

LEMMA KillKeepsOrder ==
    ASSUME Inv, OrderInv, Kill
    PROVE  OrderInv'
<1>1. /\ phase' = "sync" /\ after_sync' = "load" /\ future' = None /\ batch' = None /\ trained' = <<>>
      /\ next' = 1 /\ kills' = kills + 1 /\ saved' = saved /\ kills \in Nat /\ saved.trained \in Seq(Nat)
      /\ saved.next \in Nat
  BY OrderTypes DEF Kill
<1>2. BeforeLoad' /\ ~ AfterUpdate' /\ UpNext' = 1
  BY <1>1 DEF BeforeLoad, AfterUpdate, UpNext
<1>3. PipelineInv'
  BY <1>1 DEF PipelineInv
<1>4. WarmupInv'
  BY <1>1 DEF OrderInv, WarmupInv
<1>5. InOrder(<<>>, kills') /\ Follows(<<>>, 1, kills')
  BY <1>1, EmptyInOrder
<1>6. Follows(saved.trained, saved.next, kills + 1)
  BY DEF OrderInv, TrainedInv
<1>7. Follows(saved.trained, saved.next, (kills + 1) + 1)
  BY <1>1, <1>6, FollowsFacts
<1>8. TrainedInv'
  BY <1>1, <1>2, <1>5, <1>6, <1>7 DEF TrainedInv
<1> QED
  BY <1>3, <1>4, <1>8 DEF OrderInv

LEMMA InitOrder == Init => OrderInv
<1> SUFFICES ASSUME Init PROVE OrderInv
  OBVIOUS
<1>1. /\ phase = "sync" /\ after_sync = "load" /\ future = None /\ batch = None /\ trained = <<>>
      /\ next = 1 /\ kills = 0 /\ saved.trained = <<>> /\ saved.next = 1
  BY DEF Init, NoCheckpoint
<1>2. BeforeLoad /\ ~ AfterUpdate /\ UpNext = 1
  BY <1>1 DEF BeforeLoad, AfterUpdate, UpNext
<1>3. InOrder(<<>>, 0) /\ Follows(<<>>, 1, 0) /\ Follows(<<>>, 1, 1)
  BY EmptyInOrder
<1>4. PipelineInv /\ WarmupInv
  BY <1>1 DEF PipelineInv, WarmupInv
<1>5. TrainedInv
  <2>1. 0 + 1 = 1
    OBVIOUS
  <2> QED
    BY <1>1, <1>2, <1>3, <2>1 DEF TrainedInv
<1> QED
  BY <1>4, <1>5 DEF OrderInv

LEMMA NextKeepsOrder == Inv /\ OrderInv /\ [Next]_vars => OrderInv'
<1> SUFFICES ASSUME Inv, OrderInv, [Next]_vars PROVE OrderInv'
  OBVIOUS
<1>1. CASE Driver
  BY <1>1, CallsKeepOrder, LoadCheckpointKeepsOrder, NoNextBatchKeepsOrder, TakeNextBatchKeepsOrder,
     GetBatchKeepsOrder, NoFutureKeepsOrder, CallUpdateKeepsOrder, UpdateDoneKeepsOrder,
     SaveAndEndStepKeepsOrder DEF Driver
<1>2. CASE Actor
  BY <1>2, WorkersKeepOrder, UpdateActorKeepsOrder DEF Actor
<1>3. CASE Rollout \/ UNCHANGED vars
  BY <1>3, WorkersKeepOrder
<1>4. CASE Kill
  BY <1>4, KillKeepsOrder
<1> QED
  BY <1>1, <1>2, <1>3, <1>4 DEF Next

(***************************************************************************)
(* The actor is trained on the batches in their order and on none twice,   *)
(* however often the job is killed and resumed, and each resume skips at   *)
(* most one batch.                                                         *)
(***************************************************************************)
THEOREM ResumesSkipOneEach == Spec => []ResumeSkipsAtMostOne
<1>1. OrderInv => ResumeSkipsAtMostOne
  BY DEF OrderInv, TrainedInv, InOrder, Skipped, ResumeSkipsAtMostOne
<1> QED
  BY <1>1, NextKeepsOrder, InitOrder, Invariance, PTL DEF Spec

-----------------------------------------------------------------------------
(***************************************************************************)
(* How a launch ends.  The batch behind the iterator is the one in hand    *)
(* (PipelineInv) and, after the update, the last one trained on            *)
(* (TrainedInv); what is added here is that nothing is in hand or          *)
(* generated before the first batch, and that at a last step nothing was   *)
(* prefetched.                                                             *)
(***************************************************************************)
Fresh == phase \in {"val_before_train", "wait_val_before_train"} \/ (phase = "prefetch" /\ batch = None)

Generated == \E b \in 1 .. NumBatches : generated[b] # -1

AllTrained ==
    CriticWarmup < global_steps => trained # <<>> /\ trained[Len(trained)] = next - 1

FinishInv ==
    /\ Fresh => ~ Generated
    /\ batch # None /\ (phase = "prefetch" \/ Prefetching) => ~ IsLastStep
    /\ (BeforeUpdate \/ AfterUpdate) /\ IsLastStep => future = batch
    /\ AfterUpdate /\ CriticWarmup <= global_steps => trained # <<>>
    /\ phase = "loop" => batch = None /\ (future = None /\ Generated => AllTrained)
    /\ phase = "finished" => (future # None \/ Generated => AllTrained)

LEMMA DriverKeepsFinish ==
    ASSUME Inv, OrderInv, FinishInv, Driver
    PROVE  FinishInv'
<1> USE DEF Goto, driverVars, actorVars, rolloutVars
<1>1. CASE CallSync \/ SyncDone \/ CallValidate \/ ValidateDone \/ CallGenerate
  <2>1. UNCHANGED <<global_steps, next, future, batch, trained, generated>>
    BY <1>1 DEF CallSync, SyncDone, CallValidate, ValidateDone, CallGenerate
  <2>2. after_sync \in {"load", "call_generate"}
    BY DEF Inv, TypeOK
  <2>3. CASE CallSync \/ SyncDone
    BY <2>1, <2>2, <2>3 DEF CallSync, SyncDone, FinishInv, Fresh, Generated, AllTrained, Prefetching,
       BeforeUpdate, AfterUpdate, IsLastStep
  <2>4. CASE CallValidate
    BY <2>1, <2>4 DEF CallValidate, FinishInv, Fresh, Generated, AllTrained, Prefetching,
       BeforeUpdate, AfterUpdate, IsLastStep
  <2>5. CASE ValidateDone
    BY <2>1, <2>5 DEF ValidateDone, FinishInv, Fresh, Generated, AllTrained, Prefetching,
       BeforeUpdate, AfterUpdate, IsLastStep, OrderInv, PipelineInv
  <2>6. CASE CallGenerate
    <3>1. future # None
      BY <2>6 DEF CallGenerate, Inv, BatchInv, Prefetching
    <3> QED
      BY <2>1, <2>6, <3>1 DEF CallGenerate, AfterPrefetch, FinishInv, Fresh, Generated, AllTrained,
         Prefetching, BeforeUpdate, AfterUpdate, IsLastStep
  <2> QED
    BY <1>1, <2>3, <2>4, <2>5, <2>6
<1>2. CASE LoadCheckpoint
  <2>1. BeforeLoad /\ batch = None /\ future = None /\ next = 1
    BY <1>2 DEF LoadCheckpoint, BeforeLoad, OrderInv, PipelineInv, Inv, BatchInv
  <2>2. ~ Generated
    BY <2>1 DEF Inv, BatchInv, Generated
  <2> QED
    BY <1>2, <2>1, <2>2 DEF LoadCheckpoint, FinishInv, Fresh, Generated, Prefetching, BeforeUpdate,
       AfterUpdate
<1>3. CASE NoNextBatch
  BY <1>3 DEF NoNextBatch, AfterPrefetch, FinishInv, Fresh, Generated, Prefetching, BeforeUpdate,
     AfterUpdate, IsLastStep
<1>4. CASE TakeNextBatch
  BY <1>4 DEF TakeNextBatch, FinishInv, Fresh, Prefetching, BeforeUpdate, AfterUpdate, IsLastStep
<1>5. CASE GetBatch
  <2>1. batch' = future /\ future' = future /\ future # None /\ UNCHANGED global_steps
    BY <1>5 DEF GetBatch
  <2>2. phase' = IF IsLastStep THEN "train" ELSE "prefetch"
    BY <1>5 DEF GetBatch
  <2> QED
    BY <2>1, <2>2 DEF FinishInv, Fresh, Prefetching, BeforeUpdate, AfterUpdate, IsLastStep
<1>6. CASE NoFuture
  BY <1>6 DEF NoFuture, FinishInv, Fresh, Generated, AllTrained, Prefetching, BeforeUpdate, AfterUpdate
<1>7. CASE CallUpdate
  <2>1. phase = "train" /\ phase' = "wait_update" /\ actor_calls = <<>>
    BY <1>7 DEF CallUpdate, Inv, CallsInv, ActorCallsInv
  <2>2. AfterUpdate' => ~ (CriticWarmup <= global_steps)
    BY <1>7, <2>1, ShortQueues DEF CallUpdate, AfterUpdate
  <2> QED
    BY <1>7, <2>1, <2>2 DEF CallUpdate, FinishInv, Fresh, Prefetching, BeforeUpdate, AfterUpdate,
       IsLastStep
<1>8. CASE UpdateDone
  <2>1. AfterUpdate /\ AfterUpdate' /\ ~ BeforeUpdate'
    BY <1>8 DEF UpdateDone, ActorDone, BeforeUpdate, AfterUpdate
  <2>2. phase' \in {"validate", "save"}
    BY <1>8 DEF UpdateDone
  <2> QED
    BY <1>8, <2>1, <2>2 DEF UpdateDone, FinishInv, Fresh, Prefetching, IsLastStep
<1>9. CASE SaveAndEndStep
  <2>1. AfterUpdate /\ batch # None /\ phase' = IF IsLastStep THEN "finished" ELSE "loop"
    BY <1>9 DEF SaveAndEndStep, AfterUpdate, Inv, BatchInv
  <2>2. /\ batch' = None /\ UNCHANGED <<next, future, trained, generated>>
        /\ global_steps' = global_steps + 1
    BY <1>9 DEF SaveAndEndStep
  <2>3. global_steps \in Nat /\ next \in Nat /\ CriticWarmup \in Nat /\ batch \in Nat
    BY OrderTypes, Constants
  <2>4. CriticWarmup < global_steps' => trained # <<>> /\ trained[Len(trained)] = batch
    BY <2>1, <2>2, <2>3 DEF FinishInv, OrderInv, TrainedInv
  <2>5. future \in {None, batch} => next - 1 = batch
    BY <2>1, <2>3 DEF OrderInv, PipelineInv
  <2>6. future \in {None, batch} => AllTrained'
    BY <2>2, <2>4, <2>5 DEF AllTrained
  <2>7. IsLastStep => future = batch
    BY <2>1 DEF FinishInv
  <2> QED
    BY <2>1, <2>2, <2>6, <2>7 DEF FinishInv, Fresh, Prefetching, BeforeUpdate, AfterUpdate, Generated
<1> QED
  BY <1>1, <1>2, <1>3, <1>4, <1>5, <1>6, <1>7, <1>8, <1>9 DEF Driver

\* Only while a future is waited for is something generated.
LEMMA WorkersKeepFinish ==
    ASSUME Inv, OrderInv, FinishInv, Actor \/ Rollout \/ UNCHANGED vars
    PROVE  FinishInv'
<1>1. CASE UpdateActor
  <2>1. phase = "wait_update" /\ phase' = "wait_update" /\ actor_calls # <<>>
    BY <1>1 DEF UpdateActor, Doing, driverVars, Inv, CallsInv, ActorCallsInv, SyncCall
  <2>2. trained \in Seq(Nat) /\ trained' # <<>>
    <3>1. trained \in Seq(Nat) /\ trained' = Append(trained, Head(actor_calls).batch)
      BY <1>1, OrderTypes DEF UpdateActor
    <3> QED
      BY <3>1
  <2>3. BeforeUpdate
    BY <2>1 DEF BeforeUpdate
  <2> QED
    BY <1>1, <2>1, <2>2, <2>3 DEF UpdateActor, driverVars, FinishInv, Fresh, Prefetching, IsLastStep
<1>2. CASE SendTensor \/ ReceiveTensor \/ Validate \/ UNCHANGED vars
  <2>1. UNCHANGED <<phase, after_sync, global_steps, next, future, batch, trained, generated>>
    BY <1>2 DEF SendTensor, ReceiveTensor, Validate, vars, driverVars, actorVars, rolloutVars
  <2>2. phase = "wait_update" => UNCHANGED actor_calls
    BY <1>2, ShortQueues DEF SendTensor, ReceiveTensor, Validate, vars, Doing, Inv, CallsInv,
       ActorCallsInv, UpdateCall
  <2> QED
    BY <2>1, <2>2 DEF FinishInv, Fresh, Generated, AllTrained, Prefetching, BeforeUpdate,
       AfterUpdate, IsLastStep
<1>3. CASE Generate
  <2>1. UNCHANGED <<phase, after_sync, global_steps, next, future, batch, trained, actor_calls>>
    BY <1>3 DEF Generate, driverVars, actorVars
  <2>2. future # None
    BY <1>3 DEF Generate, Inv, CallsInv, GenerateInv
  <2>3. ~ Fresh
    BY <1>3, <2>2 DEF Generate, Doing, Fresh, Inv, CallsInv, RolloutCallsInv, ValidateCall
  <2> QED
    BY <2>1, <2>2, <2>3 DEF FinishInv, Fresh, AllTrained, Prefetching, BeforeUpdate, AfterUpdate,
       IsLastStep
<1> QED
  BY <1>1, <1>2, <1>3 DEF Actor, Rollout

LEMMA KillKeepsFinish ==
    ASSUME Kill
    PROVE  FinishInv'
BY DEF Kill, FinishInv, Fresh, Prefetching, BeforeUpdate, AfterUpdate

LEMMA InitFinish == Init => FinishInv
BY DEF Init, FinishInv, Fresh, Prefetching, BeforeUpdate, AfterUpdate

(***************************************************************************)
(* However a launch ends, at a last step or past it, at the end of the     *)
(* data or because the loader raised: the last batch it took is in the     *)
(* weights, and a last step is in the checkpoint.  For any number of       *)
(* steps, epochs, kills and relaunches of a finished job.                  *)
(***************************************************************************)
THEOREM LaunchesEndInOrder == Spec => []EndsInOrder
<1>1. Inv /\ OrderInv /\ [Next]_vars => OrderInv'
  BY NextKeepsOrder
<1>2. Inv /\ OrderInv /\ FinishInv /\ [Next]_vars => FinishInv'
  BY DriverKeepsFinish, WorkersKeepFinish, KillKeepsFinish DEF Next
<1>3. Inv /\ FinishInv => EndsInOrder
  BY DEF Inv, FinishInv, Generated, AllTrained, EndsInOrder, LastBatchTrained
<1> QED
  BY <1>1, <1>2, <1>3, InitOrder, InitFinish, Invariance, PTL DEF Spec

================================================================================
