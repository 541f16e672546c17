---------------------------- MODULE TrainingBatch ----------------------------
(***************************************************************************)
(* What happens to the rows of a batch.  One batch is validated on: padded *)
(* until it divides, generated for, unpadded.  One is trained on, from     *)
(* generation to the update of the actor: the driver reorders them so that *)
(* all ranks get equal work, has them scored, cuts them in chunks, one for *)
(* each data-parallel rank; a rank cuts its chunk in micro-batches of      *)
(* bounded length, computes log-probabilities, and puts them back in the   *)
(* order of the chunk; without use_dynamic_bsz micro-batches are slices of *)
(* the chunk.  The driver concatenates, filters whole groups of responses, *)
(* and sends the rest to be trained on, mini-batch by mini-batch.          *)
(*                                                                         *)
(* A row is its number after repeat(interleave=True); what is computed     *)
(* about a row is represented by the row.  The ranks of one sequence-      *)
(* parallel group receive the same chunk, run the same code on it and      *)
(* return one output, so one rank stands for them.  A forward pass of a    *)
(* sharded model is a collective: it ends when all ranks have joined.      *)
(***************************************************************************)
EXTENDS SeqlenBalancing, SequencesExt

CONSTANTS
    DPSize,              \* data-parallel ranks
    Lengths,             \* lengths that sequences may have
    MaxTokenLen,         \* max_token_len of a micro-batch
    MiniBatchSize,       \* ppo_mini_batch_size of one rank
    MicroBatchSize,      \* rows of a micro-batch without use_dynamic_bsz, here and for log-probabilities
    PPOEpochs,
    ValSizes,            \* lengths that a validation batch may have
    Configs              \* data.train_batch_size, rollout.n, trainer.balance_batch,
                         \* algorithm.filter_groups.enable, ulysses_sequence_parallel_size,
                         \* tensor_model_parallel_size and use_dynamic_bsz

Ranks  == 1 .. DPSize
Driver == 0

ASSUME TrainingBatchAssumption ==
    /\ {DPSize, MaxTokenLen, MiniBatchSize, MicroBatchSize, PPOEpochs} \subseteq Nat \ {0}
    /\ MiniBatchSize % MicroBatchSize = 0     \* asserted by ActorRolloutRefWorker.__init__
    /\ Lengths \subseteq 1 .. MaxTokenLen     \* asserted by rearrange_micro_batches
    /\ ValSizes \subseteq Nat \ {0}
    /\ Configs \subseteq [train_batch_size : Nat \ {0}, rollout_n : Nat \ {0}, balance_batch : BOOLEAN,
                          filter_groups : BOOLEAN, sp_size : Nat \ {0}, tp_size : Nat \ {0}, use_dynamic_bsz : BOOLEAN]
    /\ \A c \in Configs : (DPSize * c.sp_size) % c.tp_size = 0    \* asserted by _build_rollout
    /\ \A c \in Configs :                       \* asserted by validate_config
            c.use_dynamic_bsz \/ (c.train_batch_size * c.rollout_n) % (DPSize * c.sp_size) = 0
    /\ Callers = Ranks \cup {Driver}

VARIABLES
    config,    \* the configuration of the job
    test_batch, pad_size,  \* the validation batch, and how much longer it was sent
    gen_batch,             \* what generate_sequences was called with
    generated,             \* what each engine has returned of it
    gen_output,            \* what the driver has got of it
    seqlen,    \* the sum of the attention mask of each row
    phase,     \* where the driver is
    batch,     \* the rows in their order, and the columns computed so far
    rewards,   \* future_reward: the rows in the order they were sent to be scored
    at,        \* where each rank is
    todo,      \* the (mini-)batches that are left of the rank's call
    num,       \* num_micro_batches
    micro,     \* the micro-batches that are left, each a sequence of indices
    indices,   \* the indices of the micro-batches one after the other
    output,    \* the rows of the forward passes so far
    trained    \* history: in how many optimizer steps each row was

driverVars == <<phase, batch, rewards>>
rankVars   == <<at, todo, num, micro, indices, output>>
genVars    == <<test_batch, pad_size, gen_batch, generated, gen_output>>
Rows == 1 .. config.train_batch_size * config.rollout_n

vars == <<kkVars, driverVars, rankVars, genVars, config, seqlen, trained>>

Init ==
    /\ KKInit
    /\ config \in Configs
    /\ test_batch = <<>> /\ pad_size = 0
    /\ gen_batch = <<>> /\ generated = <<>> /\ gen_output = <<>>
    /\ seqlen = <<>>
    /\ phase = "validate"
    /\ batch = [rows |-> [i \in Rows |-> i], scores |-> <<>>, old_log_probs |-> <<>>]
    /\ rewards = <<>>
    /\ at = [r \in Ranks |-> "idle"]
    /\ todo = [r \in Ranks |-> <<>>]
    /\ num = [r \in Ranks |-> 0]
    /\ micro = [r \in Ranks |-> <<>>]
    /\ indices = [r \in Ranks |-> <<>>]
    /\ output = [r \in Ranks |-> <<>>]
    /\ trained = [row \in Rows |-> 0]
------------------------------------------------------------------------------
LengthsOf(rows)     == [i \in DOMAIN rows |-> seqlen[rows[i]]]
Total(rows)         == SumFunction(LengthsOf(rows))
Longest(rows)       == CHOOSE n \in {seqlen[rows[i]] : i \in DOMAIN rows} :
                            \A i \in DOMAIN rows : seqlen[rows[i]] <= n
Pick(rows, idx)     == [i \in DOMAIN idx |-> rows[idx[i]]]
Ascending(S)        == [i \in 1 .. Cardinality(S) |-> CHOOSE x \in S : Cardinality({y \in S : y < x}) = i - 1]
CeilDiv(a, b)       == (a + b - 1) \div b
Minimum(a, b)       == IF a < b THEN a ELSE b

\* Mutant of Split: the end of a slice is in it.
Split_OneMore(rows, size) ==
    [i \in 1 .. CeilDiv(Len(rows), size) |->
        SubSeq(rows, (i - 1) * size + 1, Minimum(i * size + 1, Len(rows)))]

\* DataProto.split
Split(rows, size) ==
    [i \in 1 .. CeilDiv(Len(rows), size) |->
        SubSeq(rows, (i - 1) * size + 1, Minimum(i * size, Len(rows)))]

\* Mutant of ChunkOf: chunks start one row apart.
ChunkOf_Overlapping(rows, chunks, r) == SubSeq(rows, r, r + Len(rows) \div chunks - 1)

\* DataProto.chunk
ChunkOf(rows, chunks, r) ==
    LET size == Len(rows) \div chunks IN SubSeq(rows, (r - 1) * size + 1, r * size)

PadSize(n, divisor) == (divisor - (n % divisor)) % divisor

\* Mutant of Pad: the first rows, of which there may not be enough.
Pad_OneSlice(rows, divisor) == rows \o SubSeq(rows, 1, Minimum(PadSize(Len(rows), divisor), Len(rows)))

\* pad_dataproto_to_divisor: the rows again from the first, as often as needed.
Pad(rows, divisor) ==
    [i \in 1 .. Len(rows) + PadSize(Len(rows), divisor) |-> rows[((i - 1) % Len(rows)) + 1]]
Unpad(rows, size) == SubSeq(rows, 1, Len(rows) - size)

\* Mutant of RepeatInterleave: the whole batch is repeated.
RepeatInterleave_Not(rows, n) == [i \in 1 .. Len(rows) * n |-> rows[((i - 1) % Len(rows)) + 1]]

\* DataProto.repeat with interleave=True
RepeatInterleave(rows, n) == [i \in 1 .. Len(rows) * n |-> rows[(i - 1) \div n + 1]]

\* Mutant of ReverseIdx: the indices themselves.
ReverseIdx_Direct(idx) == idx

\* get_reverse_idx
ReverseIdx(idx) == [j \in DOMAIN idx |-> CHOOSE i \in DOMAIN idx : idx[i] = j]
------------------------------------------------------------------------------
\* Generation

WorldSize    == DPSize * config.sp_size
RolloutRanks == 1 .. WorldSize \div config.tp_size      \* one for every engine
Uid(row)     == (row - 1) \div config.rollout_n

\* generate_sequences of the rollout workers: equal chunks, or chunk raises.
\* In async mode size_divisor and the number of chunks are rollout.agent.num_workers.
CallGenerate(rows, next) ==
    IF Len(rows) % Cardinality(RolloutRanks) = 0
    THEN /\ gen_batch' = rows
         /\ generated' = [r \in RolloutRanks |-> <<>>]
         /\ phase' = next
    ELSE phase' = "failed" /\ UNCHANGED <<gen_batch, generated>>

GenerateChunk(r) ==
    /\ phase \in {"validating", "generating"} /\ generated[r] = <<>>
    /\ generated' = [generated EXCEPT ![r] = ChunkOf(gen_batch, Cardinality(RolloutRanks), r)]
    /\ UNCHANGED <<kkVars, driverVars, rankVars, test_batch, pad_size, gen_batch, gen_output, config, seqlen, trained>>
Generate == \E r \in RolloutRanks : GenerateChunk(r)

AllGenerated == generated # <<>> /\ \A r \in RolloutRanks : generated[r] # <<>>

\* _validate with one batch; its rows are numbered after repeat.
Validate ==
    /\ phase = "validate"
    /\ \E n \in ValSizes :
        LET rows == [i \in 1 .. n |-> i]
        IN  /\ test_batch' = rows
            /\ pad_size' = PadSize(n, WorldSize)
            /\ CallGenerate(Pad(rows, WorldSize), "validating")
    /\ UNCHANGED <<kkVars, batch, rewards, rankVars, gen_output, config, seqlen, trained>>

CollectValidation ==
    /\ phase = "validating" /\ AllGenerated
    /\ gen_output' = Unpad(FlattenSeq(generated), pad_size)
    /\ phase' = "validated"
    /\ UNCHANGED <<kkVars, batch, rewards, rankVars, test_batch, pad_size, gen_batch, generated, config, seqlen, trained>>

EndValidation ==
    /\ phase = "validated"
    /\ test_batch' = <<>> /\ pad_size' = 0
    /\ gen_batch' = <<>> /\ generated' = <<>> /\ gen_output' = <<>>
    /\ phase' = "generate"
    /\ UNCHANGED <<kkVars, batch, rewards, rankVars, config, seqlen, trained>>

\* The prompts of the training batch, each rollout_n times.
GenerateSequences ==
    /\ phase = "generate"
    /\ CallGenerate(RepeatInterleave([i \in 1 .. config.train_batch_size |-> i - 1], config.rollout_n), "generating")
    /\ UNCHANGED <<kkVars, batch, rewards, rankVars, test_batch, pad_size, gen_output, config, seqlen, trained>>

\* The batch is repeated as well, and joined with the responses, of any lengths.
Union ==
    /\ phase = "generating" /\ AllGenerated
    /\ gen_output' = FlattenSeq(generated)
    /\ seqlen' \in [Rows -> Lengths]
    /\ phase' = "balance"
    /\ UNCHANGED <<kkVars, batch, rewards, rankVars, test_batch, pad_size, gen_batch, generated, config, trained>>
------------------------------------------------------------------------------
\* The driver


\* _balance_batch
Balance ==
    /\ phase = "balance"
    /\ \/ /\ config.balance_batch
          /\ Call(Driver, LengthsOf(batch.rows), WorldSize, TRUE)
          /\ phase' = "balancing"
       \/ ~ config.balance_batch /\ phase' = "reward" /\ UNCHANGED kkVars
       \/ config.balance_batch /\ Len(batch.rows) % WorldSize # 0 /\ phase' = "failed" /\ UNCHANGED kkVars
    /\ UNCHANGED <<batch, rewards, rankVars, genVars, config, seqlen, trained>>

\* Mutant of GlobalIdx: the partitions are not used.
GlobalIdx_Same == [i \in DOMAIN batch.rows |-> i]
GlobalIdx == FlattenSeq([i \in 1 .. WorldSize |-> Ascending(partitions[Driver][i])])

Reorder ==
    /\ phase = "balancing" /\ partitions[Driver] # <<>>
    /\ batch' = [batch EXCEPT !.rows = Pick(@, GlobalIdx)]
    /\ partitions' = [partitions EXCEPT ![Driver] = <<>>]
    /\ phase' = "reward"
    /\ UNCHANGED <<call, states_pq, rewards, rankVars, genVars, config, seqlen, trained>>

\* compute_reward_async
LaunchReward ==
    /\ phase = "reward"
    /\ rewards' = batch.rows
    /\ phase' = "log_prob"
    /\ UNCHANGED <<kkVars, batch, rankVars, genVars, config, seqlen, trained>>

\* A call on the actor's worker group cuts the batch in equal chunks, or raises.
Dispatch(work, next) ==
    /\ \/ /\ Len(batch.rows) % DPSize = 0
          /\ todo' = work
          /\ at' = [r \in Ranks |-> "prepare"]
          /\ output' = [r \in Ranks |-> <<>>]
          /\ phase' = next
       \/ /\ Len(batch.rows) % DPSize # 0
          /\ phase' = "failed"
          /\ UNCHANGED <<todo, at, output>>
    /\ UNCHANGED <<kkVars, batch, rewards, num, micro, indices, genVars, config, seqlen, trained>>

ComputeLogProb ==
    phase = "log_prob" /\ Dispatch([r \in Ranks |-> <<ChunkOf(batch.rows, DPSize, r)>>], "computing")

AllReturned == \A r \in Ranks : at[r] = "returned"

\* Concatenated, and added to the batch with the scores that are ready by then.
Collect ==
    /\ phase = "computing" /\ AllReturned
    /\ batch' = [batch EXCEPT !.old_log_probs = FlattenSeq([r \in Ranks |-> output[r]]),
                              !.scores = rewards]
    /\ at' = [r \in Ranks |-> "idle"]
    /\ phase' = "filter"
    /\ UNCHANGED <<kkVars, rewards, todo, num, micro, indices, output, genVars, config, seqlen, trained>>

\* _apply_filter_groups, for any choice of the groups whose rewards differ.
KeepGroups ==
    \E keep \in SUBSET {Uid(row) : row \in Rows} :
        LET kept == {i \in DOMAIN batch.rows : Uid(batch.rows[i]) \in keep}
            idx  == Ascending(IF kept = {} THEN DOMAIN batch.rows ELSE kept)
        IN  batch' = [rows          |-> Pick(batch.rows, idx),
                      scores        |-> Pick(batch.scores, idx),
                      old_log_probs |-> Pick(batch.old_log_probs, idx)]

Filter ==
    /\ phase = "filter"
    /\ IF config.filter_groups THEN KeepGroups ELSE UNCHANGED batch
    /\ phase' = "update"
    /\ UNCHANGED <<kkVars, rewards, rankVars, genVars, config, seqlen, trained>>

\* update_policy goes through the mini-batches once in every epoch.
MiniBatches(chunk) ==
    FlattenSeq([e \in 1 .. PPOEpochs |-> Split(chunk, MiniBatchSize)])

UpdateActor ==
    phase = "update" /\ Dispatch([r \in Ranks |-> MiniBatches(ChunkOf(batch.rows, DPSize, r))], "updating")

Finish ==
    /\ phase = "updating" /\ AllReturned
    /\ phase' = "done"
    /\ UNCHANGED <<kkVars, batch, rewards, rankVars, genVars, config, seqlen, trained>>

Drive ==
    \/ Validate \/ CollectValidation \/ EndValidation \/ GenerateSequences \/ Union
    \/ Balance \/ (KKStep(Driver) /\ UNCHANGED <<driverVars, rankVars, genVars, config, seqlen, trained>>) \/ Reorder
    \/ LaunchReward \/ ComputeLogProb \/ Collect \/ Filter \/ UpdateActor \/ Finish
------------------------------------------------------------------------------
\* A rank

\* rearrange_micro_batches, up to the all_reduce
Count(r) ==
    /\ at[r] = "prepare" /\ config.use_dynamic_bsz
    /\ num' = [num EXCEPT ![r] =
            Minimum(Len(Head(todo[r])), CeilDiv(Total(Head(todo[r])), MaxTokenLen))]
    /\ at' = [at EXCEPT ![r] = "reduce"]
    /\ UNCHANGED <<todo, micro, indices, output, kkVars>>

\* and from there to the assertions of the partitioning
Partition(r) ==
    /\ at[r] = "partition"
    /\ Call(r, LengthsOf(Head(todo[r])), num[r], FALSE)
    /\ at' = [at EXCEPT ![r] = "balance"]
    /\ UNCHANGED <<todo, num, micro, indices, output>>

\* The order of micro-batches: by the square of the lengths, then by the first index.
Workload(rows, S) == SumFunctionOnSet([i \in DOMAIN rows |-> seqlen[rows[i]] * seqlen[rows[i]]], S)
MoreWork(rows, S, T) ==
    \/ Workload(rows, S) > Workload(rows, T)
    \/ Workload(rows, S) = Workload(rows, T) /\ Head(Ascending(S)) > Head(Ascending(T))

MicroBatches(r) ==
    /\ at[r] = "balance" /\ partitions[r] # <<>>
    /\ \E p \in Bijection(1 .. num[r], 1 .. num[r]) :
        LET sorted   == [i \in 1 .. num[r] |-> partitions[r][p[i]]]
            idx_list == [i \in 1 .. num[r] |-> Ascending(sorted[i])]
        IN  /\ \A i, j \in 1 .. num[r] : i < j => MoreWork(Head(todo[r]), sorted[i], sorted[j])
            /\ micro' = [micro EXCEPT ![r] = idx_list]
            /\ indices' = [indices EXCEPT ![r] = FlattenSeq(idx_list)]
    /\ partitions' = [partitions EXCEPT ![r] = <<>>]
    /\ at' = [at EXCEPT ![r] = "forward"]
    /\ UNCHANGED <<todo, num, output, call, states_pq>>

\* Without use_dynamic_bsz: DataProto.split of what the rank has.
SliceMicroBatches(r) ==
    /\ at[r] = "prepare" /\ ~ config.use_dynamic_bsz
    /\ micro' = [micro EXCEPT ![r] = Split([i \in DOMAIN Head(todo[r]) |-> i], MicroBatchSize)]
    /\ at' = [at EXCEPT ![r] = "forward"]
    /\ UNCHANGED <<todo, num, indices, output, kkVars>>

\* restore_dynamic_batch, at the end of compute_log_prob
Restore(r) ==
    /\ phase = "computing" /\ at[r] = "forwarded"
    /\ output' = IF config.use_dynamic_bsz
                 THEN [output EXCEPT ![r] = Pick(@, ReverseIdx(indices[r]))]
                 ELSE output
    /\ at' = [at EXCEPT ![r] = "returned"]
    /\ UNCHANGED <<todo, num, micro, indices, kkVars>>

Rank(r) ==
    /\ \/ Count(r) \/ Partition(r) \/ MicroBatches(r) \/ SliceMicroBatches(r) \/ Restore(r)
       \/ KKStep(r) /\ UNCHANGED rankVars
    /\ UNCHANGED <<driverVars, genVars, config, seqlen, trained>>
------------------------------------------------------------------------------
\* What the ranks do together

AllAt(place) == \A r \in Ranks : at[r] = place

\* Mutant of Agreed: every rank keeps its own number.
Agreed_Local(r) == num[r]
Agreed(r) == CHOOSE n \in Range(num) : \A q \in Ranks : num[q] <= n

AllReduceMax ==
    /\ AllAt("reduce")
    /\ num' = [r \in Ranks |-> Agreed(r)]
    /\ at' = [r \in Ranks |-> "partition"]
    /\ UNCHANGED <<kkVars, driverVars, todo, micro, indices, output, genVars, config, seqlen, trained>>

\* Every rank runs its next micro-batch.
Forward ==
    /\ AllAt("forward")
    /\ output' = [r \in Ranks |-> output[r] \o Pick(Head(todo[r]), Head(micro[r]))]
    /\ micro' = [r \in Ranks |-> Tail(micro[r])]
    /\ at' = [r \in Ranks |-> IF Len(micro[r]) > 1 THEN "forward" ELSE "forwarded"]
    /\ UNCHANGED <<kkVars, driverVars, todo, num, indices, genVars, config, seqlen, trained>>

\* _optimizer_step, at the end of a mini-batch of update_policy
OptimizerStep ==
    /\ phase = "updating" /\ AllAt("forwarded")
    /\ trained' = [row \in Rows |-> trained[row] + Cardinality(
            {p \in Ranks \X Rows : p[2] \in DOMAIN output[p[1]] /\ output[p[1]][p[2]] = row})]
    /\ output' = [r \in Ranks |-> <<>>]
    /\ todo' = [r \in Ranks |-> Tail(todo[r])]
    /\ at' = [r \in Ranks |-> IF Len(todo[r]) > 1 THEN "prepare" ELSE "returned"]
    /\ UNCHANGED <<kkVars, driverVars, num, micro, indices, genVars, config, seqlen>>

Next ==
    \/ Drive \/ Generate
    \/ \E r \in Ranks : Rank(r)
    \/ AllReduceMax \/ Forward \/ OptimizerStep

Spec ==
    /\ Init /\ [][Next]_vars
    /\ WF_vars(Drive) /\ WF_vars(Generate) /\ WF_vars(AllReduceMax) /\ WF_vars(Forward) /\ WF_vars(OptimizerStep)
    /\ \A r \in Ranks : WF_vars(Rank(r))
------------------------------------------------------------------------------
TypeOK ==
    /\ KKTypeOK
    /\ {test_batch, gen_batch, gen_output} \subseteq Seq(Nat) /\ pad_size \in Nat
    /\ generated \in {<<>>} \cup [RolloutRanks -> Seq(Nat)]
    /\ seqlen \in {<<>>} \cup [Rows -> Lengths]
    /\ phase \in {"validate", "validating", "validated", "generate", "generating", "balance", "balancing", "reward", "log_prob", "computing", "filter", "update",
                  "updating", "done", "failed"}
    /\ batch \in [rows : Seq(Rows), scores : Seq(Rows), old_log_probs : Seq(Rows)]
    /\ rewards \in Seq(Rows)
    /\ at \in [Ranks -> {"idle", "prepare", "reduce", "partition", "balance", "forward",
                         "forwarded", "returned"}]
    /\ todo \in [Ranks -> Seq(Seq(Rows))]
    /\ num \in [Ranks -> 0 .. Cardinality(Rows)]
    /\ micro \in [Ranks -> Seq(Seq(Rows))]
    /\ indices \in [Ranks -> Seq(Rows)]
    /\ output \in [Ranks -> Seq(Rows)]
    /\ trained \in [Rows -> 0 .. PPOEpochs]

(* Whatever pads, cuts, joins, repeats, reorders and sorts rows, responses, *)
(* scores and log-probabilities end up at the row they were computed for:   *)
(* in validation, on a rank, in what it returns, and in the driver's batch. *)
RowsMatch ==
    /\ phase = "validated" => gen_output = test_batch
    /\ phase = "balance" => gen_output = [row \in Rows |-> Uid(row)]
    /\ batch.scores \in {<<>>, batch.rows}
    /\ batch.old_log_probs \in {<<>>, batch.rows}
    /\ phase = "computing" => \A r \in Ranks : at[r] = "returned" => output[r] = Head(todo[r])

(* Rows and what belongs to them stay together, wherever they are.          *)
RowsStayTogether == TypeOK /\ RowsMatch

(* Every row that is kept is in exactly one optimizer step of each epoch    *)
(* when the update returns, and a row that was filtered out is in none.     *)
EveryRowIsTrainedOn ==
    phase = "done" =>
        \A row \in Rows : trained[row] = IF row \in Range(batch.rows) THEN PPOEpochs ELSE 0

(* After _balance_batch, the tokens of two data-parallel ranks differ by at *)
(* most the longest row for each of the partitions that make up a chunk.    *)
RanksAreBalanced ==
    config.balance_batch /\ phase \in {"reward", "log_prob", "computing"} =>
        \A r, q \in Ranks :
            Total(ChunkOf(batch.rows, DPSize, r)) - Total(ChunkOf(batch.rows, DPSize, q)) <= config.sp_size * Longest(batch.rows)

(* A dynamic micro-batch is never longer than max_token_len and one more row: the   *)
(* partitioning keeps lengths near their mean, which max_token_len bounds.  *)
MicroBatchesNearlyFit ==
    \A r \in Ranks : config.use_dynamic_bsz /\ at[r] = "forward" =>
        \A i \in DOMAIN micro[r] :
            Total(Pick(Head(todo[r]), micro[r][i])) < MaxTokenLen + Longest(Head(todo[r]))

(* The work is spread evenly at every level: partitions, ranks, and         *)
(* micro-batches.                                                           *)
WorkIsBalanced == PartitionsAreBalanced /\ RanksAreBalanced /\ MicroBatchesNearlyFit

(* A collective that one rank waits in is one that every other rank is in   *)
(* or on its way to, with as many micro-batches left to run; and the number *)
(* of micro-batches that the ranks agreed on is one that each of them can   *)
(* make of its own rows, so that no assertion of the partitioning stops it. *)
RanksInStep ==
    \A r, q \in Ranks :
        /\ at[r] = "reduce" => at[q] \in {"prepare", "reduce"}
        /\ at[r] = "partition" => MayCall(LengthsOf(Head(todo[r])), num[r], FALSE)
        /\ at[r] = "forward" =>
            /\ at[q] \in IF config.use_dynamic_bsz THEN {"partition", "balance", "forward"} ELSE {"prepare", "forward"}
            /\ at[q] = "forward" => Len(micro[q]) = Len(micro[r])

(* The batch is trained on in the end, or the driver has raised, over a     *)
(* batch whose rows do not divide from the start or because filtering took  *)
(* groups that not all ranks have a part of: no rank waits for ever in a    *)
(* collective, and no assertion of the micro-batching stops a rank.         *)
MayFail ==
    \/ Cardinality(Rows) % WorldSize # 0
    \/ config.filter_groups /\ config.rollout_n % DPSize # 0
Ends == <>(phase = "done" \/ (phase = "failed" /\ MayFail))
==============================================================================
