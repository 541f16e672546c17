# A TLA+ model of SOD / verl

The repository is a fork of verl (HybridFlow): reinforcement-learning training of language
models in which one driver process holds the training loop and calls groups of GPU workers by
RPC, plus agentic multi-turn rollout with tools and the step-wise on-policy distillation that
gives the fork its name (SOD). This directory holds TLA+ modules that model the parts of it
whose correctness depends on ordering, failure and concurrency, the TLC configurations that
check them on small instances, and proofs that TLAPS checks for every value of the constants.

`tlc -workers 2 -config X.cfg M.tla` runs a configuration, `tlapm M.tla` checks the proofs of a
module.

## 1. The system: components, state, interaction

| component | source | state it keeps | operations | talks to |
|---|---|---|---|---|
| PPO trainer (driver loop) | `verl/trainer/ppo/ray_trainer.py` | `global_steps`, epoch loop, dataloader position, profile flags | `fit`, `_save_checkpoint`, `_load_checkpoint`, `_validate` | worker groups (blocking RPC), rollout manager, checkpoint directory |
| FSDP checkpoint manager | `verl/utils/checkpoint/*`, `verl/workers/fsdp_workers.py` | `previous_saved_paths`, shard files | `save_checkpoint`, `load_checkpoint`, rotation | other ranks through `torch.distributed.barrier`, file system |
| Megatron checkpoint manager | `verl/utils/checkpoint/megatron_checkpoint_manager.py` | same, with dist checkpointing | same | same |
| one-step-off trainer | `recipe/one_step_off_policy/` | the future of the next batch, rollout weights | asynchronous generation, weight synchronisation | rollout and actor worker groups |
| LLM server manager | `verl/experimental/agent_loop/agent_loop.py` (`AsyncLLMServerManager`) | heap of request counts, LRU cache of sessions | `_choose_server`, `generate` | vLLM/SGLang servers |
| agent loop workers and manager | same file (`AgentLoopWorker`, `AgentLoopManager`) | running conversations, awake/asleep servers | `generate_sequences`, `wake_up`, `sleep` | server manager, reward worker |
| tool agent loop | `verl/experimental/agent_loop/tool_agent_loop.py` | prompt ids, response mask, turn counters | `run`, `_call_tool` | server manager, tools |
| tools and their rate limiter | `verl/tools/*` | tool instances, token bucket | `create`, `execute`, `release`, `acquire` | sandbox and search services |
| rollout servers | `verl/workers/rollout/*` | request states, engine weights, KV cache | multi-turn `generate_sequences`, `wake_up`, `sleep`, retries | sharding managers, tools, interactions |
| sharding managers | `verl/workers/sharding_manager/*`, `verl/workers/fsdp_workers.py` | where weights, optimizer and engine are, random states | context enter/exit, the worker's calls | FSDP/Megatron models, engines |
| single controller | `verl/single_controller/*`, `verl/protocol.py` | worker handles, `DataProto` batches | dispatch, collect, chunk, pad, union | all worker groups |
| algorithms | `verl/trainer/ppo/core_algos.py`, step-wise OPD weights in `ray_trainer.py` | none | advantages, losses | driver |
| sequence-length balancing | `verl/utils/seqlen_balancing.py` | none | Karmarkar-Karp partition, micro-batching | driver, actors |
| rewards | `verl/workers/reward_manager/*`, `verl/utils/reward_score/*` | none; remote sandboxes | scoring with time-outs and retries | sandbox service |
| other trainers and recipes | `verl/trainer/fsdp_sft_trainer.py`, `recipe/*` | as the PPO trainer | | |
| models, kernels, third party, docker, scripts, examples | `verl/models`, `verl/utils/kernel`, `verl/third_party`, ... | none of interest | | |

How they interact. The driver is one process; its calls on a worker group are sent to all ranks
and, unless it says otherwise, waited for with `ray.get`. A worker group's ranks meet each other
at barriers and collectives. Conversations are coroutines of an agent loop worker and interleave
at every `await`. Launches of one job share nothing but the checkpoint directory.

Hard behaviours, and what makes each component correct:

| component | hard because | correct when |
|---|---|---|
| FSDP checkpoint manager | ranks write at their own pace, rank 0 also rotates, a kill can strike anywhere | a call that returns has saved every shard; rotation neither meets a writer nor costs the newest checkpoint; every call returns |
| PPO trainer | actor, critic, dataloader and tracker are saved one by one; memory is lost at a kill | the tracker names a whole checkpoint; resuming continues the very history of updates; at most `save_freq` steps are lost |
| one-step-off trainer | three processes, calls not waited for, weights moved tensor by tensor | what is trained on is at most one update old; nobody generates from half a synchronisation; the pipeline drains |
| LLM server manager, agent loop | interleaved turns, an LRU cache that forgets, servers that sleep while weights change | requests balanced, sessions sticky, answers from the actor's current weights, every batch generated |
| tool agent loop | tokens, mask, log-probabilities and images grow at different places over many turns; tools fail | the output is aligned and ends with a generated token; the engine has room; no tool instance is left |
| tools and rate limiter | threads, acquire and release in an actor shared by name | never more than `rate_limit` calls run; every token comes back |
| rollout servers | a request state machine with exits in every state, tasks that are cancelled wherever they are | every request has one row at its index, cut where the response begins; generation ends |
| sharding managers | weights, memory and random states change hands twice per generation, on each rank at its own pace, under many configurations | generations use the actor as it is; the two sides' randomness and memory stay apart |
| single controller, balancing, step-wise weights | boundaries: batches that do not divide, ties, empty steps | every row keeps what belongs to it and is trained on once an epoch; every sample is in one partition; every generated token has its turn's weight |
| rewards | process pool with time-outs | every response has exactly one score; a stuck scorer does not zero the others |

## 2. Modules

| module | models | state and actions |
|---|---|---|
| `FSDPCheckpointManager` | `save_checkpoint` with the worker's wrapper, rotation, `load_checkpoint` of one group | `pc[r]` is the statement a rank is at, `disk` maps every shard file to the weights it holds; `Path(r)` holds the statements that the branches of rank `r` lead through; one action per statement (`RemoveOldest`, `Begin`, `LeaveCollective`, `Write`, `AppendPath`), the driver's `Call` and `Return`, and `Restart`, which tears what is being written or removed. Barriers and the gathering of the full state dict are matched as `torch.distributed` does, by their number (`Entered`) and not by their line: the n-th of one rank is over when every rank is in its n-th |
| `PPOTrainer` | `fit`, `_save_checkpoint`, `_load_checkpoint` | instantiates `FSDPCheckpointManager` twice, as `Actor!` and `Critic!`; weights are the sequence of `<<launch, batch>>` updates they went through; `Relaunch` kills both groups and the driver |
| `DurableTraining` | what checkpointing promises | a live and a committed snapshot, committed at once; `PPOTrainer` implements it |
| `OneStepOffPolicy` | `recipe/one_step_off_policy` | a queue of calls for each of the two groups, a channel of tensors, the future, the dataloader over its epochs; `Kill` kills and launches again, also a finished job |
| `AsyncLLMServerManager` | `_choose_server` | the heap as a count per worker and server with its order `Precedes`, the LRU cache as a server and a time of last use per request_id |
| `AgentLoopManager` | `generate_sequences`, the conversations, wake-up and sleep | extends `AsyncLLMServerManager`; a turn is `Generate` and `Answer`; weights and prefix caches of each server |
| `ToolAgentLoop` | `run`, `_call_tool`, and the padding of `_run_agent_loop` | tokens by their origin, mask, log-probabilities, image count; each parallel call goes through create, execute, release; `Pad` makes the row of the batch, `GenerateRaises` is the engine without room |
| `SandboxFusionTool` | `ExecutionWorker`, `TokenBucketWorker` and the tools that share it | the threads of every tool, the queue of `acquire`, the releases on their way, the semaphore |
| `SGLangRollout` | `_async_rollout_a_request`, `_req_level_generate_sequences`, `AsyncRolloutRequest` | a record per request with its state, tokens and loss mask; one action per handler of a state; the driver, tensor-parallel rank 0, counts completed tasks, cancels, pads and sorts; `phase` tells what becomes of the batch: "done", "rejected" by an assertion on every rank, or "stranded", when rank 0 raises in front of the barrier at which the others wait |
| `HybridEngine` | `ActorRolloutRefWorker` with `FSDPVLLMShardingManager` or `FSDPSGLangShardingManager` | for each rank: where it is in the driver's call, parameters, optimizer, state dict, engine, random states; one action per step between collectives |
| `SeqlenBalancing` | `karmarkar_karp` and the checks around it | one heap of states for every caller; `Call`, `Merge` of the two most spread states with any choice among ties, `Return` |
| `TrainingBatch` | the rows of a batch through validation, generation, balancing, scoring, log-probabilities, filtering and update | extends `SeqlenBalancing`; a row is its number and everything computed about it is that number; ranks meet in `AllReduceMax`, `Forward` and `OptimizerStep` |
| `StepwiseOPD` | `_extract_step_boundaries`, `compute_stepwise_opd_weights` | the scan over the mask token by token, then one step per turn; weights are exact fractions |

`MC*` modules add only what TLC needs as values; `*_proofs` hold the theorems, those of
`SandboxFusionTool` in `ToolAgentLoop_proofs`, those of `StepwiseOPD` in `SGLangRollout_proofs` and those of
`SeqlenBalancing` in `TrainingBatch_proofs`. `PROJECT.json` maps every definition that models code to its lines.

Definitions whose name ends in `_Something` and whose comment says "Mutant of" are deliberately
wrong variants of the definition that follows. They are used by no specification: putting one in
the place of the original must make a property fail, which shows that the property can.

## 3. Runs

| run | instance | shows |
|---|---|---|
| `fsdp_save` | 2 ranks, 3 steps, room for 2, 2 contents, one kill | `SavedIsWhole`, `NoWriteDuringRotation`, `NewestSurvives`, `SaveReturns`: a call saves everything and returns; rotation is exclusive and spares the newest |
| `ppo_resume` | 2 ranks, actor and critic, 3 steps over passes of 2 batches, saves by frequency, at the last step and, at any other, before an elastic server expires; 2 kills | `CheckpointsOK`, `LineageExact`, `SavesOnTime`, `TrackerAdvances`, `Ends`, and the refinement `ImplementsDurableTraining` |
| `ppo_torn_tracker` (violation) | 5 steps over passes of 3 batches, without forced saves | `AutoResumes`: a kill inside the tracker's write makes every later automatic resume fail |
| `onestep` | 5 steps of 2 passes of 3 batches, 2 tensors, a loader that may raise, 2 kills or relaunches, also of a finished job | `SyncIsAtomic`, `WeightsAreRecent`, `ResumeSkipsAtMostOne`, `EndsInOrder` (of every launch: the batch in hand is trained on, the last step is saved), `Ends` |
| `agent_loop` | 2 workers, 2 servers, 2 batches, chunks of 2, up to 2 turns, a cache of 2 | `Balanced`, `Sticky`, `AnswersAreFresh`, `AllGenerated` |
| `tool_agent` | responses of 7 tokens, a `prompt_length` of 2 and prompts of 1 to 9, no limit on turns, up to 3 calls (2 in parallel), images, failures | `OutputIsRight` up to the padded row, `FittingPromptIsServed`, `InstancesReleased`, `Returns`, to which only the length leads |
| `rate_limiter` | 2 tools with limits 1 and 2, 2 threads each, 5 calls, creation in any order | `RateLimited`, `Served` |
| `batch` | validation batches of 1, 3 and 6 rows for 2 and 4 workers; training batches of 3 to 6 rows of 2 lengths in 6 configurations, with and without `use_dynamic_bsz`, 2 data-parallel ranks, 2 epochs | `RowsStayTogether`, `PartitionsAreExact`, `RanksInStep`, `EveryRowIsTrainedOn`, `WorkIsBalanced`, `Ends` |
| `sglang` | 2 requests with prompts up to the model length, up to 2 turns, with and without tools and interactions, waiting for 1 or 2 | `BatchIsComplete`, `RowsAreRight`, `CallsAreAccepted`, `RolloutEnds`: rank 0 ends, and unless a tool raises it reaches the barrier |
| `sglang_log_probs` (violation) | the same with `calculate_log_probs` | `LogProbsMatch`: a row gets the log-probability of its last token only |
| `stepwise` | every mask of 5 tokens and one with 4 turns, distances of 3 sizes, cap 3/2 | `BoundariesAreTurns`, `WeightsAreRight` |
| `hybrid_engine` | 2 ranks, every supported configuration, 4 calls of the driver | `EngineIsCurrent`, `RandomStatesApart`, `MemoryIsShared` |

Each property's comment in its module says what it means and which behaviour of the code it is
about.

Bounds, and why they are enough. Two ranks are the fewest that can be at different statements, and
all ranks but rank 0 take the same branches. Three saves with room for two make rotation happen, and
a kill before, during and after it. Three steps over passes of two batches put forced saves in the
middle of a pass and at its end, and a last step that is no multiple of `save_freq`; two kills let a
launch resume from what a resumed launch has saved, and a finished job be launched twice more. Two
tensors make a half-done synchronisation possible. Two batches of chunks of two with a cache of two
make the cache evict sessions while others run. A response budget of seven leaves room for three
answers and lets a tool response end just below, at and above it; prompts of one to nine tokens are
shorter than `prompt_length`, fill it, leave room for some turns only, or for none. Two tools with a
limit of one and two threads make threads wait while the token is elsewhere. Validation batches of
one row for four workers need padding three times their size, and batches of three on two ranks
cannot be divided. Two requests are the fewest of which one can be cancelled or out of order; a
model length of nine runs out in the second turn. Four calls of the driver reach every order of
update, generation, save and load that the state can tell apart: each overwrites what the earlier
ones of its kind left. The bounds are constants (`MaxRestarts`, `MaxKills`, `MaxTurns`,
`NumBatches`, `MaxToolCalls`, `MaxToolTokens`, `LongestPrompt`, `MaxCalls`), each named in the
module that declares it.

Deadlock is checked in `hybrid_engine`, where ranks wait for each other in every call and the
driver may always stop at its bound. It is not checked elsewhere: a job that finished or failed, a
conversation that returned and a tool that is not called any more really stop. That nothing stops
earlier is what the liveness properties say.

Fairness. Weak fairness of each process: the driver, each rank, each worker group, each engine,
each conversation, each thread goes on while it can, which is what the operating system, asyncio
and Ray give them. A kill, a relaunch, a call of a tool and an exception of the dataloader are
never forced. The engine and the tools answer in the end; their own time-outs are theirs to keep.
`ToolAgentLoop` is one coroutine with its calls, so fairness of its next-state relation is enough.
In `SandboxFusionTool` `Acquire` is only weakly fair: a semaphore has one waiter, the actor's one
thread of `acquire`, and Ray serves its calls in order, so no call can be overtaken for ever.

## 4. Proofs

| theorem | holds for | argument |
|---|---|---|
| `PPOTrainer_proofs`: `CheckpointsAreWhole`, `ResumedTrainingIsExact`, `TrackerOnlyAdvances` | any number of ranks, steps, kills; automatic resumes, and room for two checkpoints in each group (`Resumes`) | inductive invariant `TrainerInv`: both instances of `FSDPCheckpointManager` keep theirs (`GroupsInv`); what each phase of the driver knows of the two groups' calls and paths (`PathsOK`); the weights in memory went through exactly the batches of their step (`LiveInv`); what is written so far of the checkpoint under way is of the weights in memory (`SavingInv`); and the checkpoint the tracker names is whole, its two groups agree and its dataloader state is of its step (`TrackedInv`). The hypotheses are needed: a job with `resume_mode` "disable" overwrites the checkpoint the tracker names shard by shard, and with room for one the tracked checkpoint is removed before the next is written |
| `CheckpointsComeOnTime` | the same, and passes that hold the configured steps (`EnoughBatches`) | no step due for a checkpoint lies between the tracked one and the current one (`ScheduleInv`), whose part on the batches left rules out a job that ends before its last step |
| `TrainingIsDurable` | the same as `CheckpointsAreWhole` | the refinement: an initial state maps to an initial state of `DurableTraining`, and under `TrainerInv` every step maps to one of its steps or to a stutter; only `WriteTracker` commits |
| `FSDPCheckpointManager_proofs`: `TypeCorrect`, `CallsSaveEverything`, `RotationIsExclusive` | any number of ranks, steps, contents, kills | inductive invariant: the type invariant; all ranks are in one call or none is (`CallInv`); a rank past a barrier means that every rank has arrived there (`BarrierInv`, by counting: a path has the first two barriers as its first two collectives, so a rank that has entered as many as one at or behind such a barrier has arrived at it itself, `AllArrived`); every shard kind a rank has got past is on disk with the weights of this call (`WrittenInv`). The last is what makes `SavedIsWhole` inductive: that the weights do not change during a call needs the second |
| `RotationSparesNewest` | `MaxCkptToKeep` other than 1 | on top of that, the list of paths grows strictly, all its steps are before the one being saved (`PathsInv`), so that the head that rotation removes is not its last element |
| `AgentLoopManager_proofs`: `TypeCorrect`, `RequestsAreBalanced` | any servers, workers, requests | `Balanced` is inductive with the types: the server counted up is a smallest |
| `AnswersStayFresh` | `FreeCacheEngine` | who runs belongs to the batch of the driver's call (`RunInv`); what each phase knows of the servers: awake ones have the actor's version, sleeping ones no prefixes (`EngineInv`) |
| `SessionsAreSticky` | finite `Requests`, chunks that fit the cache | the sessions of the running batch were used later than any of an earlier one (`RecencyInv`); were one of them evicted, the whole cache would be of the running chunk, which has at least one conversation outside it, so more than `MaxCacheSize` conversations would be in one chunk (`SessionInv`) |
| `ToolAgentLoop_proofs`: `TypeCorrect`, `FittingPromptsAreServed` | any lengths, limits, answers, of prompts that fit | the mask is shorter than `ResponseLength` whenever the engine is asked, which `LimitReached` and the strict `Fits` keep, so that the engine can only raise for a prompt longer than `PromptLength` (`RoomInv`). That a prompt fits is a premise of the property and not of the model, since the code does not see to it (section 5) |
| `InstancesAreReleased` | any number of calls | exactly the calls between create and release hold an instance, and outside a turn's tool calls all have returned (`InstanceInv`) |
| `OutputStaysRight` | any lengths, limits, answers, images | what is behind the prompt is as long as the mask, and the mask is 1 exactly at the tokens the engine generated (`TokensInv`); the log-probabilities are of the same tokens (`LogProbsInv`); the conversation holds as many images as its image list (`ImagesInv`); the last token is generated whenever no answer of the engine is awaited, and what a tool said ends before the response may be cut off, so that cutting and padding leave the reward on a generated token (`EndingInv`) |
| `SandboxTypeCorrect`, `RateStaysLimited` | any tools, limits, threads, finitely many calls | tokens are counted: those in the semaphore, of running calls and of releases on their way are `rate_limit` together (`TokenInv`); a call that is acquired was not running before because the queue holds exactly the waiting calls, once each (`QueueInv`) |
| `OneStepOffPolicy_proofs`: `SyncNeverMixes`, `AlwaysOneStepOff` | any number of tensors, epochs, steps, kills | which calls may be left in the two queues in each phase of the driver (`CallsInv`); every tensor of a sync is to be sent, on its way or in its place, with the actor's version (`SyncInv`); before and after the update of a step, how old the weights are behind the batch trained on and the one prefetched, which generation may still be making (`WeightsInv`). `BoundInv` bounds the batches of a launch by induction over the kills, which the types need |
| `ResumesSkipOneEach` | any number of kills, epochs, warm-up steps | where the iterator stands behind what the driver holds (`PipelineInv`), that training once begun goes on in every step (`WarmupInv`), and that what was trained on and the batch up next are in order with at most one batch missing for each kill (`TrainedInv`): the batch that was prefetched when a checkpoint was saved is the one missing after a resume, and the kill before it pays for it |
| `LaunchesEndInOrder` | any number of kills and relaunches, also of a finished job | a launch adds at most one step to the total (`StepInv`); the batch behind the iterator is the one in hand or the last one trained on, at a last step nothing was prefetched, and nothing was generated before the first batch of a launch (`FinishInv`) |
| `TrainingBatch_proofs`: `TypeCorrect`, `PartitionsAlwaysExact`, `SpreadStaysBounded`, `PartitionsAlwaysBalanced` | any callers, lists, ties, of `SeqlenBalancing` by itself | of every call, each index is in exactly one bucket of one state and the buckets of a state are sorted by their sums (`StateOK`); a state's spread is at most the longest length (`Narrow`), which `Merged` keeps because it pairs the largest bucket of one state with the smallest of the other. A bucket's sum is the sum of its items' lengths (`KKSums`), which carries the spread over to the partitions |
| `RowsAlwaysStayTogether`, `EveryKeptRowIsTrainedOn` | any ranks, sizes, lengths, configurations, ties, choices of groups | inductive invariant `TBInv`: what was sent, generated and padded (`GenOK`), what each phase knows of the batch (`BatchOK`), and what a rank has left to do, a suffix of `Work(r)` (`WorkOK`). While a rank goes through its micro-batches, its output and what the rest of them pick make the rows of its batch in one order, a permutation (`RankOK`), which `ReverseIdx` undoes. A row's optimizer steps so far are the mini-batches done that hold it (`TrainedOK`), and a whole pass has it once (`MiniBatchesOfRow`) |
| `WorkStaysBalanced` | the same | `EvenInv`: the driver's call is for equal sizes; the flattened partitions cut in chunks are `sp_size` whole partitions each (`ChunkOfParts`), so that the chunks of two ranks differ by `sp_size` times the spread (`ChunksEven`); a rank has enough micro-batches for its tokens, and agreeing only adds to them (`RankFits`), so that their mean is at most `max_token_len` and no part is above the mean by as much as the longest row (`PartFits`) |
| `RanksStayInStep` | the same | `StepInv`: the ranks' batches are as many and as long (`Alike`, from `ChunkOf` and `Split` cutting by length alone); a rank in the forward passes means that the others are there or on their way, with the same number of micro-batches to start with (`Together`); the number agreed on is one rank's own, at least 1 because every row has tokens and at most the rows of its batch, which are as many on every rank (`MayCut`) |
| `OnlySizesFail` | the same | `FailInv`: before filtering the batch is a permutation of all the rows; padding a validation batch makes it divide by the world size and hence by the engines (`PadDivides`, `EnginesDivide`); what filtering leaves is all rows or whole groups of `rollout_n`, counted by a bijection from the kept positions to pairs of a kept prompt and a place in its group (`GroupsAreWhole`). So the driver raises only when the rows do not divide from the start or a filtered group does not divide by the ranks (`MayFail`) |
| `BatchesArePartitioned` | the same | the calls of the driver and of the ranks are calls of `SeqlenBalancing`, whose invariant is part of `TBInv` |
| `SGLangRollout_proofs`: `BatchStaysComplete` | any requests, over-sampling, order of ends | a task that is counted has ended and is counted once (`EndedInv`), so that the driver, which stops at the wanted number, cancels only what it does not return; the others are padded (`PhaseInv`) |
| `CallsStayAccepted` | any answers, tools, limits | every answer the engine gave is behind the input it was asked with, and both stay what the tokens of the request begin with, closed (`CallsOK`): what is taken off the end before a tool's answer is only a generation prompt; turns are counted as the handlers take them (`TurnsOK`) |
| `RowsStayRight` | any requests, of configurations without text from `create` (`NoCreateText`) | besides that, the loss mask is set at what the engine generated and at nothing the prompt, a tool, a user or a template put there (`MaskOK`), the prompt stays what the request began with (`PromptOK`), and the row is cut from the tokens behind it (`RowOK`). Text that `create` adds after the prompt was tokenised moves the response by its length, hence the hypothesis |
| `WeightsTypeCorrect`, `TurnsAreExact` | rows of any length | what the scan has found are the runs that end before its position, and the one it is in began after a token that is not the assistant's |
| `WeightsStayRight` | any distances, `Epsilon`, `Cap` of at least 1 | the product of the ratios kept so far telescopes to the first turn's distance over the current one's, since the cap is applied where the product is used and not where it is kept |
| `HybridEngine_proofs`: `TypeCorrect`, `EnginesAreCurrent`, `RandomStatesStayApart`, `MemoryStaysShared` | any ranks, calls, supported configurations | all ranks are in the driver's call or none is (`CallInv`); training steps and draws are the same on every rank that has done them (`TrainingInv`, `DrawnInv`), what a call will leave the actor as is determined by its method (`ActorInv`); where parameters, optimizer and state dict may be at each step (`ModuleInv`); what each step knows of its engine, for every rank in vLLM (`VllmInv`) and through rank 0 in SGLang (`SGLangInv`) |

The proofs rest on the named assumptions on constants, which TLC evaluates in the runs, and on
the hypotheses the theorems state. Every invariant and every action property of the passing runs
is stated by a theorem.

What `TrainingBatch` flattens, sorts and sums is defined by folds over data of any length. The
provers cannot use the library's induction theorems, which take the property as an operator, so
induction is proved once more with the property as a set of naturals (`NatInduct`, `InductUpTo`, from
the well-foundedness of the naturals), and each fold is first characterised by the step it takes
(`FlattenIs` and `FlattenJoins` for `FlattenSeq`, `SumIs` and `SumUnion` for `SumFunctionOnSet`,
`AscendingIs` for sorting by `CHOOSE`).

Only model-checked: the liveness properties `SaveReturns`, `AllGenerated`, `Returns`, `Served`, `Ends` and
`RolloutEnds`, which need fairness and `ENABLED`. `RanksStayInStep` and `OnlySizesFail` are the parts of
`Ends` that a safety proof reaches: that no rank waits in a collective the others do not come to, and that a
driver that failed did so over sizes. `LogProbsMatch` and `AutoResumes` do not hold (section 5).

## 5. What the violations show, and what else was seen

The two violation runs are described under `findings` in `PROJECT.json`, each with the sentence
of the repository it contradicts. Seen while modelling, without a run of its own:

Checkpoints and training

- `max_ckpt_to_keep` holds within a launch only: the list of saved paths is in memory, and what a
  killed launch saved is never removed; with 1, the only checkpoint is removed before its
  successor is written, and a kill in between leaves nothing to resume from;
- `resume_mode` "disable" over the directory of an older job overwrites the checkpoints its
  tracker names; a kill while it does leaves a tracked checkpoint that is of two jobs;
- a missing `data.pt` is only warned about, and the resumed job starts at the first batch;
- a finished job that is launched again trains one step past `total_training_steps`, and saves it,
  because `is_last_step` is looked at only after the step; one-step-off training does the same;
- with `total_training_steps` above the number of batches, the loop over the epochs runs out before
  the last step, so that the last step taken is neither validated nor saved unless a frequency
  calls for it; in `one_step_off_policy` a dataloader that raises has the same effect;
- `critic_warmup` holds the actor back for one step less than its number, since steps start at 1;
- `one_step_off_policy`: a resumed job skips the batch that was prefetched when it was saved (and
  with one epoch never reaches its last step), its first validation (`val_before_train`) is of the
  base model, and the last one of weights two updates old;
- filtering groups can leave a batch that does not divide by the number of workers, and the
  assertion in `DataProto.chunk` ends the job; micro-batches may exceed `max_token_len` by less
  than one row, although the docstring of `rearrange_micro_batches` calls it a maximum; without
  `use_dynamic_bsz` the loss of a micro-batch is scaled by the number of micro-batches in a full
  mini-batch (`dp_actor.py:426-428`), so the rows of a shorter last one do not weigh the same as others;
- `teacher_kl_mask` of the tool agent is `None` from the start and nothing sets it.

Rollout

- in the tool agent nothing holds a prompt to `prompt_length`: `filter_overlong_prompts` is off by
  default (`legacy_data.yaml:58`), and `rl_dataset.py:159-182` measures without the tool schemas with
  which `tool_agent_loop.py:98-122` tokenises the prompt. A longer one is not cut: in some turn
  `max_tokens` is less than 1 and `SamplingParams` raises, or the conversation ends before that and its
  row is wider than the others of the batch, which `_postprocess` cannot concatenate;
- the heaps of all agent loop workers break ties alike, so that every worker sends its first
  request to the same server: balance holds for each worker, not for their sum;
- with `free_cache_engine` off, asynchronous engines keep the weights they were built with, since
  only `wake_up` loads the actor's;
- in the tool agent, images of a last turn whose tokens did not fit stay in the output;
- the padding side is switched on a tokenizer that all conversations of a worker share; nothing is
  awaited between the switch and its use, so they do not meet;
- SGLang: `len(_req.input_ids) >= max_model_len` compares the number of rows, 1; a request of which
  the tools' `create` returns text is extended before its prompt is taken, and its response is
  shifted (the run leaves these texts empty); padding rows with `calculate_log_probs` raise, and
  so does the row of a cancelled request whose prompt is longer than the model, since padding is copied
  from the request as it was before its task cut it (`sglang_rollout.py:1213`); a cancelled request
  never releases its tools; a tool that raises ends tensor-parallel rank 0 in front of the barrier
  (line 1172) at which the others then wait until the job is ended;
- tools: `enable_global_rate_limit` off makes every call raise at the `None` limiter
  (`sandbox_fusion_tools.py:78`); the first tool created fixes the limit of all; `execute` wraps the
  `ToolResponse` of `execute_code` in another one, as `text`.

Engines

- random states of generation are not in the checkpoint, so that a resumed job repeats those it
  began with; in async mode the first sleep replaces the seeded state by the engine's;
- LoRA with `VLLM_SLEEP_LEVEL` 2 loses the base weights that only the first synchronisation sends;
  with a dummy `load_format` the first generation after a resume has no adapter; asynchronous vLLM
  has no `add_lora` where it is called; a synchronous vLLM that is never put to sleep never resets its
  prefix cache. `Supported` leaves these configurations out;
- rank 0 resumes SGLang's KV cache for all ranks while another may still hold its state dict, and
  SGLang's memory is in use from start-up until the first release.

## 6. Not modelled

- PPO trainer: `resume_path` and profiling. `resume_mode` "disable" is in the module but in no
  passing run: the promise of `DurableTraining` is about automatic resumes.
- Checkpoints: nodes with local disks, on which only rank 0 rotates; `load_contents` other than
  `save_contents`; LoRA export; the Megatron manager, whose asynchronous save runs in threads of
  `megatron.core`.
- Agent loop: a conversation or a worker that raises, which ends the job; start-up of the servers,
  whose outcome depends on when Ray gives a name free; the contents of rewards.
- Rollout: single-turn generation in SGLang and vLLM, which is one call of the engine; the retries
  of `HttpServerEngine`, since whether a repeated call does harm is decided in SGLang's server;
  an exception of SGLang's engine, of an interaction or of a tool's
  `create` or `release`, which leaves the ranks as one of `execute` does; retokenisation (a decoded answer is taken to have the tokens it was generated with).
- `HybridEngine`: one tensor-parallel group; collectives inside the gathering of a state dict are not
  waited for, which only adds interleavings; the stand-alone reference model, the critic worker
  and the Megatron managers, which convert layouts; an update is one draw of randomness.
- `TrainingBatch`: automatic padding; the placement of workers.
- Step-wise weights: rounding of floats, the gated variant that does not look at turns, and the
  fusion with advantages.
- DAPO's dynamic sampling and the other recipes are variants of the loop in `PPOTrainer` whose
  difference is in the data of a step.
- Reward managers, numerical code, models, kernels, datasets, configuration and logging have no
  behaviour of several steps or actors that a transition system would show.

`PROJECT.json` gives the status and the reason for each component.

## 7. What could come next

Theorems: that a rank about to call the partitioning has nothing left of its last call. Models: `HttpServerEngine` against a server whose calls are not idempotent, and the
Megatron checkpoint manager with an asynchronous save.
