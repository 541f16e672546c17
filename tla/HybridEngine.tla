---------------------------- MODULE HybridEngine ----------------------------
(***************************************************************************)
(* One tensor-parallel group of ActorRolloutRefWorkers: every rank holds a *)
(* shard of the actor and runs or serves an inference engine on the same   *)
(* GPU.  A sharding manager (FSDPVLLMShardingManager or                    *)
(* FSDPSGLangShardingManager) hands the GPU, the weights and the random    *)
(* states from one to the other and back.                                  *)
(*                                                                         *)
(* The driver calls a method on all ranks and waits for all of them; within *)
(* a call the ranks meet only in collectives.  A vLLM engine is moved by    *)
(* each rank for itself, an SGLang engine by the first rank for all.        *)
(*                                                                         *)
(* The actor's weights are a record of an id and of the training steps that *)
(* led to them.  A random state is a pair of its stream and a position.     *)
(***************************************************************************)
EXTENDS Integers

CONSTANTS
    Ranks,         \* infer_tp
    Root,          \* its rank 0
    Configs,       \* configurations to start from
    MaxCalls       \* bound on the driver's calls

Engines == {"vllm", "sglang"}
Modes   == {"sync", "async"}
Config  == [engine : Engines, mode : Modes, param_offload : BOOLEAN, optimizer_offload : BOOLEAN,
            free_cache_engine : BOOLEAN, tags : BOOLEAN, lora : BOOLEAN, dummy : BOOLEAN,
            sleep_level : {1, 2}]

\* LoRA works with a synchronous vLLM that has the base model and keeps it asleep;
\* asynchronous engines get the actor's weights only when they are woken up.
Supported(c) ==
    /\ c.lora => c.engine = "vllm" /\ c.mode = "sync" /\ ~ c.dummy /\ c.sleep_level = 1
    /\ c.engine = "sglang" => c.sleep_level = 2
    /\ c.mode = "async" => c.free_cache_engine

ASSUME HybridAssumption ==
    /\ Root \in Ranks
    /\ Configs \subseteq {c \in Config : Supported(c)}
    /\ MaxCalls \in Nat

Pretrained == 0
Earlier    == 1      \* an actor that an earlier job saved
Random     == -1     \* what a dummy load_format leaves
Lost       == -2     \* what a release leaves
None       == -3

Methods == {"generate_sequences", "update_actor", "compute_log_prob", "save_checkpoint", "load_checkpoint"}

VARIABLES
    config,
    call, calls,                 \* the driver's current call, and how many it made
    at,                          \* where each rank is in it
    params, optimizer, actor,    \* the FSDP module: where it is, what it is
    saved,                       \* the checkpoint's shard of each rank
    collected,                   \* params, the state dict of __enter__
    engine, need_reload, is_sleep,
    base_sync_done, expandable,
    rng, torch_random_states, gen_random_states

driver  == <<config, call, calls>>
module  == <<params, optimizer, actor>>
rollout == <<engine, need_reload>>
random  == <<rng, torch_random_states, gen_random_states>>
hybridVars == <<driver, at, module, saved, collected, rollout, is_sleep, base_sync_done, expandable, random>>

At(r, place) == at[r] = place
Go(r, place) == at' = [at EXCEPT ![r] = place]

\* The ranks whose GPUs a rank's call of its engine reaches.
Reach(r) == IF config.engine = "vllm" THEN {r} ELSE IF r = Root THEN Ranks ELSE {}

Next1(state) == <<state[1], state[2] + 1>>
Offloaded(where, offload) == IF offload THEN "cpu" ELSE where
-----------------------------------------------------------------------------
(* After init_model; an asynchronous vLLM engine is awake, seeded by its   *)
(* own start, and about to be put to sleep by AgentLoopManager.            *)
HybridInit ==
    /\ config \in Configs
    /\ calls = 0
    /\ params = [r \in Ranks |-> Offloaded("gpu", config.param_offload)]
    /\ optimizer = [r \in Ranks |-> Offloaded("gpu", config.optimizer_offload)]
    /\ actor = [r \in Ranks |-> [id |-> Pretrained, steps |-> 0]]
    /\ \/ saved = [r \in Ranks |-> [id |-> None, steps |-> 0, rng |-> <<r, 0>>]]
       \/ saved = [r \in Ranks |-> [id |-> Earlier, steps |-> 1, rng |-> <<r, 1>>]]
    /\ collected = [r \in Ranks |-> None]
    /\ LET asleep == config.engine = "vllm" /\ config.mode = "sync" /\ config.free_cache_engine
           loaded == IF config.dummy THEN Random ELSE Pretrained
       IN  engine = [r \in Ranks |->
                [weights |-> ~ asleep, kv |-> ~ asleep,
                 base |-> IF asleep /\ config.sleep_level = 2 THEN Lost ELSE loaded,
                 adapter |-> None, prefixes |-> {}]]
    /\ need_reload = (config.engine = "sglang")
    /\ is_sleep = [r \in Ranks |-> config.engine = "sglang"]
    /\ base_sync_done = [r \in Ranks |-> ~ config.dummy]
    /\ expandable = [r \in Ranks |-> FALSE]
    /\ torch_random_states = [r \in Ranks |-> <<r, 0>>]
    /\ gen_random_states = [r \in Ranks |-> <<"gen", 0>>]
    /\ rng = [r \in Ranks |-> IF config.engine = "vllm" /\ config.mode = "async"
                              THEN <<"engine", 0>> ELSE <<r, 0>>]
    /\ call = IF config.mode = "async" THEN "sleep" ELSE "none"
    /\ at = [r \in Ranks |-> IF config.mode = "async" THEN "sleep" ELSE "idle"]

\* The driver calls a method on all ranks once the last call has returned from all.
Call(method) ==
    /\ \A r \in Ranks : At(r, "idle")
    /\ calls < MaxCalls
    /\ method = "load_checkpoint" => \A r \in Ranks : saved[r].id # None
    /\ call' = method /\ calls' = calls + 1
    /\ at' = [r \in Ranks |-> IF method = "generate_sequences" THEN "collect" ELSE "load_params"]
    /\ UNCHANGED <<config, module, saved, collected, rollout, is_sleep, base_sync_done, expandable, random>>

Finished ==
    /\ calls = MaxCalls /\ \A r \in Ranks : At(r, "idle")
    /\ UNCHANGED hybridVars
-----------------------------------------------------------------------------
(* generate_sequences: __enter__ of the sharding manager *)

\* The state dict is made on the GPU, and the module leaves it again.
Collect(r) ==
    /\ At(r, "collect")
    /\ collected' = [collected EXCEPT ![r] =
            IF config.lora /\ ~ base_sync_done[r] THEN Pretrained ELSE actor[r].id]
    /\ params' = [params EXCEPT ![r] = Offloaded(@, config.param_offload)]
    /\ Go(r, "wake_weights")
    /\ UNCHANGED <<driver, optimizer, actor, saved, rollout, is_sleep, base_sync_done, expandable, random>>

\* What sleep and release_memory_occupation leave of an engine.
Slept(e) == [e EXCEPT !.weights = FALSE, !.kv = FALSE, !.prefixes = {},
                      !.base = IF config.sleep_level = 2 THEN Lost ELSE @]

Woken(e, what) == [e EXCEPT !.weights = @ \/ "weights" \in what, !.kv = @ \/ "kv_cache" \in what]

\* wake_up, or resume_memory_occupation, which releases everything the first time.
Wake(r, what) ==
    /\ engine' = [q \in Ranks |-> IF q \notin Reach(r) THEN engine[q]
                                  ELSE Woken(IF need_reload THEN Slept(engine[q]) ELSE engine[q], what)]
    /\ need_reload' = (need_reload /\ r # Root)

\* Mutant of FirstWoken: everything is woken up before the state dict is gone.
FirstWoken_Everything == {"weights", "kv_cache"}
FirstWoken == IF config.tags THEN {"weights"} ELSE {"weights", "kv_cache"}

WakeWeights(r) ==
    /\ At(r, "wake_weights")
    /\ expandable' = [expandable EXCEPT ![r] = FALSE]
    /\ IF config.free_cache_engine THEN Wake(r, FirstWoken) ELSE UNCHANGED rollout
    /\ Go(r, "load")
    /\ UNCHANGED <<driver, module, saved, collected, is_sleep, base_sync_done, random>>

\* full_tensor and gather_object are collectives: nobody passes before all have come.
AllCollected == \A q \in Ranks : at[q] \notin {"collect", "wake_weights"}

\* Mutant of AdapterOnly: an engine that has the base gets no base again.
AdapterOnly_Synced(r) == base_sync_done[r]
AdapterOnly(r) == config.lora /\ base_sync_done[r]

\* update_params of vLLM: an adapter alone, once the engine has the base.
UpdateParams(r) ==
    \/ /\ AdapterOnly(r)
       /\ engine' = [engine EXCEPT ![r].adapter = collected[r]]
       /\ UNCHANGED base_sync_done
    \/ /\ ~ AdapterOnly(r) /\ AllCollected
       /\ engine' = [engine EXCEPT ![r].base = collected[r]]
       /\ base_sync_done' = [base_sync_done EXCEPT ![r] = TRUE]

\* update_weights of SGLang: the first rank's engine gets all shards, and flushes its cache.
UpdateWeights(r) ==
    /\ AllCollected
    /\ engine' = [q \in Ranks |-> IF q \in Reach(r)
                                  THEN [engine[q] EXCEPT !.base = collected[r], !.prefixes = {}]
                                  ELSE engine[q]]
    /\ UNCHANGED base_sync_done

Load(r) ==
    /\ At(r, "load")
    /\ IF config.engine = "vllm" THEN UpdateParams(r) ELSE UpdateWeights(r)
    /\ Go(r, "unload")
    /\ UNCHANGED <<driver, module, saved, collected, need_reload, is_sleep, expandable, random>>

Unload(r) ==
    /\ At(r, "unload")
    /\ collected' = [collected EXCEPT ![r] = None]
    /\ Go(r, "wake_kv")
    /\ UNCHANGED <<driver, module, saved, rollout, is_sleep, base_sync_done, expandable, random>>

\* The rest of the engine wakes up, and the ranks take the generation's random states.
WakeKV(r) ==
    /\ At(r, "wake_kv")
    /\ IF config.free_cache_engine /\ config.tags THEN Wake(r, {"kv_cache"}) ELSE UNCHANGED rollout
    /\ torch_random_states' = [torch_random_states EXCEPT ![r] = rng[r]]
    /\ rng' = [rng EXCEPT ![r] = gen_random_states[r]]
    /\ is_sleep' = [is_sleep EXCEPT ![r] = FALSE]
    /\ Go(r, "generate")
    /\ UNCHANGED <<driver, module, saved, collected, base_sync_done, expandable, gen_random_states>>
-----------------------------------------------------------------------------
(* generate_sequences: the generation, and __exit__ *)

Entered(q)   == at[q] \in {"generate", "sleep", "restore", "idle"}
Generated(q) == at[q] \in {"sleep", "restore", "idle"}

\* The ranks of vLLM, and a server's, start together; the first rank of SGLang
\* starts alone, and the others wait for its results.
MayGenerate(r) ==
    IF config.engine = "sglang" /\ r # Root THEN Generated(Root)
    ELSE (config.engine = "sglang" /\ config.mode = "sync") \/ \A q \in Ranks : Entered(q)

\* The weights a generation leaves in the cached prefixes.
Used(e) == IF config.lora THEN e.adapter ELSE e.base

Generate(r) ==
    /\ At(r, "generate") /\ MayGenerate(r)
    /\ engine' = [q \in Ranks |->
            IF q \notin Reach(r) THEN engine[q]
            ELSE [engine[q] EXCEPT !.prefixes =
                    IF config.engine = "sglang" /\ config.mode = "sync" THEN {}
                    ELSE @ \cup {Used(engine[q])}]]
    /\ rng' = [rng EXCEPT ![r] = IF config.engine = "vllm" THEN Next1(@) ELSE @]
    /\ Go(r, "sleep")
    /\ UNCHANGED <<driver, module, saved, collected, need_reload, is_sleep, base_sync_done, expandable,
                   torch_random_states, gen_random_states>>

Sleep(r) ==
    /\ At(r, "sleep")
    /\ IF config.mode = "async" /\ is_sleep[r]
       THEN Go(r, "idle") /\ UNCHANGED engine
       ELSE /\ Go(r, "restore")
            /\ engine' = [q \in Ranks |-> IF config.free_cache_engine /\ q \in Reach(r)
                                          THEN Slept(engine[q]) ELSE engine[q]]
    /\ UNCHANGED <<driver, module, saved, collected, need_reload, is_sleep, base_sync_done, expandable, random>>

\* Mutant of Restored: the training goes on with the generation's random state.
Restored_Generation(r) == rng[r]
Restored(r) == torch_random_states[r]

Restore(r) ==
    /\ At(r, "restore")
    /\ expandable' = [expandable EXCEPT ![r] = TRUE]
    /\ gen_random_states' = [gen_random_states EXCEPT ![r] = rng[r]]
    /\ rng' = [rng EXCEPT ![r] = Restored(r)]
    /\ is_sleep' = [is_sleep EXCEPT ![r] = TRUE]
    /\ Go(r, "idle")
    /\ UNCHANGED <<driver, module, saved, collected, rollout, base_sync_done, torch_random_states>>
-----------------------------------------------------------------------------
(* The methods that work on the module *)

LoadParams(r) ==
    /\ At(r, "load_params")
    /\ params' = [params EXCEPT ![r] = "gpu"]
    /\ optimizer' = [optimizer EXCEPT ![r] = IF call = "update_actor" THEN "gpu" ELSE @]
    /\ Go(r, "work")
    /\ UNCHANGED <<driver, actor, saved, collected, rollout, is_sleep, base_sync_done, expandable, random>>

AllLoaded == \A q \in Ranks : ~ At(q, "load_params")

\* A training step makes weights no job has had, and draws from the training's stream.
UpdatePolicy(r) ==
    /\ call = "update_actor" /\ AllLoaded
    /\ actor' = [actor EXCEPT ![r] = [id |-> Earlier + calls, steps |-> @.steps + 1]]
    /\ rng' = [rng EXCEPT ![r] = Next1(@)]
    /\ UNCHANGED <<optimizer, saved>>

LogProb(r) ==
    /\ call = "compute_log_prob" /\ AllLoaded
    /\ UNCHANGED <<actor, optimizer, saved, rng>>

SaveCheckpoint(r) ==
    /\ call = "save_checkpoint"
    /\ saved' = [saved EXCEPT ![r] = [id |-> actor[r].id, steps |-> actor[r].steps, rng |-> rng[r]]]
    /\ UNCHANGED <<actor, optimizer, rng>>

\* The optimizer's state is loaded to where the parameters are.
LoadCheckpoint(r) ==
    /\ call = "load_checkpoint"
    /\ actor' = [actor EXCEPT ![r] = [id |-> saved[r].id, steps |-> saved[r].steps]]
    /\ rng' = [rng EXCEPT ![r] = saved[r].rng]
    /\ optimizer' = [optimizer EXCEPT ![r] = "gpu"]
    /\ UNCHANGED saved

Work(r) ==
    /\ At(r, "work")
    /\ UpdatePolicy(r) \/ LogProb(r) \/ SaveCheckpoint(r) \/ LoadCheckpoint(r)
    /\ Go(r, "offload")
    /\ UNCHANGED <<driver, params, collected, rollout, is_sleep, base_sync_done, expandable,
                   torch_random_states, gen_random_states>>

Offload(r) ==
    /\ At(r, "offload")
    /\ params' = [params EXCEPT ![r] = Offloaded(@, config.param_offload)]
    /\ optimizer' = [optimizer EXCEPT ![r] =
            IF call \in {"update_actor", "load_checkpoint"} THEN Offloaded(@, config.optimizer_offload) ELSE @]
    /\ Go(r, "idle")
    /\ UNCHANGED <<driver, actor, saved, collected, rollout, is_sleep, base_sync_done, expandable, random>>

Step(r) ==
    \/ Collect(r) \/ WakeWeights(r) \/ Load(r) \/ Unload(r) \/ WakeKV(r)
    \/ Generate(r) \/ Sleep(r) \/ Restore(r)
    \/ LoadParams(r) \/ Work(r) \/ Offload(r)

HybridNext == (\E method \in Methods : Call(method)) \/ (\E r \in Ranks : Step(r)) \/ Finished

HybridSpec == HybridInit /\ [][HybridNext]_hybridVars
-----------------------------------------------------------------------------
Ids     == Nat \cup {Random, Lost, None}
EngineStates == [weights : BOOLEAN, kv : BOOLEAN, base : Ids, adapter : Ids, prefixes : SUBSET Ids]
Streams == (Ranks \cup {"gen", "engine"}) \X Nat
Places  == {"idle", "collect", "wake_weights", "load", "unload", "wake_kv", "generate", "sleep",
            "restore", "load_params", "work", "offload"}

HybridTypeOK ==
    /\ config \in Config /\ Supported(config)
    /\ call \in Methods \cup {"none", "sleep"} /\ calls \in 0 .. MaxCalls
    /\ at \in [Ranks -> Places]
    /\ params \in [Ranks -> {"gpu", "cpu"}] /\ optimizer \in [Ranks -> {"gpu", "cpu"}]
    /\ actor \in [Ranks -> [id : Ids, steps : Nat]]
    /\ saved \in [Ranks -> [id : Ids, steps : Nat, rng : Streams]]
    /\ collected \in [Ranks -> Ids]
    /\ engine \in [Ranks -> EngineStates]
    /\ need_reload \in BOOLEAN
    /\ is_sleep \in [Ranks -> BOOLEAN] /\ base_sync_done \in [Ranks -> BOOLEAN]
    /\ expandable \in [Ranks -> BOOLEAN]
    /\ rng \in [Ranks -> Streams] /\ torch_random_states \in [Ranks -> Streams]
    /\ gen_random_states \in [Ranks -> Streams]

IsCurrent(q) ==
    IF config.lora THEN engine[q].base = Pretrained /\ engine[q].adapter = actor[q].id
    ELSE engine[q].base = actor[q].id

(* Whenever a rank generates, every GPU of its engine has the weights and   *)
(* the cache in memory and holds the actor as it is now, after any calls in *)
(* between; and no prefix is cached from other weights, where the cache is  *)
(* freed with the engine or flushed with the weights.                       *)
EngineIsCurrent ==
    \A r \in Ranks : At(r, "generate") /\ MayGenerate(r) =>
        \A q \in Reach(r) :
            /\ engine[q].weights /\ engine[q].kv
            /\ IsCurrent(q)
            /\ config.free_cache_engine \/ config.engine = "sglang" => engine[q].prefixes \subseteq {actor[q].id}

(* The training's randomness depends on its own steps only, whatever is     *)
(* generated between them and also after a checkpoint is loaded; and all    *)
(* ranks start a generation with one random state.                          *)
RandomStatesApart ==
    /\ \A r \in Ranks : at[r] \notin {"generate", "sleep", "restore"} => rng[r] = <<r, actor[r].steps>>
    /\ \A r, q \in Ranks : At(r, "generate") /\ At(q, "generate") => rng[r] = rng[q]

\* With one rank's call: the actor's state has left the GPU.
Away(r) ==
    /\ collected[r] = None
    /\ config.param_offload => params[r] = "cpu"
    /\ config.optimizer_offload => optimizer[r] = "cpu"

(* The actor and the engine take turns on a GPU: nothing of the engine is   *)
(* there while the actor works, nothing of the actor that can be offloaded  *)
(* while a rank generates or has its cache back (which comes second where   *)
(* the engine can wake up in two stages), and vLLM's memory is never up     *)
(* with expandable segments.                                                *)
MemoryIsShared ==
    \A r \in Ranks :
        /\ config.free_cache_engine /\ ~ need_reload /\ at[r] \in {"load_params", "work", "offload"} =>
                \A q \in Ranks : ~ engine[q].weights /\ ~ engine[q].kv
        /\ At(r, "generate") => Away(r)
        /\ config.engine = "vllm" /\ config.free_cache_engine =>
                /\ config.tags /\ engine[r].kv => Away(r)
                /\ engine[r].weights \/ engine[r].kv => ~ expandable[r]
=============================================================================
