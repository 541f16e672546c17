------------------------ MODULE HybridEngine_proofs ------------------------
(***************************************************************************)
(* What holds of a tensor-parallel group for any number of ranks and calls *)
(* and in every supported configuration: a generation uses the actor as it *)
(* is, training and generation have random states of their own, and the    *)
(* actor and the engine take turns on the GPU.                             *)
(***************************************************************************)
EXTENDS HybridEngine, TLAPS

\* What sleeping, waking up and a new id make of an engine is one again.
LEMMA EngineStatesAre ==
    ASSUME NEW e \in EngineStates
    PROVE  /\ Slept(e) \in EngineStates
           /\ \A what : Woken(e, what) \in EngineStates
           /\ \A id \in Ids : /\ [e EXCEPT !.base = id] \in EngineStates
                             /\ [e EXCEPT !.adapter = id] \in EngineStates
                             /\ [e EXCEPT !.base = id, !.prefixes = {}] \in EngineStates
           /\ [e EXCEPT !.prefixes = {}] \in EngineStates
           /\ [e EXCEPT !.prefixes = @ \cup {Used(e)}] \in EngineStates
<1>1. ASSUME NEW what PROVE Woken(e, what) \in EngineStates
  BY DEF Woken, EngineStates
<1>2. Slept(e) \in EngineStates
  BY DEF Slept, EngineStates, Ids, Lost
<1>. QED  BY <1>1, <1>2 DEF EngineStates, Used

\* Waking up keeps the type of the engines, and so does loading.
LEMMA WakeType ==
    ASSUME HybridTypeOK, NEW r \in Ranks, NEW what, Wake(r, what)
    PROVE  engine' \in [Ranks -> EngineStates] /\ need_reload' \in BOOLEAN
<1>1. ASSUME NEW q \in Ranks
      PROVE  (IF q \notin Reach(r) THEN engine[q]
              ELSE Woken(IF need_reload THEN Slept(engine[q]) ELSE engine[q], what)) \in EngineStates
  <2>1. engine[q] \in EngineStates
    BY DEF HybridTypeOK
  <2>2. Slept(engine[q]) \in EngineStates
    BY <2>1, EngineStatesAre
  <2>. QED  BY <2>1, <2>2, EngineStatesAre
<1>. QED  BY <1>1 DEF Wake, HybridTypeOK

LEMMA LoadType ==
    ASSUME HybridTypeOK, NEW r \in Ranks, UpdateParams(r) \/ UpdateWeights(r)
    PROVE  engine' \in [Ranks -> EngineStates] /\ base_sync_done' \in [Ranks -> BOOLEAN]
<1>1. collected[r] \in Ids /\ engine \in [Ranks -> EngineStates] /\ \A q \in Ranks : engine[q] \in EngineStates
  BY DEF HybridTypeOK
<1>2. \A q \in Ranks : /\ [engine[q] EXCEPT !.base = collected[r]] \in EngineStates
                      /\ [engine[q] EXCEPT !.adapter = collected[r]] \in EngineStates
                      /\ [engine[q] EXCEPT !.base = collected[r], !.prefixes = {}] \in EngineStates
  BY <1>1, EngineStatesAre
<1>3. CASE UpdateParams(r)
  <2>1. engine' = [engine EXCEPT ![r].adapter = collected[r]] => engine' \in [Ranks -> EngineStates]
    BY <1>1, <1>2
  <2>2. engine' = [engine EXCEPT ![r].base = collected[r]] => engine' \in [Ranks -> EngineStates]
    BY <1>1, <1>2
  <2>. QED  BY <1>3, <2>1, <2>2 DEF UpdateParams, HybridTypeOK
<1>4. CASE UpdateWeights(r)
  BY <1>1, <1>2, <1>4 DEF UpdateWeights, HybridTypeOK
<1>. QED  BY <1>3, <1>4

\* The next random state is one of the same stream.
LEMMA StreamsAre == ASSUME NEW state \in Streams PROVE Next1(state) \in Streams
BY DEF Streams, Next1

-----------------------------------------------------------------------------
LEMMA TypeInit == HybridInit => HybridTypeOK
<1>. SUFFICES ASSUME HybridInit PROVE HybridTypeOK
  OBVIOUS
<1>. USE HybridAssumption DEF HybridInit, Ids, Streams, Pretrained, Earlier, Random, Lost, None, Places, Offloaded
<1>1. config \in Config /\ Supported(config) /\ calls \in 0 .. MaxCalls /\ call \in Methods \cup {"none", "sleep"}
  BY DEF Methods
<1>2. at \in [Ranks -> Places] /\ params \in [Ranks -> {"gpu", "cpu"}] /\ optimizer \in [Ranks -> {"gpu", "cpu"}]
  OBVIOUS
<1>3. actor \in [Ranks -> [id : Ids, steps : Nat]] /\ collected \in [Ranks -> Ids]
  OBVIOUS
<1>4. saved \in [Ranks -> [id : Ids, steps : Nat, rng : Streams]]
  OBVIOUS
<1>5. engine \in [Ranks -> EngineStates]
  BY DEF EngineStates
<1>6. /\ need_reload \in BOOLEAN /\ is_sleep \in [Ranks -> BOOLEAN] /\ base_sync_done \in [Ranks -> BOOLEAN]
      /\ expandable \in [Ranks -> BOOLEAN]
  BY <1>1 DEF Config
<1>7. /\ rng \in [Ranks -> Streams] /\ torch_random_states \in [Ranks -> Streams]
      /\ gen_random_states \in [Ranks -> Streams]
  OBVIOUS
<1>. QED  BY <1>1, <1>2, <1>3, <1>4, <1>5, <1>6, <1>7 DEF HybridTypeOK

LEMMA TypeStep == HybridTypeOK /\ [HybridNext]_hybridVars => HybridTypeOK'
<1>. SUFFICES ASSUME HybridTypeOK, [HybridNext]_hybridVars PROVE HybridTypeOK'
  OBVIOUS
<1>. USE HybridAssumption DEF HybridTypeOK, Places, Offloaded, Go, At, driver, module, rollout, random
<1>1. ASSUME NEW method \in Methods, Call(method) PROVE HybridTypeOK'
  BY <1>1 DEF Call
<1>2. ASSUME NEW r \in Ranks, Collect(r) PROVE HybridTypeOK'
  BY <1>2 DEF Collect, Ids, None, Pretrained
<1>3. ASSUME NEW r \in Ranks, WakeWeights(r) PROVE HybridTypeOK'
  <2>1. engine' \in [Ranks -> EngineStates] /\ need_reload' \in BOOLEAN
    BY <1>3, WakeType DEF WakeWeights
  <2>. QED  BY <1>3, <2>1 DEF WakeWeights
<1>4. ASSUME NEW r \in Ranks, Load(r) PROVE HybridTypeOK'
  <2>1. engine' \in [Ranks -> EngineStates] /\ base_sync_done' \in [Ranks -> BOOLEAN]
    BY <1>4, LoadType DEF Load
  <2>. QED  BY <1>4, <2>1 DEF Load
<1>5. ASSUME NEW r \in Ranks, Unload(r) PROVE HybridTypeOK'
  BY <1>5 DEF Unload, Ids, None
<1>6. ASSUME NEW r \in Ranks, WakeKV(r) PROVE HybridTypeOK'
  <2>1. engine' \in [Ranks -> EngineStates] /\ need_reload' \in BOOLEAN
    BY <1>6, WakeType DEF WakeKV
  <2>. QED  BY <1>6, <2>1 DEF WakeKV
<1>7. ASSUME NEW r \in Ranks, Generate(r) PROVE HybridTypeOK'
  <2>1. \A q \in Ranks : /\ engine[q] \in EngineStates
                        /\ [engine[q] EXCEPT !.prefixes = {}] \in EngineStates
                        /\ [engine[q] EXCEPT !.prefixes = @ \cup {Used(engine[q])}] \in EngineStates
    BY EngineStatesAre
  <2>2. engine' \in [Ranks -> EngineStates]
    BY <1>7, <2>1 DEF Generate
  <2>3. rng' \in [Ranks -> Streams]
    BY <1>7, StreamsAre DEF Generate
  <2>. QED  BY <1>7, <2>2, <2>3 DEF Generate
<1>8. ASSUME NEW r \in Ranks, Sleep(r) PROVE HybridTypeOK'
  <2>1. \A q \in Ranks : engine[q] \in EngineStates /\ Slept(engine[q]) \in EngineStates
    BY EngineStatesAre
  <2>2. engine' \in [Ranks -> EngineStates]
    BY <1>8, <2>1 DEF Sleep
  <2>. QED  BY <1>8, <2>2 DEF Sleep
<1>9. ASSUME NEW r \in Ranks, Restore(r) PROVE HybridTypeOK'
  BY <1>9 DEF Restore, Restored
<1>10. ASSUME NEW r \in Ranks, LoadParams(r) PROVE HybridTypeOK'
  BY <1>10 DEF LoadParams
<1>11. ASSUME NEW r \in Ranks, Work(r) PROVE HybridTypeOK'
  <2>1. CASE UpdatePolicy(r)
    <3>1. rng' \in [Ranks -> Streams]
      BY <2>1, StreamsAre DEF UpdatePolicy
    <3>2. actor' \in [Ranks -> [id : Ids, steps : Nat]]
      BY <2>1 DEF UpdatePolicy, Ids, Earlier
    <3>. QED  BY <1>11, <2>1, <3>1, <3>2 DEF Work, UpdatePolicy
  <2>2. CASE LogProb(r)
    BY <1>11, <2>2 DEF Work, LogProb
  <2>3. CASE SaveCheckpoint(r)
    <3>1. saved' \in [Ranks -> [id : Ids, steps : Nat, rng : Streams]]
      BY <2>3 DEF SaveCheckpoint
    <3>. QED  BY <1>11, <2>3, <3>1 DEF Work, SaveCheckpoint
  <2>4. CASE LoadCheckpoint(r)
    <3>1. actor' \in [Ranks -> [id : Ids, steps : Nat]] /\ rng' \in [Ranks -> Streams]
      BY <2>4 DEF LoadCheckpoint
    <3>. QED  BY <1>11, <2>4, <3>1 DEF Work, LoadCheckpoint
  <2>. QED  BY <1>11, <2>1, <2>2, <2>3, <2>4 DEF Work
<1>12. ASSUME NEW r \in Ranks, Offload(r) PROVE HybridTypeOK'
  BY <1>12 DEF Offload
<1>13. CASE Finished \/ UNCHANGED hybridVars
  BY <1>13 DEF Finished, hybridVars
<1>. QED  BY <1>1, <1>2, <1>3, <1>4, <1>5, <1>6, <1>7, <1>8, <1>9, <1>10, <1>11, <1>12, <1>13 DEF HybridNext, Step

-----------------------------------------------------------------------------
(***************************************************************************)
(* The inductive invariant.  Where a rank is tells what it holds, so each  *)
(* part follows one piece of state through the places of a call.           *)
(***************************************************************************)
Generating == {"collect", "wake_weights", "load", "unload", "wake_kv", "generate", "sleep", "restore"}
Working    == {"load_params", "work", "offload"}

CallInv ==
    \A r \in Ranks : /\ at[r] \in Working => call \in Methods \ {"generate_sequences"}
                     /\ at[r] \in Generating => call \in {"generate_sequences", "sleep"}

\* The training's random state is a rank's own one or the one it puts aside.
TrainingInv ==
    \A r \in Ranks :
        /\ at[r] \notin {"generate", "sleep", "restore"} => rng[r] = <<r, actor[r].steps>>
        /\ at[r] \in {"generate", "sleep", "restore"} => torch_random_states[r] = <<r, actor[r].steps>>
        /\ at[r] = "sleep" /\ config.mode = "async" /\ is_sleep[r] => rng[r] = <<r, actor[r].steps>>
        /\ at[r] = "generate" => ~ is_sleep[r]
        /\ saved[r].rng = <<r, saved[r].steps>>

\* The generation's random state that a rank has at the end of its call.
Advanced(state) == IF config.engine = "vllm" THEN Next1(state) ELSE state
Drawn(r) ==
    IF at[r] \in {"collect", "wake_weights", "load", "unload", "wake_kv"} THEN Advanced(gen_random_states[r])
    ELSE IF at[r] = "generate" THEN Advanced(rng[r])
    ELSE IF at[r] = "restore" \/ (at[r] = "sleep" /\ ~ (config.mode = "async" /\ is_sleep[r])) THEN rng[r]
    ELSE gen_random_states[r]

DrawnInv == \A r, q \in Ranks : Drawn(r) = Drawn(q)

\* The weights, and the checkpoint, that a rank has at the end of its call.
Before(r) == at[r] \in {"load_params", "work"}
FinalActor(r) ==
    IF Before(r) /\ call = "update_actor" THEN Earlier + calls
    ELSE IF Before(r) /\ call = "load_checkpoint" THEN saved[r].id
    ELSE actor[r].id
FinalSaved(r) == IF Before(r) /\ call = "save_checkpoint" THEN actor[r].id ELSE saved[r].id

ActorInv == \A r, q \in Ranks : FinalActor(r) = FinalActor(q) /\ FinalSaved(r) = FinalSaved(q)

\* The module is away but in a call that needs it; what is collected is the actor.
ModuleInv ==
    \A r \in Ranks :
        /\ at[r] \in {"wake_weights", "load"} => collected[r] = actor[r].id
        /\ at[r] \notin {"wake_weights", "load", "unload"} => collected[r] = None
        /\ config.param_offload /\ at[r] \notin {"work", "offload"} => params[r] = "cpu"
        /\ config.optimizer_offload /\ ~ (at[r] \in {"work", "offload"} /\ call \in {"update_actor", "load_checkpoint"}) =>
                optimizer[r] = "cpu"
        /\ config.lora => base_sync_done[r]

\* An engine is in memory from the first stage of waking up until it sleeps.
Up == {"load", "unload", "wake_kv", "generate", "sleep"}
Ready(place) == place = "generate" \/ (~ config.tags /\ place \in {"load", "unload", "wake_kv"})

VllmRank(r) ==
    /\ at[r] = "sleep" => ~ is_sleep[r]
    /\ at[r] \in Up \cup {"restore"} => ~ expandable[r]
    /\ at[r] \in {"load", "unload", "wake_kv", "generate"} \/ ~ config.free_cache_engine => engine[r].weights
    /\ Ready(at[r]) \/ ~ config.free_cache_engine => engine[r].kv
    /\ config.free_cache_engine =>
            /\ engine[r].weights => at[r] \in Up
            /\ engine[r].kv => Ready(at[r]) \/ at[r] = "sleep"
            /\ at[r] # "sleep" => engine[r].prefixes = {}
    /\ config.lora => engine[r].base = Pretrained
    /\ at[r] \in {"unload", "wake_kv", "generate"} => IsCurrent(r)

VllmInv == config.engine = "vllm" => ~ need_reload /\ \A r \in Ranks : VllmRank(r)

SGLangRank(q) ==
    /\ at[Root] \in {"load", "unload", "wake_kv", "generate"} \/ ~ config.free_cache_engine => engine[q].weights
    /\ Ready(at[Root]) \/ ~ config.free_cache_engine => engine[q].kv
    /\ config.free_cache_engine /\ ~ need_reload /\ (engine[q].weights \/ engine[q].kv) => at[Root] \in Up
    /\ at[Root] \in {"unload", "wake_kv", "generate"} =>
            engine[q].base = actor[Root].id /\ engine[q].prefixes = {}

ReloadInv ==
    config.free_cache_engine =>
        /\ at[Root] \in {"load", "unload", "wake_kv", "generate"} => ~ need_reload
        /\ at[Root] = "sleep" /\ config.mode = "async" /\ is_sleep[Root] => need_reload

SGLangInv == config.engine = "sglang" => ReloadInv /\ \A q \in Ranks : SGLangRank(q)

\* What an engine holds after it slept, or woke up.
LEMMA SleptFields ==
    ASSUME NEW e \in EngineStates
    PROVE  /\ ~ Slept(e).weights /\ ~ Slept(e).kv /\ Slept(e).prefixes = {}
           /\ config.sleep_level = 1 => Slept(e).base = e.base
BY DEF Slept, EngineStates

LEMMA WokenFields ==
    ASSUME NEW e \in EngineStates, NEW what
    PROVE  /\ Woken(e, what).weights <=> e.weights \/ "weights" \in what
           /\ Woken(e, what).kv <=> e.kv \/ "kv_cache" \in what
           /\ Woken(e, what).base = e.base /\ Woken(e, what).adapter = e.adapter
           /\ Woken(e, what).prefixes = e.prefixes
<1>1. Woken(e, what).weights <=> e.weights \/ "weights" \in what
  BY DEF Woken, EngineStates
<1>2. Woken(e, what).kv <=> e.kv \/ "kv_cache" \in what
  BY DEF Woken, EngineStates
<1>3. /\ Woken(e, what).base = e.base /\ Woken(e, what).adapter = e.adapter
      /\ Woken(e, what).prefixes = e.prefixes
  BY DEF Woken, EngineStates
<1>. QED  BY <1>1, <1>2, <1>3

-----------------------------------------------------------------------------

\* A call takes all ranks or none.
LEMMA CallStep == HybridTypeOK /\ CallInv /\ [HybridNext]_hybridVars => CallInv'
<1>. SUFFICES ASSUME HybridTypeOK, CallInv, [HybridNext]_hybridVars PROVE CallInv'
  OBVIOUS
<1>. USE DEF HybridTypeOK, CallInv, Places, Generating, Working, Methods, Go, At, driver, module, rollout, random
<1>1. ASSUME NEW method \in Methods, Call(method) PROVE CallInv'
  BY <1>1 DEF Call
<1>2. ASSUME NEW r \in Ranks, Collect(r) PROVE CallInv'
  BY <1>2 DEF Collect
<1>3. ASSUME NEW r \in Ranks, WakeWeights(r) PROVE CallInv'
  BY <1>3 DEF WakeWeights
<1>4. ASSUME NEW r \in Ranks, Load(r) PROVE CallInv'
  BY <1>4 DEF Load
<1>5. ASSUME NEW r \in Ranks, Unload(r) PROVE CallInv'
  BY <1>5 DEF Unload
<1>6. ASSUME NEW r \in Ranks, WakeKV(r) PROVE CallInv'
  BY <1>6 DEF WakeKV
<1>7. ASSUME NEW r \in Ranks, Generate(r) PROVE CallInv'
  BY <1>7 DEF Generate
<1>8. ASSUME NEW r \in Ranks, Sleep(r) PROVE CallInv'
  BY <1>8 DEF Sleep
<1>9. ASSUME NEW r \in Ranks, Restore(r) PROVE CallInv'
  BY <1>9 DEF Restore
<1>10. ASSUME NEW r \in Ranks, LoadParams(r) PROVE CallInv'
  BY <1>10 DEF LoadParams
<1>11. ASSUME NEW r \in Ranks, Work(r) PROVE CallInv'
  BY <1>11 DEF Work
<1>12. ASSUME NEW r \in Ranks, Offload(r) PROVE CallInv'
  BY <1>12 DEF Offload
<1>13. CASE Finished \/ UNCHANGED hybridVars
  BY <1>13 DEF Finished, hybridVars
<1>. QED  BY <1>1, <1>2, <1>3, <1>4, <1>5, <1>6, <1>7, <1>8, <1>9, <1>10, <1>11, <1>12, <1>13 DEF HybridNext, Step

\* Only steps of the training advance the training's random state.
LEMMA TrainingStep == HybridTypeOK /\ TrainingInv /\ [HybridNext]_hybridVars => TrainingInv'
<1>. SUFFICES ASSUME HybridTypeOK, TrainingInv, [HybridNext]_hybridVars PROVE TrainingInv'
  OBVIOUS
<1>. USE DEF HybridTypeOK, TrainingInv, Places, Go, At, driver, module, rollout, random
<1>1. ASSUME NEW method \in Methods, Call(method) PROVE TrainingInv'
  BY <1>1 DEF Call
<1>2. ASSUME NEW r \in Ranks, Collect(r) PROVE TrainingInv'
  BY <1>2 DEF Collect
<1>3. ASSUME NEW r \in Ranks, WakeWeights(r) PROVE TrainingInv'
  BY <1>3 DEF WakeWeights
<1>4. ASSUME NEW r \in Ranks, Load(r) PROVE TrainingInv'
  BY <1>4 DEF Load
<1>5. ASSUME NEW r \in Ranks, Unload(r) PROVE TrainingInv'
  BY <1>5 DEF Unload
<1>6. ASSUME NEW r \in Ranks, WakeKV(r) PROVE TrainingInv'
  BY <1>6 DEF WakeKV
<1>7. ASSUME NEW r \in Ranks, Generate(r) PROVE TrainingInv'
  BY <1>7 DEF Generate
<1>8. ASSUME NEW r \in Ranks, Sleep(r) PROVE TrainingInv'
  BY <1>8 DEF Sleep
<1>9. ASSUME NEW r \in Ranks, Restore(r) PROVE TrainingInv'
  BY <1>9 DEF Restore, Restored
<1>10. ASSUME NEW r \in Ranks, LoadParams(r) PROVE TrainingInv'
  BY <1>10 DEF LoadParams
<1>11. ASSUME NEW r \in Ranks, Work(r) PROVE TrainingInv'
  BY <1>11 DEF Work, UpdatePolicy, LogProb, SaveCheckpoint, LoadCheckpoint, Next1
<1>12. ASSUME NEW r \in Ranks, Offload(r) PROVE TrainingInv'
  BY <1>12 DEF Offload
<1>13. CASE Finished \/ UNCHANGED hybridVars
  BY <1>13 DEF Finished, hybridVars
<1>. QED  BY <1>1, <1>2, <1>3, <1>4, <1>5, <1>6, <1>7, <1>8, <1>9, <1>10, <1>11, <1>12, <1>13 DEF HybridNext, Step

\* Each rank draws as often from the generation's stream as the others.
LEMMA DrawnStep == HybridTypeOK /\ TrainingInv /\ DrawnInv /\ [HybridNext]_hybridVars => DrawnInv'
<1>. SUFFICES ASSUME HybridTypeOK, TrainingInv, DrawnInv, [HybridNext]_hybridVars PROVE DrawnInv'
  OBVIOUS
<1>. USE DEF HybridTypeOK, DrawnInv, TrainingInv, Drawn, Advanced, Places, Streams, Go, At, driver, module, rollout, random
<1>1. ASSUME NEW method \in Methods, Call(method) PROVE DrawnInv'
  BY <1>1 DEF Call
<1>2. ASSUME NEW r \in Ranks, Collect(r) PROVE DrawnInv'
  BY <1>2 DEF Collect
<1>3. ASSUME NEW r \in Ranks, WakeWeights(r) PROVE DrawnInv'
  BY <1>3 DEF WakeWeights
<1>4. ASSUME NEW r \in Ranks, Load(r) PROVE DrawnInv'
  BY <1>4 DEF Load
<1>5. ASSUME NEW r \in Ranks, Unload(r) PROVE DrawnInv'
  BY <1>5 DEF Unload
<1>6. ASSUME NEW r \in Ranks, WakeKV(r) PROVE DrawnInv'
  BY <1>6 DEF WakeKV
<1>7. ASSUME NEW r \in Ranks, Generate(r) PROVE DrawnInv'
  BY <1>7 DEF Generate
<1>8. ASSUME NEW r \in Ranks, Sleep(r) PROVE DrawnInv'
  BY <1>8 DEF Sleep
<1>9. ASSUME NEW r \in Ranks, Restore(r) PROVE DrawnInv'
  BY <1>9 DEF Restore, Restored
<1>10. ASSUME NEW r \in Ranks, LoadParams(r) PROVE DrawnInv'
  BY <1>10 DEF LoadParams
<1>11. ASSUME NEW r \in Ranks, Work(r) PROVE DrawnInv'
  BY <1>11 DEF Work, UpdatePolicy, LogProb, SaveCheckpoint, LoadCheckpoint
<1>12. ASSUME NEW r \in Ranks, Offload(r) PROVE DrawnInv'
  BY <1>12 DEF Offload
<1>13. CASE Finished \/ UNCHANGED hybridVars
  BY <1>13 DEF Finished, hybridVars
<1>. QED  BY <1>1, <1>2, <1>3, <1>4, <1>5, <1>6, <1>7, <1>8, <1>9, <1>10, <1>11, <1>12, <1>13 DEF HybridNext, Step

\* When a call is over, all ranks have the same weights and the same checkpoint.
LEMMA ActorStep == HybridTypeOK /\ CallInv /\ ActorInv /\ [HybridNext]_hybridVars => ActorInv'
<1>. SUFFICES ASSUME HybridTypeOK, CallInv, ActorInv, [HybridNext]_hybridVars PROVE ActorInv'
  OBVIOUS
<1>. USE DEF HybridTypeOK, CallInv, ActorInv, Generating, Working, Before, FinalActor, FinalSaved, Places, Go, At, driver, module, rollout, random
<1>1. ASSUME NEW method \in Methods, Call(method) PROVE ActorInv'
  BY <1>1 DEF Call
<1>2. ASSUME NEW r \in Ranks, Collect(r) PROVE ActorInv'
  BY <1>2 DEF Collect
<1>3. ASSUME NEW r \in Ranks, WakeWeights(r) PROVE ActorInv'
  BY <1>3 DEF WakeWeights
<1>4. ASSUME NEW r \in Ranks, Load(r) PROVE ActorInv'
  BY <1>4 DEF Load
<1>5. ASSUME NEW r \in Ranks, Unload(r) PROVE ActorInv'
  BY <1>5 DEF Unload
<1>6. ASSUME NEW r \in Ranks, WakeKV(r) PROVE ActorInv'
  BY <1>6 DEF WakeKV
<1>7. ASSUME NEW r \in Ranks, Generate(r) PROVE ActorInv'
  BY <1>7 DEF Generate
<1>8. ASSUME NEW r \in Ranks, Sleep(r) PROVE ActorInv'
  BY <1>8 DEF Sleep
<1>9. ASSUME NEW r \in Ranks, Restore(r) PROVE ActorInv'
  BY <1>9 DEF Restore
<1>10. ASSUME NEW r \in Ranks, LoadParams(r) PROVE ActorInv'
  BY <1>10 DEF LoadParams
<1>11. ASSUME NEW r \in Ranks, Work(r) PROVE ActorInv'
  BY <1>11 DEF Work, UpdatePolicy, LogProb, SaveCheckpoint, LoadCheckpoint
<1>12. ASSUME NEW r \in Ranks, Offload(r) PROVE ActorInv'
  BY <1>12 DEF Offload
<1>13. CASE Finished \/ UNCHANGED hybridVars
  BY <1>13 DEF Finished, hybridVars
<1>. QED  BY <1>1, <1>2, <1>3, <1>4, <1>5, <1>6, <1>7, <1>8, <1>9, <1>10, <1>11, <1>12, <1>13 DEF HybridNext, Step

\* The module moves to the GPU and away within a call.
LEMMA ModuleStep == HybridTypeOK /\ CallInv /\ ModuleInv /\ [HybridNext]_hybridVars => ModuleInv'
<1>. SUFFICES ASSUME HybridTypeOK, CallInv, ModuleInv, [HybridNext]_hybridVars PROVE ModuleInv'
  OBVIOUS
<1>. USE DEF HybridTypeOK, CallInv, ModuleInv, Generating, Working, Methods, Places, Offloaded, Go, At, driver, module, rollout, random
<1>1. ASSUME NEW method \in Methods, Call(method) PROVE ModuleInv'
  BY <1>1 DEF Call
<1>2. ASSUME NEW r \in Ranks, Collect(r) PROVE ModuleInv'
  BY <1>2 DEF Collect
<1>3. ASSUME NEW r \in Ranks, WakeWeights(r) PROVE ModuleInv'
  BY <1>3 DEF WakeWeights
<1>4. ASSUME NEW r \in Ranks, Load(r) PROVE ModuleInv'
  BY <1>4 DEF Load, UpdateParams, UpdateWeights
<1>5. ASSUME NEW r \in Ranks, Unload(r) PROVE ModuleInv'
  BY <1>5 DEF Unload
<1>6. ASSUME NEW r \in Ranks, WakeKV(r) PROVE ModuleInv'
  BY <1>6 DEF WakeKV
<1>7. ASSUME NEW r \in Ranks, Generate(r) PROVE ModuleInv'
  BY <1>7 DEF Generate
<1>8. ASSUME NEW r \in Ranks, Sleep(r) PROVE ModuleInv'
  BY <1>8 DEF Sleep
<1>9. ASSUME NEW r \in Ranks, Restore(r) PROVE ModuleInv'
  BY <1>9 DEF Restore
<1>10. ASSUME NEW r \in Ranks, LoadParams(r) PROVE ModuleInv'
  BY <1>10 DEF LoadParams
<1>11. ASSUME NEW r \in Ranks, Work(r) PROVE ModuleInv'
  BY <1>11 DEF Work, UpdatePolicy, LogProb, SaveCheckpoint, LoadCheckpoint
<1>12. ASSUME NEW r \in Ranks, Offload(r) PROVE ModuleInv'
  BY <1>12 DEF Offload
<1>13. CASE Finished \/ UNCHANGED hybridVars
  BY <1>13 DEF Finished, hybridVars
<1>. QED  BY <1>1, <1>2, <1>3, <1>4, <1>5, <1>6, <1>7, <1>8, <1>9, <1>10, <1>11, <1>12, <1>13 DEF HybridNext, Step

\* The engine of vLLM: each rank moves its own.
LEMMA VllmStep == HybridTypeOK /\ CallInv /\ TrainingInv /\ ModuleInv /\ VllmInv /\ [HybridNext]_hybridVars => VllmInv'
<1>. SUFFICES ASSUME HybridTypeOK, CallInv, TrainingInv, ModuleInv, VllmInv, [HybridNext]_hybridVars PROVE VllmInv'
  OBVIOUS
<1>. USE DEF HybridTypeOK, Generating, Working, Methods, Places, Up, Ready, Go, At, driver, module, rollout, random
<1>1. ASSUME NEW method \in Methods, Call(method) PROVE VllmInv'
  BY <1>1 DEF Call, CallInv, VllmInv, VllmRank, IsCurrent
<1>2. ASSUME NEW r \in Ranks, Collect(r) PROVE VllmInv'
  BY <1>2 DEF Collect, CallInv, VllmInv, VllmRank, IsCurrent
<1>3. ASSUME NEW r \in Ranks, WakeWeights(r) PROVE VllmInv'
  <2>. SUFFICES ASSUME config.engine = "vllm" PROVE ~ need_reload' /\ \A q \in Ranks : VllmRank(q)'
    BY <1>3 DEF WakeWeights, VllmInv
  <2>. engine[r] \in EngineStates /\ ~ need_reload /\ \A q \in Ranks : VllmRank(q)
    BY DEF VllmInv
  <2>1. ~ need_reload' /\ \A q \in Ranks \ {r} : engine'[q] = engine[q]
    BY <1>3 DEF WakeWeights, Wake, Reach
  <2>2. engine'[r] = IF config.free_cache_engine THEN Woken(engine[r], FirstWoken) ELSE engine[r]
    BY <1>3 DEF WakeWeights, Wake, Reach
  <2>3. /\ config.free_cache_engine => engine'[r].weights /\ (engine'[r].kv <=> engine[r].kv \/ ~ config.tags)
        /\ ~ config.free_cache_engine => engine'[r] = engine[r]
        /\ engine'[r].base = engine[r].base /\ engine'[r].adapter = engine[r].adapter /\ engine'[r].prefixes = engine[r].prefixes
    BY <2>2, WokenFields DEF FirstWoken
  <2>4. ASSUME NEW q \in Ranks, q # r PROVE VllmRank(q)'
    BY <1>3, <2>1, <2>4 DEF WakeWeights, VllmRank, IsCurrent
  <2>5. VllmRank(r)'
    BY <1>3, <2>1, <2>2, <2>3 DEF WakeWeights, VllmRank, IsCurrent
  <2>. QED  BY <2>1, <2>4, <2>5
<1>4. ASSUME NEW r \in Ranks, Load(r) PROVE VllmInv'
  <2>. SUFFICES ASSUME config.engine = "vllm" PROVE ~ need_reload' /\ \A q \in Ranks : VllmRank(q)'
    BY <1>4 DEF Load, VllmInv
  <2>. engine[r] \in EngineStates /\ ~ need_reload /\ \A q \in Ranks : VllmRank(q)
    BY DEF VllmInv
  <2>1. ~ need_reload' /\ \A q \in Ranks \ {r} : engine'[q] = engine[q]
    BY <1>4 DEF Load, UpdateParams
  <2>2. /\ engine'[r].weights = engine[r].weights /\ engine'[r].kv = engine[r].kv /\ engine'[r].prefixes = engine[r].prefixes
        /\ config.lora => engine'[r].base = engine[r].base /\ engine'[r].adapter = actor[r].id
        /\ ~ config.lora => engine'[r].base = actor[r].id
    BY <1>4 DEF Load, UpdateParams, AdapterOnly, ModuleInv, EngineStates
  <2>3. ASSUME NEW q \in Ranks, q # r PROVE VllmRank(q)'
    BY <1>4, <2>1, <2>3 DEF Load, VllmRank, IsCurrent
  <2>4. VllmRank(r)'
    BY <1>4, <2>1, <2>2 DEF Load, VllmRank, IsCurrent
  <2>. QED  BY <2>1, <2>3, <2>4
<1>5. ASSUME NEW r \in Ranks, Unload(r) PROVE VllmInv'
  BY <1>5 DEF Unload, CallInv, VllmInv, VllmRank, IsCurrent
<1>6. ASSUME NEW r \in Ranks, WakeKV(r) PROVE VllmInv'
  <2>. SUFFICES ASSUME config.engine = "vllm" PROVE ~ need_reload' /\ \A q \in Ranks : VllmRank(q)'
    BY <1>6 DEF WakeKV, VllmInv
  <2>. engine[r] \in EngineStates /\ ~ need_reload /\ \A q \in Ranks : VllmRank(q)
    BY DEF VllmInv
  <2>1. ~ need_reload' /\ \A q \in Ranks \ {r} : engine'[q] = engine[q]
    BY <1>6 DEF WakeKV, Wake, Reach
  <2>2. engine'[r] = IF config.free_cache_engine /\ config.tags THEN Woken(engine[r], {"kv_cache"}) ELSE engine[r]
    BY <1>6 DEF WakeKV, Wake, Reach
  <2>3. /\ config.free_cache_engine => (engine'[r].weights <=> engine[r].weights) /\ (engine'[r].kv <=> engine[r].kv \/ config.tags)
        /\ ~ config.free_cache_engine => engine'[r] = engine[r]
        /\ engine'[r].base = engine[r].base /\ engine'[r].adapter = engine[r].adapter /\ engine'[r].prefixes = engine[r].prefixes
    BY <2>2, WokenFields
  <2>4. ASSUME NEW q \in Ranks, q # r PROVE VllmRank(q)'
    BY <1>6, <2>1, <2>4 DEF WakeKV, VllmRank, IsCurrent
  <2>5. VllmRank(r)'
    BY <1>6, <2>1, <2>2, <2>3 DEF WakeKV, VllmRank, IsCurrent
  <2>. QED  BY <2>1, <2>4, <2>5
<1>7. ASSUME NEW r \in Ranks, Generate(r) PROVE VllmInv'
  <2>. SUFFICES ASSUME config.engine = "vllm" PROVE ~ need_reload' /\ \A q \in Ranks : VllmRank(q)'
    BY <1>7 DEF Generate, VllmInv
  <2>. engine[r] \in EngineStates /\ ~ need_reload /\ \A q \in Ranks : VllmRank(q)
    BY DEF VllmInv
  <2>1. ~ need_reload' /\ \A q \in Ranks \ {r} : engine'[q] = engine[q]
    BY <1>7 DEF Generate, Reach
  <2>2. /\ engine'[r].weights = engine[r].weights /\ engine'[r].kv = engine[r].kv /\ engine'[r].base = engine[r].base
    BY <1>7 DEF Generate, Reach, EngineStates
  <2>3. ASSUME NEW q \in Ranks, q # r PROVE VllmRank(q)'
    BY <1>7, <2>1, <2>3 DEF Generate, VllmRank, IsCurrent
  <2>4. VllmRank(r)'
    BY <1>7, <2>1, <2>2 DEF Generate, VllmRank, IsCurrent, TrainingInv
  <2>. QED  BY <2>1, <2>3, <2>4
<1>8. ASSUME NEW r \in Ranks, Sleep(r) PROVE VllmInv'
  <2>. SUFFICES ASSUME config.engine = "vllm" PROVE ~ need_reload' /\ \A q \in Ranks : VllmRank(q)'
    BY <1>8 DEF Sleep, VllmInv
  <2>. engine[r] \in EngineStates /\ ~ need_reload /\ \A q \in Ranks : VllmRank(q)
    BY DEF VllmInv
  <2>1. ~ need_reload' /\ \A q \in Ranks \ {r} : engine'[q] = engine[q]
    BY <1>8 DEF Sleep, Reach
  <2>2. /\ at'[r] = "restore"
        /\ engine'[r] = IF config.free_cache_engine THEN Slept(engine[r]) ELSE engine[r]
    BY <1>8 DEF Sleep, Reach, VllmRank
  <2>3. config.lora => config.sleep_level = 1
    BY DEF Supported
  <2>4. /\ config.free_cache_engine => ~ engine'[r].weights /\ ~ engine'[r].kv /\ engine'[r].prefixes = {}
        /\ ~ config.free_cache_engine => engine'[r] = engine[r]
        /\ config.lora => engine'[r].base = engine[r].base
    BY <2>2, <2>3, SleptFields
  <2>5. ASSUME NEW q \in Ranks, q # r PROVE VllmRank(q)'
    BY <1>8, <2>1, <2>5 DEF Sleep, VllmRank, IsCurrent
  <2>6. VllmRank(r)'
    BY <1>8, <2>1, <2>2, <2>3, <2>4 DEF Sleep, VllmRank, IsCurrent
  <2>. QED  BY <2>1, <2>5, <2>6
<1>9. ASSUME NEW r \in Ranks, Restore(r) PROVE VllmInv'
  BY <1>9 DEF Restore, CallInv, VllmInv, VllmRank, IsCurrent
<1>10. ASSUME NEW r \in Ranks, LoadParams(r) PROVE VllmInv'
  BY <1>10 DEF LoadParams, CallInv, VllmInv, VllmRank, IsCurrent
<1>11. ASSUME NEW r \in Ranks, Work(r) PROVE VllmInv'
  BY <1>11 DEF Work, UpdatePolicy, LogProb, SaveCheckpoint, LoadCheckpoint, CallInv, VllmInv, VllmRank, IsCurrent
<1>12. ASSUME NEW r \in Ranks, Offload(r) PROVE VllmInv'
  BY <1>12 DEF Offload, CallInv, VllmInv, VllmRank, IsCurrent
<1>13. CASE Finished \/ UNCHANGED hybridVars
  BY <1>13 DEF Finished, hybridVars, CallInv, VllmInv, VllmRank, IsCurrent
<1>. QED  BY <1>1, <1>2, <1>3, <1>4, <1>5, <1>6, <1>7, <1>8, <1>9, <1>10, <1>11, <1>12, <1>13 DEF HybridNext, Step

\* The engine of SGLang: the first rank moves all.
LEMMA SGLangStep == HybridTypeOK /\ CallInv /\ TrainingInv /\ ModuleInv /\ SGLangInv /\ [HybridNext]_hybridVars => SGLangInv'
<1>. SUFFICES ASSUME HybridTypeOK, CallInv, TrainingInv, ModuleInv, SGLangInv, [HybridNext]_hybridVars PROVE SGLangInv'
  OBVIOUS
<1>. USE DEF HybridTypeOK, Generating, Working, Methods, Places, Up, Ready, Go, At, driver, module, rollout, random
<1>1. ASSUME NEW method \in Methods, Call(method) PROVE SGLangInv'
  BY <1>1, HybridAssumption DEF Call, CallInv, SGLangInv, ReloadInv, SGLangRank
<1>2. ASSUME NEW r \in Ranks, Collect(r) PROVE SGLangInv'
  BY <1>2 DEF Collect, CallInv, SGLangInv, ReloadInv, SGLangRank
<1>3. ASSUME NEW r \in Ranks, WakeWeights(r) PROVE SGLangInv'
  <2>. SUFFICES ASSUME config.engine = "sglang" PROVE ReloadInv' /\ \A q \in Ranks : SGLangRank(q)'
    BY <1>3 DEF WakeWeights, SGLangInv
  <2>. Root \in Ranks /\ ReloadInv /\ \A q \in Ranks : SGLangRank(q) /\ engine[q] \in EngineStates
    BY HybridAssumption DEF SGLangInv
  <2>1. CASE r # Root
    <3>1. engine' = engine /\ need_reload' = need_reload /\ at'[Root] = at[Root] /\ is_sleep'[Root] = is_sleep[Root]
      BY <1>3, <2>1 DEF WakeWeights, Wake, Reach
    <3>2. UNCHANGED <<config, actor>>
      BY <1>3 DEF WakeWeights
    <3>. QED  BY <3>1, <3>2 DEF ReloadInv, SGLangRank
  <2>2. CASE r = Root
    <3>1. need_reload' = (need_reload /\ ~ (config.free_cache_engine))
      BY <1>3, <2>2 DEF WakeWeights, Wake
    <3>2. ~ (config.free_cache_engine) => engine' = engine
      BY <1>3 DEF WakeWeights
    <3>3. config.free_cache_engine => \A q \in Ranks :
            engine'[q] = Woken(IF need_reload THEN Slept(engine[q]) ELSE engine[q], FirstWoken)
      BY <1>3, <2>2 DEF WakeWeights, Wake, Reach
    <3>4. \A q \in Ranks : Slept(engine[q]) \in EngineStates
      BY EngineStatesAre
    <3>5. config.free_cache_engine => \A q \in Ranks : engine'[q].weights /\ (~ config.tags => engine'[q].kv)
      BY <3>3, <3>4, WokenFields DEF FirstWoken
    <3>6. ASSUME NEW q \in Ranks PROVE SGLangRank(q)'
      BY <1>3, <2>2, <3>1, <3>2, <3>3, <3>4, <3>5 DEF WakeWeights, SGLangRank, ReloadInv
    <3>7. ReloadInv'
      BY <1>3, <2>2, <3>1 DEF WakeWeights, ReloadInv
    <3>. QED  BY <3>6, <3>7
  <2>. QED  BY <2>1, <2>2
<1>4. ASSUME NEW r \in Ranks, Load(r) PROVE SGLangInv'
  <2>. SUFFICES ASSUME config.engine = "sglang" PROVE ReloadInv' /\ \A q \in Ranks : SGLangRank(q)'
    BY <1>4 DEF Load, SGLangInv
  <2>. Root \in Ranks /\ ReloadInv /\ \A q \in Ranks : SGLangRank(q) /\ engine[q] \in EngineStates
    BY HybridAssumption DEF SGLangInv
  <2>1. CASE r # Root
    <3>1. engine' = engine /\ need_reload' = need_reload /\ at'[Root] = at[Root] /\ is_sleep'[Root] = is_sleep[Root]
      BY <1>4, <2>1 DEF Load, UpdateWeights, Reach
    <3>2. UNCHANGED <<config, actor>>
      BY <1>4 DEF Load
    <3>. QED  BY <3>1, <3>2 DEF ReloadInv, SGLangRank
  <2>2. CASE r = Root
    <3>1. need_reload' = need_reload /\ collected[Root] = actor[Root].id
      BY <1>4, <2>2 DEF Load, ModuleInv
    <3>2. \A q \in Ranks : engine'[q] = [engine[q] EXCEPT !.base = collected[Root], !.prefixes = {}]
      BY <1>4, <2>2 DEF Load, UpdateWeights, Reach
    <3>3. ASSUME NEW q \in Ranks
          PROVE  /\ engine'[q].weights = engine[q].weights /\ engine'[q].kv = engine[q].kv
                 /\ engine'[q].base = actor[Root].id /\ engine'[q].prefixes = {}
      BY <3>1, <3>2 DEF EngineStates
    <3>4. ASSUME NEW q \in Ranks PROVE SGLangRank(q)'
      BY <1>4, <2>2, <3>1, <3>2, <3>3 DEF Load, SGLangRank, ReloadInv
    <3>5. ReloadInv'
      BY <1>4, <2>2, <3>1 DEF Load, ReloadInv
    <3>. QED  BY <3>4, <3>5
  <2>. QED  BY <2>1, <2>2
<1>5. ASSUME NEW r \in Ranks, Unload(r) PROVE SGLangInv'
  BY <1>5 DEF Unload, CallInv, SGLangInv, ReloadInv, SGLangRank
<1>6. ASSUME NEW r \in Ranks, WakeKV(r) PROVE SGLangInv'
  <2>. SUFFICES ASSUME config.engine = "sglang" PROVE ReloadInv' /\ \A q \in Ranks : SGLangRank(q)'
    BY <1>6 DEF WakeKV, SGLangInv
  <2>. Root \in Ranks /\ ReloadInv /\ \A q \in Ranks : SGLangRank(q) /\ engine[q] \in EngineStates
    BY HybridAssumption DEF SGLangInv
  <2>1. CASE r # Root
    <3>1. engine' = engine /\ need_reload' = need_reload /\ at'[Root] = at[Root] /\ is_sleep'[Root] = is_sleep[Root]
      BY <1>6, <2>1 DEF WakeKV, Wake, Reach
    <3>2. UNCHANGED <<config, actor>>
      BY <1>6 DEF WakeKV
    <3>. QED  BY <3>1, <3>2 DEF ReloadInv, SGLangRank
  <2>2. CASE r = Root
    <3>1. config.free_cache_engine => ~ need_reload
      BY <1>6, <2>2 DEF WakeKV, ReloadInv
    <3>2. need_reload' = (need_reload /\ ~ (config.free_cache_engine /\ config.tags))
      BY <1>6, <2>2 DEF WakeKV, Wake
    <3>3. ~ (config.free_cache_engine /\ config.tags) => engine' = engine
      BY <1>6 DEF WakeKV
    <3>4. config.free_cache_engine /\ config.tags => \A q \in Ranks : engine'[q] = Woken(engine[q], {"kv_cache"})
      BY <1>6, <2>2, <3>1 DEF WakeKV, Wake, Reach
    <3>5. ASSUME NEW q \in Ranks
          PROVE  /\ config.free_cache_engine /\ config.tags => engine'[q].kv
                 /\ engine'[q].weights <=> engine[q].weights
                 /\ engine'[q].base = engine[q].base /\ engine'[q].prefixes = engine[q].prefixes
      BY <3>3, <3>4, WokenFields DEF EngineStates
    <3>6. ASSUME NEW q \in Ranks PROVE SGLangRank(q)'
      <4>1. at[Root] = "wake_kv" /\ at'[Root] = "generate" /\ UNCHANGED <<config, actor>>
        BY <1>6, <2>2 DEF WakeKV
      <4>2. CASE config.free_cache_engine /\ config.tags
        BY <3>5, <4>1, <4>2 DEF SGLangRank
      <4>3. CASE ~ (config.free_cache_engine /\ config.tags)
        BY <3>3, <4>1, <4>3 DEF SGLangRank
      <4>. QED  BY <4>2, <4>3
    <3>7. ReloadInv'
      BY <1>6, <2>2, <3>1, <3>2 DEF WakeKV, ReloadInv
    <3>. QED  BY <3>6, <3>7
  <2>. QED  BY <2>1, <2>2
<1>7. ASSUME NEW r \in Ranks, Generate(r) PROVE SGLangInv'
  <2>. SUFFICES ASSUME config.engine = "sglang" PROVE ReloadInv' /\ \A q \in Ranks : SGLangRank(q)'
    BY <1>7 DEF Generate, SGLangInv
  <2>. Root \in Ranks /\ ReloadInv /\ \A q \in Ranks : SGLangRank(q) /\ engine[q] \in EngineStates
    BY HybridAssumption DEF SGLangInv
  <2>1. CASE r # Root
    <3>1. engine' = engine /\ need_reload' = need_reload /\ at'[Root] = at[Root] /\ is_sleep'[Root] = is_sleep[Root]
      BY <1>7, <2>1 DEF Generate, Reach
    <3>2. UNCHANGED <<config, actor>>
      BY <1>7 DEF Generate
    <3>. QED  BY <3>1, <3>2 DEF ReloadInv, SGLangRank
  <2>2. CASE r = Root
    <3>1. need_reload' = need_reload
      BY <1>7 DEF Generate
    <3>2. \A q \in Ranks : engine'[q].weights = engine[q].weights /\ engine'[q].kv = engine[q].kv
      BY <1>7 DEF Generate, EngineStates
    <3>3. ASSUME NEW q \in Ranks PROVE SGLangRank(q)'
      BY <1>7, <2>2, <3>1, <3>2 DEF Generate, SGLangRank, ReloadInv
    <3>4. ReloadInv'
      BY <1>7, <2>2, <3>1 DEF Generate, ReloadInv, TrainingInv
    <3>. QED  BY <3>3, <3>4
  <2>. QED  BY <2>1, <2>2
<1>8. ASSUME NEW r \in Ranks, Sleep(r) PROVE SGLangInv'
  <2>. SUFFICES ASSUME config.engine = "sglang" PROVE ReloadInv' /\ \A q \in Ranks : SGLangRank(q)'
    BY <1>8 DEF Sleep, SGLangInv
  <2>. Root \in Ranks /\ ReloadInv /\ \A q \in Ranks : SGLangRank(q) /\ engine[q] \in EngineStates
    BY HybridAssumption DEF SGLangInv
  <2>1. CASE r # Root
    <3>1. engine' = engine /\ need_reload' = need_reload /\ at'[Root] = at[Root] /\ is_sleep'[Root] = is_sleep[Root]
      BY <1>8, <2>1 DEF Sleep, Reach
    <3>2. UNCHANGED <<config, actor>>
      BY <1>8 DEF Sleep
    <3>. QED  BY <3>1, <3>2 DEF ReloadInv, SGLangRank
  <2>2. CASE r = Root
    <3>1. need_reload' = need_reload
      BY <1>8 DEF Sleep
    <3>2. at'[Root] = "restore" /\ config.free_cache_engine => \A q \in Ranks : engine'[q] = Slept(engine[q])
      BY <1>8, <2>2 DEF Sleep, Reach
    <3>3. config.free_cache_engine /\ ~ need_reload => at'[Root] = "restore"
      BY <1>8, <2>2 DEF Sleep, ReloadInv
    <3>4. ~ config.free_cache_engine \/ at'[Root] # "restore" => engine' = engine
      BY <1>8, <2>2 DEF Sleep
    <3>5. at'[Root] = "restore" /\ config.free_cache_engine => \A q \in Ranks : ~ engine'[q].weights /\ ~ engine'[q].kv
      BY <3>2, SleptFields
    <3>6. ASSUME NEW q \in Ranks PROVE SGLangRank(q)'
      BY <1>8, <2>2, <3>1, <3>2, <3>3, <3>4, <3>5 DEF Sleep, SGLangRank, ReloadInv
    <3>7. ReloadInv'
      BY <1>8, <2>2, <3>1 DEF Sleep, ReloadInv
    <3>. QED  BY <3>6, <3>7
  <2>. QED  BY <2>1, <2>2
<1>9. ASSUME NEW r \in Ranks, Restore(r) PROVE SGLangInv'
  BY <1>9 DEF Restore, CallInv, SGLangInv, ReloadInv, SGLangRank
<1>10. ASSUME NEW r \in Ranks, LoadParams(r) PROVE SGLangInv'
  BY <1>10 DEF LoadParams, CallInv, SGLangInv, ReloadInv, SGLangRank
<1>11. ASSUME NEW r \in Ranks, Work(r) PROVE SGLangInv'
  BY <1>11, HybridAssumption DEF Work, UpdatePolicy, LogProb, SaveCheckpoint, LoadCheckpoint, CallInv, SGLangInv, ReloadInv, SGLangRank
<1>12. ASSUME NEW r \in Ranks, Offload(r) PROVE SGLangInv'
  BY <1>12 DEF Offload, CallInv, SGLangInv, ReloadInv, SGLangRank
<1>13. CASE Finished \/ UNCHANGED hybridVars
  BY <1>13 DEF Finished, hybridVars, SGLangInv, ReloadInv, SGLangRank
<1>. QED  BY <1>1, <1>2, <1>3, <1>4, <1>5, <1>6, <1>7, <1>8, <1>9, <1>10, <1>11, <1>12, <1>13 DEF HybridNext, Step

-----------------------------------------------------------------------------
Inv == HybridTypeOK /\ CallInv /\ TrainingInv /\ DrawnInv /\ ActorInv /\ ModuleInv /\ VllmInv /\ SGLangInv

LEMMA InvInit == HybridInit => Inv
<1>. SUFFICES ASSUME HybridInit PROVE Inv
  OBVIOUS
<1>1. HybridTypeOK
  BY TypeInit
<1>2. Root \in Ranks /\ config \in Config /\ Supported(config)
  BY HybridAssumption DEF HybridInit
<1>3. CallInv
  BY DEF HybridInit, CallInv, Generating, Working
<1>0. config.engine \in {"vllm", "sglang"} /\ config.mode \in {"sync", "async"}
  BY <1>2 DEF Config, Engines, Modes
<1>4. TrainingInv
  <2>. SUFFICES ASSUME NEW r \in Ranks
                PROVE  /\ at[r] # "sleep" => rng[r] = <<r, 0>>
                       /\ at[r] = "sleep" /\ is_sleep[r] => rng[r] = <<r, 0>>
                       /\ at[r] \in {"idle", "sleep"} /\ actor[r].steps = 0 /\ torch_random_states[r] = <<r, 0>>
                       /\ saved[r].rng = <<r, saved[r].steps>>
    BY DEF TrainingInv
  <2>1. saved[r].rng = <<r, saved[r].steps>>
    BY DEF HybridInit
  <2>. QED  BY <1>0, <2>1 DEF HybridInit
<1>9. DrawnInv
  <2>. SUFFICES ASSUME NEW r \in Ranks PROVE Drawn(r) = IF config.engine = "vllm" /\ config.mode = "async" THEN <<"engine", 0>> ELSE <<"gen", 0>>
    BY DEF DrawnInv
  <2>. QED  BY <1>0 DEF HybridInit, Drawn
<1>5. ActorInv
  BY DEF HybridInit, ActorInv, FinalActor, FinalSaved, Before
<1>6. ModuleInv
  BY <1>2 DEF HybridInit, ModuleInv, Offloaded, Supported
<1>7. VllmInv
  <2>. SUFFICES ASSUME config.engine = "vllm", NEW r \in Ranks PROVE ~ need_reload /\ VllmRank(r)
    BY <1>2 DEF VllmInv
  <2>1. /\ ~ need_reload /\ ~ is_sleep[r] /\ ~ expandable[r] /\ engine[r].prefixes = {}
        /\ at[r] = IF config.mode = "async" THEN "sleep" ELSE "idle"
    BY DEF HybridInit
  <2>2. /\ engine[r].weights <=> ~ (config.mode = "sync" /\ config.free_cache_engine)
        /\ engine[r].kv <=> ~ (config.mode = "sync" /\ config.free_cache_engine)
    BY DEF HybridInit
  <2>3. config.lora => engine[r].base = Pretrained
    BY <1>2 DEF HybridInit, Supported
  <2>. QED  BY <1>0, <1>2, <2>1, <2>2, <2>3 DEF VllmRank, Up, Ready, Supported
<1>8. SGLangInv
  BY <1>2 DEF HybridInit, SGLangInv, ReloadInv, SGLangRank, Up, Ready, Config, Modes
<1>. QED  BY <1>1, <1>3, <1>4, <1>5, <1>6, <1>7, <1>8, <1>9 DEF Inv

LEMMA Invariance == HybridSpec => []Inv
<1>1. Inv /\ [HybridNext]_hybridVars => Inv'
  BY TypeStep, CallStep, TrainingStep, DrawnStep, ActorStep, ModuleStep, VllmStep, SGLangStep DEF Inv
<1>. QED  BY <1>1, InvInit, PTL DEF HybridSpec

\* The types, for any group and any number of calls.
THEOREM TypeCorrect == HybridSpec => []HybridTypeOK
<1>1. Inv => HybridTypeOK
  BY DEF Inv
<1>. QED  BY <1>1, Invariance, PTL

\* A generation uses the actor as it is, on every GPU of its engine.
THEOREM EnginesAreCurrent == HybridSpec => []EngineIsCurrent
<1>1. Inv => EngineIsCurrent
  <2>. SUFFICES ASSUME Inv, NEW r \in Ranks, At(r, "generate"), NEW q \in Reach(r)
                PROVE  /\ engine[q].weights /\ engine[q].kv
                       /\ IsCurrent(q)
                       /\ config.free_cache_engine \/ config.engine = "sglang" => engine[q].prefixes \subseteq {actor[q].id}
    BY DEF EngineIsCurrent
  <2>1. HybridTypeOK /\ at[r] = "generate"
    BY DEF Inv, At
  <2>2. CASE config.engine = "vllm"
    <3>1. q = r /\ VllmRank(r)
      BY <2>2 DEF Reach, Inv, VllmInv
    <3>. QED  BY <2>1, <2>2, <3>1 DEF VllmRank, Ready
  <2>3. CASE config.engine # "vllm"
    <3>1. config.engine = "sglang" /\ ~ config.lora /\ r = Root /\ q \in Ranks
      BY <2>1, <2>3 DEF HybridTypeOK, Config, Engines, Supported, Reach
    <3>2. SGLangRank(q)
      BY <3>1 DEF Inv, SGLangInv
    <3>3. call \in {"generate_sequences", "sleep"}
      BY <2>1 DEF Inv, CallInv, Generating
    <3>4. actor[q].id = actor[Root].id
      BY <3>1, <3>3, HybridAssumption DEF Inv, ActorInv, FinalActor
    <3>. QED  BY <2>1, <3>1, <3>2, <3>4 DEF SGLangRank, Ready, IsCurrent
  <2>. QED  BY <2>2, <2>3
<1>. QED  BY <1>1, Invariance, PTL

\* Training and generation draw from streams of their own.
THEOREM RandomStatesStayApart == HybridSpec => []RandomStatesApart
<1>1. Inv => RandomStatesApart
  <2>. SUFFICES ASSUME Inv PROVE RandomStatesApart
    OBVIOUS
  <2>1. ASSUME NEW r \in Ranks, at[r] \notin {"generate", "sleep", "restore"} PROVE rng[r] = <<r, actor[r].steps>>
    BY <2>1 DEF Inv, TrainingInv
  <2>2. ASSUME NEW r \in Ranks, NEW q \in Ranks, At(r, "generate"), At(q, "generate") PROVE rng[r] = rng[q]
    <3>1. Advanced(rng[r]) = Advanced(rng[q])
      BY <2>2 DEF Inv, DrawnInv, Drawn, At
    <3>2. rng[r] \in Streams /\ rng[q] \in Streams
      BY DEF Inv, HybridTypeOK
    <3>. QED  BY <3>1, <3>2 DEF Advanced, Next1, Streams
  <2>. QED  BY <2>1, <2>2 DEF RandomStatesApart
<1>. QED  BY <1>1, Invariance, PTL

\* The actor and the engine take turns on every GPU.
THEOREM MemoryStaysShared == HybridSpec => []MemoryIsShared
<1>1. Inv => MemoryIsShared
  <2>. SUFFICES ASSUME Inv, NEW r \in Ranks
                PROVE  /\ config.free_cache_engine /\ ~ need_reload /\ at[r] \in {"load_params", "work", "offload"} =>
                                \A q \in Ranks : ~ engine[q].weights /\ ~ engine[q].kv
                       /\ At(r, "generate") => Away(r)
                       /\ config.engine = "vllm" /\ config.free_cache_engine =>
                                /\ config.tags /\ engine[r].kv => Away(r)
                                /\ engine[r].weights \/ engine[r].kv => ~ expandable[r]
    BY DEF MemoryIsShared
  <2>. Root \in Ranks /\ HybridTypeOK
    BY HybridAssumption DEF Inv
  <2>1. ASSUME at[r] \in {"generate", "sleep"} PROVE Away(r)
    BY <2>1 DEF Inv, ModuleInv, Away, HybridTypeOK
  <2>2. ASSUME config.free_cache_engine, ~ need_reload, at[r] \in Working, NEW q \in Ranks
        PROVE  ~ engine[q].weights /\ ~ engine[q].kv
    <3>1. at[q] \notin Generating /\ at[Root] \notin Generating
      BY <2>2 DEF Inv, CallInv, Methods
    <3>2. CASE config.engine = "vllm"
      <4>1. VllmRank(q)
        BY <3>2 DEF Inv, VllmInv
      <4>. QED  BY <2>2, <3>1, <4>1 DEF VllmRank, Generating, Up, Ready
    <3>3. CASE config.engine = "sglang"
      <4>1. SGLangRank(q)
        BY <3>3 DEF Inv, SGLangInv
      <4>. QED  BY <2>2, <3>1, <4>1 DEF SGLangRank, Generating, Up
    <3>. QED  BY <3>2, <3>3 DEF HybridTypeOK, Config, Engines
  <2>3. ASSUME config.engine = "vllm", config.free_cache_engine
        PROVE  /\ config.tags /\ engine[r].kv => Away(r)
               /\ engine[r].weights \/ engine[r].kv => ~ expandable[r]
    <3>1. VllmRank(r)
      BY <2>3 DEF Inv, VllmInv
    <3>. QED  BY <2>1, <2>3, <3>1 DEF VllmRank, Up, Ready
  <2>. QED  BY <2>1, <2>2, <2>3 DEF At, Working
<1>. QED  BY <1>1, Invariance, PTL
=============================================================================
