-------------------------- MODULE AgentLoopManager --------------------------
(***************************************************************************)
(* AgentLoopManager and its AgentLoopWorkers: for every batch the driver   *)
(* wakes the servers up, which loads the weights of the actor into them,   *)
(* gives every worker its chunk of the prompts, waits for all of them, and *)
(* puts the servers to sleep before it updates the actor.  A conversation  *)
(* is a coroutine of its worker: it goes through several turns, each a     *)
(* call of AsyncLLMServerManager.generate, at its own pace.                *)
(*                                                                         *)
(* A server stands for the engine and the tensor-parallel ranks behind it. *)
(* A version of the weights is the number of updates behind them.  The     *)
(* job ends when a conversation raises, which is left out.                 *)
(***************************************************************************)
EXTENDS AsyncLLMServerManager

CONSTANTS
    NumBatches,       \* calls of generate_sequences, each with an update after it
    BatchOf,          \* the batch a conversation belongs to
    FreeCacheEngine,  \* rollout.free_cache_engine
    BuiltWith,        \* version an engine is built with: -1 if rollout.load_format is a dummy
    MaxTurns          \* max_assistant_turns

ASSUME AgentLoopAssumption ==
    /\ {NumBatches, MaxTurns} \subseteq Nat \ {0}
    /\ BatchOf \in [Requests -> 1 .. NumBatches]
    /\ FreeCacheEngine \in BOOLEAN
    /\ BuiltWith \in {-1, 0}

VARIABLES
    phase,         \* where the driver is
    batch,         \* the batch of the last generate_sequences
    version,       \* version of the actor's weights
    awake,         \* the servers that are awake
    weights,       \* version of a server's weights
    prefix_cache,  \* versions of the weights that computed its cached prefixes
    turns,         \* turns of a running conversation that were answered
    running,       \* the conversations whose coroutine has not returned
    at,            \* the server a conversation waits for, None without one
    first          \* history: the server of its first turn, None when not running

driverVars       == <<phase, batch, version>>
engineVars       == <<awake, weights, prefix_cache>>
conversationVars == <<turns, running, at, first>>
vars == <<driverVars, engineVars, conversationVars, managerVars>>

\* The constructor ends with sleep(), "Initially we're in sleep mode".
Init ==
    /\ phase = "idle" /\ batch = 0 /\ version = 0
    /\ awake = IF FreeCacheEngine THEN {} ELSE Servers
    /\ weights = [s \in Servers |-> BuiltWith]
    /\ prefix_cache = [s \in Servers |-> {}]
    /\ turns = [r \in Requests |-> 0]
    /\ running = {}
    /\ at = [r \in Requests |-> None]
    /\ first = [r \in Requests |-> None]
    /\ ManagerInit

-----------------------------------------------------------------------------
(* The driver and the engines *)

Chunk(w, b) == {r \in Requests : WorkerOf[r] = w /\ BatchOf[r] = b}
Prompts(b)  == {r \in Requests : BatchOf[r] = b}

GenerateSequences ==
    /\ phase = "idle"
    /\ batch < NumBatches
    /\ batch' = batch + 1
    /\ phase' = IF FreeCacheEngine THEN "wake_up" ELSE "dispatch"
    /\ UNCHANGED <<version, engineVars, conversationVars, managerVars>>

\* Mutant of WakeUp: only the first server is woken up.
WakeUp_OnlyOne(s) ==
    /\ phase = "wake_up"
    /\ awake = {}
    /\ awake' = {s}
    /\ weights' = [weights EXCEPT ![s] = version]
    /\ UNCHANGED <<driverVars, prefix_cache, conversationVars, managerVars>>

WakeUp(s) ==
    /\ phase = "wake_up"
    /\ s \notin awake
    /\ awake' = awake \cup {s}
    /\ weights' = [weights EXCEPT ![s] = version]
    /\ UNCHANGED <<driverVars, prefix_cache, conversationVars, managerVars>>

AllAwake ==
    /\ phase = "wake_up"
    /\ awake = Servers
    /\ phase' = "dispatch"
    /\ UNCHANGED <<batch, version, engineVars, conversationVars, managerVars>>

Dispatch ==
    /\ phase = "dispatch"
    /\ running' = Prompts(batch)
    /\ phase' = "generate"
    /\ UNCHANGED <<batch, version, engineVars, turns, at, first, managerVars>>

\* ray.get of all workers, each of which gathers all its conversations.
AllReturned ==
    /\ phase = "generate"
    /\ running = {}
    /\ phase' = IF FreeCacheEngine THEN "sleep" ELSE "update"
    /\ UNCHANGED <<batch, version, engineVars, conversationVars, managerVars>>

\* Mutant of Sleep: the engine keeps its prefix cache.
Sleep_KeepsPrefixes(s) ==
    /\ phase = "sleep"
    /\ s \in awake
    /\ awake' = awake \ {s}
    /\ UNCHANGED <<prefix_cache, driverVars, weights, conversationVars, managerVars>>

Sleep(s) ==
    /\ phase = "sleep"
    /\ s \in awake
    /\ awake' = awake \ {s}
    /\ prefix_cache' = [prefix_cache EXCEPT ![s] = {}]
    /\ UNCHANGED <<driverVars, weights, conversationVars, managerVars>>

AllAsleep ==
    /\ phase = "sleep"
    /\ awake = {}
    /\ phase' = "update"
    /\ UNCHANGED <<batch, version, engineVars, conversationVars, managerVars>>

UpdateActor ==
    /\ phase = "update"
    /\ version' = version + 1
    /\ phase' = IF batch = NumBatches THEN "finished" ELSE "idle"
    /\ UNCHANGED <<batch, engineVars, conversationVars, managerVars>>

Driver ==
    \/ GenerateSequences \/ AllAwake \/ Dispatch \/ AllReturned
    \/ AllAsleep \/ UpdateActor

-----------------------------------------------------------------------------
(* A conversation *)

Generate(r) ==
    /\ r \in running
    /\ at[r] = None
    /\ ChooseServer(r)
    /\ at' = [at EXCEPT ![r] = request_id_to_server'[r]]
    /\ first' = IF turns[r] = 0 THEN [first EXCEPT ![r] = request_id_to_server'[r]] ELSE first
    /\ UNCHANGED <<driverVars, engineVars, turns, running>>

\* The engine answers; the coroutine goes on with its tools, or returns.
Answer(r) ==
    /\ at[r] # None
    /\ at[r] \in awake
    /\ prefix_cache' = [prefix_cache EXCEPT ![at[r]] = @ \cup {weights[at[r]]}]
    /\ at' = [at EXCEPT ![r] = None]
    /\ \/ /\ running' = running \ {r}
          /\ turns' = [turns EXCEPT ![r] = 0]
          /\ first' = [first EXCEPT ![r] = None]
       \/ /\ turns[r] + 1 < MaxTurns
          /\ turns' = [turns EXCEPT ![r] = @ + 1]
          /\ UNCHANGED <<running, first>>
    /\ UNCHANGED <<driverVars, awake, weights, managerVars>>

Conversation(r) == Generate(r) \/ Answer(r)
Engine(s)       == WakeUp(s) \/ Sleep(s)

Next ==
    \/ Driver
    \/ \E s \in Servers : Engine(s)
    \/ \E r \in Requests : Conversation(r)

\* The driver, every engine and every coroutine go on while they can.
Fairness ==
    /\ WF_vars(Driver)
    /\ \A s \in Servers : WF_vars(Engine(s))
    /\ \A r \in Requests : WF_vars(Conversation(r))

Spec == Init /\ [][Next]_vars /\ Fairness

-----------------------------------------------------------------------------

TypeOK ==
    /\ ManagerTypeOK
    /\ phase \in {"idle", "wake_up", "dispatch", "generate", "sleep", "update", "finished"}
    /\ batch \in 0 .. NumBatches
    /\ version \in Nat
    /\ awake \subseteq Servers
    /\ weights \in [Servers -> Nat \cup {-1}]
    /\ prefix_cache \in [Servers -> SUBSET (Nat \cup {-1})]
    /\ turns \in [Requests -> Nat]
    /\ running \subseteq Requests
    /\ at \in [Requests -> Servers \cup {None}]
    /\ first \in [Requests -> Servers \cup {None}]

(***************************************************************************)
(* "Sticky session: send multi-turn chat completions to same server": no   *)
(* turn goes to another server than the first, provided that a chunk fits  *)
(* in the cache.  The sessions of earlier batches do not count: they are   *)
(* the ones that the cache evicts.                                         *)
(***************************************************************************)
Sticky == \A r \in Requests : at[r] # None => at[r] = first[r]

FreshWeights ==
    \A r \in Requests : at[r] # None => /\ at[r] \in awake
                                        /\ weights[at[r]] = version

FreshPrefixes ==
    \A r \in Requests : at[r] # None => prefix_cache[at[r]] \subseteq {version}

(***************************************************************************)
(* "Wake up engine to load model weights and build kv cache": whoever is   *)
(* answered is answered by a server that is awake and has the weights the  *)
(* actor has now, not those of an earlier update; and no turn reuses a     *)
(* prefix that other weights have computed.                                *)
(***************************************************************************)
AnswersAreFresh == FreshWeights /\ FreshPrefixes

(***************************************************************************)
(* Every batch is generated: nobody waits for a server that sleeps, nor    *)
(* the driver for a conversation that nobody serves.                       *)
(***************************************************************************)
AllGenerated == <>(phase = "finished")

=============================================================================
