----------------------- MODULE AgentLoopManager_proofs -----------------------
(***************************************************************************)
(* Proofs about AgentLoopManager for any number of servers, workers,       *)
(* conversations, turns and batches.                                       *)
(***************************************************************************)
EXTENDS AgentLoopManager, FiniteSetTheorems, TLAPS

-----------------------------------------------------------------------------
(* The type invariant *)

LEMMA ChooseServerType ==
    ASSUME ManagerTypeOK, NEW r \in Requests, ChooseServer(r)
    PROVE  ManagerTypeOK' /\ request_id_to_server'[r] \in Servers
<1>. USE ServerManagerAssumption
<1>1. WorkerOf[r] \in Workers
  OBVIOUS
<1>2. CASE KnownServer(r)
  BY <1>1, <1>2 DEF KnownServer, Touch, ManagerTypeOK
<1>3. CASE NewServer(r)
  <2>1. PICK s \in Servers : Assign(r, s)
    BY <1>3 DEF NewServer
  <2>2. weighted_servers' \in [Workers -> [Servers -> Nat]]
    BY <1>1, <2>1 DEF Assign, ManagerTypeOK
  <2>3. request_id_to_server' \in [Requests -> Servers \cup {None}]
    BY <2>1 DEF Assign, ManagerTypeOK
  <2>4. last_used' \in [Requests -> Nat] /\ clock' \in [Workers -> Nat]
    BY <1>1, <2>1 DEF Assign, Touch, ManagerTypeOK
  <2>5. request_id_to_server'[r] = s
    BY <2>1 DEF Assign
  <2>. QED  BY <2>2, <2>3, <2>4, <2>5 DEF ManagerTypeOK
<1>. QED  BY <1>2, <1>3 DEF ChooseServer

\* Every variable stays in its type, in every step of the driver, an engine or a
\* conversation.
THEOREM TypeCorrect == Spec => []TypeOK
<1>. USE ServerManagerAssumption, AgentLoopAssumption
<1>1. Init => TypeOK
  BY DEF Init, ManagerInit, TypeOK, ManagerTypeOK
<1>2. TypeOK /\ [Next]_vars => TypeOK'
  <2>. SUFFICES ASSUME TypeOK, [Next]_vars PROVE TypeOK'
    OBVIOUS
  <2>. USE DEF TypeOK
  <2>1. CASE Driver
    <3>1. ManagerTypeOK'
      BY <2>1 DEF Driver, GenerateSequences, AllAwake, Dispatch, AllReturned, AllAsleep,
                  UpdateActor, ManagerTypeOK, managerVars
    <3>2. NumBatches \in Nat
      OBVIOUS
    <3>3. batch' \in 0 .. NumBatches /\ version' \in Nat
      BY <2>1, <3>2 DEF Driver, GenerateSequences, AllAwake, Dispatch, AllReturned,
                        AllAsleep, UpdateActor
    <3>4. phase' \in {"idle", "wake_up", "dispatch", "generate", "sleep", "update", "finished"}
      BY <2>1 DEF Driver, GenerateSequences, AllAwake, Dispatch, AllReturned, AllAsleep,
                  UpdateActor
    <3>5. running' \subseteq Requests /\ UNCHANGED <<engineVars, turns, at, first>>
      BY <2>1 DEF Driver, GenerateSequences, AllAwake, Dispatch, AllReturned, AllAsleep,
                  UpdateActor, Prompts, conversationVars
    <3>. QED  BY <3>1, <3>3, <3>4, <3>5 DEF engineVars
  <2>2. ASSUME NEW s \in Servers, Engine(s) PROVE TypeOK'
    <3>1. ManagerTypeOK'
      BY <2>2 DEF Engine, WakeUp, Sleep, ManagerTypeOK, managerVars
    <3>2. UNCHANGED driverVars /\ UNCHANGED conversationVars
      BY <2>2 DEF Engine, WakeUp, Sleep
    <3>3. awake' \subseteq Servers
      BY <2>2 DEF Engine, WakeUp, Sleep
    <3>4. weights' \in [Servers -> Nat \cup {-1}]
      BY <2>2 DEF Engine, WakeUp, Sleep
    <3>5. prefix_cache' \in [Servers -> SUBSET (Nat \cup {-1})]
      BY <2>2 DEF Engine, WakeUp, Sleep
    <3>. QED
      BY <3>1, <3>2, <3>3, <3>4, <3>5 DEF driverVars, conversationVars
  <2>3. ASSUME NEW r \in Requests, Generate(r) PROVE TypeOK'
    <3>1. ManagerTypeOK' /\ request_id_to_server'[r] \in Servers
      BY <2>3, ChooseServerType DEF Generate
    <3>. QED
      BY <2>3, <3>1 DEF Generate, driverVars, engineVars
  <2>4. ASSUME NEW r \in Requests, Answer(r) PROVE TypeOK'
    <3>1. ManagerTypeOK'
      BY <2>4 DEF Answer, ManagerTypeOK, managerVars
    <3>2. at[r] \in Servers /\ weights[at[r]] \in Nat \cup {-1}
      BY <2>4 DEF Answer
    <3>3. prefix_cache' \in [Servers -> SUBSET (Nat \cup {-1})]
      BY <2>4, <3>2 DEF Answer
    <3>. QED
      BY <2>4, <3>1, <3>3 DEF Answer, driverVars
  <2>5. CASE UNCHANGED vars
    BY <2>5 DEF vars, driverVars, engineVars, conversationVars, managerVars, ManagerTypeOK
  <2>. QED  BY <2>1, <2>2, <2>3, <2>4, <2>5 DEF Next, Conversation
<1>. QED  BY <1>1, <1>2, PTL DEF Spec

-----------------------------------------------------------------------------
(* The balance of the servers: it is inductive together with the type *)

LEMMA ChooseServerBalance ==
    ASSUME ManagerTypeOK, Balanced, NEW r \in Requests, ChooseServer(r)
    PROVE  Balanced'
<1>. USE ServerManagerAssumption
<1>1. CASE KnownServer(r)
  BY <1>1 DEF KnownServer, Balanced
<1>2. CASE NewServer(r)
  <2>. DEFINE w == WorkerOf[r]
  <2>1. PICK s \in Servers : (\A t \in Servers : Precedes(w, s, t)) /\ Assign(r, s)
    BY <1>2 DEF NewServer
  <2>2. w \in Workers
    OBVIOUS
  <2>3. \A t \in Servers : weighted_servers[w][s] <= weighted_servers[w][t]
    BY <2>1, <2>2 DEF Precedes, ManagerTypeOK
  <2>4. \A v \in Workers : \A t \in Servers :
            weighted_servers'[v][t] = IF v = w /\ t = s THEN weighted_servers[v][t] + 1
                                      ELSE weighted_servers[v][t]
    BY <2>1, <2>2 DEF Assign, ManagerTypeOK
  <2>5. \A v \in Workers : \A t \in Servers : weighted_servers[v][t] \in Nat
    BY DEF ManagerTypeOK
  <2>. SUFFICES ASSUME NEW v \in Workers, NEW a \in Servers, NEW b \in Servers
                PROVE  weighted_servers'[v][a] <= weighted_servers'[v][b] + 1
    BY DEF Balanced
  <2>6. weighted_servers[v][a] <= weighted_servers[v][b] + 1
    BY DEF Balanced
  <2>7. /\ weighted_servers[v][a] \in Nat
        /\ weighted_servers[v][b] \in Nat
    BY <2>5
  <2>8. /\ weighted_servers'[v][a] = IF v = w /\ a = s THEN weighted_servers[v][a] + 1
                                     ELSE weighted_servers[v][a]
        /\ weighted_servers'[v][b] = IF v = w /\ b = s THEN weighted_servers[v][b] + 1
                                     ELSE weighted_servers[v][b]
    BY <2>4
  <2>9. v = w /\ a = s => weighted_servers[v][a] <= weighted_servers[v][b]
    BY <2>3
  <2>. HIDE DEF w
  <2>. QED  BY <2>6, <2>7, <2>8, <2>9
<1>. QED  BY <1>1, <1>2 DEF ChooseServer

\* A worker balances the request_ids it gives to the servers to within one.
THEOREM RequestsAreBalanced == Spec => []Balanced
<1>1. Init => Balanced
  BY DEF Init, ManagerInit, Balanced
<1>2. TypeOK /\ Balanced /\ [Next]_vars => Balanced'
  <2>. SUFFICES ASSUME TypeOK, Balanced, [Next]_vars PROVE Balanced'
    OBVIOUS
  <2>1. ASSUME NEW r \in Requests, Generate(r) PROVE Balanced'
    BY <2>1, ChooseServerBalance DEF Generate, TypeOK
  <2>2. ASSUME UNCHANGED weighted_servers PROVE Balanced'
    BY <2>2 DEF Balanced
  <2>3. ASSUME NEW r \in Requests, Answer(r) PROVE UNCHANGED weighted_servers
    BY <2>3 DEF Answer, managerVars
  <2>4. ASSUME NEW s \in Servers, Engine(s) PROVE UNCHANGED weighted_servers
    BY <2>4 DEF Engine, WakeUp, Sleep, managerVars
  <2>5. CASE Driver
    BY <2>2, <2>5 DEF Driver, GenerateSequences, AllAwake, Dispatch, AllReturned, AllAsleep,
                      UpdateActor, managerVars
  <2>6. CASE UNCHANGED vars
    BY <2>2, <2>6 DEF vars, managerVars
  <2>. QED  BY <2>1, <2>2, <2>3, <2>4, <2>5, <2>6 DEF Next, Conversation
<1>. QED  BY <1>1, <1>2, TypeCorrect, PTL DEF Spec

-----------------------------------------------------------------------------
(* The conversations that run belong to the batch being generated *)

RunInv ==
    /\ running # {} => phase = "generate"
    /\ \A r \in running : BatchOf[r] = batch
    /\ \A r \in Requests \ running : at[r] = None /\ first[r] = None /\ turns[r] = 0

LEMMA RunInvHolds == Spec => []RunInv
<1>1. Init => RunInv
  BY DEF Init, RunInv
<1>2. TypeOK /\ RunInv /\ [Next]_vars => RunInv'
  <2>. SUFFICES ASSUME TypeOK, RunInv, [Next]_vars PROVE RunInv'
    OBVIOUS
  <2>. USE DEF RunInv
  <2>1. CASE Driver
    <3>1. CASE Dispatch
      BY <2>1, <3>1 DEF Dispatch, Prompts
    <3>2. CASE GenerateSequences \/ AllAwake \/ AllReturned \/ AllAsleep \/ UpdateActor
      <4>1. UNCHANGED <<turns, running, at, first>>
        BY <3>2 DEF GenerateSequences, AllAwake, AllReturned, AllAsleep, UpdateActor,
                    conversationVars
      <4>2. running = {}
        BY <3>2 DEF GenerateSequences, AllAwake, AllReturned, AllAsleep, UpdateActor
      <4>. QED  BY <4>1, <4>2
    <3>. QED  BY <2>1, <3>1, <3>2 DEF Driver
  <2>2. ASSUME NEW s \in Servers, Engine(s) PROVE RunInv'
    BY <2>2 DEF Engine, WakeUp, Sleep, driverVars, conversationVars
  <2>3. ASSUME NEW r \in Requests, Generate(r) PROVE RunInv'
    BY <2>3 DEF Generate, driverVars, TypeOK
  <2>4. ASSUME NEW r \in Requests, Answer(r) PROVE RunInv'
    <3>1. r \in running
      BY <2>4 DEF Answer
    <3>2. phase' = phase /\ batch' = batch /\ running' \subseteq running
      BY <2>4 DEF Answer, driverVars
    <3>3. \A q \in Requests \ {r} :
              at'[q] = at[q] /\ first'[q] = first[q] /\ turns'[q] = turns[q]
      BY <2>4 DEF Answer, TypeOK
    <3>4. r \in running' \/ (at'[r] = None /\ first'[r] = None /\ turns'[r] = 0)
      BY <2>4, <3>1 DEF Answer, TypeOK
    <3>5. running \ {r} \subseteq running'
      BY <2>4 DEF Answer
    <3>. QED  BY <3>1, <3>2, <3>3, <3>4, <3>5
  <2>5. CASE UNCHANGED vars
    BY <2>5 DEF vars, driverVars, conversationVars
  <2>. QED  BY <2>1, <2>2, <2>3, <2>4, <2>5 DEF Next, Conversation
<1>. QED  BY <1>1, <1>2, TypeCorrect, PTL DEF Spec

-----------------------------------------------------------------------------
(* What the engines hold while somebody is answered *)

EngineInv ==
    /\ phase \in {"dispatch", "generate"} => awake = Servers
    /\ phase \in {"idle", "update", "finished"} => awake = {}
    /\ \A s \in awake : weights[s] = version
    /\ \A s \in Servers : prefix_cache[s] \subseteq {version}
    /\ \A s \in Servers \ awake : prefix_cache[s] = {}

LEMMA EngineInvHolds == ASSUME FreeCacheEngine PROVE Spec => []EngineInv
<1>1. Init => EngineInv
  BY DEF Init, EngineInv
<1>2. TypeOK /\ EngineInv /\ [Next]_vars => EngineInv'
  <2>. SUFFICES ASSUME TypeOK, EngineInv, [Next]_vars PROVE EngineInv'
    OBVIOUS
  <2>. USE DEF EngineInv
  <2>1. CASE Driver
    <3>1. CASE UpdateActor
      <4>1. phase' \in {"idle", "finished"} /\ awake = {} /\ UNCHANGED engineVars
        BY <3>1 DEF UpdateActor
      <4>. QED  BY <4>1 DEF engineVars
    <3>2. CASE GenerateSequences
      BY <3>2 DEF GenerateSequences, engineVars
    <3>3. CASE AllAwake
      BY <3>3 DEF AllAwake, engineVars
    <3>4. CASE Dispatch \/ AllReturned
      BY <3>4 DEF Dispatch, AllReturned, engineVars
    <3>5. CASE AllAsleep
      BY <3>5 DEF AllAsleep, engineVars
    <3>. QED  BY <2>1, <3>1, <3>2, <3>3, <3>4, <3>5 DEF Driver
  <2>2. ASSUME NEW s \in Servers, WakeUp(s) PROVE EngineInv'
    BY <2>2 DEF WakeUp, driverVars, TypeOK
  <2>3. ASSUME NEW s \in Servers, Sleep(s) PROVE EngineInv'
    BY <2>3 DEF Sleep, driverVars, TypeOK
  <2>4. ASSUME NEW r \in Requests, Generate(r) PROVE EngineInv'
    BY <2>4 DEF Generate, driverVars, engineVars
  <2>5. ASSUME NEW r \in Requests, Answer(r) PROVE EngineInv'
    <3>1. at[r] \in awake /\ weights[at[r]] = version
      BY <2>5 DEF Answer
    <3>2. \A s \in Servers : prefix_cache'[s] = IF s = at[r] THEN prefix_cache[s] \cup {version}
                                                ELSE prefix_cache[s]
      BY <2>5, <3>1 DEF Answer, TypeOK
    <3>3. UNCHANGED <<phase, version, awake, weights>>
      BY <2>5 DEF Answer, driverVars
    <3>. QED  BY <3>1, <3>2, <3>3
  <2>6. CASE UNCHANGED vars
    BY <2>6 DEF vars, driverVars, engineVars
  <2>. QED  BY <2>1, <2>2, <2>3, <2>4, <2>5, <2>6 DEF Next, Engine, Conversation
<1>. QED  BY <1>1, <1>2, TypeCorrect, PTL DEF Spec

\* With free_cache_engine on, nobody is answered by a server that sleeps or that
\* has the weights of an earlier update, nor with a prefix from before it.
THEOREM AnswersStayFresh == ASSUME FreeCacheEngine PROVE Spec => []AnswersAreFresh
<1>1. TypeOK /\ RunInv /\ EngineInv => FreshWeights
  BY DEF TypeOK, RunInv, EngineInv, FreshWeights
<1>2. TypeOK /\ RunInv /\ EngineInv => FreshPrefixes
  <2>. SUFFICES ASSUME TypeOK, EngineInv, NEW r \in Requests, at[r] # None
                PROVE  prefix_cache[at[r]] \subseteq {version}
    BY DEF FreshPrefixes
  <2>1. at[r] \in Servers
    BY DEF TypeOK
  <2>. QED  BY <2>1 DEF EngineInv
<1>3. TypeOK /\ RunInv /\ EngineInv => AnswersAreFresh
  BY <1>1, <1>2 DEF AnswersAreFresh
<1>. QED  BY <1>3, TypeCorrect, RunInvHolds, EngineInvHolds, PTL

-----------------------------------------------------------------------------
(***************************************************************************)
(* Sticky sessions.  A session is evicted when it is the least recently    *)
(* used of a full cache.  Sessions of an earlier batch were last used      *)
(* before those of a later one, so the cache that evicts a session of the  *)
(* running batch is full of sessions of that batch, and they and the new   *)
(* one do not fit in a chunk.                                              *)
(***************************************************************************)
ChunksFit == \A w \in Workers : \A b \in 1 .. NumBatches : Cardinality(Chunk(w, b)) <= MaxCacheSize

Known(r) == request_id_to_server[r] # None

RecencyInv ==
    /\ \A r \in Requests : Known(r) => /\ BatchOf[r] <= batch
                                       /\ last_used[r] < clock[WorkerOf[r]]
    /\ \A q, r \in Requests :
            Known(q) /\ Known(r) /\ WorkerOf[q] = WorkerOf[r] /\ BatchOf[q] < BatchOf[r]
                => last_used[q] < last_used[r]

SessionInv ==
    \A r \in running : at[r] # None \/ turns[r] > 0 =>
        /\ Known(r)
        /\ request_id_to_server[r] = first[r]
        /\ at[r] # None => at[r] = first[r]

LEMMA EvictsOlderBatch ==
    ASSUME TypeOK, RunInv, RecencyInv, IsFiniteSet(Requests), ChunksFit,
           NEW r \in running, ~Known(r), NEW e \in Evicted(WorkerOf[r])
    PROVE  e \notin running
<1>. DEFINE w == WorkerOf[r]
<1>. USE ServerManagerAssumption, AgentLoopAssumption
<1>0. r \in Requests /\ w \in Workers /\ BatchOf[r] = batch /\ batch \in 1 .. NumBatches
  BY DEF TypeOK, RunInv
<1>1. SUFFICES ASSUME e \in running PROVE FALSE
  OBVIOUS
<1>2. /\ e \in Cached(w) /\ \A q \in Cached(w) : last_used[e] <= last_used[q]
      /\ ~(Cardinality(Cached(w)) < MaxCacheSize)
  BY DEF Evicted
<1>3. BatchOf[e] = batch
  BY <1>1 DEF RunInv
<1>4. ASSUME NEW q \in Cached(w) PROVE q \in Chunk(w, batch) \ {r}
  <2>1. q \in Requests /\ Known(q) /\ WorkerOf[q] = w /\ e \in Requests /\ Known(e) /\ WorkerOf[e] = w
    BY <1>2 DEF Cached, Known
  <2>2. last_used[q] \in Nat /\ last_used[e] \in Nat /\ BatchOf[q] \in Nat /\ BatchOf[e] \in Nat /\ batch \in Nat
    BY <2>1, <1>0 DEF TypeOK, ManagerTypeOK
  <2>3. ~(BatchOf[q] < BatchOf[e])
    BY <1>2, <2>1, <2>2 DEF RecencyInv
  <2>4. BatchOf[q] <= batch
    BY <2>1 DEF RecencyInv
  <2>5. BatchOf[q] = batch
    BY <1>3, <2>2, <2>3, <2>4
  <2>. QED  BY <2>1, <2>5 DEF Chunk
<1>5. r \in Chunk(w, batch)
  BY <1>0 DEF Chunk
<1>6. IsFiniteSet(Chunk(w, batch))
  BY FS_Subset DEF Chunk
<1>7. /\ IsFiniteSet(Chunk(w, batch) \ {r})
      /\ Cardinality(Chunk(w, batch) \ {r}) = Cardinality(Chunk(w, batch)) - 1
  BY <1>5, <1>6, FS_RemoveElement
<1>8. /\ Cardinality(Cached(w)) <= Cardinality(Chunk(w, batch) \ {r})
      /\ IsFiniteSet(Cached(w))
  BY <1>4, <1>7, FS_Subset
<1>9. Cardinality(Chunk(w, batch)) <= MaxCacheSize
  BY <1>0 DEF ChunksFit
<1>10. Cardinality(Cached(w)) \in Nat /\ Cardinality(Chunk(w, batch)) \in Nat
  BY <1>6, <1>8, FS_CardinalityType
<1>. QED  BY <1>2, <1>7, <1>8, <1>9, <1>10

LEMMA GenerateSessions ==
    ASSUME TypeOK, RunInv, RecencyInv, SessionInv, IsFiniteSet(Requests), ChunksFit,
           NEW r \in Requests, Generate(r)
    PROVE  RecencyInv' /\ SessionInv'
<1>. DEFINE w == WorkerOf[r]
<1>. USE ServerManagerAssumption, AgentLoopAssumption
<1>1. r \in running /\ BatchOf[r] = batch /\ w \in Workers
  BY DEF Generate, RunInv
<1>2. UNCHANGED <<batch, turns, running>>
  BY DEF Generate, driverVars
<1>3. /\ last_used' = [last_used EXCEPT ![r] = clock[w]]
      /\ clock' = [clock EXCEPT ![w] = @ + 1]
  BY DEF Generate, ChooseServer, KnownServer, NewServer, Assign, Touch
<1>4. \A q \in Requests : /\ last_used'[q] = IF q = r THEN clock[w] ELSE last_used[q]
                          /\ clock'[WorkerOf[q]] = IF WorkerOf[q] = w THEN clock[w] + 1
                                                  ELSE clock[WorkerOf[q]]
  BY <1>1, <1>3 DEF TypeOK, ManagerTypeOK
<1>5. \A q \in Requests : /\ last_used[q] \in Nat /\ clock[WorkerOf[q]] \in Nat
                          /\ BatchOf[q] \in Nat /\ batch \in Nat
  BY DEF TypeOK, ManagerTypeOK
<1>6. \A q \in Requests \ {r} : Known(q)' => Known(q) /\ request_id_to_server'[q] = request_id_to_server[q]
  <2>1. CASE KnownServer(r)
    BY <2>1 DEF KnownServer, Known
  <2>2. CASE NewServer(r)
    BY <2>2 DEF NewServer, Assign, Known
  <2>. QED  BY <2>1, <2>2 DEF Generate, ChooseServer
<1>7. RecencyInv'
  <2>. HIDE DEF w
  <2>1. ASSUME NEW q \in Requests, Known(q)'
        PROVE  BatchOf[q] <= batch' /\ last_used'[q] < clock'[WorkerOf[q]]
    <3>1. CASE q = r
      BY <1>1, <1>2, <1>4, <1>5, <3>1 DEF w
    <3>2. CASE q # r
      <4>1. BatchOf[q] <= batch /\ last_used[q] < clock[WorkerOf[q]]
        BY <1>6, <2>1, <3>2 DEF RecencyInv
      <4>2. WorkerOf[q] = w => last_used[q] < clock[w] + 1
        BY <4>1, <1>5
      <4>. QED  BY <1>2, <1>4, <3>2, <4>1, <4>2
    <3>. QED  BY <3>1, <3>2
  <2>2. ASSUME NEW q \in Requests, NEW p \in Requests, Known(q)', Known(p)',
               WorkerOf[q] = WorkerOf[p], BatchOf[q] < BatchOf[p]
        PROVE  last_used'[q] < last_used'[p]
    <3>1. CASE p = r
      <4>1. q # r
        BY <1>5, <2>2, <3>1
      <4>2. last_used[q] < clock[WorkerOf[q]]
        BY <1>6, <2>2, <4>1 DEF RecencyInv
      <4>. QED  BY <1>4, <2>2, <3>1, <4>1, <4>2 DEF w
    <3>2. CASE p # r
      <4>1. Known(p) /\ BatchOf[p] <= batch
        BY <1>6, <2>2, <3>2 DEF RecencyInv
      <4>2. q # r
        BY <1>1, <1>5, <2>2, <4>1
      <4>. QED  BY <1>4, <1>6, <2>2, <3>2, <4>1, <4>2 DEF RecencyInv
    <3>. QED  BY <3>1, <3>2
  <2>. QED  BY <2>1, <2>2 DEF RecencyInv, Known
<1>8. request_id_to_server'[r] \in Servers /\ at'[r] = request_id_to_server'[r]
  BY ChooseServerType DEF Generate, TypeOK
<1>9. turns[r] = 0 => first'[r] = request_id_to_server'[r]
  BY DEF Generate, TypeOK
<1>10. turns[r] # 0 => first'[r] = request_id_to_server'[r]
  <2>. SUFFICES ASSUME turns[r] # 0 PROVE first'[r] = request_id_to_server'[r]
    OBVIOUS
  <2>1. Known(r) /\ request_id_to_server[r] = first[r]
    BY <1>1 DEF SessionInv, TypeOK
  <2>2. KnownServer(r) /\ first' = first
    BY <2>1 DEF Generate, ChooseServer, NewServer, Known
  <2>. QED  BY <2>1, <2>2 DEF KnownServer
<1>11. \A q \in Requests \ {r} : at'[q] = at[q] /\ first'[q] = first[q]
  BY DEF Generate, TypeOK
<1>12. \A q \in running \ {r} : Known(q) => request_id_to_server'[q] = request_id_to_server[q]
  <2>1. CASE KnownServer(r)
    BY <2>1 DEF KnownServer
  <2>2. CASE NewServer(r)
    <3>1. ~Known(r)
      BY <2>2 DEF NewServer, Known
    <3>2. \A e \in Evicted(w) : e \notin running
      BY <1>1, <3>1, EvictsOlderBatch
    <3>. QED  BY <2>2, <3>2 DEF NewServer, Assign, TypeOK
  <2>. QED  BY <2>1, <2>2 DEF Generate, ChooseServer
<1>13. SessionInv'
  <2>. SUFFICES ASSUME NEW q \in running, at'[q] # None \/ turns[q] > 0
                PROVE  /\ request_id_to_server'[q] # None
                       /\ request_id_to_server'[q] = first'[q]
                       /\ at'[q] # None => at'[q] = first'[q]
    BY <1>2 DEF SessionInv, Known
  <2>1. q \in Requests
    BY DEF TypeOK
  <2>2. CASE q = r
    BY <1>8, <1>9, <1>10, <2>2
  <2>3. CASE q # r
    BY <1>11, <1>12, <2>1, <2>3 DEF SessionInv, Known
  <2>. QED  BY <2>2, <2>3
<1>. QED  BY <1>7, <1>13

\* Every turn of a conversation goes to the server of its first turn, if the chunk a
\* worker is given fits in its cache of sessions.
THEOREM SessionsAreSticky ==
    ASSUME IsFiniteSet(Requests), ChunksFit
    PROVE  Spec => []Sticky
<1>. USE AgentLoopAssumption, ServerManagerAssumption
<1>1. Init => RecencyInv /\ SessionInv
  BY DEF Init, ManagerInit, RecencyInv, SessionInv, Known
<1>2. TypeOK /\ RunInv /\ RecencyInv /\ SessionInv /\ [Next]_vars => RecencyInv' /\ SessionInv'
  <2>. SUFFICES ASSUME TypeOK, RunInv, RecencyInv, SessionInv, [Next]_vars
                PROVE  RecencyInv' /\ SessionInv'
    OBVIOUS
  <2>1. ASSUME NEW r \in Requests, Generate(r) PROVE RecencyInv' /\ SessionInv'
    BY <2>1, GenerateSessions
  <2>2. ASSUME UNCHANGED <<batch, managerVars>> PROVE RecencyInv'
    BY <2>2 DEF RecencyInv, Known, managerVars
  <2>3. ASSUME UNCHANGED <<conversationVars, managerVars>> PROVE SessionInv'
    BY <2>3 DEF SessionInv, Known, managerVars, conversationVars
  <2>4. ASSUME NEW r \in Requests, Answer(r) PROVE RecencyInv' /\ SessionInv'
    <3>1. RecencyInv'
      BY <2>2, <2>4 DEF Answer, driverVars
    <3>2. /\ running' \subseteq running
          /\ \A q \in Requests \ {r} : at'[q] = at[q] /\ first'[q] = first[q] /\ turns'[q] = turns[q]
          /\ request_id_to_server' = request_id_to_server
      BY <2>4 DEF Answer, TypeOK, managerVars
    <3>3. r \in running' => first'[r] = first[r] /\ at'[r] = None /\ at[r] # None
      BY <2>4 DEF Answer, TypeOK
    <3>. QED  BY <3>1, <3>2, <3>3 DEF SessionInv, Known, TypeOK
  <2>5. ASSUME NEW s \in Servers, Engine(s) PROVE RecencyInv' /\ SessionInv'
    BY <2>2, <2>3, <2>5 DEF Engine, WakeUp, Sleep, driverVars
  <2>6. CASE GenerateSequences
    <3>1. batch' = batch + 1 /\ UNCHANGED managerVars
      BY <2>6 DEF GenerateSequences
    <3>2. \A r \in Requests : BatchOf[r] <= batch => BatchOf[r] <= batch + 1
      BY DEF TypeOK
    <3>3. RecencyInv'
      BY <3>1, <3>2 DEF RecencyInv, Known, managerVars
    <3>. QED  BY <2>3, <2>6, <3>3 DEF GenerateSequences
  <2>7. CASE Dispatch
    <3>1. running = {}
      BY <2>7 DEF Dispatch, RunInv
    <3>2. \A r \in running' : at'[r] = None /\ turns'[r] = 0
      BY <2>7, <3>1 DEF Dispatch, Prompts, RunInv
    <3>. QED  BY <2>2, <2>7, <3>2 DEF Dispatch, SessionInv
  <2>8. CASE AllAwake \/ AllReturned \/ AllAsleep \/ UpdateActor
    BY <2>2, <2>3, <2>8 DEF AllAwake, AllReturned, AllAsleep, UpdateActor
  <2>9. CASE UNCHANGED vars
    BY <2>2, <2>3, <2>9 DEF vars, driverVars
  <2>. QED  BY <2>1, <2>4, <2>5, <2>6, <2>7, <2>8, <2>9 DEF Next, Driver, Conversation
<1>3. TypeOK /\ RunInv /\ SessionInv => Sticky
  BY DEF TypeOK, RunInv, SessionInv, Sticky
<1>. QED  BY <1>1, <1>2, <1>3, TypeCorrect, RunInvHolds, PTL DEF Spec

=============================================================================
