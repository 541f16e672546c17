------------------------ MODULE AsyncLLMServerManager ------------------------
(***************************************************************************)
(* AsyncLLMServerManager of verl/experimental/agent_loop: every agent loop *)
(* worker has one.  It sends a new request_id to the server it has sent    *)
(* the fewest to, and remembers the server in an LRU cache, so that the    *)
(* turns of a conversation meet their prefix again.                        *)
(*                                                                         *)
(* A request_id is a uuid4 that one conversation of one worker draws, so   *)
(* one function over the requests holds the caches of all workers.  The    *)
(* servers are numbered by hash(server), the tie-break of the heap: it is  *)
(* the same in every worker, whatever order the handles were shuffled to.  *)
(***************************************************************************)
EXTENDS Integers, FiniteSets

CONSTANTS
    Servers,
    Workers,
    Requests,
    WorkerOf,       \* the worker that runs the conversation of a request_id
    MaxCacheSize,   \* max_cache_size
    None

ASSUME ServerManagerAssumption ==
    /\ Servers \subseteq Int
    /\ None \notin Servers
    /\ WorkerOf \in [Requests -> Workers]
    /\ MaxCacheSize \in Nat \ {0}

VARIABLES
    weighted_servers,      \* weighted_servers[w][s]: request_ids w has given to s
    request_id_to_server,  \* None for a request_id that is not in its cache
    last_used,             \* when a request_id was last looked up or set
    clock                  \* the time of the next look-up or set of a worker

managerVars == <<weighted_servers, request_id_to_server, last_used, clock>>

ManagerInit ==
    /\ weighted_servers = [w \in Workers |-> [s \in Servers |-> 0]]
    /\ request_id_to_server = [r \in Requests |-> None]
    /\ last_used = [r \in Requests |-> 0]
    /\ clock = [w \in Workers |-> 1]

Cached(w) == {r \in Requests : WorkerOf[r] = w /\ request_id_to_server[r] # None}

\* LRUCache.__setitem__ makes room first.
Evicted(w) ==
    IF Cardinality(Cached(w)) < MaxCacheSize
    THEN {}
    ELSE {r \in Cached(w) : \A q \in Cached(w) : last_used[r] <= last_used[q]}

\* The order of the heap: fewest request_ids, then smallest hash.
Precedes(w, s, t) ==
    \/ weighted_servers[w][s] < weighted_servers[w][t]
    \/ weighted_servers[w][s] = weighted_servers[w][t] /\ s <= t

Touch(r) ==
    /\ last_used' = [last_used EXCEPT ![r] = clock[WorkerOf[r]]]
    /\ clock' = [clock EXCEPT ![WorkerOf[r]] = @ + 1]

KnownServer(r) ==
    /\ request_id_to_server[r] # None
    /\ Touch(r)
    /\ UNCHANGED <<weighted_servers, request_id_to_server>>

Assign(r, s) ==
    /\ weighted_servers' = [weighted_servers EXCEPT ![WorkerOf[r]][s] = @ + 1]
    /\ request_id_to_server' =
            [q \in Requests |-> IF q = r THEN s
                                ELSE IF q \in Evicted(WorkerOf[r]) THEN None
                                ELSE request_id_to_server[q]]
    /\ Touch(r)

\* Mutant of NewServer: the heap is not put in order after its top was counted up.
NewServer_NoHeapReplace(r) ==
    /\ request_id_to_server[r] = None
    /\ \E s \in Servers : (\A t \in Servers : s <= t) /\ Assign(r, s)

NewServer(r) ==
    /\ request_id_to_server[r] = None
    /\ \E s \in Servers :
        /\ \A t \in Servers : Precedes(WorkerOf[r], s, t)
        /\ Assign(r, s)

\* Mutant of ChooseServer: the cache is not looked at.
ChooseServer_NotSticky(r) ==
    \E s \in Servers :
        /\ \A t \in Servers : Precedes(WorkerOf[r], s, t)
        /\ Assign(r, s)

ChooseServer(r) == KnownServer(r) \/ NewServer(r)

ManagerSpec == ManagerInit /\ [][\E r \in Requests : ChooseServer(r)]_managerVars

-----------------------------------------------------------------------------

ManagerTypeOK ==
    /\ weighted_servers \in [Workers -> [Servers -> Nat]]
    /\ request_id_to_server \in [Requests -> Servers \cup {None}]
    /\ last_used \in [Requests -> Nat]
    /\ clock \in [Workers -> Nat]

(***************************************************************************)
(* "Least requests load balancing": a worker has never given one server    *)
(* two request_ids more than another, however the conversations interleave *)
(* and however often an evicted one is assigned again.                     *)
(***************************************************************************)
Balanced ==
    \A w \in Workers : \A s, t \in Servers :
        weighted_servers[w][s] <= weighted_servers[w][t] + 1

=============================================================================
