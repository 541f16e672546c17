------------------------- MODULE SandboxFusionTool -------------------------
(***************************************************************************)
(* The tools that run code in a sandbox.  Every SandboxFusionTool has an   *)
(* ExecutionWorker, an actor with num_workers threads, and all of them, in *)
(* whatever process, share one TokenBucketWorker: a semaphore behind an    *)
(* actor that has one thread for acquire and others for release.           *)
(*                                                                         *)
(* SearchTool and ImageZoomInTool repeat these classes under the same name *)
(* of the actor, so their calls are among these.                           *)
(***************************************************************************)
EXTENDS Integers, Sequences, FiniteSets

CONSTANTS
    Tools,
    Calls, ToolOf,      \* what is executed, and by which tool
    NumWorkers,         \* num_workers
    RateLimitOf,        \* the rate_limit in each tool's config
    None

ASSUME SandboxAssumption ==
    /\ Tools # {} /\ IsFiniteSet(Tools) /\ IsFiniteSet(Calls)
    /\ ToolOf \in [Calls -> Tools]
    /\ NumWorkers \in Nat \ {0}
    /\ RateLimitOf \in [Tools -> Nat \ {0}]
    /\ None \notin Nat

VARIABLES
    workers,                            \* the tools whose ExecutionWorker is there
    rate_limit, semaphore,              \* the TokenBucketWorker, once it is there
    acquires,                           \* its calls of acquire, in their order
    releases,                           \* how many calls of release are on their way
    at                                  \* where each call is

limiterVars == <<rate_limit, semaphore>>
sandboxVars == <<workers, limiterVars, acquires, releases, at>>

SandboxInit ==
    /\ workers = {}
    /\ rate_limit = None /\ semaphore = 0
    /\ acquires = <<>> /\ releases = 0
    /\ at = [c \in Calls |-> "none"]

\* Mutant of InitRateLimit: without get_if_exists, the name goes to the newest actor.
InitRateLimit_Newest(t) ==
    rate_limit' = RateLimitOf[t] /\ semaphore' = RateLimitOf[t]

\* "A Singleton Rate Limitor": whoever is first creates it, with its own limit.
InitRateLimit(t) ==
    IF rate_limit = None THEN rate_limit' = RateLimitOf[t] /\ semaphore' = RateLimitOf[t]
    ELSE UNCHANGED limiterVars

CreateTool(t) ==
    /\ t \notin workers
    /\ workers' = workers \cup {t}
    /\ InitRateLimit(t)
    /\ UNCHANGED <<acquires, releases, at>>

\* execute of the tool, which awaits the pool.
SandboxExecute(c) ==
    /\ at[c] = "none"
    /\ at' = [at EXCEPT ![c] = "queued"]
    /\ UNCHANGED <<workers, limiterVars, acquires, releases>>

Threads(t) == {c \in Calls : ToolOf[c] = t /\ at[c] \in {"acquire", "run"}}

\* A thread takes the call: it registers the release, and waits for acquire.
Start(c) ==
    /\ at[c] = "queued" /\ ToolOf[c] \in workers
    /\ Cardinality(Threads(ToolOf[c])) < NumWorkers
    /\ at' = [at EXCEPT ![c] = "acquire"]
    /\ acquires' = Append(acquires, c)
    /\ UNCHANGED <<workers, limiterVars, releases>>

\* The only thread of acquire blocks on the semaphore for the first call.
Acquire ==
    /\ acquires # <<>> /\ semaphore > 0
    /\ semaphore' = semaphore - 1
    /\ at' = [at EXCEPT ![Head(acquires)] = "run"]
    /\ acquires' = Tail(acquires)
    /\ UNCHANGED <<workers, rate_limit, releases>>

\* fn returns, or raises: the stack calls release in both cases, and waits for nothing.
Finish(c) ==
    /\ at[c] = "run"
    /\ \/ at' = [at EXCEPT ![c] = "returned"]
       \/ at' = [at EXCEPT ![c] = "failed"]
    /\ releases' = releases + 1
    /\ UNCHANGED <<workers, limiterVars, acquires>>

\* Mutant of ReleaseToken: acquire and release share the actor's one thread.
ReleaseToken_OneThread ==
    /\ releases > 0 /\ acquires = <<>>
    /\ releases' = releases - 1
    /\ semaphore' = semaphore + 1
    /\ UNCHANGED <<workers, rate_limit, acquires, at>>

ReleaseToken ==
    /\ releases > 0
    /\ releases' = releases - 1
    /\ semaphore' = semaphore + 1
    /\ UNCHANGED <<workers, rate_limit, acquires, at>>

SandboxNext ==
    \/ \E t \in Tools : CreateTool(t)
    \/ \E c \in Calls : SandboxExecute(c) \/ Start(c) \/ Finish(c)
    \/ Acquire
    \/ ReleaseToken

\* Actors are created, threads run and calls of actors arrive.
SandboxFairness ==
    /\ \A t \in Tools : WF_sandboxVars(CreateTool(t))
    /\ \A c \in Calls : WF_sandboxVars(Start(c)) /\ WF_sandboxVars(Finish(c))
    /\ WF_sandboxVars(Acquire)
    /\ WF_sandboxVars(ReleaseToken)

SandboxSpec == SandboxInit /\ [][SandboxNext]_sandboxVars /\ SandboxFairness
-----------------------------------------------------------------------------
Running == {c \in Calls : at[c] = "run"}

SandboxTypeOK ==
    /\ workers \subseteq Tools
    /\ rate_limit \in Nat \cup {None} /\ semaphore \in Nat
    /\ acquires \in Seq(Calls)
    /\ releases \in Nat
    /\ at \in [Calls -> {"none", "queued", "acquire", "run", "returned", "failed"}]

(***************************************************************************)
(* Of all tools' calls together, never more run than one tool's rate_limit *)
(* says, whatever fails and whoever is created when; and no token is lost: *)
(* once every call is over and every release has arrived, the semaphore    *)
(* has all of them again.                                                  *)
(***************************************************************************)
RateLimited ==
    /\ Running # {} => \E t \in workers : rate_limit = RateLimitOf[t] /\ Cardinality(Running) <= RateLimitOf[t]
    /\ rate_limit # None /\ Running = {} /\ releases = 0 => semaphore = rate_limit

(***************************************************************************)
(* Every call gets its turn and returns, also while all threads of a tool  *)
(* wait for tokens that calls of other tools hold.                         *)
(***************************************************************************)
Served == \A c \in Calls : at[c] = "queued" ~> at[c] \in {"returned", "failed"}
=============================================================================
