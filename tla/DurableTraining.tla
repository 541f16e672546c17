---------------------------- MODULE DurableTraining ----------------------------
(***************************************************************************)
(* What checkpointing promises to a training job that may be killed: the   *)
(* whole state of training (step counter, actor, critic, dataloader) is    *)
(* committed at once, and a launch resumes from exactly the snapshot that  *)
(* was committed last.  PPOTrainer implements it.                          *)
(***************************************************************************)
EXTENDS Naturals

CONSTANT Snapshots, Fresh

VARIABLES
    up,         \* the job runs
    live,       \* the state of training in memory, Fresh when the job is down
    committed   \* the state a launch would resume from

vars == <<up, live, committed>>

Init == up = FALSE /\ live = Fresh /\ committed = Fresh

Start  == ~up /\ up' = TRUE /\ live' = committed /\ UNCHANGED committed

Train  == /\ up /\ live' \in Snapshots
          /\ live'.steps \in {live.steps, live.steps + 1}
          /\ UNCHANGED <<up, committed>>

Commit == up /\ committed' = live /\ UNCHANGED <<up, live>>

Kill   == up /\ up' = FALSE /\ live' = Fresh /\ UNCHANGED committed

Next == Start \/ Train \/ Commit \/ Kill

Spec == Init /\ [][Next]_vars
=============================================================================
