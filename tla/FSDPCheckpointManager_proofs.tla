--------------------- MODULE FSDPCheckpointManager_proofs ---------------------
(***************************************************************************)
(* FSDPCheckpointManager for any number of ranks, steps and contents:      *)
(* type correctness, that a call which got past the second barrier has     *)
(* saved every shard, that rotation never overlaps a write and that, with  *)
(* room for two checkpoints, it spares the newest one.                     *)
(***************************************************************************)
EXTENDS FSDPCheckpointManager, FiniteSetTheorems, SequenceTheorems, TLAPS

\* Between calls every rank is idle; during a call none is.
CallInv ==
    \/ local_path = 0 /\ \A r \in Ranks : pc[r] = "idle"
    \/ local_path \in Steps /\ \A r \in Ranks : pc[r] # "idle"

\* When a rank is past one of the first two barriers, all have reached it.
BarrierInv ==
    \A b \in {"barrier1", "barrier2"} : \A r, q \in Ranks :
        Pos[pc[r]] > Pos[b] => Pos[pc[q]] >= Pos[b]

\* The shards a rank is past hold the weights of this call.
WrittenInv ==
    \A r \in Ranks : \A k \in ShardKinds \cap SaveContents :
        Pos[pc[r]] > Pos[k] => disk[<<local_path, r, k>>] = model

IInv == TypeOK /\ CallInv /\ BarrierInv /\ WrittenInv

LEMMA PosFacts ==
    /\ DOMAIN Pos = {"idle", "begin", "barrier1", "model", "optimizer", "extra", "config",
                     "barrier2", "gather", "hf_model", "barrier3", "append", "barrier4", "returned"}
    /\ \A p \in DOMAIN Pos : Pos[p] \in 0 .. 13
    /\ \A p, q \in DOMAIN Pos : Pos[p] = Pos[q] => p = q
    /\ Pos["idle"] = 0 /\ Pos["begin"] = 1 /\ Pos["barrier1"] = 2 /\ Pos["model"] = 3
    /\ Pos["optimizer"] = 4 /\ Pos["extra"] = 5 /\ Pos["config"] = 6 /\ Pos["barrier2"] = 7
    /\ Pos["gather"] = 8 /\ Pos["hf_model"] = 9 /\ Pos["barrier3"] = 10 /\ Pos["append"] = 11
    /\ Pos["barrier4"] = 12 /\ Pos["returned"] = 13
BY DEF Pos

LEMMA PathFacts ==
    ASSUME NEW r
    PROVE  /\ Path(r) \subseteq DOMAIN Pos /\ "idle" \notin Path(r)
           /\ {"barrier1", "barrier2"} \subseteq Path(r)
           /\ ShardKinds \cap SaveContents \subseteq Path(r)
           /\ \A k \in Path(r) : k \in ShardKinds => k \in SaveContents
BY PosFacts DEF Path, ShardKinds, SavesHFModel

\* Whatever branches a rank takes, it enters the same collectives.
LEMMA SameCollectives ==
    ASSUME NEW r, NEW q
    PROVE  Collectives \cap Path(r) = Collectives \cap Path(q)
BY DEF Collectives, Path, ShardKinds, SavesHFModel

\* A step along a path moves forward, enters no barrier it is before without
\* stopping at it, and gets past a shard only by being at it.
LEMMA FollowsFacts ==
    ASSUME NEW r, NEW p \in DOMAIN Pos \ {"idle"}, NEW q, Follows(r, p, q)
    PROVE  /\ q \in DOMAIN Pos \ {"idle", "begin"}
           /\ Pos[p] < Pos[q]
           /\ \A b \in {"barrier1", "barrier2"} : Pos[p] < Pos[b] => Pos[q] <= Pos[b]
           /\ \A k \in ShardKinds \cap SaveContents : Pos[q] > Pos[k] => p = k \/ Pos[p] > Pos[k]
<1>1. q \in DOMAIN Pos /\ q # "idle" /\ Pos[p] < Pos[q]
  BY PathFacts DEF Follows
<1>2. q # "begin"
  BY <1>1, PosFacts
<1>3. \A b \in {"barrier1", "barrier2"} : Pos[p] < Pos[b] => Pos[q] <= Pos[b]
  BY PathFacts DEF Follows
<1>4. ASSUME NEW k \in ShardKinds \cap SaveContents, Pos[q] > Pos[k], p # k
      PROVE  Pos[p] > Pos[k]
  <2>1. k \in Path(r) /\ k \in DOMAIN Pos
    BY PathFacts
  <2>2. ~(Pos[p] < Pos[k])
    <3>1. Pos[p] < Pos[k] => Pos[q] <= Pos[k]
      BY <2>1 DEF Follows
    <3> QED BY <1>1, <1>4, <2>1, <3>1, PosFacts
  <2>3. Pos[p] # Pos[k]
    BY <1>4, <2>1, PosFacts
  <2> QED BY <2>1, <2>2, <2>3, PosFacts
<1> QED BY <1>1, <1>2, <1>3, <1>4

\* When a rank may leave one of the first two barriers, all have reached it:
\* a rank before it has entered fewer collectives.
LEMMA AllArrived ==
    ASSUME NEW r \in Ranks, NEW q \in Ranks, pc[r] \in DOMAIN Pos, pc[q] \in DOMAIN Pos,
           pc[r] \in {"barrier1", "barrier2"}, Entered(q) >= Entered(r)
    PROVE  Pos[pc[q]] >= Pos[pc[r]]
<1> DEFINE Seen(t) == {c \in Collectives \cap Path(r) : Pos[c] <= Pos[pc[t]]}
<1>1. Seen(q) = {c \in Collectives \cap Path(q) : Pos[c] <= Pos[pc[q]]}
  BY SameCollectives
<1>2. Entered(r) = Cardinality(Seen(r)) /\ Entered(q) = Cardinality(Seen(q))
  BY <1>1 DEF Entered
<1>3. IsFiniteSet(Seen(r))
  <2>1. IsFiniteSet(Collectives)
    <3>1. Collectives = (((({} \cup {"barrier1"}) \cup {"barrier2"}) \cup {"gather"}) \cup {"barrier3"})
                            \cup {"barrier4"}
      BY DEF Collectives
    <3> QED BY <3>1, FS_EmptySet, FS_AddElement
  <2>2. Seen(r) \subseteq Collectives
    OBVIOUS
  <2> QED BY <2>1, <2>2, FS_Subset
<1>4. SUFFICES ASSUME Pos[pc[q]] < Pos[pc[r]] PROVE FALSE
  BY PosFacts
<1>5. Seen(q) \subseteq Seen(r)
  BY <1>4, PosFacts DEF Collectives
<1>6. pc[r] \in Seen(r) /\ pc[r] \notin Seen(q)
  BY <1>4, PathFacts, PosFacts DEF Collectives
<1>7. Seen(q) # Seen(r)
  BY <1>6
<1> HIDE DEF Seen
<1>8. /\ Cardinality(Seen(q)) <= Cardinality(Seen(r))
      /\ Cardinality(Seen(q)) = Cardinality(Seen(r)) => Seen(q) = Seen(r)
  BY <1>3, <1>5, FS_Subset
<1>9. Cardinality(Seen(q)) \in Nat /\ Cardinality(Seen(r)) \in Nat
  BY <1>3, <1>5, FS_Subset, FS_CardinalityType
<1> QED BY <1>2, <1>7, <1>8, <1>9

-----------------------------------------------------------------------------

LEMMA InitIInv == Init => IInv
<1> SUFFICES ASSUME Init PROVE IInv
  OBVIOUS
<1> USE ConstantsAssumption DEF Init
<1>1. TypeOK
  BY PosFacts DEF TypeOK
<1>2. CallInv
  BY DEF CallInv
<1>3. \A r \in Ranks : Pos[pc[r]] = 0
  BY PosFacts
<1>4. BarrierInv
  BY <1>3, PosFacts DEF BarrierInv
<1>5. WrittenInv
  BY <1>3, PosFacts DEF WrittenInv, ShardKinds
<1> QED BY <1>1, <1>2, <1>4, <1>5 DEF IInv

\* A rank that goes on along its path, at a collective only when the others have
\* entered as many, keeps CallInv and BarrierInv.
LEMMA AdvanceKeeps ==
    ASSUME IInv, NEW r \in Ranks, pc[r] # "idle",
           pc[r] \in Collectives => \A q \in Ranks : Entered(q) >= Entered(r),
           Advance(r), UNCHANGED local_path
    PROVE  /\ pc' \in [Ranks -> DOMAIN Pos]
           /\ CallInv'
           /\ BarrierInv'
           /\ \A q \in Ranks : \A k \in ShardKinds \cap SaveContents :
                 Pos[pc'[q]] > Pos[k] => Pos[pc[q]] > Pos[k] \/ (q = r /\ pc[r] = k)
           /\ Pos[pc'[r]] > Pos[pc[r]] /\ \A q \in Ranks : q # r => pc'[q] = pc[q]
<1>0. pc \in [Ranks -> DOMAIN Pos]
  BY DEF IInv, TypeOK
<1> DEFINE p == pc[r]
<1>a. PICK next \in Path(r) : Follows(r, p, next) /\ pc' = [pc EXCEPT ![r] = next]
  BY DEF Advance
<1>1. /\ next \in DOMAIN Pos \ {"idle", "begin"}
      /\ Pos[p] < Pos[next]
      /\ \A b \in {"barrier1", "barrier2"} : Pos[p] < Pos[b] => Pos[next] <= Pos[b]
      /\ \A k \in ShardKinds \cap SaveContents : Pos[next] > Pos[k] => p = k \/ Pos[p] > Pos[k]
  BY <1>0, <1>a, FollowsFacts
<1>2. pc' = [pc EXCEPT ![r] = next] /\ pc'[r] = next /\ \A q \in Ranks : q # r => pc'[q] = pc[q]
  BY <1>0, <1>a
<1>3. pc' \in [Ranks -> DOMAIN Pos]
  BY <1>0, <1>1, <1>2
<1>4. CallInv'
  BY <1>0, <1>1, <1>2 DEF IInv, CallInv
<1>5. \A q \in Ranks : Pos[pc'[q]] >= Pos[pc[q]] /\ Pos[pc[q]] \in Nat /\ Pos[pc'[q]] \in Nat
  BY <1>0, <1>1, <1>2, <1>3, PosFacts
<1>6. ASSUME NEW b \in {"barrier1", "barrier2"}, NEW t \in Ranks, NEW q \in Ranks,
             Pos[pc'[t]] > Pos[b]
      PROVE  Pos[pc'[q]] >= Pos[b]
  <2>1. CASE Pos[pc[t]] > Pos[b]
    BY <2>1, <1>5, PosFacts DEF IInv, BarrierInv
  <2>2. CASE ~(Pos[pc[t]] > Pos[b])
    <3>1. t = r
      BY <2>2, <1>2, <1>6
    <3>2. ~(Pos[p] < Pos[b])
      BY <3>1, <1>1, <1>2, <1>6, PosFacts
    <3>3. p = b
      BY <3>1, <3>2, <2>2, <1>0, PosFacts
    <3>4. Pos[pc[q]] >= Pos[b]
      <4>1. p \in {"barrier1", "barrier2"} /\ p \in Collectives
        BY <3>3 DEF Collectives
      <4>2. Entered(q) >= Entered(r)
        BY <4>1
      <4> QED BY <1>0, <3>3, <4>1, <4>2, AllArrived
    <3> QED BY <3>4, <1>5, PosFacts
  <2> QED BY <2>1, <2>2
<1>7. BarrierInv'
  BY <1>6 DEF BarrierInv
<1>8. \A q \in Ranks : \A k \in ShardKinds \cap SaveContents :
         Pos[pc'[q]] > Pos[k] => Pos[pc[q]] > Pos[k] \/ (q = r /\ pc[r] = k)
  BY <1>1, <1>2
<1> QED BY <1>1, <1>2, <1>3, <1>4, <1>7, <1>8

\* A step of a rank moves it forward, and no other.
LEMMA RankMoves ==
    ASSUME IInv, NEW r \in Ranks, RankStep(r)
    PROVE  /\ pc[r] # "idle" /\ local_path \in Steps /\ UNCHANGED local_path
           /\ pc' \in [Ranks -> DOMAIN Pos]
           /\ Pos[pc'[r]] > Pos[pc[r]]
           /\ \A q \in Ranks : q # r => pc'[q] = pc[q]
<1>1. /\ Advance(r) /\ UNCHANGED local_path
      /\ pc[r] # "idle"
      /\ pc[r] \in Collectives => \A q \in Ranks : Entered(q) >= Entered(r)
  BY DEF RankStep, Begin, LeaveCollective, Write, AppendPath, Collectives, Kinds, ShardKinds
<1>2. local_path \in Steps
  BY <1>1 DEF IInv, CallInv
<1> QED BY <1>1, <1>2, AdvanceKeeps

\* While rank 0 can still rotate, no rank is past the first barrier.
LEMMA RotationBeforeWrites ==
    ASSUME IInv, pc[0] = "begin"
    PROVE  \A r \in Ranks : Pos[pc[r]] <= Pos["barrier1"]
<1>1. 0 \in Ranks
  BY ConstantsAssumption DEF Ranks
<1>2. \A r \in Ranks : Pos[pc[r]] \in 0 .. 13
  BY PosFacts DEF IInv, TypeOK
<1> QED BY <1>1, <1>2, PosFacts DEF IInv, BarrierInv

LEMMA NextIInv == IInv /\ [Next]_vars => IInv'
<1> SUFFICES ASSUME IInv, [Next]_vars PROVE IInv'
  OBVIOUS
<1> USE ConstantsAssumption
<1>0. 0 \in Ranks
  BY DEF Ranks
<1>1. ASSUME NEW s \in Steps, Call(s) PROVE IInv'
  <2> USE <1>1 DEF Call
  <2>1. TypeOK'
    BY PosFacts DEF IInv, TypeOK
  <2>2. \A r \in Ranks : pc'[r] = "begin" /\ Pos[pc'[r]] = 1
    BY PosFacts
  <2>3. CallInv'
    BY <2>2 DEF CallInv
  <2>4. BarrierInv'
    BY <2>2, PosFacts DEF BarrierInv
  <2>5. WrittenInv'
    BY <2>2, PosFacts DEF WrittenInv, ShardKinds
  <2> QED BY <2>1, <2>3, <2>4, <2>5 DEF IInv
<1>2. CASE Return
  <2> USE <1>2 DEF Return
  <2>1. TypeOK'
    BY PosFacts DEF IInv, TypeOK
  <2>2. \A r \in Ranks : pc'[r] = "idle" /\ Pos[pc'[r]] = 0
    BY PosFacts
  <2>3. CallInv'
    BY <2>2 DEF CallInv
  <2>4. BarrierInv'
    BY <2>2, PosFacts DEF BarrierInv
  <2>5. WrittenInv'
    BY <2>2, PosFacts DEF WrittenInv, ShardKinds
  <2> QED BY <2>1, <2>3, <2>4, <2>5 DEF IInv
<1>3. CASE RemoveOldest
  <2> USE <1>3 DEF RemoveOldest
  <2>1. TypeOK'
    <3>1. previous_saved_paths # <<>>
      BY DEF MustRotate, IInv, TypeOK
    <3> QED BY <3>1 DEF IInv, TypeOK
  <2>2. CallInv'
    BY DEF IInv, CallInv
  <2>3. BarrierInv'
    BY DEF IInv, BarrierInv
  <2>4. WrittenInv'
    BY RotationBeforeWrites, PosFacts DEF WrittenInv, ShardKinds, IInv, TypeOK
  <2> QED BY <2>1, <2>2, <2>3, <2>4 DEF IInv
<1>4. ASSUME NEW r \in Ranks, Begin(r) PROVE IInv'
  <2> USE <1>4 DEF Begin
  <2>1. pc[r] # "idle" /\ pc[r] \notin Collectives \cup ShardKinds
    BY DEF Collectives, ShardKinds
  <2>2. /\ pc' \in [Ranks -> DOMAIN Pos]
        /\ CallInv' /\ BarrierInv'
        /\ \A q \in Ranks : \A k \in ShardKinds \cap SaveContents :
              Pos[pc'[q]] > Pos[k] => Pos[pc[q]] > Pos[k]
    BY <2>1, AdvanceKeeps
  <2>3. TypeOK'
    BY <2>2 DEF IInv, TypeOK
  <2>4. WrittenInv'
    BY <2>2 DEF WrittenInv, IInv
  <2> QED BY <2>2, <2>3, <2>4 DEF IInv
<1>5. ASSUME NEW r \in Ranks, LeaveCollective(r) PROVE IInv'
  <2> USE <1>5 DEF LeaveCollective
  <2>1. pc[r] # "idle" /\ pc[r] \notin ShardKinds
    BY DEF Collectives, ShardKinds
  <2>2. /\ pc' \in [Ranks -> DOMAIN Pos]
        /\ CallInv' /\ BarrierInv'
        /\ \A q \in Ranks : \A k \in ShardKinds \cap SaveContents :
              Pos[pc'[q]] > Pos[k] => Pos[pc[q]] > Pos[k]
    BY <2>1, AdvanceKeeps
  <2>3. TypeOK'
    BY <2>2 DEF IInv, TypeOK
  <2>4. WrittenInv'
    BY <2>2 DEF WrittenInv, IInv
  <2> QED BY <2>2, <2>3, <2>4 DEF IInv
<1>6. ASSUME NEW r \in Ranks, Write(r) PROVE IInv'
  <2> USE <1>6 DEF Write
  <2>1. pc[r] # "idle" /\ pc[r] \notin Collectives
    BY DEF Kinds, ShardKinds, Collectives
  <2>2. /\ pc' \in [Ranks -> DOMAIN Pos]
        /\ CallInv' /\ BarrierInv'
        /\ \A q \in Ranks : \A k \in ShardKinds \cap SaveContents :
              Pos[pc'[q]] > Pos[k] => Pos[pc[q]] > Pos[k] \/ (q = r /\ pc[r] = k)
    BY <2>1, AdvanceKeeps
  <2>3. local_path \in Steps
    BY <2>1 DEF IInv, CallInv
  <2>4. <<local_path, r, pc[r]>> \in Files
    BY <2>3 DEF Files
  <2>5. TypeOK'
    BY <2>2, <2>4 DEF IInv, TypeOK
  <2>6. ASSUME NEW q \in Ranks, NEW k \in ShardKinds \cap SaveContents, Pos[pc'[q]] > Pos[k]
        PROVE  disk'[<<local_path, q, k>>] = model
    <3>1. <<local_path, q, k>> \in Files
      BY <2>3 DEF Files, Kinds
    <3>2. CASE q = r /\ k = pc[r]
      BY <3>1, <3>2 DEF IInv, TypeOK
    <3>3. CASE ~(q = r /\ k = pc[r])
      <4>1. Pos[pc[q]] > Pos[k]
        BY <2>2, <2>6, <3>3
      <4>2. disk[<<local_path, q, k>>] = model
        BY <4>1 DEF IInv, WrittenInv
      <4>3. <<local_path, q, k>> # <<local_path, r, pc[r]>>
        BY <3>3
      <4> QED BY <4>2, <4>3, <3>1, <2>4 DEF IInv, TypeOK
    <3> QED BY <3>2, <3>3
  <2>7. WrittenInv'
    BY <2>6 DEF WrittenInv
  <2> QED BY <2>2, <2>5, <2>7 DEF IInv
<1>7. ASSUME NEW r \in Ranks, AppendPath(r) PROVE IInv'
  <2> USE <1>7 DEF AppendPath
  <2>1. pc[r] # "idle" /\ pc[r] \notin Collectives \cup ShardKinds
    BY DEF Collectives, ShardKinds
  <2>2. /\ pc' \in [Ranks -> DOMAIN Pos]
        /\ CallInv' /\ BarrierInv'
        /\ \A q \in Ranks : \A k \in ShardKinds \cap SaveContents :
              Pos[pc'[q]] > Pos[k] => Pos[pc[q]] > Pos[k]
    BY <2>1, AdvanceKeeps
  <2>3. local_path \in Steps
    BY DEF IInv, CallInv
  <2>4. TypeOK'
    BY <2>2, <2>3 DEF IInv, TypeOK
  <2>5. WrittenInv'
    BY <2>2 DEF WrittenInv, IInv
  <2> QED BY <2>2, <2>4, <2>5 DEF IInv
<1>8. CASE UpdateModel
  <2> USE <1>8 DEF UpdateModel
  <2>1. TypeOK' /\ CallInv' /\ BarrierInv'
    BY DEF IInv, TypeOK, CallInv, BarrierInv
  <2>2. \A r \in Ranks : Pos[pc'[r]] = 0
    BY PosFacts DEF Idle
  <2>3. WrittenInv'
    BY <2>2, PosFacts DEF WrittenInv, ShardKinds
  <2> QED BY <2>1, <2>3 DEF IInv
<1>9. CASE Restart
  <2> USE <1>9 DEF Restart
  <2>1. TypeOK'
    <3>1. disk' \in [Files -> Contents \cup {Absent}]
      BY DEF Tear, IInv, TypeOK
    <3> QED BY <3>1, PosFacts DEF IInv, TypeOK
  <2>2. \A r \in Ranks : pc'[r] = "idle" /\ Pos[pc'[r]] = 0
    BY PosFacts
  <2>3. CallInv'
    BY <2>2 DEF CallInv
  <2>4. BarrierInv'
    BY <2>2, PosFacts DEF BarrierInv
  <2>5. WrittenInv'
    BY <2>2, PosFacts DEF WrittenInv, ShardKinds
  <2> QED BY <2>1, <2>3, <2>4, <2>5 DEF IInv
<1>10. CASE UNCHANGED vars
  BY <1>10 DEF vars, IInv, TypeOK, CallInv, BarrierInv, WrittenInv
<1> QED BY <1>1, <1>2, <1>3, <1>4, <1>5, <1>6, <1>7, <1>8, <1>9, <1>10 DEF Next, RankStep

THEOREM Invariance == Spec => []IInv
BY InitIInv, NextIInv, PTL DEF Spec

\* Every variable stays in its type, for any number of ranks.
THEOREM TypeCorrect == Spec => []TypeOK
<1>1. IInv => TypeOK
  BY DEF IInv
<1> QED BY <1>1, Invariance, PTL

\* A call that got past the second barrier has saved all shards of all ranks.
THEOREM CallsSaveEverything == Spec => []SavedIsWhole
<1>1. IInv => SavedIsWhole
  <2> SUFFICES ASSUME IInv, NEW t \in Ranks, Pos[pc[t]] > Pos["barrier2"],
                      NEW r \in Ranks, NEW k \in ShardKinds \cap SaveContents
               PROVE  disk[<<local_path, r, k>>] = model
    BY DEF SavedIsWhole, Whole
  <2>1. Pos[pc[r]] >= Pos["barrier2"]
    BY DEF IInv, BarrierInv
  <2>2. Pos[pc[r]] > Pos[k]
    BY <2>1, PosFacts DEF ShardKinds, IInv, TypeOK
  <2> QED BY <2>2 DEF IInv, WrittenInv
<1> QED BY <1>1, Invariance, PTL

\* Rank 0 removes old checkpoints only while no rank writes the new one.
THEOREM RotationIsExclusive == Spec => []NoWriteDuringRotation
<1>1. IInv => NoWriteDuringRotation
  BY RotationBeforeWrites DEF NoWriteDuringRotation
<1> QED BY <1>1, Invariance, PTL

-----------------------------------------------------------------------------
(* Rotation spares the newest checkpoint *)

\* The saved paths increase, and until rank 0 appends the directory being
\* saved it is later than all of them.
PathsInv ==
    /\ \A i, j \in 1 .. Len(previous_saved_paths) :
          i < j => previous_saved_paths[i] < previous_saved_paths[j]
    /\ local_path # 0 /\ Pos[pc[0]] <= Pos["append"] =>
          \A i \in 1 .. Len(previous_saved_paths) : previous_saved_paths[i] < local_path

RInv == IInv /\ PathsInv /\ NewestSurvives

LEMMA NextPathsInv == IInv /\ PathsInv /\ [Next]_vars => PathsInv'
<1> SUFFICES ASSUME IInv, PathsInv, [Next]_vars PROVE PathsInv'
  OBVIOUS
<1> USE ConstantsAssumption
<1>0. 0 \in Ranks /\ TypeOK
  BY DEF Ranks, IInv
<1>a. \A r \in Ranks : Pos[pc[r]] \in 0 .. 13
  BY <1>0, PosFacts DEF TypeOK
<1>b. /\ Len(previous_saved_paths) \in Nat
      /\ \A i \in 1 .. Len(previous_saved_paths) : previous_saved_paths[i] \in Steps
      /\ Steps \subseteq Nat \ {0}
  BY <1>0 DEF TypeOK
<1>1. ASSUME NEW s \in Steps, Later(s), Call(s) PROVE PathsInv'
  BY <1>1 DEF Call, Later, PathsInv
<1>2. CASE Return
  BY <1>2 DEF Return, PathsInv
<1>3. CASE RemoveOldest
  <2> DEFINE paths == previous_saved_paths
  <2>1. paths # <<>>
    BY <1>0, <1>3 DEF RemoveOldest, MustRotate, TypeOK
  <2>2. /\ paths' = Tail(paths)
        /\ Len(paths') = Len(paths) - 1
        /\ \A i \in 1 .. Len(paths') : paths'[i] = paths[i + 1]
    BY <2>1, <1>0, <1>3, HeadTailProperties DEF RemoveOldest, TypeOK
  <2>3. UNCHANGED <<local_path, pc>>
    BY <1>3 DEF RemoveOldest
  <2>4. \A i, j \in 1 .. Len(paths') : i < j => paths'[i] < paths'[j]
    BY <1>b, <2>2 DEF PathsInv
  <2>5. local_path # 0 /\ Pos[pc[0]] <= Pos["append"] =>
          \A i \in 1 .. Len(paths') : paths'[i] < local_path
    BY <1>b, <2>2 DEF PathsInv
  <2> QED BY <2>3, <2>4, <2>5 DEF PathsInv
<1>4. ASSUME NEW r \in Ranks, RankStep(r), UNCHANGED previous_saved_paths
      PROVE  PathsInv'
  <2>1. /\ UNCHANGED local_path /\ pc' \in [Ranks -> DOMAIN Pos]
        /\ Pos[pc'[r]] > Pos[pc[r]] /\ \A q \in Ranks : q # r => pc'[q] = pc[q]
    BY <1>4, RankMoves
  <2>2. Pos[pc'[0]] <= Pos["append"] => Pos[pc[0]] <= Pos["append"]
    BY <1>0, <1>a, <2>1, PosFacts
  <2> QED BY <1>4, <2>1, <2>2 DEF PathsInv
<1>5. ASSUME NEW r \in Ranks, Begin(r) PROVE PathsInv'
  BY <1>4, <1>5 DEF Begin, RankStep
<1>6. ASSUME NEW r \in Ranks, LeaveCollective(r) PROVE PathsInv'
  BY <1>4, <1>6 DEF LeaveCollective, RankStep
<1>7. ASSUME NEW r \in Ranks, Write(r) PROVE PathsInv'
  BY <1>4, <1>7 DEF Write, RankStep
<1>8. ASSUME NEW r \in Ranks, AppendPath(r) PROVE PathsInv'
  <2>1. local_path \in Steps /\ Pos[pc'[r]] > Pos[pc[r]] /\ pc' \in [Ranks -> DOMAIN Pos] /\ RankStep(r)
    BY <1>8, RankMoves DEF RankStep
  <2>2. CASE r # 0
    BY <1>4, <1>8, <2>1, <2>2 DEF AppendPath
  <2>3. CASE r = 0
    <3> DEFINE paths == previous_saved_paths
    <3>1. /\ Len(paths') = Len(paths) + 1
          /\ \A i \in 1 .. Len(paths) : paths'[i] = paths[i]
          /\ paths'[Len(paths')] = local_path
      BY <1>0, <1>8, <2>1, <2>3, AppendProperties DEF AppendPath, TypeOK
    <3>2. \A i \in 1 .. Len(paths) : paths[i] < local_path
      BY <1>b, <1>8, <2>1, <2>3, PosFacts DEF AppendPath, PathsInv
    <3>3. ~(Pos[pc'[0]] <= Pos["append"])
      BY <1>0, <1>8, <2>1, <2>3, PosFacts DEF AppendPath
    <3>4. \A i, j \in 1 .. Len(paths') : i < j => paths'[i] < paths'[j]
      BY <1>b, <2>1, <3>1, <3>2 DEF PathsInv
    <3> QED BY <3>3, <3>4 DEF PathsInv
  <2> QED BY <2>2, <2>3
<1>9. CASE UpdateModel
  BY <1>9 DEF UpdateModel, PathsInv
<1>10. CASE Restart
  BY <1>10 DEF Restart, PathsInv
<1>11. CASE UNCHANGED vars
  BY <1>11 DEF vars, PathsInv
<1> QED BY <1>1, <1>2, <1>3, <1>5, <1>6, <1>7, <1>8, <1>9, <1>10, <1>11 DEF Next, RankStep

\* During a call the list of paths loses its oldest entries and gains, once
\* rank 0 is past its append, the directory being saved.
LEMMA WorkerPaths ==
    ASSUME IInv, RemoveOldest \/ \E r \in Ranks : RankStep(r)
    PROVE  /\ \A i \in 1 .. Len(previous_saved_paths') :
                 \/ \E j \in 1 .. Len(previous_saved_paths) :
                       previous_saved_paths'[i] = previous_saved_paths[j]
                 \/ previous_saved_paths'[i] = local_path /\ Pos[pc'[0]] > Pos["append"]
           /\ Pos[pc[0]] > Pos["append"] => Pos[pc'[0]] > Pos["append"]
<1> DEFINE paths == previous_saved_paths
<1>0. 0 \in Ranks /\ TypeOK /\ Len(paths) \in Nat
  BY ConstantsAssumption DEF Ranks, IInv, TypeOK
<1>1. CASE RemoveOldest
  <2>1. paths # <<>>
    BY <1>0, <1>1, ConstantsAssumption DEF RemoveOldest, MustRotate, TypeOK
  <2>2. /\ Len(paths') = Len(paths) - 1
        /\ \A i \in 1 .. Len(paths') : paths'[i] = paths[i + 1]
    BY <2>1, <1>0, <1>1, HeadTailProperties DEF RemoveOldest, TypeOK
  <2>3. \A i \in 1 .. Len(paths') : i + 1 \in 1 .. Len(paths)
    BY <1>0, <2>2
  <2>4. UNCHANGED pc
    BY <1>1 DEF RemoveOldest
  <2> QED BY <2>2, <2>3, <2>4
<1>2. ASSUME NEW r \in Ranks, RankStep(r)
      PROVE  Pos[pc[0]] > Pos["append"] => Pos[pc'[0]] > Pos["append"]
  <2>1. /\ pc' \in [Ranks -> DOMAIN Pos] /\ Pos[pc'[r]] > Pos[pc[r]]
        /\ \A q \in Ranks : q # r => pc'[q] = pc[q]
    BY <1>2, RankMoves
  <2> QED BY <1>0, <2>1, PosFacts DEF TypeOK
<1>3. ASSUME NEW r \in Ranks, Begin(r) \/ LeaveCollective(r) \/ Write(r)
      PROVE  UNCHANGED paths
  BY <1>3 DEF Begin, LeaveCollective, Write
<1>4. ASSUME NEW r \in Ranks, AppendPath(r)
      PROVE  \A i \in 1 .. Len(paths') :
                 \/ \E j \in 1 .. Len(paths) : paths'[i] = paths[j]
                 \/ paths'[i] = local_path /\ Pos[pc'[0]] > Pos["append"]
  <2>1. CASE r # 0
    BY <1>4, <2>1 DEF AppendPath
  <2>2. CASE r = 0
    <3>1. local_path \in Steps
      BY <1>4 DEF AppendPath, IInv, CallInv
    <3>2. /\ Len(paths') = Len(paths) + 1
          /\ \A i \in 1 .. Len(paths) : paths'[i] = paths[i]
          /\ paths'[Len(paths')] = local_path
      BY <1>0, <1>4, <2>2, <3>1, AppendProperties DEF AppendPath, TypeOK
    <3>3. Pos[pc'[0]] > Pos["append"]
      BY <1>0, <1>4, <2>2, RankMoves, PosFacts DEF AppendPath, RankStep
    <3> QED BY <1>0, <3>2, <3>3
  <2> QED BY <2>1, <2>2
<1> QED BY <1>1, <1>2, <1>3, <1>4 DEF RankStep

\* A call that returns has written all shards of all ranks.
LEMMA ReturnedIsWhole ==
    ASSUME IInv, \A r \in Ranks : pc[r] = "returned"
    PROVE  Whole(local_path, model)
<1>1. \A r \in Ranks : \A k \in ShardKinds : Pos[pc[r]] > Pos[k]
  BY PosFacts DEF ShardKinds
<1> QED BY <1>1 DEF Whole, IInv, WrittenInv

\* With room for two checkpoints, the directory that rank 0 removes is not the
\* newest, nor any that is later than the saved paths.
LEMMA RotationSparesLater ==
    ASSUME MaxCkptToKeep # 1, TypeOK, PathsInv, MustRotate,
           NEW n \in Steps, \A i \in 1 .. Len(previous_saved_paths) :
                                previous_saved_paths[i] <= n
    PROVE  Head(previous_saved_paths) # n
<1> DEFINE paths == previous_saved_paths
<1>1. Len(paths) \in Nat /\ Len(paths) >= 2
  BY ConstantsAssumption DEF MustRotate, TypeOK
<1>2. 1 \in 1 .. Len(paths) /\ 2 \in 1 .. Len(paths)
  BY <1>1
<1>3. paths[1] \in Nat /\ paths[2] \in Nat /\ n \in Nat
  <2>1. paths[1] \in Steps /\ paths[2] \in Steps
    BY <1>2 DEF TypeOK
  <2>2. Steps \subseteq Nat
    BY ConstantsAssumption
  <2> QED BY <2>1, <2>2
<1>4. paths[1] < paths[2] /\ paths[2] <= n
  BY <1>2 DEF PathsInv
<1> QED BY <1>1, <1>3, <1>4

\* A step changes only the directory being saved and the one being removed.
LEMMA OthersUnchanged ==
    ASSUME IInv, [Next]_vars, NEW n \in Steps, n # local_path,
           pc[0] = "begin" /\ MustRotate => Head(previous_saved_paths) # n,
           NEW r \in Ranks, NEW k \in ShardKinds
    PROVE  disk'[<<n, r, k>>] = disk[<<n, r, k>>]
<1> DEFINE f == <<n, r, k>>
<1>1. f \in Files /\ f[1] = n
  BY DEF Files, Kinds
<1>2. disk \in [Files -> Contents \cup {Absent}]
  BY DEF IInv, TypeOK
<1>3. CASE RemoveOldest
  BY <1>1, <1>3 DEF RemoveOldest
<1>4. ASSUME NEW q \in Ranks, Write(q) PROVE disk'[f] = disk[f]
  <2>1. f # <<local_path, q, pc[q]>>
    OBVIOUS
  <2>2. disk' \in {disk, [disk EXCEPT ![<<local_path, q, pc[q]>>] = model]}
    BY <1>4 DEF Write
  <2> QED BY <1>1, <1>2, <2>1, <2>2
<1>5. CASE Restart
  <2>1. f \notin InFlight
    BY <1>1 DEF InFlight
  <2>2. PICK lost \in SUBSET InFlight : Tear(lost)
    BY <1>5 DEF Restart
  <2> QED BY <1>1, <2>1, <2>2 DEF Tear
<1>6. CASE ~(RemoveOldest \/ Restart \/ \E q \in Ranks : Write(q))
  <2>1. UNCHANGED disk
    BY <1>6 DEF Next, RankStep, Call, Return, Begin, LeaveCollective, AppendPath, UpdateModel, vars
  <2> QED BY <2>1
<1> QED BY <1>3, <1>4, <1>5, <1>6

-----------------------------------------------------------------------------

\* A step that leaves the saved paths alone, does not move rank 0 back before
\* the append and tears nothing keeps RInv when it keeps the newest directory.
LEMMA WholeUnchanged ==
    ASSUME NewestSurvives, UNCHANGED previous_saved_paths,
           previous_saved_paths # <<>> =>
             \A r \in Ranks : \A k \in ShardKinds :
               LET n == previous_saved_paths[Len(previous_saved_paths)]
               IN  disk'[<<n, r, k>>] = disk[<<n, r, k>>]
    PROVE  NewestSurvives'
BY DEF NewestSurvives, Whole

LEMMA NextRInv ==
    ASSUME MaxCkptToKeep # 1, RInv, [Next]_vars
    PROVE  NewestSurvives'
<1> USE ConstantsAssumption DEF RInv
<1>0. 0 \in Ranks /\ IInv /\ TypeOK
  BY DEF Ranks, IInv
<1>a. \A r \in Ranks : Pos[pc[r]] \in 0 .. 13
  BY <1>0, PosFacts DEF TypeOK
<1>b. /\ Len(previous_saved_paths) \in Nat
      /\ \A i \in 1 .. Len(previous_saved_paths) : previous_saved_paths[i] \in Steps
      /\ Steps \subseteq Nat \ {0}
  BY <1>0 DEF TypeOK
<1>1. ASSUME NEW s \in Steps, Later(s), Call(s) PROVE NewestSurvives'
  BY <1>1, WholeUnchanged DEF Call
<1>2. CASE Return
  BY <1>2, WholeUnchanged DEF Return
<1>3. CASE RemoveOldest
  <2> DEFINE paths == previous_saved_paths
  <2>1. Len(paths) >= 2
    BY <1>b, <1>3 DEF RemoveOldest, MustRotate
  <2>2. /\ paths' = Tail(paths)
        /\ Len(paths') = Len(paths) - 1
        /\ \A i \in 1 .. Len(paths') : paths'[i] = paths[i + 1]
    BY <2>1, <1>0, <1>3, HeadTailProperties DEF RemoveOldest, TypeOK
  <2>4. paths'[Len(paths')] = paths[Len(paths)]
    BY <1>b, <2>1, <2>2
  <2>5. Head(paths) = paths[1] /\ Head(paths) < paths[Len(paths)]
    BY <1>b, <2>1 DEF PathsInv
  <2>6. paths[Len(paths)] \in Steps /\ paths # <<>>
    BY <1>b, <2>1
  <2>7. PICK c \in Contents : Whole(paths[Len(paths)], c)
    BY <2>6 DEF NewestSurvives
  <2>8. Whole(paths[Len(paths)], c)'
    <3> SUFFICES ASSUME NEW r \in Ranks, NEW k \in ShardKinds \cap SaveContents
                 PROVE  disk'[<<paths[Len(paths)], r, k>>] = c
      BY <2>4 DEF Whole
    <3>1. <<paths[Len(paths)], r, k>> \in Files
      BY <2>6 DEF Files, Kinds
    <3>2. disk'[<<paths[Len(paths)], r, k>>] = disk[<<paths[Len(paths)], r, k>>]
      <4>a. 1 \in 1 .. Len(paths) /\ Len(paths) \in 1 .. Len(paths)
        BY <1>b, <2>1
      <4>b. paths[1] \in Steps /\ paths[Len(paths)] \in Steps
        BY <1>b, <4>a
      <4>0. paths[1] \in Nat /\ paths[Len(paths)] \in Nat
        BY <1>b, <4>b
      <4>1. Head(paths) # paths[Len(paths)]
        BY <4>0, <2>5
      <4>2. disk' = [f \in Files |-> IF f[1] = Head(paths) THEN Absent ELSE disk[f]]
        BY <1>3 DEF RemoveOldest
      <4> QED BY <3>1, <4>1, <4>2
    <3> QED BY <2>7, <3>2 DEF Whole
  <2> QED BY <2>4, <2>8 DEF NewestSurvives
<1>4. ASSUME NEW r \in Ranks, Begin(r) PROVE NewestSurvives'
  BY <1>4, WholeUnchanged DEF Begin
<1>6. ASSUME NEW r \in Ranks, LeaveCollective(r) PROVE NewestSurvives'
  BY <1>6, WholeUnchanged DEF LeaveCollective
<1>7. ASSUME NEW r \in Ranks, Write(r) PROVE NewestSurvives'
  <2>2. CASE pc[r] \in ShardKinds
    <3>1. local_path \in Steps
      BY <1>0, <2>2 DEF IInv, CallInv, ShardKinds
    <3>2. Pos[pc[r]] < 7
      BY <2>2, PosFacts DEF ShardKinds
    <3>3. Pos[pc[0]] <= Pos["append"]
      BY <1>0, <1>a, <3>2, PosFacts DEF IInv, BarrierInv
    <3>4. \A i \in 1 .. Len(previous_saved_paths) : previous_saved_paths[i] < local_path
      BY <3>1, <3>3, <1>b DEF PathsInv
    <3>5. previous_saved_paths # <<>> =>
            previous_saved_paths[Len(previous_saved_paths)] # local_path
      BY <3>1, <3>4, <1>b, <1>0 DEF TypeOK
    <3> QED BY <3>5, <1>7, <1>0, WholeUnchanged DEF Write, TypeOK
  <2>3. CASE pc[r] \notin ShardKinds
    <3>1. ASSUME NEW n \in Steps, NEW q \in Ranks, NEW k \in ShardKinds
          PROVE  disk'[<<n, q, k>>] = disk[<<n, q, k>>]
      <4>1. k # pc[r]
        BY <2>3
      <4>2. <<n, q, k>> # <<local_path, r, pc[r]>>
        BY <4>1
      <4>3. disk' \in {disk, [disk EXCEPT ![<<local_path, r, pc[r]>>] = model]}
        BY <1>7 DEF Write
      <4>4. <<n, q, k>> \in Files
        BY DEF Files, Kinds
      <4> QED BY <4>2, <4>3, <4>4, <1>0 DEF TypeOK
    <3>2. UNCHANGED previous_saved_paths
      BY <1>7 DEF Write
    <3>3. previous_saved_paths # <<>> => previous_saved_paths[Len(previous_saved_paths)] \in Steps
      BY <1>b, <1>0 DEF TypeOK
    <3> QED BY <3>1, <3>2, <3>3, WholeUnchanged
  <2> QED BY <2>2, <2>3
<1>8. ASSUME NEW r \in Ranks, AppendPath(r) PROVE NewestSurvives'
  <2>1. local_path \in Steps
    BY <1>0, <1>8 DEF AppendPath, IInv, CallInv
  <2>2. CASE r # 0
    BY <1>8, <2>2, WholeUnchanged DEF AppendPath
  <2>3. CASE r = 0
    <3> DEFINE paths == previous_saved_paths
    <3>1. /\ paths' = Append(paths, local_path)
          /\ Len(paths') = Len(paths) + 1
          /\ \A i \in 1 .. Len(paths) : paths'[i] = paths[i]
          /\ paths'[Len(paths')] = local_path
      BY <1>0, <1>8, <2>1, <2>3, AppendProperties DEF AppendPath, TypeOK
    <3>6. Whole(local_path, model)
      <4>1. Pos[pc[0]] > Pos["barrier2"]
        BY <1>8, <2>3, PosFacts DEF AppendPath
      <4>2. ASSUME NEW q \in Ranks, NEW k \in ShardKinds PROVE Pos[pc[q]] > Pos[k]
        BY <1>0, <1>a, <4>1, PosFacts DEF IInv, BarrierInv, ShardKinds
      <4> QED BY <1>0, <4>2 DEF Whole, IInv, WrittenInv
    <3>7. NewestSurvives'
      <4>1. /\ model \in Contents
            /\ \A q \in Ranks : \A k \in ShardKinds \cap SaveContents :
                  disk'[<<paths'[Len(paths')], q, k>>] = model
        BY <1>0, <1>8, <3>1, <3>6 DEF Whole, AppendPath, TypeOK
      <4> QED BY <4>1 DEF NewestSurvives, Whole
    <3> QED BY <3>7
  <2> QED BY <2>2, <2>3
<1>9. CASE UpdateModel
  BY <1>9, WholeUnchanged DEF UpdateModel
<1>10. CASE Restart
  BY <1>10 DEF Restart, NewestSurvives
<1>11. CASE UNCHANGED vars
  BY <1>11, WholeUnchanged DEF vars
<1> QED BY <1>1, <1>2, <1>3, <1>4, <1>6, <1>7, <1>8, <1>9, <1>10, <1>11 DEF Next, RankStep

\* With room for two checkpoints or more, or for all of them, rotation and the
\* writes of the next save never touch the newest checkpoint of the job.
THEOREM RotationSparesNewest ==
    ASSUME MaxCkptToKeep # 1
    PROVE  Spec => []NewestSurvives
<1>1. Init => RInv
  BY InitIInv DEF Init, RInv, PathsInv, NewestSurvives
<1>2. RInv /\ [Next]_vars => RInv'
  BY NextIInv, NextPathsInv, NextRInv DEF RInv
<1>3. RInv => NewestSurvives
  BY DEF RInv
<1> QED BY <1>1, <1>2, <1>3, PTL DEF Spec

=============================================================================
