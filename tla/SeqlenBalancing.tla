--------------------------- MODULE SeqlenBalancing ---------------------------
(***************************************************************************)
(* get_seqlen_balanced_partitions: the Karmarkar-Karp differencing method  *)
(* that spreads sequences over partitions of nearly equal length.  A state *)
(* of the method is a row of k buckets in decreasing order; the two states *)
(* of largest spread are merged until one is left.                         *)
(*                                                                         *)
(* Several callers run the method next to each other, each on its own      *)
(* list.  The items of a bucket are a set of indices: where the code       *)
(* breaks a last tie by comparing the lists of items, either order is      *)
(* possible here.                                                          *)
(***************************************************************************)
EXTENDS Integers, Sequences, FiniteSets, Functions

CONSTANTS
    Callers,
    Lists          \* the lists of sequence lengths that are passed

ASSUME SeqlenAssumption == Lists \subseteq Seq(Nat)

VARIABLES
    call,          \* the arguments of each caller's call
    states_pq,     \* the heap of states of each call
    partitions     \* what the call returned, <<>> before it has

kkVars == <<call, states_pq, partitions>>

NoCall == [seqlen_list |-> <<>>, k_partitions |-> 1, equal_size |-> FALSE]

KKInit ==
    /\ call = [c \in Callers |-> NoCall]
    /\ states_pq = [c \in Callers |-> {}]
    /\ partitions = [c \in Callers |-> <<>>]
------------------------------------------------------------------------------
\* Set and State of the code.
EmptySet == [sum |-> 0, items |-> {}]
Single(lens, i) == [sum |-> lens[i], items |-> {i}]
Smaller(a, b) ==
    \/ a.sum < b.sum
    \/ a.sum = b.sum /\ Cardinality(a.items) < Cardinality(b.items)

\* The rows that hold the same buckets in decreasing order.
Sorted(sets) ==
    {[i \in DOMAIN sets |-> sets[p[i]]] : p \in
        {p \in Bijection(DOMAIN sets, DOMAIN sets) :
            \A i, j \in DOMAIN sets : i < j => ~ Smaller(sets[p[i]], sets[p[j]])}}

Spread(s) == s[1].sum - s[Len(s)].sum

\* The order of the heap: the state with the largest spread is popped first.
Before(s, t) == Spread(s) > Spread(t) \/ (Spread(s) = Spread(t) /\ Smaller(t[1], s[1]))
PopFirst(pq) == {s \in pq : \A t \in pq : ~ Before(t, s)}

\* Mutant of Merged: largest joins largest.
Merged_Aligned(s, t) ==
    [i \in 1 .. Len(s) |-> [sum |-> s[i].sum + t[i].sum, items |-> s[i].items \cup t[i].items]]

Merged(s, t) ==
    [i \in 1 .. Len(s) |-> LET j == Len(s) + 1 - i IN
        [sum |-> s[i].sum + t[j].sum, items |-> s[i].items \cup t[j].items]]

\* The index of every sequence in the sorted list, from 0.
Position(lens, i) == Cardinality({j \in DOMAIN lens : lens[j] < lens[i] \/ (lens[j] = lens[i] /\ j < i)})

At(lens, p) == CHOOSE i \in DOMAIN lens : Position(lens, i) = p

\* With equal_size, k neighbours of the sorted list make a state; otherwise each sequence does.
EqualStart(lens, k) ==
    {[i \in 1 .. k |-> Single(lens, At(lens, m * k - i))] : m \in 1 .. Len(lens) \div k}
FreeStart(lens, k) ==
    {[i \in 1 .. k |-> IF i = 1 THEN Single(lens, x) ELSE EmptySet] : x \in DOMAIN lens}

\* The assertions at the entry of get_seqlen_balanced_partitions and karmarkar_karp.
MayCall(lens, k, equal_size) ==
    k \in 1 .. Len(lens) /\ (equal_size => Len(lens) % k = 0)
------------------------------------------------------------------------------
\* A caller takes what its call returned before it calls again.
Call(c, lens, k, equal_size) ==
    /\ states_pq[c] = {} /\ partitions[c] = <<>>
    /\ MayCall(lens, k, equal_size)
    /\ call' = [call EXCEPT ![c] =
            [seqlen_list |-> lens, k_partitions |-> k, equal_size |-> equal_size]]
    /\ states_pq' = [states_pq EXCEPT ![c] =
            IF equal_size THEN EqualStart(lens, k) ELSE FreeStart(lens, k)]
    /\ UNCHANGED partitions

Merge(c) ==
    /\ Cardinality(states_pq[c]) > 1
    /\ \E s \in PopFirst(states_pq[c]) : \E t \in PopFirst(states_pq[c] \ {s}) :
        \E u \in Sorted(Merged(s, t)) :
            states_pq' = [states_pq EXCEPT ![c] = (@ \ {s, t}) \cup {u}]
    /\ UNCHANGED <<call, partitions>>

Return(c) ==
    \E s \in states_pq[c] :
        /\ states_pq[c] = {s}
        /\ partitions' = [partitions EXCEPT ![c] = [i \in DOMAIN s |-> s[i].items]]
        /\ states_pq' = [states_pq EXCEPT ![c] = {}]
        /\ UNCHANGED call

KKStep(c) == Merge(c) \/ Return(c)

KKNext ==
    \E c \in Callers :
        \/ \E lens \in Lists : \E k \in 1 .. Len(lens) : \E equal_size \in BOOLEAN :
                Call(c, lens, k, equal_size)
        \/ KKStep(c)

KKSpec == KKInit /\ [][KKNext]_kkVars
------------------------------------------------------------------------------
KKTypeOK ==
    /\ call \in [Callers -> [seqlen_list : Seq(Nat), k_partitions : Nat \ {0}, equal_size : BOOLEAN]]
    /\ \A c \in Callers :
        /\ states_pq[c] \subseteq
                [1 .. call[c].k_partitions -> [sum : Nat, items : SUBSET DOMAIN call[c].seqlen_list]]
        /\ partitions[c] = <<>> \/
            partitions[c] \in [1 .. call[c].k_partitions -> SUBSET DOMAIN call[c].seqlen_list]

Indices(c) == DOMAIN call[c].seqlen_list
LengthOf(c, items) == SumFunctionOnSet(call[c].seqlen_list, items)

(* What get_seqlen_balanced_partitions promises and asserts of the list of  *)
(* partitions: every index is in exactly one partition, none is empty, with *)
(* equal_size all have as many.                                             *)
PartitionsAreExact ==
    \A c \in Callers : partitions[c] # <<>> =>
        /\ DOMAIN partitions[c] = 1 .. call[c].k_partitions
        /\ \A x \in Indices(c) : \E i \in DOMAIN partitions[c] : x \in partitions[c][i]
        /\ \A i, j \in DOMAIN partitions[c] : i # j => partitions[c][i] \cap partitions[c][j] = {}
        /\ \A i \in DOMAIN partitions[c] :
            /\ partitions[c][i] # {}
            /\ partitions[c][i] \subseteq Indices(c)
            /\ call[c].equal_size => Cardinality(partitions[c][i]) * call[c].k_partitions = Len(call[c].seqlen_list)

(* The differencing method balances: the lengths of two partitions never    *)
(* differ by more than the longest sequence, whatever order ties are popped *)
(* and sorted in.                                                           *)
PartitionsAreBalanced ==
    \A c \in Callers : \A i, j \in DOMAIN partitions[c] :
        \E x \in Indices(c) :
            LengthOf(c, partitions[c][i]) - LengthOf(c, partitions[c][j]) <= call[c].seqlen_list[x]

(* Merging never makes a state less balanced than the longest sequence is   *)
(* long, which is what the balance of the partitions rests on.              *)
SpreadIsBounded ==
    \A c \in Callers : \A s \in states_pq[c] :
        \E x \in Indices(c) : Spread(s) <= call[c].seqlen_list[x]

==============================================================================
