-------------------------- MODULE TrainingBatch_proofs --------------------------
(***************************************************************************)
(* Proofs about the batches of a training step: first the Karmarkar-Karp   *)
(* method, for lists of any lengths, any number of partitions and any way  *)
(* of breaking ties; then facts about sequences, slices, divisions,        *)
(* permutations and sums that the operators of TrainingBatch are built     *)
(* from; last the inductive invariant of TrainingBatch and its theorems.   *)
(*                                                                         *)
(* What is recursive over data (FlattenSeq, SumFunctionOnSet) is           *)
(* characterised by induction with the property as a set (NatInduct,       *)
(* InductUpTo), which needs no operator as a parameter.                    *)
(***************************************************************************)
EXTENDS TrainingBatch, FiniteSetTheorems, SequenceTheorems, TLAPS

Bucket(lens)   == [sum : Nat, items : SUBSET DOMAIN lens]
IsRow(s, lens, k) == s \in [1 .. k -> Bucket(lens)]

\* A state in order, with sums that are 0 where nothing is, and spread no further than one length.
Decreasing(s, k) == \A i, j \in 1 .. k : i < j => ~ Smaller(s[i], s[j])
ZeroIsEmpty(s, k) == \A i \in 1 .. k : s[i].items = {} => s[i].sum = 0
Narrow(s, lens, k) == \E x \in DOMAIN lens : s[1].sum - s[k].sum <= lens[x]
StateOK(s, lens, k) ==
    IsRow(s, lens, k) /\ Decreasing(s, k) /\ ZeroIsEmpty(s, k) /\ Narrow(s, lens, k)

-----------------------------------------------------------------------------
(* Rows of buckets *)

LEMMA RowLength ==
    ASSUME NEW lens, NEW k \in Nat, NEW s, IsRow(s, lens, k)
    PROVE  Len(s) = k /\ DOMAIN s = 1 .. k
  BY DEF IsRow

LEMMA BucketFinite ==
    ASSUME NEW lens \in Seq(Nat), NEW b \in Bucket(lens)
    PROVE  IsFiniteSet(b.items) /\ Cardinality(b.items) \in Nat
<1>1. IsFiniteSet(DOMAIN lens)
  <2>1. Len(lens) \in Nat /\ DOMAIN lens = 1 .. Len(lens)
    OBVIOUS
  <2>. QED  BY <2>1, FS_Interval
<1>2. b.items \subseteq DOMAIN lens
  BY DEF Bucket
<1>. QED  BY <1>1, <1>2, FS_Subset, FS_CardinalityType

\* In decreasing order the sums decrease, and of equal sums the emptier bucket comes last.
LEMMA DecreasingSums ==
    ASSUME NEW lens \in Seq(Nat), NEW k \in Nat, NEW s, IsRow(s, lens, k), Decreasing(s, k),
           NEW i \in 1 .. k, NEW j \in 1 .. k, i <= j
    PROVE  /\ s[i].sum \in Nat /\ s[j].sum \in Nat
           /\ s[j].sum <= s[i].sum
           /\ s[i].sum = s[j].sum => Cardinality(s[j].items) <= Cardinality(s[i].items)
<1>1. s[i] \in Bucket(lens) /\ s[j] \in Bucket(lens)
  BY DEF IsRow
<1>2. s[i].sum \in Nat /\ s[j].sum \in Nat
  BY <1>1 DEF Bucket
<1>3. Cardinality(s[i].items) \in Nat /\ Cardinality(s[j].items) \in Nat
  BY <1>1, BucketFinite
<1>4. CASE i = j
  BY <1>2, <1>3, <1>4
<1>5. CASE i < j
  <2>1. ~ Smaller(s[i], s[j])
    BY <1>5 DEF Decreasing
  <2>. QED  BY <2>1, <1>2, <1>3 DEF Smaller
<1>. QED  BY <1>4, <1>5

-----------------------------------------------------------------------------
(* Merging two states *)

LEMMA MergedBuckets ==
    ASSUME NEW lens \in Seq(Nat), NEW k \in Nat \ {0}, NEW s, NEW t,
           IsRow(s, lens, k), IsRow(t, lens, k)
    PROVE  /\ IsRow(Merged(s, t), lens, k)
           /\ \A i \in 1 .. k :
                /\ k + 1 - i \in 1 .. k
                /\ Merged(s, t)[i].sum = s[i].sum + t[k + 1 - i].sum
                /\ Merged(s, t)[i].items = s[i].items \cup t[k + 1 - i].items
<1>1. Len(s) = k
  BY RowLength
<1>2. Merged(s, t) = [i \in 1 .. k |-> [sum |-> s[i].sum + t[k + 1 - i].sum,
                                         items |-> s[i].items \cup t[k + 1 - i].items]]
  BY <1>1 DEF Merged
<1>3. ASSUME NEW i \in 1 .. k
      PROVE  /\ k + 1 - i \in 1 .. k
             /\ [sum |-> s[i].sum + t[k + 1 - i].sum,
                 items |-> s[i].items \cup t[k + 1 - i].items] \in Bucket(lens)
  <2>1. k + 1 - i \in 1 .. k
    OBVIOUS
  <2>2. s[i] \in Bucket(lens) /\ t[k + 1 - i] \in Bucket(lens)
    BY <2>1 DEF IsRow
  <2>3. s[i].sum \in Nat /\ t[k + 1 - i].sum \in Nat
    BY <2>2 DEF Bucket
  <2>4. s[i].sum + t[k + 1 - i].sum \in Nat
    BY <2>3
  <2>5. s[i].items \cup t[k + 1 - i].items \in SUBSET DOMAIN lens
    BY <2>2 DEF Bucket
  <2>. QED  BY <2>1, <2>4, <2>5 DEF Bucket
<1>4. IsRow(Merged(s, t), lens, k)
  BY <1>2, <1>3 DEF IsRow
<1>. QED  BY <1>2, <1>3, <1>4

LEMMA SumsStayClose ==
    ASSUME NEW a1 \in Nat, NEW ai \in Nat, NEW aj \in Nat, NEW ak \in Nat, NEW bi \in Nat, NEW bj \in Nat,
           NEW n \in Nat, a1 - ak <= n, ai <= a1, ak <= aj, bi <= bj
    PROVE  (ai + bi) - (aj + bj) <= n /\ (bi + ai) - (bj + aj) <= n
  OBVIOUS

\* The buckets of a merged state differ by no more than those of the two states: what is
\* added to the larger one of two buckets comes from the smaller one of two.
LEMMA MergedIsNarrow ==
    ASSUME NEW lens \in Seq(Nat), NEW k \in Nat \ {0}, NEW s, NEW t,
           StateOK(s, lens, k), StateOK(t, lens, k),
           NEW i \in 1 .. k, NEW j \in 1 .. k
    PROVE  \E x \in DOMAIN lens : Merged(s, t)[i].sum - Merged(s, t)[j].sum <= lens[x]
<1>. DEFINE i2 == k + 1 - i
            j2 == k + 1 - j
<1>1. IsRow(s, lens, k) /\ IsRow(t, lens, k) /\ Decreasing(s, k) /\ Decreasing(t, k)
  BY DEF StateOK
<1>2. i2 \in 1 .. k /\ j2 \in 1 .. k /\ 1 \in 1 .. k /\ k \in 1 .. k
  OBVIOUS
<1>3. /\ Merged(s, t)[i].sum = s[i].sum + t[i2].sum
      /\ Merged(s, t)[j].sum = s[j].sum + t[j2].sum
  BY <1>1, MergedBuckets
<1>4. PICK x \in DOMAIN lens : s[1].sum - s[k].sum <= lens[x]
  BY DEF StateOK, Narrow
<1>5. PICK y \in DOMAIN lens : t[1].sum - t[k].sum <= lens[y]
  BY DEF StateOK, Narrow
<1>6. lens[x] \in Nat /\ lens[y] \in Nat
  OBVIOUS
<1>7. /\ {s[1].sum, s[i].sum, s[j].sum, s[k].sum} \subseteq Nat
      /\ s[i].sum <= s[1].sum /\ s[k].sum <= s[j].sum
  <2>1. s[i].sum <= s[1].sum /\ s[1].sum \in Nat /\ s[i].sum \in Nat
    BY <1>1, <1>2, DecreasingSums
  <2>2. s[k].sum <= s[j].sum /\ s[k].sum \in Nat /\ s[j].sum \in Nat
    BY <1>1, <1>2, DecreasingSums
  <2>. QED  BY <2>1, <2>2
<1>8. /\ {t[1].sum, t[i2].sum, t[j2].sum, t[k].sum} \subseteq Nat
      /\ t[i2].sum <= t[1].sum /\ t[k].sum <= t[j2].sum
  <2>1. t[i2].sum <= t[1].sum /\ t[1].sum \in Nat /\ t[i2].sum \in Nat
    <3>1. 1 <= i2
      OBVIOUS
    <3>. QED  BY <1>1, <1>2, <3>1, DecreasingSums
  <2>2. t[k].sum <= t[j2].sum /\ t[k].sum \in Nat /\ t[j2].sum \in Nat
    <3>1. j2 <= k
      OBVIOUS
    <3>. QED  BY <1>1, <1>2, <3>1, DecreasingSums
  <2>. QED  BY <2>1, <2>2
<1>9. CASE i <= j
  <2>1. j2 <= i2
    BY <1>9
  <2>2. t[i2].sum <= t[j2].sum
    <3>. HIDE DEF i2, j2
    <3>. QED  BY <1>1, <1>2, <2>1, DecreasingSums
  <2>3. (s[i].sum + t[i2].sum) - (s[j].sum + t[j2].sum) <= lens[x]
    <3>. HIDE DEF i2, j2
    <3>1. s[1].sum \in Nat /\ s[i].sum \in Nat /\ s[j].sum \in Nat /\ s[k].sum \in Nat
      BY <1>7
    <3>2. t[i2].sum \in Nat /\ t[j2].sum \in Nat
      BY <1>8
    <3>. QED  BY <1>4, <1>6, <1>7, <2>2, <3>1, <3>2, SumsStayClose
  <2>. QED  BY <1>3, <2>3
<1>10. CASE j <= i
  <2>1. s[i].sum <= s[j].sum
    BY <1>1, <1>10, DecreasingSums
  <2>2. (s[i].sum + t[i2].sum) - (s[j].sum + t[j2].sum) <= lens[y]
    <3>. HIDE DEF i2, j2
    <3>1. s[i].sum \in Nat /\ s[j].sum \in Nat
      BY <1>7
    <3>2. t[1].sum \in Nat /\ t[i2].sum \in Nat /\ t[j2].sum \in Nat /\ t[k].sum \in Nat
      BY <1>8
    <3>. QED  BY <1>5, <1>6, <1>8, <2>1, <3>1, <3>2, SumsStayClose
  <2>. QED  BY <1>3, <2>2
<1>. QED  BY <1>9, <1>10

Rearranged(u, m, k) == \E p \in Bijection(1 .. k, 1 .. k) : \A i \in 1 .. k : u[i] = m[p[i]]

\* Sorting only moves buckets.
LEMMA SortedRow ==
    ASSUME NEW lens, NEW k \in Nat \ {0}, NEW m, IsRow(m, lens, k), NEW u \in Sorted(m)
    PROVE  IsRow(u, lens, k) /\ Decreasing(u, k) /\ Rearranged(u, m, k)
<1>1. DOMAIN m = 1 .. k
  BY DEF IsRow
<1>2. PICK p \in Bijection(1 .. k, 1 .. k) :
        /\ \A i, j \in 1 .. k : i < j => ~ Smaller(m[p[i]], m[p[j]])
        /\ u = [i \in 1 .. k |-> m[p[i]]]
  BY <1>1 DEF Sorted
<1>3. p \in [1 .. k -> 1 .. k]
  BY DEF Bijection, Injection
<1>4. IsRow(u, lens, k)
  BY <1>2, <1>3 DEF IsRow
<1>5. Decreasing(u, k)
  BY <1>2 DEF Decreasing
<1>. QED  BY <1>2, <1>4, <1>5 DEF Rearranged

LEMMA MergeKeepsState ==
    ASSUME NEW lens \in Seq(Nat), NEW k \in Nat \ {0}, NEW s, NEW t,
           StateOK(s, lens, k), StateOK(t, lens, k), NEW u \in Sorted(Merged(s, t))
    PROVE  StateOK(u, lens, k)
<1>. DEFINE m == Merged(s, t)
<1>1. IsRow(s, lens, k) /\ IsRow(t, lens, k) /\ ZeroIsEmpty(s, k) /\ ZeroIsEmpty(t, k)
  BY DEF StateOK
<1>2. IsRow(m, lens, k) /\ u \in Sorted(m)
  BY <1>1, MergedBuckets
<1>3. IsRow(u, lens, k) /\ Decreasing(u, k) /\ Rearranged(u, m, k)
  <2>. HIDE DEF m
  <2>. QED  BY <1>2, SortedRow
<1>4. PICK p \in Bijection(1 .. k, 1 .. k) : \A i \in 1 .. k : u[i] = Merged(s, t)[p[i]]
  BY <1>3 DEF Rearranged
<1>5. p \in [1 .. k -> 1 .. k]
  BY DEF Bijection, Injection
<1>6. ZeroIsEmpty(u, k)
  <2>. SUFFICES ASSUME NEW i \in 1 .. k, u[i].items = {} PROVE u[i].sum = 0
    BY DEF ZeroIsEmpty
  <2>1. p[i] \in 1 .. k /\ k + 1 - p[i] \in 1 .. k
    BY <1>5
  <2>2. /\ u[i].items = s[p[i]].items \cup t[k + 1 - p[i]].items
        /\ u[i].sum = s[p[i]].sum + t[k + 1 - p[i]].sum
    <3>1. \A j \in 1 .. k :
            /\ Merged(s, t)[j].sum = s[j].sum + t[k + 1 - j].sum
            /\ Merged(s, t)[j].items = s[j].items \cup t[k + 1 - j].items
      BY <1>1, MergedBuckets
    <3>2. u[i] = Merged(s, t)[p[i]]
      BY <1>4
    <3>. QED  BY <2>1, <3>1, <3>2
  <2>3. s[p[i]].items = {} /\ t[k + 1 - p[i]].items = {}
    BY <2>2
  <2>4. s[p[i]].sum = 0 /\ t[k + 1 - p[i]].sum = 0
    BY <1>1, <2>1, <2>3 DEF ZeroIsEmpty
  <2>. QED  BY <2>2, <2>4
<1>7. Narrow(u, lens, k)
  <2>1. 1 \in 1 .. k /\ k \in 1 .. k
    OBVIOUS
  <2>2. p[1] \in 1 .. k /\ p[k] \in 1 .. k
    BY <1>5, <2>1
  <2>3. \E x \in DOMAIN lens : Merged(s, t)[p[1]].sum - Merged(s, t)[p[k]].sum <= lens[x]
    BY <2>2, MergedIsNarrow
  <2>4. u[1] = Merged(s, t)[p[1]] /\ u[k] = Merged(s, t)[p[k]]
    BY <1>4, <2>1
  <2>. QED  BY <2>3, <2>4 DEF Narrow
<1>. QED  BY <1>3, <1>6, <1>7 DEF StateOK

-----------------------------------------------------------------------------
(* The heap of a call *)

Covers(pq, lens, k)   == \A x \in DOMAIN lens : \E s \in pq : \E i \in 1 .. k : x \in s[i].items
Separate(pq, k)       ==
    \A s, t \in pq : \A i, j \in 1 .. k : s[i].items \cap t[j].items # {} => s = t /\ i = j
\* What fills the partitions: equal counts, or at most one item while a bucket is empty.
EqualCounts(s, k)     ==
    \A i, j \in 1 .. k : s[i].items # {} /\ Cardinality(s[i].items) = Cardinality(s[j].items)
FewWhenEmpty(s, k)    ==
    (\E i \in 1 .. k : s[i].items = {}) => \A j \in 1 .. k : Cardinality(s[j].items) <= 1
Filling(s, k, equal)  == IF equal THEN EqualCounts(s, k) ELSE FewWhenEmpty(s, k)

HeapOK(pq, lens, k, equal) ==
    /\ \A s \in pq : StateOK(s, lens, k) /\ Filling(s, k, equal)
    /\ Covers(pq, lens, k)
    /\ Separate(pq, k)

LEMMA SumOfCounts ==
    ASSUME NEW lens \in Seq(Nat), NEW A \in SUBSET DOMAIN lens, NEW B \in SUBSET DOMAIN lens, A \cap B = {}
    PROVE  /\ Cardinality(A) \in Nat /\ Cardinality(B) \in Nat
           /\ Cardinality(A \cup B) = Cardinality(A) + Cardinality(B)
<1>1. IsFiniteSet(DOMAIN lens)
  <2>1. Len(lens) \in Nat /\ DOMAIN lens = 1 .. Len(lens)
    OBVIOUS
  <2>. QED  BY <2>1, FS_Interval
<1>2. IsFiniteSet(A) /\ IsFiniteSet(B)
  BY <1>1, FS_Subset
<1>3. Cardinality(A) \in Nat /\ Cardinality(B) \in Nat
  BY <1>2, FS_CardinalityType
<1>4. Cardinality(A \cup B) = Cardinality(A) + Cardinality(B) - Cardinality({})
  BY <1>2, FS_Union
<1>5. Cardinality({}) = 0
  BY FS_EmptySet
<1>. QED  BY <1>3, <1>4, <1>5

\* With equal_size: what is merged has equal counts.
LEMMA MergeKeepsEqualCounts ==
    ASSUME NEW lens \in Seq(Nat), NEW k \in Nat \ {0}, NEW s, NEW t,
           IsRow(s, lens, k), IsRow(t, lens, k), EqualCounts(s, k), EqualCounts(t, k),
           \A i, j \in 1 .. k : s[i].items \cap t[j].items = {}
    PROVE  EqualCounts(Merged(s, t), k)
<1>. SUFFICES ASSUME NEW i \in 1 .. k, NEW j \in 1 .. k
              PROVE  /\ Merged(s, t)[i].items # {}
                     /\ Cardinality(Merged(s, t)[i].items) = Cardinality(Merged(s, t)[j].items)
  BY DEF EqualCounts
<1>. DEFINE i2 == k + 1 - i
            j2 == k + 1 - j
<1>1. i2 \in 1 .. k /\ j2 \in 1 .. k
  OBVIOUS
<1>2. /\ Merged(s, t)[i].items = s[i].items \cup t[i2].items
      /\ Merged(s, t)[j].items = s[j].items \cup t[j2].items
  BY MergedBuckets
<1>. HIDE DEF i2, j2
<1>3. s[i].items \in SUBSET DOMAIN lens /\ s[j].items \in SUBSET DOMAIN lens
  BY DEF IsRow, Bucket
<1>4. t[i2].items \in SUBSET DOMAIN lens /\ t[j2].items \in SUBSET DOMAIN lens
  BY <1>1 DEF IsRow, Bucket
<1>5. s[i].items \cap t[i2].items = {} /\ s[j].items \cap t[j2].items = {}
  BY <1>1
<1>6. Cardinality(s[i].items \cup t[i2].items) = Cardinality(s[i].items) + Cardinality(t[i2].items)
  BY <1>3, <1>4, <1>5, SumOfCounts
<1>7. Cardinality(s[j].items \cup t[j2].items) = Cardinality(s[j].items) + Cardinality(t[j2].items)
  BY <1>3, <1>4, <1>5, SumOfCounts
<1>8. Cardinality(s[i].items) = Cardinality(s[j].items) /\ s[i].items # {}
  BY DEF EqualCounts
<1>9. Cardinality(t[i2].items) = Cardinality(t[j2].items)
  BY <1>1 DEF EqualCounts
<1>. QED  BY <1>2, <1>6, <1>7, <1>8, <1>9

\* In a state that is in order, whatever is empty comes after whatever is not.
LEMMA EmptyComesLast ==
    ASSUME NEW lens \in Seq(Nat), NEW k \in Nat \ {0}, NEW s, StateOK(s, lens, k),
           NEW i \in 1 .. k, NEW j \in 1 .. k, s[i].items = {}, s[j].items # {}
    PROVE  j < i
<1>. SUFFICES ASSUME i <= j PROVE FALSE
  OBVIOUS
<1>1. IsRow(s, lens, k) /\ Decreasing(s, k) /\ ZeroIsEmpty(s, k)
  BY DEF StateOK
<1>2. s[i].sum = 0
  BY <1>1 DEF ZeroIsEmpty
<1>3. s[j].sum \in Nat /\ s[j].sum <= s[i].sum
  BY <1>1, DecreasingSums
<1>4. s[j].sum = s[i].sum
  BY <1>2, <1>3
<1>5. Cardinality(s[j].items) <= Cardinality(s[i].items)
  BY <1>1, <1>4, DecreasingSums
<1>6. s[j] \in Bucket(lens)
  BY <1>1 DEF IsRow
<1>7. IsFiniteSet(s[j].items) /\ Cardinality(s[j].items) \in Nat
  BY <1>6, BucketFinite
<1>8. Cardinality(s[i].items) = 0
  BY FS_EmptySet
<1>9. Cardinality(s[j].items) = 0
  BY <1>5, <1>7, <1>8
<1>. QED  BY <1>7, <1>9, FS_EmptySet

\* Without equal_size: only a state with few items leaves a bucket empty.
LEMMA MergeKeepsFew ==
    ASSUME NEW lens \in Seq(Nat), NEW k \in Nat \ {0}, NEW s, NEW t,
           StateOK(s, lens, k), StateOK(t, lens, k), FewWhenEmpty(s, k), FewWhenEmpty(t, k)
    PROVE  FewWhenEmpty(Merged(s, t), k)
<1>. SUFFICES ASSUME NEW i \in 1 .. k, Merged(s, t)[i].items = {}, NEW j \in 1 .. k
              PROVE  Cardinality(Merged(s, t)[j].items) <= 1
  BY DEF FewWhenEmpty
<1>. DEFINE i2 == k + 1 - i
            j2 == k + 1 - j
<1>0. IsRow(s, lens, k) /\ IsRow(t, lens, k)
  BY DEF StateOK
<1>1. i2 \in 1 .. k /\ j2 \in 1 .. k /\ (j < i => i2 < j2)
  OBVIOUS
<1>2. /\ Merged(s, t)[i].items = s[i].items \cup t[i2].items
      /\ Merged(s, t)[j].items = s[j].items \cup t[j2].items
  <2>1. \A x \in 1 .. k : Merged(s, t)[x].items = s[x].items \cup t[k + 1 - x].items
    BY <1>0, MergedBuckets
  <2>. QED  BY <2>1
<1>. HIDE DEF i2, j2
<1>3. s[i].items = {} /\ t[i2].items = {}
  BY <1>2
<1>4. Cardinality(s[j].items) <= 1 /\ Cardinality(t[j2].items) <= 1
  BY <1>1, <1>3 DEF FewWhenEmpty
<1>5. CASE s[j].items = {}
  BY <1>2, <1>4, <1>5
<1>6. CASE s[j].items # {}
  <2>1. j < i
    BY <1>3, <1>6, EmptyComesLast
  <2>2. i2 < j2
    BY <1>1, <2>1
  <2>3. t[j2].items = {}
    <3>. SUFFICES ASSUME t[j2].items # {} PROVE FALSE
      OBVIOUS
    <3>1. j2 < i2
      BY <1>1, <1>3, EmptyComesLast
    <3>. QED  BY <1>1, <2>2, <3>1
  <2>. QED  BY <1>2, <1>4, <2>3
<1>. QED  BY <1>5, <1>6

LEMMA RearrangingKeepsFilling ==
    ASSUME NEW k \in Nat \ {0}, NEW m, NEW u, Rearranged(u, m, k), NEW equal \in BOOLEAN, Filling(m, k, equal)
    PROVE  Filling(u, k, equal)
<1>1. PICK p \in Bijection(1 .. k, 1 .. k) : \A i \in 1 .. k : u[i] = m[p[i]]
  BY DEF Rearranged
<1>2. p \in [1 .. k -> 1 .. k]
  BY DEF Bijection, Injection
<1>3. CASE equal
  <2>1. ASSUME NEW i \in 1 .. k, NEW j \in 1 .. k
        PROVE  u[i].items # {} /\ Cardinality(u[i].items) = Cardinality(u[j].items)
    <3>1. p[i] \in 1 .. k /\ p[j] \in 1 .. k
      BY <1>2
    <3>2. m[p[i]].items # {} /\ Cardinality(m[p[i]].items) = Cardinality(m[p[j]].items)
      BY <1>3, <3>1 DEF Filling, EqualCounts
    <3>. QED  BY <1>1, <3>2
  <2>. QED  BY <1>3, <2>1 DEF Filling, EqualCounts
<1>4. CASE ~ equal
  BY <1>1, <1>2, <1>4 DEF Filling, FewWhenEmpty
<1>. QED  BY <1>3, <1>4

Joined(u, s, t, k, p) ==
    \A i \in 1 .. k :
        /\ p[i] \in 1 .. k /\ k + 1 - p[i] \in 1 .. k
        /\ u[i].items = s[p[i]].items \cup t[k + 1 - p[i]].items

\* What a merged and sorted state holds is exactly what the two states held.
LEMMA MergedItems ==
    ASSUME NEW lens \in Seq(Nat), NEW k \in Nat \ {0}, NEW s, NEW t,
           IsRow(s, lens, k), IsRow(t, lens, k), NEW u, Rearranged(u, Merged(s, t), k)
    PROVE  \E p \in Bijection(1 .. k, 1 .. k) : Joined(u, s, t, k, p)
<1>1. PICK p \in Bijection(1 .. k, 1 .. k) : \A i \in 1 .. k : u[i] = Merged(s, t)[p[i]]
  BY DEF Rearranged
<1>2. p \in [1 .. k -> 1 .. k]
  BY DEF Bijection, Injection
<1>3. \A x \in 1 .. k : Merged(s, t)[x].items = s[x].items \cup t[k + 1 - x].items
  BY MergedBuckets
<1>4. \A i \in 1 .. k : p[i] \in 1 .. k
  BY <1>2
<1>5. \A x \in 1 .. k : k + 1 - x \in 1 .. k
  OBVIOUS
<1>6. ASSUME NEW i \in 1 .. k
      PROVE  /\ p[i] \in 1 .. k /\ k + 1 - p[i] \in 1 .. k
             /\ u[i].items = s[p[i]].items \cup t[k + 1 - p[i]].items
  <2>1. p[i] \in 1 .. k
    BY <1>4
  <2>2. u[i] = Merged(s, t)[p[i]]
    BY <1>1
  <2>. QED  BY <1>3, <1>5, <2>1, <2>2
<1>. QED  BY <1>6 DEF Joined

LEMMA MergeKeepsHeap ==
    ASSUME NEW lens \in Seq(Nat), NEW k \in Nat \ {0}, NEW equal \in BOOLEAN, NEW pq, HeapOK(pq, lens, k, equal),
           NEW s \in pq, NEW t \in pq, s # t, NEW u \in Sorted(Merged(s, t))
    PROVE  HeapOK((pq \ {s, t}) \cup {u}, lens, k, equal)
<1>. DEFINE new == (pq \ {s, t}) \cup {u}
<1>1. StateOK(s, lens, k) /\ StateOK(t, lens, k) /\ Filling(s, k, equal) /\ Filling(t, k, equal)
  BY DEF HeapOK
<1>2. IsRow(s, lens, k) /\ IsRow(t, lens, k) /\ IsRow(Merged(s, t), lens, k)
  BY <1>1, MergedBuckets DEF StateOK
<1>3. Separate(pq, k) /\ Covers(pq, lens, k)
  BY DEF HeapOK
<1>4. Rearranged(u, Merged(s, t), k)
  <2>. DEFINE m == Merged(s, t)
  <2>1. IsRow(m, lens, k) /\ u \in Sorted(m)
    BY <1>2
  <2>2. Rearranged(u, m, k)
    <3>. HIDE DEF m
    <3>. QED  BY <2>1, SortedRow
  <2>. QED  BY <2>2
<1>5. StateOK(u, lens, k)
  BY <1>1, MergeKeepsState
<1>6. Filling(u, k, equal)
  <2>1. Filling(Merged(s, t), k, equal)
    <3>1. CASE equal
      <4>1. \A i, j \in 1 .. k : s[i].items \cap t[j].items = {}
        BY <1>3 DEF Separate
      <4>. QED  BY <1>1, <1>2, <3>1, <4>1, MergeKeepsEqualCounts DEF Filling
    <3>2. CASE ~ equal
      BY <1>1, <3>2, MergeKeepsFew DEF Filling
    <3>. QED  BY <3>1, <3>2
  <2>. QED  BY <1>4, <2>1, RearrangingKeepsFilling
<1>7a. PICK p \in Bijection(1 .. k, 1 .. k) : Joined(u, s, t, k, p)
  BY <1>2, <1>4, MergedItems
<1>7. \A i \in 1 .. k :
        /\ p[i] \in 1 .. k /\ k + 1 - p[i] \in 1 .. k
        /\ u[i].items = s[p[i]].items \cup t[k + 1 - p[i]].items
  BY <1>7a DEF Joined
<1>8. /\ p \in [1 .. k -> 1 .. k]
      /\ \A i, j \in 1 .. k : p[i] = p[j] => i = j
      /\ \A j \in 1 .. k : \E i \in 1 .. k : p[i] = j
  BY DEF Bijection, Injection, Surjection, IsInjective
<1>9. Covers(new, lens, k)
  <2>. SUFFICES ASSUME NEW x \in DOMAIN lens PROVE \E r \in new : \E i \in 1 .. k : x \in r[i].items
    BY DEF Covers
  <2>1. PICK r \in pq : \E i \in 1 .. k : x \in r[i].items
    BY <1>3 DEF Covers
  <2>2. PICK i \in 1 .. k : x \in r[i].items
    BY <2>1
  <2>3. CASE r = s
    <3>1. PICK j \in 1 .. k : p[j] = i
      BY <1>8
    <3>2. x \in u[j].items
      BY <1>7, <2>2, <2>3, <3>1
    <3>. QED  BY <3>2
  <2>4. CASE r = t
    <3>1. k + 1 - i \in 1 .. k
      OBVIOUS
    <3>2. PICK j \in 1 .. k : p[j] = k + 1 - i
      BY <1>8, <3>1
    <3>3. k + 1 - p[j] = i
      BY <3>2
    <3>4. x \in u[j].items
      BY <1>7, <2>2, <2>4, <3>3
    <3>. QED  BY <3>4
  <2>5. CASE r # s /\ r # t
    BY <2>2, <2>5
  <2>. QED  BY <2>3, <2>4, <2>5
<1>10. Separate(new, k)
  \* An item of the new state is one of s or of t.
  <2>1. ASSUME NEW i \in 1 .. k, NEW x \in u[i].items
        PROVE  x \in s[p[i]].items \/ x \in t[k + 1 - p[i]].items
    BY <1>7
  <2>2. ASSUME NEW r \in pq \ {s, t}, NEW i \in 1 .. k, NEW j \in 1 .. k, NEW x \in u[i].items, x \in r[j].items
        PROVE  FALSE
    <3>1. CASE x \in s[p[i]].items
      <4>1. s[p[i]].items \cap r[j].items # {}
        BY <2>2, <3>1
      <4>. QED  BY <1>3, <1>7, <4>1 DEF Separate
    <3>2. CASE x \in t[k + 1 - p[i]].items
      <4>1. t[k + 1 - p[i]].items \cap r[j].items # {}
        BY <2>2, <3>2
      <4>. QED  BY <1>3, <1>7, <4>1 DEF Separate
    <3>. QED  BY <2>1, <3>1, <3>2
  <2>3. ASSUME NEW i \in 1 .. k, NEW j \in 1 .. k, NEW x \in u[i].items, x \in u[j].items
        PROVE  i = j
    <3>1. p[i] \in 1 .. k /\ p[j] \in 1 .. k /\ k + 1 - p[i] \in 1 .. k /\ k + 1 - p[j] \in 1 .. k
      BY <1>7
    <3>2. CASE x \in s[p[i]].items /\ x \in s[p[j]].items
      <4>1. s[p[i]].items \cap s[p[j]].items # {}
        BY <3>2
      <4>0. \A a, b \in 1 .. k : s[a].items \cap s[b].items # {} => a = b
        BY <1>3 DEF Separate
      <4>2. p[i] = p[j]
        BY <3>1, <4>0, <4>1
      <4>. QED  BY <1>8, <4>2
    <3>3. CASE x \in t[k + 1 - p[i]].items /\ x \in t[k + 1 - p[j]].items
      <4>1. t[k + 1 - p[i]].items \cap t[k + 1 - p[j]].items # {}
        BY <3>3
      <4>0. \A a, b \in 1 .. k : t[a].items \cap t[b].items # {} => a = b
        BY <1>3 DEF Separate
      <4>2. k + 1 - p[i] = k + 1 - p[j]
        BY <3>1, <4>0, <4>1
      <4>3. p[i] = p[j]
        BY <3>1, <4>2
      <4>. QED  BY <1>8, <4>3
    <3>4. CASE x \in s[p[i]].items /\ x \in t[k + 1 - p[j]].items
      <4>1. s[p[i]].items \cap t[k + 1 - p[j]].items # {}
        BY <3>4
      <4>. QED  BY <1>3, <3>1, <4>1 DEF Separate
    <3>5. CASE x \in t[k + 1 - p[i]].items /\ x \in s[p[j]].items
      <4>1. s[p[j]].items \cap t[k + 1 - p[i]].items # {}
        BY <3>5
      <4>. QED  BY <1>3, <3>1, <4>1 DEF Separate
    <3>. QED  BY <2>1, <2>3, <3>2, <3>3, <3>4, <3>5
  <2>. SUFFICES ASSUME NEW r \in new, NEW q \in new, NEW i \in 1 .. k, NEW j \in 1 .. k,
                       r[i].items \cap q[j].items # {}
                PROVE  r = q /\ i = j
    BY DEF Separate
  <2>4. PICK x : x \in r[i].items /\ x \in q[j].items
    OBVIOUS
  <2>5. CASE r = u /\ q = u
    BY <2>3, <2>4, <2>5
  <2>6. CASE r = u /\ q # u
    BY <2>2, <2>4, <2>6
  <2>7. CASE r # u /\ q = u
    BY <2>2, <2>4, <2>7
  <2>8. CASE r # u /\ q # u
    BY <1>3, <2>4, <2>8 DEF Separate
  <2>. QED  BY <2>5, <2>6, <2>7, <2>8
<1>11. \A r \in new : StateOK(r, lens, k) /\ Filling(r, k, equal)
  BY <1>5, <1>6 DEF HeapOK
<1>. QED  BY <1>9, <1>10, <1>11 DEF HeapOK

-----------------------------------------------------------------------------
(* The states a call starts with *)

LEMMA IntervalCounts ==
    ASSUME NEW n \in Nat
    PROVE  /\ IsFiniteSet(1 .. n) /\ Cardinality(1 .. n) = n
           /\ IsFiniteSet(0 .. n - 1) /\ Cardinality(0 .. n - 1) = n
<1>1. n \in Int /\ 1 \in Int /\ 0 \in Int /\ n - 1 \in Int
  OBVIOUS
<1>2. Cardinality(1 .. n) = IF 1 > n THEN 0 ELSE n - 1 + 1
  BY <1>1, FS_Interval
<1>3. Cardinality(0 .. n - 1) = IF 0 > n - 1 THEN 0 ELSE (n - 1) - 0 + 1
  BY <1>1, FS_Interval
<1>4. IsFiniteSet(1 .. n) /\ IsFiniteSet(0 .. n - 1)
  BY <1>1, FS_Interval
<1>. QED  BY <1>2, <1>3, <1>4

LEMMA PairSize ==
    ASSUME NEW x, NEW y, x # y
    PROVE  Cardinality({x, y}) = 2
<1>. DEFINE X == {x}
            both == X \cup {y}
<1>1. IsFiniteSet(X) /\ Cardinality(X) = 1 /\ y \notin X
  BY FS_Singleton
<1>2. both = {x, y}
  OBVIOUS
<1>3. Cardinality(both) = Cardinality(X) + 1
  <2>. HIDE DEF X
  <2>. QED  BY <1>1, FS_AddElement
<1>. HIDE DEF X, both
<1>4. Cardinality(both) = 2
  BY <1>1, <1>3
<1>5. Cardinality(both) = Cardinality({x, y})
  BY <1>2
<1>. QED  BY <1>4, <1>5

LEMMA FreeStartOK ==
    ASSUME NEW lens \in Seq(Nat), NEW k \in Nat \ {0}
    PROVE  HeapOK(FreeStart(lens, k), lens, k, FALSE)
<1>. DEFINE Row(x) == [i \in 1 .. k |-> IF i = 1 THEN Single(lens, x) ELSE EmptySet]
<1>1. FreeStart(lens, k) = {Row(x) : x \in DOMAIN lens}
  BY DEF FreeStart
<1>2. ASSUME NEW x \in DOMAIN lens
      PROVE  /\ \A i \in 1 .. k : Row(x)[i] = IF i = 1 THEN Single(lens, x) ELSE EmptySet
             /\ Row(x)[1].items = {x} /\ Row(x)[1].sum = lens[x]
             /\ \A i \in 1 .. k : i # 1 => Row(x)[i].items = {} /\ Row(x)[i].sum = 0
             /\ IsRow(Row(x), lens, k)
  <2>1. lens[x] \in Nat
    OBVIOUS
  <2>2. Single(lens, x) \in Bucket(lens) /\ EmptySet \in Bucket(lens)
    BY <2>1 DEF Single, EmptySet, Bucket
  <2>3. IsRow(Row(x), lens, k)
    BY <2>2 DEF IsRow
  <2>. QED  BY <2>3 DEF Single, EmptySet
<1>. HIDE DEF Row
<1>3. Cardinality({}) = 0 /\ \A x : Cardinality({x}) = 1
  BY FS_EmptySet, FS_Singleton
<1>4. ASSUME NEW x \in DOMAIN lens
      PROVE  StateOK(Row(x), lens, k) /\ Filling(Row(x), k, FALSE)
  <2>1. lens[x] \in Nat
    OBVIOUS
  <2>0. ASSUME NEW i \in 1 .. k
        PROVE  /\ Row(x)[i].sum \in Nat /\ Cardinality(Row(x)[i].items) \in Nat
               /\ Cardinality(Row(x)[i].items) <= 1
    <3>1. CASE i = 1
      <4>0. Row(x)[i].items = {x}
        BY <1>2, <3>1
      <4>1. Cardinality(Row(x)[i].items) = 1
        BY <1>3, <4>0
      <4>. QED  BY <1>2, <2>1, <3>1, <4>1
    <3>2. CASE i # 1
      <4>1. Cardinality(Row(x)[i].items) = 0
        BY <1>2, <1>3, <3>2
      <4>. QED  BY <1>2, <3>2, <4>1
    <3>. QED  BY <3>1, <3>2
  <2>2. ASSUME NEW i \in 1 .. k, NEW j \in 1 .. k, i < j PROVE ~ Smaller(Row(x)[i], Row(x)[j])
    <3>1. Row(x)[j].sum = 0 /\ Cardinality(Row(x)[j].items) = 0
      <4>1. j # 1
        BY <2>2
      <4>2. Row(x)[j].items = {} /\ Row(x)[j].sum = 0
        BY <1>2, <4>1
      <4>3. Cardinality(Row(x)[j].items) = Cardinality({})
        BY <4>2
      <4>. QED  BY <1>3, <4>2, <4>3
    <3>2. Row(x)[i].sum \in Nat /\ Cardinality(Row(x)[i].items) \in Nat
      BY <2>0
    <3>. QED  BY <3>1, <3>2 DEF Smaller
  <2>3. ZeroIsEmpty(Row(x), k)
    BY <1>2, ZenonT(40) DEF ZeroIsEmpty
  <2>4. Row(x)[1].sum - Row(x)[k].sum <= lens[x]
    <3>1. CASE k = 1
      BY <1>2, <2>1, <3>1
    <3>2. CASE k # 1
      BY <1>2, <2>1, <3>2
    <3>. QED  BY <3>1, <3>2
  <2>5. \A j \in 1 .. k : Cardinality(Row(x)[j].items) <= 1
    BY <2>0
  <2>. QED  BY <1>2, <2>2, <2>3, <2>4, <2>5 DEF StateOK, Decreasing, Narrow, Filling, FewWhenEmpty
<1>5. Covers(FreeStart(lens, k), lens, k)
  BY <1>1, <1>2 DEF Covers
<1>6. Separate(FreeStart(lens, k), k)
  <2>. SUFFICES ASSUME NEW x \in DOMAIN lens, NEW y \in DOMAIN lens, NEW i \in 1 .. k, NEW j \in 1 .. k,
                       Row(x)[i].items \cap Row(y)[j].items # {}
                PROVE  Row(x) = Row(y) /\ i = j
    BY <1>1 DEF Separate
  <2>1. i = 1 /\ j = 1
    BY <1>2
  <2>2. {x} \cap {y} # {}
    BY <1>2, <2>1
  <2>. QED  BY <2>1, <2>2
<1>. QED  BY <1>1, <1>4, <1>5, <1>6 DEF HeapOK

\* Positions in the sorted list are all different, and are 0 to n - 1.
LEMMA PositionsAreExact ==
    ASSUME NEW lens \in Seq(Nat)
    PROVE  /\ \A i \in DOMAIN lens : Position(lens, i) \in 0 .. Len(lens) - 1
           /\ \A i, j \in DOMAIN lens : Position(lens, i) = Position(lens, j) => i = j
           /\ \A p \in 0 .. Len(lens) - 1 : \E i \in DOMAIN lens : Position(lens, i) = p
<1>. DEFINE D == DOMAIN lens
            Prec(j, i) == lens[j] < lens[i] \/ (lens[j] = lens[i] /\ j < i)
            Pred(i) == {j \in D : Prec(j, i)}
<1>1. Len(lens) \in Nat /\ D = 1 .. Len(lens) /\ \A i \in D : i \in Nat /\ lens[i] \in Nat
  OBVIOUS
<1>2. IsFiniteSet(D) /\ Cardinality(D) = Len(lens)
  BY <1>1, IntervalCounts
<1>3. \A i : Position(lens, i) = Cardinality(Pred(i))
  BY DEF Position
<1>4. ASSUME NEW i \in D
      PROVE  i \notin Pred(i) /\ IsFiniteSet(Pred(i)) /\ Cardinality(Pred(i)) \in Nat
  <2>1. i \notin Pred(i)
    BY <1>1
  <2>. QED  BY <1>2, <2>1, FS_Subset, FS_CardinalityType
<1>5. ASSUME NEW i \in D, NEW j \in D, Prec(j, i) PROVE Cardinality(Pred(j)) < Cardinality(Pred(i))
  <2>1. Pred(j) \cup {j} \subseteq Pred(i)
    <3>. SUFFICES ASSUME NEW x \in D, Prec(x, j) PROVE Prec(x, i)
      BY <1>5
    <3>1. {lens[x], lens[j], lens[i], x, j, i} \subseteq Nat
      BY <1>1
    <3>2. lens[x] \in Nat /\ lens[j] \in Nat /\ lens[i] \in Nat /\ x \in Nat /\ j \in Nat /\ i \in Nat
      BY <3>1
    <3>. QED  BY <1>5, <3>2
  <2>2. Cardinality(Pred(j) \cup {j}) = Cardinality(Pred(j)) + 1
    <3>. HIDE DEF Pred
    <3>. QED  BY <1>4, FS_AddElement
  <2>3. Cardinality(Pred(j) \cup {j}) <= Cardinality(Pred(i))
    <3>. HIDE DEF Pred
    <3>. QED  BY <1>4, <2>1, FS_Subset
  <2>4. Cardinality(Pred(i)) \in Nat /\ Cardinality(Pred(j)) \in Nat
    BY <1>4
  <2>. HIDE DEF Pred
  <2>. QED  BY <2>2, <2>3, <2>4
<1>6. ASSUME NEW i \in D, NEW j \in D, i # j PROVE Prec(i, j) \/ Prec(j, i)
  <2>1. lens[j] \in Nat /\ lens[i] \in Nat /\ j \in Nat /\ i \in Nat
    BY <1>1
  <2>. QED  BY <1>6, <2>1
<1>7. ASSUME NEW i \in D PROVE Cardinality(Pred(i)) \in 0 .. Len(lens) - 1
  <2>1. Cardinality(Pred(i) \cup {i}) = Cardinality(Pred(i)) + 1
    <3>. HIDE DEF Pred
    <3>. QED  BY <1>4, FS_AddElement
  <2>2. Cardinality(Pred(i) \cup {i}) <= Cardinality(D)
    <3>1. Pred(i) \cup {i} \in SUBSET D
      OBVIOUS
    <3>. QED  BY <1>2, <3>1, FS_Subset
  <2>3. Cardinality(Pred(i)) \in Nat
    BY <1>4
  <2>. HIDE DEF Pred
  <2>. QED  BY <1>1, <1>2, <2>1, <2>2, <2>3
<1>. HIDE DEF Pred, Prec
<1>8. \A i, j \in D : Cardinality(Pred(i)) = Cardinality(Pred(j)) => i = j
  <2>. SUFFICES ASSUME NEW i \in D, NEW j \in D, i # j PROVE Cardinality(Pred(i)) # Cardinality(Pred(j))
    OBVIOUS
  <2>1. Cardinality(Pred(i)) \in Nat /\ Cardinality(Pred(j)) \in Nat
    BY <1>4
  <2>2. CASE Prec(i, j)
    <3>1. Cardinality(Pred(i)) < Cardinality(Pred(j))
      BY <1>5, <2>2
    <3>. QED  BY <2>1, <3>1
  <2>3. CASE Prec(j, i)
    <3>1. Cardinality(Pred(j)) < Cardinality(Pred(i))
      BY <1>5, <2>3
    <3>. QED  BY <2>1, <3>1
  <2>. QED  BY <1>6, <2>2, <2>3
<1>9. \A p \in 0 .. Len(lens) - 1 : \E i \in D : Cardinality(Pred(i)) = p
  <2>. DEFINE f == [i \in D |-> Cardinality(Pred(i))]
              T == 0 .. Len(lens) - 1
  <2>1. f \in Injection(D, T)
    BY <1>7, <1>8 DEF Injection, IsInjective
  <2>2. IsFiniteSet(T) /\ Cardinality(T) = Len(lens)
    BY <1>1, IntervalCounts
  <2>3. f \in Surjection(D, T)
    <3>. HIDE DEF f, T, D
    <3>. QED  BY <1>2, <2>1, <2>2, FS_Injection
  <2>4. ASSUME NEW p \in T PROVE \E i \in D : f[i] = p
    BY <2>3 DEF Surjection
  <2>. QED  BY <2>4
<1>. QED  BY <1>3, <1>7, <1>8, <1>9

\* The k neighbours number m, from the longest to the shortest.
Neighbours(lens, k, m) == [i \in 1 .. k |-> Single(lens, At(lens, m * k - i))]

LEMMA AtPosition ==
    ASSUME NEW lens \in Seq(Nat), NEW p \in 0 .. Len(lens) - 1
    PROVE  At(lens, p) \in DOMAIN lens /\ Position(lens, At(lens, p)) = p
<1>1. \E i \in DOMAIN lens : Position(lens, i) = p
  BY PositionsAreExact
<1>. QED  BY <1>1 DEF At

\* A longer sequence is never at an earlier position.
LEMMA LaterIsLonger ==
    ASSUME NEW lens \in Seq(Nat), NEW p \in 0 .. Len(lens) - 1, NEW q \in 0 .. Len(lens) - 1, p <= q
    PROVE  lens[At(lens, p)] <= lens[At(lens, q)]
<1>. DEFINE i == At(lens, p)
            j == At(lens, q)
<1>1. i \in DOMAIN lens /\ j \in DOMAIN lens /\ Position(lens, i) = p /\ Position(lens, j) = q
  BY AtPosition
<1>2. lens[i] \in Nat /\ lens[j] \in Nat
  BY <1>1
<1>. HIDE DEF i, j
<1>. SUFFICES ASSUME lens[j] < lens[i] PROVE FALSE
  BY <1>2 DEF i, j
<1>. DEFINE Pred(x) == {y \in DOMAIN lens : lens[y] < lens[x] \/ (lens[y] = lens[x] /\ y < x)}
<1>3. IsFiniteSet(Pred(i)) /\ IsFiniteSet(Pred(j))
  <2>1. Len(lens) \in Nat /\ DOMAIN lens = 1 .. Len(lens)
    OBVIOUS
  <2>2. IsFiniteSet(DOMAIN lens)
    BY <2>1, IntervalCounts
  <2>. QED  BY <2>2, FS_Subset
<1>4. Pred(j) \cup {j} \subseteq Pred(i)
  <2>1. j \in Pred(i)
    BY <1>1
  <2>2. ASSUME NEW y \in Pred(j) PROVE y \in Pred(i)
    <3>1. y \in DOMAIN lens /\ lens[y] <= lens[j]
      BY <1>2
    <3>2. lens[y] \in Nat
      BY <3>1
    <3>. QED  BY <1>2, <3>1, <3>2
  <2>. QED  BY <2>1, <2>2
<1>5. j \notin Pred(j)
  <2>1. j \in Nat
    BY <1>1
  <2>. QED  BY <1>2, <2>1
<1>6. Cardinality(Pred(i)) = p /\ Cardinality(Pred(j)) = q
  BY <1>1 DEF Position
<1>. HIDE DEF Pred
<1>7. Cardinality(Pred(j) \cup {j}) = q + 1
  BY <1>3, <1>5, <1>6, FS_AddElement
<1>8. Cardinality(Pred(j) \cup {j}) <= p
  BY <1>3, <1>4, <1>6, FS_Subset
<1>. QED  BY <1>7, <1>8

\* n is a multiple of k: positions and pairs of a chunk and a place in it are the same.
LEMMA ChunksOfPositions ==
    ASSUME NEW n \in Nat, NEW k \in Nat \ {0}, n % k = 0
    PROVE  /\ \A m \in 1 .. n \div k : \A i \in 1 .. k : m * k - i \in 0 .. n - 1
           /\ \A m, q \in 1 .. n \div k : \A i, j \in 1 .. k : m * k - i = q * k - j => m = q /\ i = j
           /\ \A p \in 0 .. n - 1 : \E m \in 1 .. n \div k : \E i \in 1 .. k : m * k - i = p
<1>. DEFINE d == n \div k
<1>1. d \in Nat /\ n = k * d
  OBVIOUS
<1>. HIDE DEF d
<1>2. ASSUME NEW a \in Nat, NEW b \in Nat, a < b PROVE a * k + k <= b * k
  <2>1. PICK e \in Nat : b = a + 1 + e
    <3>1. b - a - 1 \in Nat /\ b = a + 1 + (b - a - 1)
      BY <1>2
    <3>. QED  BY <3>1
  <2>2. b * k = a * k + k + e * k
    BY <2>1
  <2>3. e * k \in Nat /\ a * k \in Nat
    OBVIOUS
  <2>. QED  BY <2>2, <2>3
<1>3. ASSUME NEW m \in 1 .. d, NEW i \in 1 .. k PROVE m * k - i \in 0 .. n - 1
  <2>1. (m - 1) * k + k <= m * k
    BY <1>1, <1>2
  <2>2. (m - 1) * k \in Nat /\ m * k \in Nat /\ d * k \in Nat
    BY <1>1
  <2>3. m * k <= d * k
    <3>1. CASE m = d
      BY <2>2, <3>1
    <3>2. CASE m # d
      <4>1. m * k + k <= d * k
        BY <1>1, <1>2, <3>2
      <4>. QED  BY <2>2, <4>1
    <3>. QED  BY <3>1, <3>2
  <2>4. n = d * k
    BY <1>1
  <2>. QED  BY <2>1, <2>2, <2>3, <2>4
<1>4. ASSUME NEW m \in 1 .. d, NEW q \in 1 .. d, NEW i \in 1 .. k, NEW j \in 1 .. k, m * k - i = q * k - j
      PROVE  m = q /\ i = j
  <2>1. m * k \in Nat /\ q * k \in Nat
    BY <1>1
  <2>2. ~ (m < q)
    <3>. SUFFICES ASSUME m < q PROVE FALSE
      OBVIOUS
    <3>1. m * k + k <= q * k
      BY <1>1, <1>2
    <3>. QED  BY <1>4, <2>1, <3>1
  <2>3. ~ (q < m)
    <3>. SUFFICES ASSUME q < m PROVE FALSE
      OBVIOUS
    <3>1. q * k + k <= m * k
      BY <1>1, <1>2
    <3>. QED  BY <1>4, <2>1, <3>1
  <2>4. m = q
    BY <1>1, <2>2, <2>3
  <2>. QED  BY <1>4, <2>1, <2>4
<1>5. ASSUME NEW p \in 0 .. n - 1 PROVE \E m \in 1 .. d : \E i \in 1 .. k : m * k - i = p
  <2>. DEFINE e == p \div k
              r == p % k
  <2>1. e \in Nat /\ r \in 0 .. k - 1 /\ p = k * e + r
    OBVIOUS
  <2>. HIDE DEF e, r
  <2>2. e < d
    <3>. SUFFICES ASSUME d <= e PROVE FALSE
      BY <1>1, <2>1
    <3>1. d * k <= e * k
      <4>1. d * k \in Nat /\ e * k \in Nat
        BY <1>1, <2>1
      <4>2. CASE d = e
        BY <4>1, <4>2
      <4>3. CASE d # e
        <5>1. d * k + k <= e * k
          BY <1>1, <1>2, <2>1, <4>3
        <5>. QED  BY <4>1, <5>1
      <4>. QED  BY <4>2, <4>3
    <3>2. n = d * k /\ p = e * k + r
      BY <1>1, <2>1
    <3>3. d * k \in Nat /\ e * k \in Nat
      BY <1>1, <2>1
    <3>. QED  BY <2>1, <3>1, <3>2, <3>3
  <2>3. e + 1 \in 1 .. d /\ k - r \in 1 .. k
    BY <1>1, <2>1, <2>2
  <2>4. (e + 1) * k - (k - r) = p
    BY <2>1
  <2>. QED  BY <2>3, <2>4
<1>. QED  BY <1>3, <1>4, <1>5 DEF d

LEMMA EqualStartOK ==
    ASSUME NEW lens \in Seq(Nat), NEW k \in Nat \ {0}, Len(lens) % k = 0
    PROVE  HeapOK(EqualStart(lens, k), lens, k, TRUE)
<1>. DEFINE n == Len(lens)
            d == n \div k
            Row(m) == Neighbours(lens, k, m)
            Idx(m, i) == At(lens, m * k - i)
<1>1. EqualStart(lens, k) = {Row(m) : m \in 1 .. d}
  BY DEF EqualStart, Neighbours
<1>2. n \in Nat
  OBVIOUS
<1>3. \A m \in 1 .. d : \A i \in 1 .. k : m * k - i \in 0 .. n - 1
  BY <1>2, ChunksOfPositions
<1>10. /\ \A p \in 0 .. n - 1 : \E m \in 1 .. d : \E i \in 1 .. k : m * k - i = p
       /\ \A m, q \in 1 .. d : \A i, j \in 1 .. k : m * k - i = q * k - j => m = q /\ i = j
  <2>1. n % k = 0
    OBVIOUS
  <2>. HIDE DEF n
  <2>. QED  BY <1>2, <2>1, ChunksOfPositions
<1>4. ASSUME NEW m \in 1 .. d, NEW i \in 1 .. k
      PROVE  /\ Idx(m, i) \in DOMAIN lens /\ Position(lens, Idx(m, i)) = m * k - i
             /\ Row(m)[i].items = {Idx(m, i)} /\ Row(m)[i].sum = lens[Idx(m, i)]
             /\ Row(m)[i].sum \in Nat /\ Row(m)[i] \in Bucket(lens)
  <2>1. Idx(m, i) \in DOMAIN lens /\ Position(lens, Idx(m, i)) = m * k - i
    BY <1>3, AtPosition
  <2>2. Row(m)[i] = Single(lens, Idx(m, i))
    BY DEF Neighbours
  <2>3. lens[Idx(m, i)] \in Nat
    BY <2>1
  <2>. HIDE DEF Idx, Row
  <2>4. Row(m)[i] = [sum |-> lens[Idx(m, i)], items |-> {Idx(m, i)}]
    BY <2>2 DEF Single
  <2>5. {Idx(m, i)} \in SUBSET DOMAIN lens
    BY <2>1
  <2>. QED  BY <2>1, <2>3, <2>4, <2>5 DEF Bucket
<1>5. ASSUME NEW m \in 1 .. d PROVE IsRow(Row(m), lens, k)
  <2>1. DOMAIN Row(m) = 1 .. k /\ Row(m) = [i \in 1 .. k |-> Row(m)[i]]
    BY DEF Neighbours
  <2>. HIDE DEF Row
  <2>. QED  BY <1>4, <2>1 DEF IsRow
<1>6. \A x : Cardinality({x}) = 1
  BY FS_Singleton
<1>11. ASSUME NEW m \in 1 .. d, NEW i \in 1 .. k
       PROVE  Row(m)[i].items # {} /\ Cardinality(Row(m)[i].items) = 1
  <2>1. Row(m)[i].items = {Idx(m, i)}
    BY <1>4
  <2>. HIDE DEF Row, Idx
  <2>2. Cardinality(Row(m)[i].items) = Cardinality({Idx(m, i)})
    BY <2>1
  <2>3. Cardinality({Idx(m, i)}) = 1
    BY <1>6
  <2>. QED  BY <2>1, <2>2, <2>3
<1>7. ASSUME NEW m \in 1 .. d PROVE StateOK(Row(m), lens, k) /\ Filling(Row(m), k, TRUE)
  <2>1. ASSUME NEW i \in 1 .. k, NEW j \in 1 .. k, i < j PROVE ~ Smaller(Row(m)[i], Row(m)[j])
    <3>1. m * k - i \in 0 .. n - 1 /\ m * k - j \in 0 .. n - 1
      BY <1>3
    <3>2. m * k \in Nat
      BY <1>2
    <3>3. m * k - j <= m * k - i
      BY <2>1, <3>2
    <3>4. lens[Idx(m, j)] <= lens[Idx(m, i)]
      BY <3>1, <3>3, LaterIsLonger
    <3>5. Row(m)[j].sum <= Row(m)[i].sum
      BY <1>4, <3>4
    <3>6. Cardinality(Row(m)[j].items) = 1 /\ Cardinality(Row(m)[i].items) = 1
      BY <1>11
    <3>7. Row(m)[j].sum \in Nat /\ Row(m)[i].sum \in Nat
      BY <1>4
    <3>. HIDE DEF Row
    <3>. QED  BY <3>5, <3>6, <3>7 DEF Smaller
  <2>2. ZeroIsEmpty(Row(m), k)
    BY <1>4, ZenonT(40) DEF ZeroIsEmpty
  <2>3. Narrow(Row(m), lens, k)
    <3>1. 1 \in 1 .. k /\ k \in 1 .. k
      OBVIOUS
    <3>2. Row(m)[1].sum = lens[Idx(m, 1)] /\ Row(m)[1].sum \in Nat /\ Row(m)[k].sum \in Nat
      BY <1>4, <3>1
    <3>3. Idx(m, 1) \in DOMAIN lens
      BY <1>4, <3>1
    <3>. HIDE DEF Row, Idx
    <3>4. Row(m)[1].sum - Row(m)[k].sum <= lens[Idx(m, 1)]
      BY <3>2
    <3>. QED  BY <3>3, <3>4 DEF Narrow
  <2>4. ASSUME NEW i \in 1 .. k, NEW j \in 1 .. k
        PROVE  Row(m)[i].items # {} /\ Cardinality(Row(m)[i].items) = Cardinality(Row(m)[j].items)
    <3>1. Row(m)[i].items # {} /\ Cardinality(Row(m)[i].items) = 1 /\ Cardinality(Row(m)[j].items) = 1
      BY <1>11
    <3>. HIDE DEF Row
    <3>. QED  BY <3>1
  <2>. HIDE DEF Row
  <2>. QED  BY <1>5, <2>1, <2>2, <2>3, <2>4 DEF StateOK, Decreasing, Filling, EqualCounts
<1>8. Covers(EqualStart(lens, k), lens, k)
  <2>. SUFFICES ASSUME NEW x \in DOMAIN lens
                PROVE  \E s \in EqualStart(lens, k) : \E i \in 1 .. k : x \in s[i].items
    BY DEF Covers
  <2>1. Position(lens, x) \in 0 .. n - 1
    BY PositionsAreExact
  <2>. HIDE DEF Row, Idx
  <2>2. PICK m \in 1 .. d : \E i \in 1 .. k : m * k - i = Position(lens, x)
    BY <1>10, <2>1
  <2>3. PICK i \in 1 .. k : m * k - i = Position(lens, x)
    BY <2>2
  <2>4. Position(lens, Idx(m, i)) = Position(lens, x) /\ Idx(m, i) \in DOMAIN lens
    BY <1>4, <2>3
  <2>5. Idx(m, i) = x
    BY <2>4, PositionsAreExact
  <2>6. x \in Row(m)[i].items
    BY <1>4, <2>5
  <2>. QED  BY <1>1, <2>6
<1>9. Separate(EqualStart(lens, k), k)
  <2>. HIDE DEF Row, Idx, d
  <2>. SUFFICES ASSUME NEW m \in 1 .. d, NEW q \in 1 .. d, NEW i \in 1 .. k, NEW j \in 1 .. k,
                       Row(m)[i].items \cap Row(q)[j].items # {}
                PROVE  m = q /\ i = j
    BY <1>1 DEF Separate
  <2>1. Row(m)[i].items = {Idx(m, i)} /\ Row(q)[j].items = {Idx(q, j)}
    BY <1>4
  <2>2. Idx(m, i) = Idx(q, j)
    BY <2>1
  <2>3. Position(lens, Idx(m, i)) = m * k - i
    BY <1>4
  <2>4. Position(lens, Idx(q, j)) = q * k - j
    BY <1>4
  <2>5. m * k - i = q * k - j
    BY <2>2, <2>3, <2>4
  <2>. QED  BY <1>10, <2>5, SMTT(40)
<1>. HIDE DEF Row
<1>. QED  BY <1>1, <1>7, <1>8, <1>9 DEF HeapOK

-----------------------------------------------------------------------------
(* The last state *)

\* With no more partitions than items, the last state has no empty bucket: were one empty, every
\* other would hold at most one item, and the items would be fewer than the buckets.
LEMMA LastStateIsFull ==
    ASSUME NEW lens \in Seq(Nat), NEW k \in Nat \ {0}, k <= Len(lens), NEW s,
           HeapOK({s}, lens, k, FALSE), NEW i \in 1 .. k
    PROVE  s[i].items # {}
<1>. SUFFICES ASSUME s[i].items = {} PROVE FALSE
  OBVIOUS
<1>. DEFINE D == DOMAIN lens
            B == (1 .. k) \ {i}
            f == [x \in D |-> CHOOSE j \in 1 .. k : x \in s[j].items]
<1>1. \A j \in 1 .. k : Cardinality(s[j].items) <= 1
  BY DEF HeapOK, Filling, FewWhenEmpty
<1>2. ASSUME NEW x \in D PROVE f[x] \in B /\ x \in s[f[x]].items
  <2>1. \E j \in 1 .. k : x \in s[j].items
    BY DEF HeapOK, Covers
  <2>. QED  BY <2>1
<1>3. Len(lens) \in Nat /\ D = 1 .. Len(lens)
  OBVIOUS
<1>4. IsFiniteSet(D) /\ Cardinality(D) = Len(lens)
  BY <1>3, IntervalCounts
<1>5. IsFiniteSet(B) /\ Cardinality(B) = k - 1
  <2>1. IsFiniteSet(1 .. k) /\ Cardinality(1 .. k) = k
    BY IntervalCounts
  <2>. QED  BY <2>1, FS_RemoveElement
<1>6. f \in [D -> B]
  BY <1>2
<1>7. PICK x \in D, y \in D : x # y /\ f[x] = f[y]
  <2>. HIDE DEF f, B, D
  <2>1. Cardinality(B) < Cardinality(D)
    BY <1>3, <1>4, <1>5
  <2>. QED  BY <1>4, <1>5, <1>6, <2>1, FS_PigeonHole
<1>8. f[x] \in 1 .. k /\ {x, y} \subseteq s[f[x]].items
  BY <1>2, <1>7
<1>. HIDE DEF f
<1>9. s[f[x]] \in Bucket(lens)
  BY <1>8 DEF HeapOK, StateOK, IsRow
<1>10. IsFiniteSet(s[f[x]].items) /\ Cardinality(s[f[x]].items) <= 1
  BY <1>1, <1>8, <1>9, BucketFinite
<1>11. Cardinality({x, y}) = 2
  BY <1>7, PairSize
<1>12. Cardinality({x, y}) <= Cardinality(s[f[x]].items)
  BY <1>8, <1>10, FS_Subset
<1>13. Cardinality(s[f[x]].items) \in Nat
  BY <1>10, FS_CardinalityType
<1>. QED  BY <1>10, <1>11, <1>12, <1>13

\* Partitions of one size that hold every item once share the items out evenly.
LEMMA EqualShares ==
    ASSUME NEW n \in Nat, NEW k \in Nat \ {0}, NEW P \in [1 .. k -> SUBSET (1 .. n)],
           \A x \in 1 .. n : \E i \in 1 .. k : x \in P[i],
           \A i, j \in 1 .. k : i # j => P[i] \cap P[j] = {},
           \A i, j \in 1 .. k : Cardinality(P[i]) = Cardinality(P[j]),
           NEW h \in 1 .. k
    PROVE  Cardinality(P[h]) * k = n
<1>. DEFINE c == Cardinality(P[h])
            B == [j \in 1 .. k |-> CHOOSE f : f \in Bijection(1 .. c, P[j])]
            g == [q \in (1 .. k) \X (1 .. c) |-> B[q[1]][q[2]]]
<1>1. IsFiniteSet(1 .. n) /\ Cardinality(1 .. n) = n
  BY IntervalCounts
<1>2. \A j \in 1 .. k : IsFiniteSet(P[j]) /\ Cardinality(P[j]) = c
  BY <1>1, FS_Subset
<1>3. c \in Nat
  BY <1>2, FS_CardinalityType
<1>4. ASSUME NEW j \in 1 .. k PROVE B[j] \in Bijection(1 .. c, P[j])
  <2>1. ExistsBijection(1 .. Cardinality(P[j]), P[j])
    BY <1>2, FS_CardinalityType
  <2>2. ExistsBijection(1 .. c, P[j])
    BY <1>2, <2>1
  <2>3. \E f : f \in Bijection(1 .. c, P[j])
    BY <2>2 DEF ExistsBijection
  <2>. QED  BY <2>3
<1>. HIDE DEF B
<1>5. ASSUME NEW j \in 1 .. k
      PROVE  /\ \A m \in 1 .. c : B[j][m] \in P[j]
             /\ \A m, q \in 1 .. c : B[j][m] = B[j][q] => m = q
             /\ \A x \in P[j] : \E m \in 1 .. c : B[j][m] = x
  <2>. HIDE DEF c
  <2>1. B[j] \in [1 .. c -> P[j]] /\ IsInjective(B[j]) /\ \A x \in P[j] : \E m \in 1 .. c : B[j][m] = x
    BY <1>4 DEF Bijection, Injection, Surjection
  <2>. QED  BY <2>1 DEF IsInjective
<1>6. \A j \in 1 .. k : \A m \in 1 .. c : g[<<j, m>>] = B[j][m]
  OBVIOUS
<1>7. ASSUME NEW q \in (1 .. k) \X (1 .. c)
      PROVE  q[1] \in 1 .. k /\ q[2] \in 1 .. c /\ q = <<q[1], q[2]>> /\ g[q] = B[q[1]][q[2]] /\ g[q] \in P[q[1]]
  BY <1>5
<1>8. g \in [(1 .. k) \X (1 .. c) -> 1 .. n]
  <2>1. \A q \in (1 .. k) \X (1 .. c) : g[q] \in 1 .. n
    BY <1>7
  <2>. QED  BY <2>1
<1>9. ASSUME NEW q \in (1 .. k) \X (1 .. c), NEW r \in (1 .. k) \X (1 .. c), g[q] = g[r] PROVE q = r
  <2>1. q[1] \in 1 .. k /\ q[2] \in 1 .. c /\ q = <<q[1], q[2]>> /\ g[q] = B[q[1]][q[2]] /\ g[q] \in P[q[1]]
    BY <1>7
  <2>2. r[1] \in 1 .. k /\ r[2] \in 1 .. c /\ r = <<r[1], r[2]>> /\ g[r] = B[r[1]][r[2]] /\ g[r] \in P[r[1]]
    BY <1>7
  <2>. HIDE DEF g
  <2>3. q[1] = r[1]
    BY <1>9, <2>1, <2>2
  <2>4. B[q[1]][q[2]] = B[q[1]][r[2]]
    BY <1>9, <2>1, <2>2, <2>3
  <2>5. \A m, e \in 1 .. c : B[q[1]][m] = B[q[1]][e] => m = e
    BY <1>5, <2>1
  <2>6. q[2] = r[2]
    <3>. HIDE DEF c
    <3>. QED  BY <2>1, <2>2, <2>4, <2>5
  <2>. QED  BY <2>1, <2>2, <2>3, <2>6
<1>10. ASSUME NEW x \in 1 .. n PROVE \E q \in (1 .. k) \X (1 .. c) : g[q] = x
  <2>1. PICK j \in 1 .. k : x \in P[j]
    OBVIOUS
  <2>2. PICK m \in 1 .. c : B[j][m] = x
    BY <1>5, <2>1
  <2>3. <<j, m>> \in (1 .. k) \X (1 .. c)
    OBVIOUS
  <2>. QED  BY <1>6, <2>2, <2>3
<1>. HIDE DEF g
<1>11. g \in Bijection((1 .. k) \X (1 .. c), 1 .. n)
  BY <1>8, <1>9, <1>10 DEF Bijection, Injection, Surjection, IsInjective
<1>12. ExistsBijection((1 .. k) \X (1 .. c), 1 .. n)
  BY <1>11 DEF ExistsBijection
<1>. HIDE DEF c
<1>13. /\ IsFiniteSet(1 .. k) /\ Cardinality(1 .. k) = k
       /\ IsFiniteSet(1 .. c) /\ Cardinality(1 .. c) = c
  BY <1>3, IntervalCounts
<1>14. IsFiniteSet((1 .. k) \X (1 .. c)) /\ Cardinality((1 .. k) \X (1 .. c)) = k * c
  <2>1. Cardinality((1 .. k) \X (1 .. c)) = Cardinality(1 .. k) * Cardinality(1 .. c)
    BY <1>13, FS_Product, Zenon
  <2>2. IsFiniteSet((1 .. k) \X (1 .. c))
    BY <1>13, FS_Product, Zenon
  <2>. QED  BY <1>13, <2>1, <2>2
<1>15. n = k * c
  BY <1>1, <1>12, <1>14, FS_Bijection
<1>. QED  BY <1>3, <1>15 DEF c

Exact(P, lens, k, equal) ==
    /\ P \in [1 .. k -> SUBSET DOMAIN lens]
    /\ \A x \in DOMAIN lens : \E i \in 1 .. k : x \in P[i]
    /\ \A i, j \in 1 .. k : i # j => P[i] \cap P[j] = {}
    /\ \A i \in 1 .. k :
        /\ P[i] # {} /\ P[i] \subseteq DOMAIN lens
        /\ equal => Cardinality(P[i]) * k = Len(lens)

LEMMA LastStateIsExact ==
    ASSUME NEW lens \in Seq(Nat), NEW k \in Nat \ {0}, k <= Len(lens), NEW equal \in BOOLEAN, NEW s,
           HeapOK({s}, lens, k, equal)
    PROVE  Exact([i \in DOMAIN s |-> s[i].items], lens, k, equal)
<1>. DEFINE P == [i \in DOMAIN s |-> s[i].items]
<1>1. IsRow(s, lens, k) /\ Filling(s, k, equal) /\ Covers({s}, lens, k) /\ Separate({s}, k)
  BY DEF HeapOK, StateOK
<1>2. DOMAIN s = 1 .. k /\ \A i \in 1 .. k : s[i] \in Bucket(lens)
  BY <1>1 DEF IsRow
<1>3. DOMAIN P = 1 .. k /\ \A i \in 1 .. k : P[i] = s[i].items /\ P[i] \subseteq DOMAIN lens
  BY <1>2 DEF Bucket
<1>4. \A x \in DOMAIN lens : \E i \in 1 .. k : x \in P[i]
  BY <1>1, <1>3 DEF Covers
<1>5. \A i, j \in 1 .. k : i # j => P[i] \cap P[j] = {}
  BY <1>1, <1>3 DEF Separate
<1>6. \A i \in 1 .. k : P[i] # {}
  <2>1. CASE equal
    BY <1>1, <1>3, <2>1 DEF Filling, EqualCounts
  <2>2. CASE ~ equal
    <3>1. HeapOK({s}, lens, k, FALSE)
      BY <2>2
    <3>. QED  BY <1>3, <3>1, LastStateIsFull
  <2>. QED  BY <2>1, <2>2
<1>7. ASSUME equal, NEW i \in 1 .. k PROVE Cardinality(P[i]) * k = Len(lens)
  <2>1. \A h, j \in 1 .. k : Cardinality(P[h]) = Cardinality(P[j])
    BY <1>1, <1>3, <1>7 DEF Filling, EqualCounts
  <2>2. DOMAIN lens = 1 .. Len(lens) /\ Len(lens) \in Nat
    OBVIOUS
  <2>3. P \in [1 .. k -> SUBSET (1 .. Len(lens))]
    BY <1>3, <2>2
  <2>. HIDE DEF P
  <2>4. \A x \in 1 .. Len(lens) : \E h \in 1 .. k : x \in P[h]
    BY <1>4, <2>2
  <2>. DEFINE n == Len(lens)
  <2>5. n \in Nat /\ P \in [1 .. k -> SUBSET (1 .. n)] /\ \A x \in 1 .. n : \E h \in 1 .. k : x \in P[h]
    BY <2>2, <2>3, <2>4
  <2>. HIDE DEF n
  <2>6. Cardinality(P[i]) * k = n
    BY <1>5, <2>1, <2>5, EqualShares
  <2>. QED  BY <2>6 DEF n
<1>. HIDE DEF P
<1>8. Exact(P, lens, k, equal)
  <2>1. P \in [1 .. k -> SUBSET DOMAIN lens]
    BY <1>2, <1>3 DEF P
  <2>. QED  BY <2>1, <1>3, <1>4, <1>5, <1>6, <1>7 DEF Exact
<1>. QED  BY <1>8 DEF P

-----------------------------------------------------------------------------
(* The calls *)

HeapsOK ==
    \A c \in Callers : states_pq[c] # {} =>
        /\ MayCall(call[c].seqlen_list, call[c].k_partitions, call[c].equal_size)
        /\ HeapOK(states_pq[c], call[c].seqlen_list, call[c].k_partitions, call[c].equal_size)

ReturnedOK ==
    \A c \in Callers : partitions[c] # <<>> =>
        Exact(partitions[c], call[c].seqlen_list, call[c].k_partitions, call[c].equal_size)

KKInv ==
    /\ call \in [Callers -> [seqlen_list : Seq(Nat), k_partitions : Nat \ {0}, equal_size : BOOLEAN]]
    /\ DOMAIN states_pq = Callers /\ DOMAIN partitions = Callers
    /\ HeapsOK
    /\ ReturnedOK

LEMMA PopFirstPops == \A pq : PopFirst(pq) \subseteq pq
  BY DEF PopFirst

LEMMA KKInitOK == KKInit => KKInv
<1>. SUFFICES ASSUME KKInit PROVE KKInv
  OBVIOUS
<1>1. NoCall \in [seqlen_list : Seq(Nat), k_partitions : Nat \ {0}, equal_size : BOOLEAN]
  <2>1. <<>> \in Seq(Nat) /\ 1 \in Nat \ {0} /\ FALSE \in BOOLEAN
    OBVIOUS
  <2>. QED  BY <2>1 DEF NoCall
<1>. QED  BY <1>1 DEF KKInit, KKInv, HeapsOK, ReturnedOK

\* A call starts from states that hold every index once.
LEMMA CallKeeps ==
    ASSUME KKInv, NEW c \in Callers, NEW lens \in Seq(Nat), NEW k \in 1 .. Len(lens),
           NEW equal \in BOOLEAN, Call(c, lens, k, equal)
    PROVE  KKInv'
<1>1. lens \in Seq(Nat) /\ k \in Nat \ {0} /\ k <= Len(lens)
  OBVIOUS
<1>. DEFINE new == [seqlen_list |-> lens, k_partitions |-> k, equal_size |-> equal]
<1>2. new \in [seqlen_list : Seq(Nat), k_partitions : Nat \ {0}, equal_size : BOOLEAN]
  BY <1>1
<1>3. /\ call' = [call EXCEPT ![c] = new]
      /\ call' \in [Callers -> [seqlen_list : Seq(Nat), k_partitions : Nat \ {0}, equal_size : BOOLEAN]]
  BY <1>2 DEF Call, KKInv
<1>4. DOMAIN states_pq' = Callers /\ DOMAIN partitions' = Callers /\ partitions' = partitions
  BY DEF Call, KKInv
<1>5. call'[c] = new /\ \A d \in Callers : d # c => call'[d] = call[d] /\ states_pq'[d] = states_pq[d]
  BY <1>3 DEF Call, KKInv
<1>6. MayCall(lens, k, equal) /\ HeapOK(states_pq'[c], lens, k, equal)
  <2>1. states_pq'[c] = IF equal THEN EqualStart(lens, k) ELSE FreeStart(lens, k)
    BY DEF Call, KKInv
  <2>2. MayCall(lens, k, equal)
    BY DEF Call
  <2>3. CASE equal
    <3>1. Len(lens) % k = 0
      BY <2>2, <2>3 DEF MayCall
    <3>2. HeapOK(EqualStart(lens, k), lens, k, TRUE)
      BY <1>1, <3>1, EqualStartOK
    <3>3. equal = TRUE
      BY <2>3
    <3>. QED  BY <2>1, <2>2, <3>2, <3>3
  <2>4. CASE ~ equal
    <3>1. HeapOK(FreeStart(lens, k), lens, k, FALSE)
      BY <1>1, FreeStartOK
    <3>2. equal = FALSE
      BY <2>4
    <3>. QED  BY <2>1, <2>2, <3>1, <3>2
  <2>. QED  BY <2>3, <2>4
<1>9. call'[c].seqlen_list = lens /\ call'[c].k_partitions = k /\ call'[c].equal_size = equal
  BY <1>5
<1>. HIDE DEF new
<1>7. HeapsOK'
  <2>. SUFFICES ASSUME NEW d \in Callers, states_pq'[d] # {}
                PROVE  /\ MayCall(call'[d].seqlen_list, call'[d].k_partitions, call'[d].equal_size)
                       /\ HeapOK(states_pq'[d], call'[d].seqlen_list, call'[d].k_partitions, call'[d].equal_size)
    BY DEF HeapsOK
  <2>1. CASE d = c
    BY <1>6, <1>9, <2>1
  <2>2. CASE d # c
    BY <1>5, <2>2 DEF HeapsOK, KKInv
  <2>. QED  BY <2>1, <2>2
<1>8. ReturnedOK'
  <2>1. partitions'[c] = <<>>
    BY <1>4 DEF Call
  <2>. QED  BY <1>4, <1>5, <2>1 DEF ReturnedOK, KKInv
<1>. QED  BY <1>3, <1>4, <1>7, <1>8 DEF KKInv

LEMMA MergeKeeps ==
    ASSUME KKInv, NEW c \in Callers, Merge(c)
    PROVE  KKInv'
<1>. DEFINE pq == states_pq[c]
            lens == call[c].seqlen_list
            k == call[c].k_partitions
            equal == call[c].equal_size
<1>1. lens \in Seq(Nat) /\ k \in Nat \ {0} /\ equal \in BOOLEAN
  BY DEF KKInv
<1>11. PICK s \in PopFirst(pq) : \E t \in PopFirst(pq \ {s}) : \E u \in Sorted(Merged(s, t)) :
            states_pq' = [states_pq EXCEPT ![c] = (@ \ {s, t}) \cup {u}]
  BY DEF Merge
<1>2. PICK t \in PopFirst(pq \ {s}) : \E u \in Sorted(Merged(s, t)) :
            states_pq' = [states_pq EXCEPT ![c] = (@ \ {s, t}) \cup {u}]
  BY <1>11
<1>3. PICK u \in Sorted(Merged(s, t)) : states_pq' = [states_pq EXCEPT ![c] = (@ \ {s, t}) \cup {u}]
  BY <1>2
<1>4. s \in pq /\ t \in pq /\ s # t
  BY <1>2, <1>11, PopFirstPops
<1>5. MayCall(lens, k, equal) /\ HeapOK(pq, lens, k, equal)
  BY <1>4 DEF KKInv, HeapsOK
<1>6. /\ states_pq'[c] = (pq \ {s, t}) \cup {u}
      /\ DOMAIN states_pq' = Callers
      /\ \A d \in Callers : d # c => states_pq'[d] = states_pq[d]
  BY <1>3 DEF KKInv
<1>7. call' = call /\ partitions' = partitions
  BY DEF Merge
<1>8. HeapOK(states_pq'[c], lens, k, equal)
  <2>. HIDE DEF pq, lens, k, equal
  <2>1. HeapOK((pq \ {s, t}) \cup {u}, lens, k, equal)
    BY <1>1, <1>3, <1>4, <1>5, MergeKeepsHeap
  <2>. QED  BY <1>6, <2>1
<1>9. HeapsOK'
  BY <1>5, <1>6, <1>7, <1>8 DEF HeapsOK, KKInv
<1>10. ReturnedOK'
  BY <1>7 DEF ReturnedOK, KKInv
<1>. QED  BY <1>6, <1>7, <1>9, <1>10 DEF KKInv

LEMMA ReturnKeeps ==
    ASSUME KKInv, NEW c \in Callers, Return(c)
    PROVE  KKInv'
<1>. DEFINE lens == call[c].seqlen_list
            k == call[c].k_partitions
            equal == call[c].equal_size
<1>1. lens \in Seq(Nat) /\ k \in Nat \ {0} /\ equal \in BOOLEAN
  BY DEF KKInv
<1>2. PICK s \in states_pq[c] : /\ states_pq[c] = {s}
                                /\ partitions' = [partitions EXCEPT ![c] = [i \in DOMAIN s |-> s[i].items]]
                                /\ states_pq' = [states_pq EXCEPT ![c] = {}]
                                /\ call' = call
  BY DEF Return
<1>3. MayCall(lens, k, equal) /\ HeapOK({s}, lens, k, equal)
  BY <1>2 DEF KKInv, HeapsOK
<1>4. partitions'[c] = [i \in DOMAIN s |-> s[i].items] /\ states_pq'[c] = {}
  BY <1>2 DEF KKInv
<1>5. /\ DOMAIN states_pq' = Callers /\ DOMAIN partitions' = Callers
      /\ \A d \in Callers : d # c => states_pq'[d] = states_pq[d] /\ partitions'[d] = partitions[d]
  BY <1>2 DEF KKInv
<1>6. Exact(partitions'[c], lens, k, equal)
  <2>. HIDE DEF lens, k, equal
  <2>1. k <= Len(lens)
    BY <1>1, <1>3 DEF MayCall
  <2>2. Exact([i \in DOMAIN s |-> s[i].items], lens, k, equal)
    BY <1>1, <1>3, <2>1, LastStateIsExact
  <2>. QED  BY <1>4, <2>2
<1>7. HeapsOK'
  BY <1>2, <1>4, <1>5 DEF HeapsOK, KKInv
<1>8. ReturnedOK'
  BY <1>2, <1>5, <1>6 DEF ReturnedOK, KKInv
<1>. QED  BY <1>2, <1>5, <1>7, <1>8 DEF KKInv

LEMMA KKStepKeeps == KKInv /\ [KKNext]_kkVars => KKInv'
<1>. SUFFICES ASSUME KKInv, [KKNext]_kkVars PROVE KKInv'
  OBVIOUS
<1>1. ASSUME NEW c \in Callers, NEW lens \in Lists, NEW k \in 1 .. Len(lens), NEW equal \in BOOLEAN,
             Call(c, lens, k, equal)
      PROVE  KKInv'
  <2>1. lens \in Seq(Nat)
    BY SeqlenAssumption
  <2>. QED  BY <1>1, <2>1, CallKeeps
<1>2. ASSUME NEW c \in Callers, Merge(c) PROVE KKInv'
  BY <1>2, MergeKeeps
<1>3. ASSUME NEW c \in Callers, Return(c) PROVE KKInv'
  BY <1>3, ReturnKeeps
<1>4. CASE UNCHANGED kkVars
  BY <1>4 DEF kkVars, KKInv, HeapsOK, ReturnedOK
<1>. QED  BY <1>1, <1>2, <1>3, <1>4 DEF KKNext, KKStep

LEMMA AlwaysKKInv == KKSpec => []KKInv
  BY KKInitOK, KKStepKeeps, PTL DEF KKSpec

-----------------------------------------------------------------------------
\* karmarkar_karp keeps rows of k sums and sets of indices of the list, for any list of lengths,
\* any number of partitions and any way of breaking ties.
THEOREM TypeCorrect == KKSpec => []KKTypeOK
<1>1. KKInv => KKTypeOK
  <2>. SUFFICES ASSUME KKInv PROVE KKTypeOK
    OBVIOUS
  <2>1. ASSUME NEW c \in Callers, NEW s \in states_pq[c]
        PROVE  s \in [1 .. call[c].k_partitions -> [sum : Nat, items : SUBSET DOMAIN call[c].seqlen_list]]
    BY <2>1 DEF KKInv, HeapsOK, HeapOK, StateOK, IsRow, Bucket
  <2>2. ASSUME NEW c \in Callers
        PROVE  partitions[c] = <<>> \/
                    partitions[c] \in [1 .. call[c].k_partitions -> SUBSET DOMAIN call[c].seqlen_list]
    <3>. SUFFICES ASSUME partitions[c] # <<>>
                  PROVE  partitions[c] \in [1 .. call[c].k_partitions -> SUBSET DOMAIN call[c].seqlen_list]
      OBVIOUS
    <3>1. Exact(partitions[c], call[c].seqlen_list, call[c].k_partitions, call[c].equal_size)
      BY DEF KKInv, ReturnedOK
    <3>. QED  BY <3>1 DEF Exact
  <2>. QED  BY <2>1, <2>2 DEF KKInv, KKTypeOK
<1>. QED  BY <1>1, AlwaysKKInv, PTL

LEMMA InvIsExact == KKInv => PartitionsAreExact
  BY DEF KKInv, ReturnedOK, Exact, PartitionsAreExact, Indices

\* get_seqlen_balanced_partitions gives back every index in exactly one partition, none empty, and
\* with equal_size partitions of one size: what it asserts of the result always holds.
THEOREM PartitionsAlwaysExact == KKSpec => []PartitionsAreExact
  BY InvIsExact, AlwaysKKInv, PTL

LEMMA InvIsNarrow == KKInv => SpreadIsBounded
<1>. SUFFICES ASSUME KKInv, NEW c \in Callers, NEW s \in states_pq[c]
              PROVE  \E x \in Indices(c) : Spread(s) <= call[c].seqlen_list[x]
  BY DEF SpreadIsBounded
<1>. DEFINE lens == call[c].seqlen_list
            k == call[c].k_partitions
<1>1. k \in Nat \ {0}
  BY DEF KKInv
<1>2. IsRow(s, lens, k) /\ Narrow(s, lens, k)
  BY DEF KKInv, HeapsOK, HeapOK, StateOK
<1>3. Len(s) = k
  BY <1>1, <1>2, RowLength
<1>. QED  BY <1>2, <1>3 DEF Narrow, Spread, Indices

\* No merge makes a state of karmarkar_karp less balanced than the longest sequence is long.
THEOREM SpreadStaysBounded == KKSpec => []SpreadIsBounded
  BY InvIsNarrow, AlwaysKKInv, PTL

-----------------------------------------------------------------------------
(* Induction, with the property as a set of naturals. *)
LEMMA NatInduct ==
    ASSUME NEW S, 0 \in S, \A n \in Nat : n \in S => n + 1 \in S
    PROVE  Nat \subseteq S
<1>. DEFINE T == Nat \ S
            R == OpToRel(<, Nat)
<1>1. ASSUME T # {} PROVE FALSE
  <2>1. IsWellFoundedOn(R, Nat)
    BY NatLessThanWellFounded
  <2>. HIDE DEF R
  <2>2. PICK m \in T : \A k \in T : ~ (<<k, m>> \in R)
    BY <1>1, <2>1, WFMin
  <2>3. \A k \in T : ~ (k < m)
    BY <2>2 DEF R, OpToRel
  <2>4. m \in Nat /\ m # 0 /\ m - 1 \in Nat /\ m - 1 \notin T
    BY <2>3
  <2>. QED  BY <2>4
<1>. QED  BY <1>1

(* FlattenSeq, whose recursive function exists. *)
Flattening(s, n, f) == f = [i \in 1 .. n |-> IF i = 1 THEN s[i] ELSE f[i - 1] \o s[i]]

LEMMA FlatteningExists == \A s : \A n \in Nat : \E f : Flattening(s, n, f)
<1>. SUFFICES ASSUME NEW s PROVE \A n \in Nat : \E f : Flattening(s, n, f)
  OBVIOUS
<1>. DEFINE S == {n \in Nat : \E f : Flattening(s, n, f)}
<1>1. 0 \in S
  <2>. DEFINE f == [i \in 1 .. 0 |-> s[i]]
  <2>1. f = [i \in 1 .. 0 |-> IF i = 1 THEN s[i] ELSE f[i - 1] \o s[i]]
    OBVIOUS
  <2>. QED  BY <2>1 DEF Flattening
<1>2. ASSUME NEW n \in Nat, n \in S PROVE n + 1 \in S
  <2>1. PICK f : f = [i \in 1 .. n |-> IF i = 1 THEN s[i] ELSE f[i - 1] \o s[i]]
    BY <1>2 DEF Flattening
  <2>. DEFINE last == IF n = 0 THEN s[1] ELSE f[n] \o s[n + 1]
              g == [i \in 1 .. n + 1 |-> IF i = n + 1 THEN last ELSE f[i]]
              h == [i \in 1 .. n + 1 |-> IF i = 1 THEN s[i] ELSE g[i - 1] \o s[i]]
  <2>2. ASSUME NEW i \in 1 .. n + 1 PROVE g[i] = h[i]
    <3>1. CASE i = n + 1
      <4>1. CASE n = 0
        BY <3>1, <4>1
      <4>2. CASE n # 0
        <5>1. n \in 1 .. n + 1 /\ n # n + 1 /\ i - 1 = n /\ i # 1
          BY <3>1, <4>2
        <5>2. g[n] = f[n]
          BY <5>1
        <5>3. g[i] = f[n] \o s[n + 1]
          BY <3>1, <4>2
        <5>4. h[i] = g[n] \o s[i]
          BY <5>1
        <5>. QED  BY <3>1, <5>2, <5>3, <5>4
      <4>. QED  BY <4>1, <4>2
    <3>2. CASE i # n + 1
      <4>1. i \in 1 .. n /\ g[i] = f[i]
        BY <3>2
      <4>2. f[i] = IF i = 1 THEN s[i] ELSE f[i - 1] \o s[i]
        BY <2>1, <4>1
      <4>3. CASE i = 1
        BY <4>1, <4>2, <4>3
      <4>4. CASE i # 1
        <5>1. i - 1 \in 1 .. n + 1 /\ i - 1 # n + 1
          BY <4>1, <4>4
        <5>2. g[i - 1] = f[i - 1]
          BY <5>1
        <5>3. h[i] = g[i - 1] \o s[i]
          BY <4>4
        <5>. QED  BY <4>1, <4>2, <4>4, <5>2, <5>3
      <4>. QED  BY <4>3, <4>4
    <3>. QED  BY <3>1, <3>2
  <2>3. g = h
    <3>. HIDE DEF last
    <3>1. /\ g = [i \in 1 .. n + 1 |-> g[i]] /\ h = [i \in 1 .. n + 1 |-> h[i]]
      OBVIOUS
    <3>. HIDE DEF g, h
    <3>. QED  BY <2>2, <3>1
  <2>4. Flattening(s, n + 1, g)
    <3>. HIDE DEF g
    <3>. QED  BY <2>3 DEF Flattening
  <2>. QED  BY <2>4
<1>3. Nat \subseteq S
  <2>. HIDE DEF S
  <2>. QED  BY <1>1, <1>2, NatInduct
<1>. QED  BY <1>3

LEMMA FlattenIs ==
    ASSUME NEW s, NEW n \in Nat \ {0}, Len(s) = n
    PROVE  \E f : Flattening(s, n, f) /\ FlattenSeq(s) = f[n]
<1>. DEFINE F == CHOOSE f : Flattening(s, n, f)
<1>1. Flattening(s, n, F)
  <2>1. \E f : Flattening(s, n, f)
    BY FlatteningExists
  <2>. QED  BY <2>1
<1>2. FlattenSeq(s) = F[n]
  <2>1. F = CHOOSE f : f = [i \in 1 .. n |-> IF i = 1 THEN s[i] ELSE f[i - 1] \o s[i]]
    BY DEF Flattening
  <2>. QED  BY <2>1 DEF FlattenSeq
<1>. QED  BY <1>1, <1>2

LEMMA InductUpTo ==
    ASSUME NEW n \in Nat, NEW S, 0 \in S, \A m \in 0 .. n - 1 : m \in S => m + 1 \in S
    PROVE  0 .. n \subseteq S
<1>. DEFINE U == {m \in Nat : m <= n => m \in S}
<1>1. 0 \in U /\ \A m \in Nat : m \in U => m + 1 \in U
  OBVIOUS
<1>2. Nat \subseteq U
  <2>. HIDE DEF U
  <2>. QED  BY <1>1, NatInduct
<1>. QED  BY <1>2

(* The sequences FlattenSeq goes through, from the empty one. *)
Joining(s, f, T) ==
    /\ f \in [0 .. Len(s) -> Seq(T)]
    /\ f[0] = <<>>
    /\ \A i \in 1 .. Len(s) : f[i] = f[i - 1] \o s[i]

LEMMA FlattenJoins ==
    ASSUME NEW T, NEW s \in Seq(Seq(T))
    PROVE  \E f : Joining(s, f, T) /\ FlattenSeq(s) = f[Len(s)]
<1>. DEFINE n == Len(s)
<1>1. n \in Nat /\ \A i \in 1 .. n : s[i] \in Seq(T)
  OBVIOUS
<1>2. CASE n = 0
  <2>. DEFINE f == [i \in 0 .. n |-> s]
  <2>1. s = <<>> /\ FlattenSeq(s) = s
    BY <1>2 DEF FlattenSeq
  <2>2. f \in [0 .. n -> Seq(T)] /\ f[0] = <<>> /\ f[n] = s
    <3>1. s \in Seq(T) /\ 0 .. n = {0}
      BY <1>2, <2>1
    <3>. QED  BY <1>2, <2>1, <3>1
  <2>3. 1 .. n = {}
    BY <1>2
  <2>. HIDE DEF f
  <2>. QED  BY <2>1, <2>2, <2>3 DEF Joining
<1>3. CASE n # 0
  <2>. HIDE DEF n
  <2>1. n \in Nat \ {0} /\ Len(s) = n
    BY <1>1, <1>3 DEF n
  <2>2. PICK g : Flattening(s, n, g) /\ FlattenSeq(s) = g[n]
    BY <2>1, FlattenIs
  <2>3. g[1] = s[1] /\ \A i \in 2 .. n : g[i] = g[i - 1] \o s[i]
    <3>1. \A i \in 1 .. n : g[i] = IF i = 1 THEN s[i] ELSE g[i - 1] \o s[i]
      BY <2>2 DEF Flattening
    <3>2. 1 \in 1 .. n /\ \A i \in 2 .. n : i \in 1 .. n /\ i # 1
      BY <2>1
    <3>3. g[1] = s[1]
      BY <3>1, <3>2
    <3>4. ASSUME NEW i \in 2 .. n PROVE g[i] = g[i - 1] \o s[i]
      BY <3>1, <3>2
    <3>. QED  BY <3>3, <3>4
  <2>. DEFINE f == [i \in 0 .. n |-> IF i = 0 THEN <<>> ELSE g[i]]
  <2>4. f[0] = <<>> /\ \A i \in 1 .. n : f[i] = g[i]
    BY <2>1
  <2>. HIDE DEF f
  <2>5. ASSUME NEW i \in 1 .. n, f[i - 1] \in Seq(T)
        PROVE  f[i] = f[i - 1] \o s[i] /\ f[i] \in Seq(T)
    <3>1. s[i] \in Seq(T)
      BY <1>1
    <3>2. CASE i = 1
      <4>1. f[i] = s[i] /\ f[i - 1] = <<>>
        BY <2>3, <2>4, <3>2
      <4>2. <<>> \o s[i] = s[i]
        <5>. DEFINE x == s[i]
        <5>1. x \in Seq(T)
          BY <3>1
        <5>. HIDE DEF x
        <5>2. <<>> \o x = x
          BY <5>1, ConcatEmptySeq
        <5>. QED  BY <5>2 DEF x
      <4>. QED  BY <3>1, <4>1, <4>2
    <3>3. CASE i # 1
      <4>1. i \in 2 .. n /\ i - 1 \in 1 .. n
        BY <2>1, <3>3
      <4>2. f[i] = g[i] /\ f[i - 1] = g[i - 1] /\ g[i] = g[i - 1] \o s[i]
        BY <2>3, <2>4, <4>1
      <4>. QED  BY <2>5, <3>1, <4>2
    <3>. QED  BY <3>2, <3>3
  <2>. DEFINE S == {m \in 0 .. n : f[m] \in Seq(T)}
  <2>6. 0 \in S
    <3>1. <<>> \in Seq(T) /\ 0 \in 0 .. n
      BY <2>1
    <3>. QED  BY <2>4, <3>1
  <2>7. \A m \in 0 .. n - 1 : m \in S => m + 1 \in S
    <3>. SUFFICES ASSUME NEW m \in 0 .. n - 1, f[m] \in Seq(T) PROVE f[m + 1] \in Seq(T)
      BY <2>1
    <3>1. m + 1 \in 1 .. n /\ (m + 1) - 1 = m
      BY <2>1
    <3>2. f[(m + 1) - 1] \in Seq(T)
      BY <3>1
    <3>. QED  BY <2>5, <3>1, <3>2, Zenon
  <2>8. 0 .. n \subseteq S
    <3>. HIDE DEF S
    <3>. QED  BY <2>1, <2>6, <2>7, InductUpTo
  <2>9. \A i \in 1 .. n : f[i] = f[i - 1] \o s[i]
    <3>1. ASSUME NEW i \in 1 .. n PROVE f[i - 1] \in Seq(T)
      BY <2>1, <2>8
    <3>. QED  BY <2>5, <3>1
  <2>10. f \in [0 .. n -> Seq(T)]
    BY <2>8 DEF f
  <2>11. f[n] = g[n]
    BY <2>1, <2>4
  <2>. QED  BY <2>1, <2>2, <2>4, <2>9, <2>10, <2>11 DEF Joining
<1>. QED  BY <1>2, <1>3

(* Slices of a sequence that follow each other make up the sequence. *)
Slices(s, rows, cut) ==
    /\ cut \in [0 .. Len(s) -> 0 .. Len(rows)]
    /\ cut[0] = 0
    /\ \A i \in 1 .. Len(s) : cut[i - 1] <= cut[i] /\ s[i] = SubSeq(rows, cut[i - 1] + 1, cut[i])

LEMMA FlattenSlices ==
    ASSUME NEW T, NEW rows \in Seq(T), NEW s \in Seq(Seq(T)), NEW cut, Slices(s, rows, cut)
    PROVE  FlattenSeq(s) = SubSeq(rows, 1, cut[Len(s)])
<1>. DEFINE n == Len(s)
<1>1. n \in Nat
  OBVIOUS
<1>2. PICK f : Joining(s, f, T) /\ FlattenSeq(s) = f[n]
  BY FlattenJoins
<1>3. f[0] = <<>> /\ \A i \in 1 .. n : f[i] = f[i - 1] \o s[i]
  BY <1>2 DEF Joining
<1>4. cut \in [0 .. n -> 0 .. Len(rows)]
      /\ cut[0] = 0
      /\ \A i \in 1 .. n : cut[i - 1] <= cut[i] /\ s[i] = SubSeq(rows, cut[i - 1] + 1, cut[i])
  BY DEF Slices
<1>. HIDE DEF n
<1>. DEFINE S == {m \in 0 .. n : f[m] = SubSeq(rows, 1, cut[m])}
<1>5. 0 \in S
  <2>1. SubSeq(rows, 1, 0) = <<>>
    OBVIOUS
  <2>2. 0 \in 0 .. n
    BY <1>1
  <2>. QED  BY <1>3, <1>4, <2>1, <2>2
<1>6. ASSUME NEW m \in 0 .. n - 1, m \in S PROVE m + 1 \in S
  <2>1. m + 1 \in 1 .. n /\ (m + 1) - 1 = m /\ m + 1 \in 0 .. n /\ m \in 0 .. n
    BY <1>1
  <2>. DEFINE a == cut[m]
              b == cut[m + 1]
  <2>2. a \in 0 .. Len(rows) /\ b \in 0 .. Len(rows)
    BY <1>4, <2>1
  <2>3. a <= b /\ s[m + 1] = SubSeq(rows, a + 1, b)
    BY <1>4, <2>1
  <2>4. f[m + 1] = f[m] \o s[m + 1] /\ f[m] = SubSeq(rows, 1, a)
    BY <1>3, <1>6, <2>1
  <2>. HIDE DEF a, b
  <2>5. 1 \in 1 .. Len(rows) + 1 /\ a \in 1 - 1 .. Len(rows) /\ b \in a .. Len(rows)
    BY <2>2, <2>3
  <2>6. SubSeq(rows, 1, a) \o SubSeq(rows, a + 1, b) = SubSeq(rows, 1, b)
    BY <2>5, ConcatAdjacentSubSeq
  <2>7. f[m + 1] = SubSeq(rows, 1, b)
    BY <2>3, <2>4, <2>6
  <2>. QED  BY <2>1, <2>7 DEF b
<1>7. 0 .. n \subseteq S
  <2>. HIDE DEF S
  <2>. QED  BY <1>1, <1>5, <1>6, InductUpTo
<1>8. n \in 0 .. n
  BY <1>1
<1>. QED  BY <1>2, <1>7, <1>8 DEF n

LEMMA Multiples ==
    ASSUME NEW c \in Nat, NEW a \in Nat, NEW b \in Nat, a < b
    PROVE  /\ a * c \in Nat /\ b * c \in Nat
           /\ (a + 1) * c = a * c + c
           /\ a * c + c <= b * c
<1>1. PICK e \in Nat : b = a + 1 + e
  <2>1. b - a - 1 \in Nat /\ b = a + 1 + (b - a - 1)
    OBVIOUS
  <2>. QED  BY <2>1
<1>2. b * c = a * c + c + e * c /\ e * c \in Nat /\ a * c \in Nat
  BY <1>1
<1>. QED  BY <1>2

LEMMA Quotient ==
    ASSUME NEW d \in Nat \ {0}, NEW n \in Nat
    PROVE  /\ n \div d \in Nat
           /\ n % d \in 0 .. d - 1
           /\ n = d * (n \div d) + (n % d)
           /\ n = (n \div d) * d + (n % d)
<1>1. n \div d \in Nat
  OBVIOUS
<1>2. n % d \in 0 .. d - 1
  OBVIOUS
<1>3. n = d * (n \div d) + (n % d)
  OBVIOUS
<1>4. d * (n \div d) = (n \div d) * d
  OBVIOUS
<1>. QED  BY <1>1, <1>2, <1>3, <1>4

(* The chunks of a sequence that divides are its slices of one size. *)
Chunked(T, rows, n, size) ==
    /\ size \in Nat /\ n * size = Len(rows)
    /\ \A r \in 1 .. n :
        /\ (r - 1) * size \in Nat /\ r * size = (r - 1) * size + size /\ r * size <= Len(rows)
        /\ ChunkOf(rows, n, r) = SubSeq(rows, (r - 1) * size + 1, r * size)
        /\ ChunkOf(rows, n, r) \in Seq(T) /\ Len(ChunkOf(rows, n, r)) = size
        /\ \A i \in 1 .. size : ChunkOf(rows, n, r)[i] = rows[(r - 1) * size + i]

LEMMA ChunkIs ==
    ASSUME NEW T, NEW rows \in Seq(T), NEW n \in Nat \ {0}, Len(rows) % n = 0
    PROVE  Chunked(T, rows, n, Len(rows) \div n)
<1>. DEFINE size == Len(rows) \div n
<1>1. Len(rows) \in Nat /\ size \in Nat /\ n * size = Len(rows)
  <2>1. Len(rows) \in Nat
    OBVIOUS
  <2>. DEFINE l == Len(rows)
  <2>. HIDE DEF l
  <2>2. l \in Nat /\ l % n = 0
    BY <2>1 DEF l
  <2>3. l \div n \in Nat /\ l = n * (l \div n) + 0
    BY <2>2, Quotient
  <2>4. size \in Nat /\ l = n * size + 0
    BY <2>3 DEF l
  <2>5. n * size \in Int
    BY <2>4
  <2>. QED  BY <2>1, <2>4, <2>5 DEF l
<1>2. ASSUME NEW r \in 1 .. n
      PROVE  /\ (r - 1) * size \in Nat /\ r * size = (r - 1) * size + size /\ r * size <= Len(rows)
             /\ ChunkOf(rows, n, r) = SubSeq(rows, (r - 1) * size + 1, r * size)
             /\ ChunkOf(rows, n, r) \in Seq(T) /\ Len(ChunkOf(rows, n, r)) = size
             /\ \A i \in 1 .. size : ChunkOf(rows, n, r)[i] = rows[(r - 1) * size + i]
  <2>1. r - 1 \in Nat /\ r - 1 < n /\ (r - 1) + 1 = r
    OBVIOUS
  <2>2. (r - 1) * size \in Nat /\ r * size = (r - 1) * size + size /\ (r - 1) * size + size <= n * size
    BY <1>1, <2>1, Multiples
  <2>3. ChunkOf(rows, n, r) = SubSeq(rows, (r - 1) * size + 1, r * size)
    BY DEF ChunkOf
  <2>. DEFINE a == (r - 1) * size
              b == r * size
  <2>4. a \in Nat /\ b = a + size /\ b <= Len(rows)
    BY <1>1, <2>2
  <2>. HIDE DEF a, b
  <2>5. /\ SubSeq(rows, a + 1, b) \in Seq(T) /\ Len(SubSeq(rows, a + 1, b)) = size
        /\ \A i \in 1 .. size : SubSeq(rows, a + 1, b)[i] = rows[a + i]
    BY <1>1, <2>4
  <2>. QED  BY <2>2, <2>3, <2>4, <2>5 DEF a, b
<1>. QED  BY <1>1, <1>2 DEF Chunked

LEMMA FlattenChunks ==
    ASSUME NEW T, NEW rows \in Seq(T), NEW n \in Nat \ {0}, Len(rows) % n = 0,
           NEW s, s = [r \in 1 .. n |-> ChunkOf(rows, n, r)]
    PROVE  FlattenSeq(s) = rows
<1>. DEFINE size == Len(rows) \div n
            cut == [i \in 0 .. n |-> i * size]
<1>1. /\ size \in Nat /\ n * size = Len(rows)
      /\ \A r \in 1 .. n :
            /\ (r - 1) * size \in Nat /\ r * size = (r - 1) * size + size /\ r * size <= Len(rows)
            /\ ChunkOf(rows, n, r) = SubSeq(rows, (r - 1) * size + 1, r * size)
            /\ ChunkOf(rows, n, r) \in Seq(T)
  <2>1. Chunked(T, rows, n, size)
    BY ChunkIs
  <2>. HIDE DEF size
  <2>. QED  BY <2>1 DEF Chunked
<1>2. s \in Seq(Seq(T)) /\ Len(s) = n
  BY <1>1
<1>. HIDE DEF size
<1>3. 0 * size = 0
  BY <1>1
<1>4. cut \in [0 .. n -> 0 .. Len(rows)] /\ cut[0] = 0
  <2>1. ASSUME NEW i \in 0 .. n PROVE i * size \in 0 .. Len(rows)
    <3>1. CASE i = 0
      BY <1>3, <3>1
    <3>2. CASE i # 0
      <4>1. i \in 1 .. n
        BY <3>2
      <4>. QED  BY <1>1, <4>1
    <3>. QED  BY <3>1, <3>2
  <2>2. cut[0] = 0
    BY <1>3
  <2>. QED  BY <2>1, <2>2
<1>5. ASSUME NEW i \in 1 .. n PROVE cut[i - 1] <= cut[i] /\ s[i] = SubSeq(rows, cut[i - 1] + 1, cut[i])
  <2>1. cut[i - 1] = (i - 1) * size /\ cut[i] = i * size
    OBVIOUS
  <2>2. s[i] = ChunkOf(rows, n, i)
    OBVIOUS
  <2>. QED  BY <1>1, <2>1, <2>2
<1>6. cut[n] = Len(rows)
  BY <1>1
<1>. HIDE DEF cut
<1>7. FlattenSeq(s) = SubSeq(rows, 1, cut[n])
  <2>1. Slices(s, rows, cut)
    BY <1>2, <1>4, <1>5 DEF Slices
  <2>. QED  BY <1>2, <2>1, FlattenSlices
<1>8. SubSeq(rows, 1, Len(rows)) = rows
  OBVIOUS
<1>. QED  BY <1>6, <1>7, <1>8

LEMMA Ceiling ==
    ASSUME NEW n \in Nat, NEW d \in Nat \ {0}
    PROVE  /\ CeilDiv(n, d) \in Nat /\ (n > 0 => CeilDiv(n, d) >= 1)
           /\ (CeilDiv(n, d) - 1) * d \in Int /\ CeilDiv(n, d) * d \in Nat
           /\ (CeilDiv(n, d) - 1) * d < n /\ n <= CeilDiv(n, d) * d
<1>. DEFINE a == n + d - 1
            q == a \div d
            r == a % d
<1>1. a \in Nat
  OBVIOUS
<1>2. q \in Nat /\ r \in 0 .. d - 1 /\ a = q * d + r
  <2>. HIDE DEF a
  <2>. QED  BY <1>1, Quotient
<1>3. CeilDiv(n, d) = q
  BY DEF CeilDiv
<1>. HIDE DEF q, r
<1>4. q * d \in Nat /\ (q - 1) * d = q * d - d
  BY <1>2
<1>5. n > 0 => q # 0
  <2>1. q = 0 => q * d = 0
    BY <1>2
  <2>. QED  BY <1>2, <2>1
<1>6. (q - 1) * d \in Int /\ (q - 1) * d < n /\ n <= q * d
  BY <1>2, <1>4
<1>. QED  BY <1>2, <1>3, <1>4, <1>5, <1>6

CutAt(n, d) == [i \in 0 .. CeilDiv(n, d) |-> Minimum(i * d, n)]

LEMMA CutsOf ==
    ASSUME NEW n \in Nat, NEW d \in Nat \ {0}
    PROVE  /\ CutAt(n, d) \in [0 .. CeilDiv(n, d) -> 0 .. n]
           /\ CutAt(n, d)[0] = 0 /\ CutAt(n, d)[CeilDiv(n, d)] = n
           /\ \A i \in 1 .. CeilDiv(n, d) :
                /\ CutAt(n, d)[i - 1] < CutAt(n, d)[i]
                /\ CutAt(n, d)[i - 1] = (i - 1) * d
           /\ \A i, j \in 1 .. CeilDiv(n, d) : i < j => CutAt(n, d)[i] <= CutAt(n, d)[j - 1]
           /\ \A p \in 1 .. n : \E i \in 1 .. CeilDiv(n, d) : CutAt(n, d)[i - 1] < p /\ p <= CutAt(n, d)[i]
<1>. DEFINE q == CeilDiv(n, d)
            cut == CutAt(n, d)
<1>1. q \in Nat /\ (q - 1) * d \in Int /\ q * d \in Nat /\ (q - 1) * d < n /\ n <= q * d
  BY Ceiling
<1>2. cut = [i \in 0 .. q |-> Minimum(i * d, n)]
  BY DEF CutAt
<1>. HIDE DEF q, cut
<1>3. \A i \in 0 .. q : i * d \in Nat
  OBVIOUS
<1>4. \A i \in 0 .. q : cut[i] = (IF i * d < n THEN i * d ELSE n) /\ cut[i] \in 0 .. n
  BY <1>2, <1>3 DEF Minimum
<1>5. cut \in [0 .. q -> 0 .. n]
  BY <1>2, <1>4
<1>6. cut[0] = 0 /\ cut[q] = n
  <2>1. 0 \in 0 .. q /\ q \in 0 .. q /\ 0 * d = 0
    BY <1>1
  <2>. QED  BY <1>1, <1>4, <2>1
<1>7. ASSUME NEW i \in 1 .. q
      PROVE  /\ i - 1 \in 0 .. q /\ i \in 0 .. q /\ (i - 1) * d \in Nat /\ i * d = (i - 1) * d + d
             /\ cut[i - 1] = (i - 1) * d /\ (i - 1) * d < n /\ cut[i - 1] < cut[i]
  <2>1. i - 1 \in 0 .. q /\ i \in 0 .. q /\ i - 1 \in Nat
    BY <1>1
  <2>2. (i - 1) * d \in Nat /\ i * d = (i - 1) * d + d
    BY <1>1
  <2>3. (i - 1) * d <= (q - 1) * d
    <3>1. CASE i = q
      BY <1>1, <3>1
    <3>2. CASE i # q
      <4>1. i - 1 < q - 1 /\ q - 1 \in Nat
        BY <1>1, <3>2
      <4>2. (i - 1) * d + d <= (q - 1) * d
        BY <2>1, <4>1, Multiples
      <4>. QED  BY <1>1, <2>2, <4>2
    <3>. QED  BY <3>1, <3>2
  <2>4. (i - 1) * d < n
    BY <1>1, <2>2, <2>3
  <2>5. cut[i - 1] = (i - 1) * d
    BY <1>4, <2>1, <2>4
  <2>6. cut[i - 1] < cut[i]
    BY <1>4, <2>1, <2>2, <2>4, <2>5
  <2>. QED  BY <2>1, <2>2, <2>4, <2>5, <2>6
<1>8. ASSUME NEW i \in 1 .. q, NEW j \in 1 .. q, i < j PROVE cut[i] <= cut[j - 1]
  <2>1. cut[j - 1] = (j - 1) * d /\ (j - 1) * d \in Nat /\ i * d \in Nat
    BY <1>3, <1>7
  <2>2. i * d <= (j - 1) * d
    <3>1. CASE i = j - 1
      BY <2>1, <3>1
    <3>2. CASE i # j - 1
      <4>1. i \in Nat /\ j - 1 \in Nat /\ i < j - 1
        BY <1>8, <3>2
      <4>2. i * d + d <= (j - 1) * d
        BY <4>1, Multiples
      <4>. QED  BY <2>1, <4>2
    <3>. QED  BY <3>1, <3>2
  <2>3. cut[i] <= i * d
    <3>1. i \in 0 .. q
      OBVIOUS
    <3>. QED  BY <1>4, <2>1, <3>1
  <2>4. cut[i] \in 0 .. n
    BY <1>4
  <2>. QED  BY <2>1, <2>2, <2>3, <2>4
<1>9. ASSUME NEW p \in 1 .. n PROVE \E i \in 1 .. q : cut[i - 1] < p /\ p <= cut[i]
  <2>. DEFINE i == CeilDiv(p, d)
  <2>1. i \in Nat /\ i >= 1 /\ (i - 1) * d \in Int /\ i * d \in Nat /\ (i - 1) * d < p /\ p <= i * d
    BY Ceiling
  <2>. HIDE DEF i
  <2>2. i <= q
    <3>. SUFFICES ASSUME q < i PROVE FALSE
      BY <1>1, <2>1
    <3>1. CASE q = i - 1
      BY <1>1, <2>1, <3>1
    <3>2. CASE q # i - 1
      <4>1. q < i - 1 /\ i - 1 \in Nat
        BY <1>1, <2>1, <3>2
      <4>2. q * d + d <= (i - 1) * d
        BY <1>1, <4>1, Multiples
      <4>. QED  BY <1>1, <2>1, <4>2
    <3>. QED  BY <3>1, <3>2
  <2>3. i \in 1 .. q /\ i \in 0 .. q
    BY <1>1, <2>1, <2>2
  <2>4. cut[i - 1] < p
    BY <1>7, <2>1, <2>3
  <2>5. p <= cut[i]
    BY <1>4, <2>1, <2>3
  <2>. QED  BY <2>3, <2>4, <2>5
<1>. QED  BY <1>5, <1>6, <1>7, <1>8, <1>9 DEF q, cut

LEMMA SplitIs ==
    ASSUME NEW T, NEW rows \in Seq(T), NEW d \in Nat \ {0}
    PROVE  /\ Split(rows, d) \in Seq(Seq(T)) /\ Len(Split(rows, d)) = CeilDiv(Len(rows), d)
           /\ Slices(Split(rows, d), rows, CutAt(Len(rows), d))
           /\ FlattenSeq(Split(rows, d)) = rows
<1>. DEFINE n == Len(rows)
            q == CeilDiv(n, d)
            cut == CutAt(n, d)
            s == Split(rows, d)
<1>1. n \in Nat
  OBVIOUS
<1>2. q \in Nat
  <2>. HIDE DEF n
  <2>. QED  BY <1>1, Ceiling
<1>3. /\ cut \in [0 .. q -> 0 .. n] /\ cut[0] = 0 /\ cut[q] = n
      /\ \A i \in 1 .. q : cut[i - 1] < cut[i] /\ cut[i - 1] = (i - 1) * d
  <2>. HIDE DEF n
  <2>. QED  BY <1>1, CutsOf
<1>4. s = [i \in 1 .. q |-> SubSeq(rows, (i - 1) * d + 1, Minimum(i * d, n))]
  BY DEF Split
<1>5. \A i \in 0 .. q : cut[i] = Minimum(i * d, n)
  BY DEF CutAt
<1>. HIDE DEF n, q, cut, s
<1>6. ASSUME NEW i \in 1 .. q
      PROVE  /\ cut[i - 1] <= cut[i] /\ s[i] = SubSeq(rows, cut[i - 1] + 1, cut[i])
             /\ SubSeq(rows, cut[i - 1] + 1, cut[i]) \in Seq(T)
  <2>1. i \in 0 .. q /\ i - 1 \in 0 .. q
    BY <1>2
  <2>2. cut[i - 1] \in 0 .. n /\ cut[i] \in 0 .. n
    BY <1>3, <2>1
  <2>3. cut[i - 1] = (i - 1) * d /\ cut[i] = Minimum(i * d, n) /\ cut[i - 1] < cut[i]
    BY <1>3, <1>5, <2>1
  <2>4. SubSeq(rows, cut[i - 1] + 1, cut[i]) \in Seq(T)
    BY <1>1, <2>2 DEF n
  <2>. QED  BY <1>1, <1>4, <2>2, <2>3, <2>4
<1>7. s \in Seq(Seq(T)) /\ Len(s) = q
  <2>1. \A i \in 1 .. q : s[i] \in Seq(T)
    BY <1>6
  <2>2. s = [i \in 1 .. q |-> s[i]]
    BY <1>4
  <2>. QED  BY <1>2, <2>1, <2>2, SMTT(40)
<1>8. Slices(s, rows, cut)
  BY <1>3, <1>6, <1>7 DEF Slices, n
<1>9. FlattenSeq(s) = SubSeq(rows, 1, cut[q])
  BY <1>7, <1>8, FlattenSlices
<1>10. SubSeq(rows, 1, n) = rows
  BY DEF n
<1>. QED  BY <1>3, <1>7, <1>8, <1>9, <1>10 DEF s, q, cut, n

-----------------------------------------------------------------------------
(* Sequences whose elements are different, and permutations *)
Distinct(s) == \A i, j \in 1 .. Len(s) : s[i] = s[j] => i = j
Has(s, x)   == \E i \in 1 .. Len(s) : s[i] = x

Permutes(idx, n) == idx \in Seq(1 .. n) /\ Len(idx) = n /\ Distinct(idx) /\ \A x \in 1 .. n : Has(idx, x)

LEMMA AscendingIs ==
    ASSUME NEW S \in SUBSET Nat, IsFiniteSet(S)
    PROVE  /\ Ascending(S) \in Seq(S) /\ Len(Ascending(S)) = Cardinality(S)
           /\ Distinct(Ascending(S)) /\ \A x \in S : Has(Ascending(S), x)
<1>. DEFINE c == Cardinality(S)
            Below(x) == {y \in S : y < x}
            a == Ascending(S)
<1>1. c \in Nat
  BY FS_CardinalityType
<1>2. ASSUME NEW x \in S
      PROVE  /\ IsFiniteSet(Below(x)) /\ Cardinality(Below(x)) \in 0 .. c - 1
             /\ Cardinality(Below(x) \cup {x}) = Cardinality(Below(x)) + 1
  <2>1. x \notin Below(x) /\ Below(x) \in SUBSET S /\ Below(x) \cup {x} \in SUBSET S
    OBVIOUS
  <2>. HIDE DEF Below
  <2>2. IsFiniteSet(Below(x)) /\ Cardinality(Below(x)) \in Nat
    BY <2>1, FS_Subset, FS_CardinalityType
  <2>3. Cardinality(Below(x) \cup {x}) = Cardinality(Below(x)) + 1
    BY <2>1, <2>2, FS_AddElement
  <2>4. Cardinality(Below(x) \cup {x}) <= c
    BY <2>1, FS_Subset
  <2>. QED  BY <1>1, <2>2, <2>3, <2>4
<1>3. ASSUME NEW x \in S, NEW y \in S, x < y PROVE Cardinality(Below(x)) < Cardinality(Below(y))
  <2>1. Below(x) \cup {x} \in SUBSET Below(y)
    <3>. SUFFICES ASSUME NEW z \in S, z < x PROVE z < y
      BY <1>3
    <3>1. x \in Nat /\ y \in Nat /\ z \in Nat
      OBVIOUS
    <3>. QED  BY <1>3, <3>1
  <2>. HIDE DEF Below
  <2>2. Cardinality(Below(x) \cup {x}) <= Cardinality(Below(y))
    BY <1>2, <2>1, FS_Subset
  <2>3. /\ Cardinality(Below(x)) \in 0 .. c - 1 /\ Cardinality(Below(y)) \in 0 .. c - 1
        /\ Cardinality(Below(x) \cup {x}) = Cardinality(Below(x)) + 1
    BY <1>2
  <2>. QED  BY <1>1, <2>2, <2>3
<1>. DEFINE pos == [x \in S |-> Cardinality(Below(x))]
<1>4. pos \in Injection(S, 0 .. c - 1)
  <2>1. pos \in [S -> 0 .. c - 1]
    <3>. HIDE DEF Below
    <3>. QED  BY <1>2
  <2>2. ASSUME NEW x \in S, NEW y \in S, x # y PROVE pos[x] # pos[y]
    <3>1. x < y \/ y < x
      <4>1. x \in Nat /\ y \in Nat
        OBVIOUS
      <4>. QED  BY <2>2, <4>1
    <3>2. pos[x] = Cardinality(Below(x)) /\ pos[y] = Cardinality(Below(y))
      OBVIOUS
    <3>3. pos[x] \in Int /\ pos[y] \in Int
      BY <2>1
    <3>. HIDE DEF pos, Below
    <3>. QED  BY <1>3, <3>1, <3>2, <3>3
  <2>. HIDE DEF pos
  <2>. QED  BY <2>1, <2>2 DEF Injection, IsInjective
<1>5. IsFiniteSet(0 .. c - 1) /\ Cardinality(0 .. c - 1) = c
  BY <1>1, IntervalCounts
<1>6. pos \in Surjection(S, 0 .. c - 1)
  <2>. HIDE DEF pos
  <2>. QED  BY <1>4, <1>5, FS_Injection
<1>7. a = [i \in 1 .. c |-> CHOOSE x \in S : Cardinality(Below(x)) = i - 1]
  BY DEF Ascending
<1>8. ASSUME NEW i \in 1 .. c PROVE a[i] \in S /\ pos[a[i]] = i - 1
  <2>1. i - 1 \in 0 .. c - 1
    BY <1>1
  <2>2. PICK y \in S : pos[y] = i - 1
    BY <1>6, <2>1 DEF Surjection
  <2>3. Cardinality(Below(y)) = i - 1
    BY <2>2
  <2>4. a[i] = CHOOSE x \in S : Cardinality(Below(x)) = i - 1
    BY <1>7
  <2>5. a[i] \in S /\ Cardinality(Below(a[i])) = i - 1
    <3>. HIDE DEF Below, a
    <3>. QED  BY <2>3, <2>4
  <2>. HIDE DEF Below, a
  <2>. QED  BY <2>5
<1>9. a \in Seq(S) /\ Len(a) = c
  <2>1. a = [i \in 1 .. c |-> a[i]]
    BY <1>7
  <2>. HIDE DEF a, pos
  <2>. QED  BY <1>1, <1>8, <2>1
<1>10. Distinct(a)
  <2>. HIDE DEF a, pos
  <2>. SUFFICES ASSUME NEW i \in 1 .. c, NEW j \in 1 .. c, a[i] = a[j] PROVE i = j
    BY <1>9 DEF Distinct
  <2>1. i - 1 = j - 1
    BY <1>8
  <2>. QED  BY <2>1
<1>11. ASSUME NEW x \in S PROVE Has(a, x)
  <2>1. pos[x] \in 0 .. c - 1
    BY <1>2
  <2>. DEFINE i == pos[x] + 1
  <2>2. i \in 1 .. c /\ i - 1 = pos[x]
    <3>. HIDE DEF pos
    <3>. QED  BY <1>1, <2>1
  <2>3. a[i] \in S /\ pos[a[i]] = pos[x]
    <3>. HIDE DEF pos, a, i
    <3>. QED  BY <1>8, <2>2
  <2>4. a[i] = x
    <3>. HIDE DEF pos, a, i
    <3>. QED  BY <1>4, <2>3 DEF Injection, IsInjective
  <2>. HIDE DEF a, pos, i
  <2>. QED  BY <1>9, <2>2, <2>4 DEF Has
<1>. QED  BY <1>9, <1>10, <1>11

LEMMA ConcatDistinct ==
    ASSUME NEW T, NEW s \in Seq(T), NEW t \in Seq(T)
    PROVE  /\ \A x : Has(s \o t, x) <=> Has(s, x) \/ Has(t, x)
           /\ Distinct(s) /\ Distinct(t) /\ (\A x : ~ (Has(s, x) /\ Has(t, x))) => Distinct(s \o t)
<1>. DEFINE u == s \o t
            m == Len(s)
            n == Len(t)
<1>1. /\ u \in Seq(T) /\ Len(u) = m + n /\ m \in Nat /\ n \in Nat
      /\ \A i \in 1 .. m + n : u[i] = IF i <= m THEN s[i] ELSE t[i - m]
  BY ConcatProperties
<1>. HIDE DEF u
<1>2. /\ \A i \in 1 .. m : i \in 1 .. m + n /\ u[i] = s[i]
      /\ \A i \in 1 .. n : m + i \in 1 .. m + n /\ u[m + i] = t[i]
      /\ \A i \in 1 .. m + n : i \in 1 .. m \/ (i - m \in 1 .. n /\ u[i] = t[i - m])
  BY <1>1
<1>3. ASSUME NEW x PROVE Has(u, x) <=> Has(s, x) \/ Has(t, x)
  <2>1. ASSUME Has(s, x) \/ Has(t, x) PROVE Has(u, x)
    BY <1>1, <1>2, <2>1 DEF Has
  <2>2. ASSUME Has(u, x) PROVE Has(s, x) \/ Has(t, x)
    BY <1>1, <1>2, <2>2 DEF Has
  <2>. QED  BY <2>1, <2>2
<1>4. ASSUME Distinct(s), Distinct(t), \A x : ~ (Has(s, x) /\ Has(t, x)) PROVE Distinct(u)
  <2>. SUFFICES ASSUME NEW i \in 1 .. m + n, NEW j \in 1 .. m + n, u[i] = u[j] PROVE i = j
    BY <1>1 DEF Distinct
  <2>1. CASE i \in 1 .. m /\ j \in 1 .. m
    BY <1>2, <1>4, <2>1 DEF Distinct
  <2>2. CASE i \in 1 .. m /\ j \notin 1 .. m
    BY <1>2, <1>4, <2>2 DEF Has
  <2>3. CASE i \notin 1 .. m /\ j \in 1 .. m
    BY <1>2, <1>4, <2>3 DEF Has
  <2>4. CASE i \notin 1 .. m /\ j \notin 1 .. m
    <3>1. i - m \in 1 .. n /\ j - m \in 1 .. n /\ t[i - m] = t[j - m]
      BY <1>2, <2>4
    <3>2. i - m = j - m
      BY <1>4, <3>1 DEF Distinct
    <3>. QED  BY <1>1, <3>2
  <2>. QED  BY <2>1, <2>2, <2>3, <2>4
<1>. QED  BY <1>3, <1>4 DEF u

LEMMA FlattenDistinct ==
    ASSUME NEW T, NEW s \in Seq(Seq(T)),
           \A i \in 1 .. Len(s) : Distinct(s[i]),
           \A i, j \in 1 .. Len(s) : i # j => \A x : ~ (Has(s[i], x) /\ Has(s[j], x))
    PROVE  /\ FlattenSeq(s) \in Seq(T) /\ Distinct(FlattenSeq(s))
           /\ \A x : Has(FlattenSeq(s), x) <=> \E i \in 1 .. Len(s) : Has(s[i], x)
<1>. DEFINE n == Len(s)
<1>1. n \in Nat /\ \A i \in 1 .. n : s[i] \in Seq(T)
  OBVIOUS
<1>2. PICK f : Joining(s, f, T) /\ FlattenSeq(s) = f[n]
  BY FlattenJoins
<1>3. f[0] = <<>> /\ \A i \in 1 .. n : f[i] = f[i - 1] \o s[i]
  BY <1>2 DEF Joining
<1>4. \A i \in 0 .. n : f[i] \in Seq(T)
  BY <1>2 DEF Joining
<1>5. /\ \A i \in 1 .. n : Distinct(s[i])
      /\ \A i, j \in 1 .. n : i # j => \A x : ~ (Has(s[i], x) /\ Has(s[j], x))
  OBVIOUS
<1>. HIDE DEF n
<1>. DEFINE S == {m \in 0 .. n : Distinct(f[m]) /\ \A x : Has(f[m], x) <=> \E i \in 1 .. m : Has(s[i], x)}
<1>6. 0 \in S
  <2>1. 0 \in 0 .. n /\ Len(<<>>) = 0 /\ 1 .. 0 = {}
    BY <1>1
  <2>2. Distinct(<<>>) /\ \A x : ~ Has(<<>>, x)
    BY <2>1 DEF Distinct, Has
  <2>. QED  BY <1>3, <2>1, <2>2
<1>7. ASSUME NEW m \in 0 .. n - 1, m \in S PROVE m + 1 \in S
  <2>1. m + 1 \in 1 .. n /\ m + 1 \in 0 .. n /\ (m + 1) - 1 = m /\ m \in 0 .. n
    BY <1>1
  <2>. DEFINE a == f[m]
              b == s[m + 1]
              c == f[m + 1]
  <2>2. c = a \o b /\ a \in Seq(T) /\ b \in Seq(T)
    BY <1>1, <1>3, <1>4, <2>1
  <2>3. Distinct(a) /\ Distinct(b) /\ \A x : Has(a, x) <=> \E i \in 1 .. m : Has(s[i], x)
    BY <1>5, <1>7, <2>1
  <2>4. \A i \in 1 .. m : i \in 1 .. n /\ i # m + 1
    BY <1>1
  <2>5. \A x : ~ (Has(a, x) /\ Has(b, x))
    BY <1>5, <2>1, <2>3, <2>4
  <2>. HIDE DEF a, c
  <2>6. Distinct(c) /\ \A x : Has(c, x) <=> Has(a, x) \/ Has(b, x)
    <3>. HIDE DEF b
    <3>. QED  BY <2>2, <2>3, <2>5, ConcatDistinct
  <2>7. \A i : i \in 1 .. m + 1 <=> i \in 1 .. m \/ i = m + 1
    BY <1>1
  <2>8. \A x : Has(c, x) <=> \E i \in 1 .. m + 1 : Has(s[i], x)
    BY <2>3, <2>6, <2>7
  <2>. QED  BY <2>1, <2>6, <2>8 DEF c
<1>8. 0 .. n \subseteq S
  <2>. HIDE DEF S
  <2>. QED  BY <1>1, <1>6, <1>7, InductUpTo
<1>9. n \in 0 .. n
  BY <1>1
<1>. QED  BY <1>2, <1>4, <1>8, <1>9 DEF n

LEMMA PermutesWhen ==
    ASSUME NEW n \in Nat, NEW idx \in Seq(1 .. n), Distinct(idx), \A x \in 1 .. n : Has(idx, x)
    PROVE  Permutes(idx, n)
<1>. DEFINE D == 1 .. Len(idx)
<1>1. Len(idx) \in Nat /\ idx \in [D -> 1 .. n]
  OBVIOUS
<1>2. IsFiniteSet(D) /\ Cardinality(D) = Len(idx) /\ IsFiniteSet(1 .. n) /\ Cardinality(1 .. n) = n
  BY <1>1, IntervalCounts
<1>3. idx \in Bijection(D, 1 .. n)
  BY <1>1 DEF Distinct, Has, Bijection, Injection, Surjection, IsInjective
<1>4. n = Len(idx)
  <2>. HIDE DEF D
  <2>1. ExistsBijection(D, 1 .. n)
    BY <1>3 DEF ExistsBijection
  <2>. QED  BY <1>2, <2>1, FS_Bijection
<1>. QED  BY <1>4 DEF Permutes

(* The buckets of a partition, each in its order, one after the other. *)
LEMMA PartitionPermutes ==
    ASSUME NEW n \in Nat, NEW k \in Nat, NEW P \in [1 .. k -> SUBSET (1 .. n)],
           \A x \in 1 .. n : \E i \in 1 .. k : x \in P[i],
           \A i, j \in 1 .. k : i # j => P[i] \cap P[j] = {},
           NEW s, s = [i \in 1 .. k |-> Ascending(P[i])]
    PROVE  /\ s \in Seq(Seq(1 .. n)) /\ Len(s) = k
           /\ \A i \in 1 .. k : Len(s[i]) = Cardinality(P[i]) /\ \A x : Has(s[i], x) <=> x \in P[i]
           /\ Permutes(FlattenSeq(s), n)
<1>1. ASSUME NEW i \in 1 .. k
      PROVE  /\ s[i] \in Seq(1 .. n) /\ Len(s[i]) = Cardinality(P[i]) /\ Distinct(s[i])
             /\ \A x : Has(s[i], x) <=> x \in P[i]
  <2>. DEFINE Q == P[i]
              a == Ascending(Q)
  <2>1. Q \in SUBSET (1 .. n) /\ Q \in SUBSET Nat /\ s[i] = a
    OBVIOUS
  <2>. HIDE DEF Q
  <2>2. IsFiniteSet(Q)
    BY <2>1, IntervalCounts, FS_Subset
  <2>3. a \in Seq(Q) /\ Len(a) = Cardinality(Q) /\ Distinct(a) /\ \A x \in Q : Has(a, x)
    BY <2>1, <2>2, AscendingIs
  <2>. HIDE DEF a
  <2>4. \A x : Has(a, x) => x \in Q
    BY <2>3 DEF Has
  <2>5. a \in Seq(1 .. n)
    <3>1. Len(a) \in Nat /\ a = [h \in 1 .. Len(a) |-> a[h]] /\ \A h \in 1 .. Len(a) : a[h] \in Q
      BY <2>3
    <3>2. \A h \in 1 .. Len(a) : a[h] \in 1 .. n
      BY <2>1, <3>1
    <3>. QED  BY <3>1, <3>2
  <2>. QED  BY <2>1, <2>3, <2>4, <2>5 DEF Q
<1>2. s \in Seq(Seq(1 .. n)) /\ Len(s) = k
  BY <1>1
<1>3. \A i, j \in 1 .. k : i # j => \A x : ~ (Has(s[i], x) /\ Has(s[j], x))
  BY <1>1
<1>4. /\ FlattenSeq(s) \in Seq(1 .. n) /\ Distinct(FlattenSeq(s))
      /\ \A x : Has(FlattenSeq(s), x) <=> \E i \in 1 .. k : Has(s[i], x)
  <2>1. \A i \in 1 .. Len(s) : Distinct(s[i])
    BY <1>1, <1>2
  <2>2. \A i, j \in 1 .. Len(s) : i # j => \A x : ~ (Has(s[i], x) /\ Has(s[j], x))
    BY <1>2, <1>3
  <2>3. /\ FlattenSeq(s) \in Seq(1 .. n) /\ Distinct(FlattenSeq(s))
        /\ \A x : Has(FlattenSeq(s), x) <=> \E i \in 1 .. Len(s) : Has(s[i], x)
    BY <1>2, <2>1, <2>2, FlattenDistinct
  <2>. QED  BY <1>2, <2>3
<1>5. \A x \in 1 .. n : Has(FlattenSeq(s), x)
  BY <1>1, <1>4
<1>. QED  BY <1>1, <1>2, <1>4, <1>5, PermutesWhen

-----------------------------------------------------------------------------
(* Rows picked by index *)
LEMMA PickIs ==
    ASSUME NEW T, NEW rows \in Seq(T), NEW idx \in Seq(1 .. Len(rows))
    PROVE  /\ Pick(rows, idx) \in Seq(T) /\ Len(Pick(rows, idx)) = Len(idx)
           /\ \A i \in 1 .. Len(idx) : idx[i] \in 1 .. Len(rows) /\ Pick(rows, idx)[i] = rows[idx[i]]
           /\ \A x : Has(Pick(rows, idx), x) => Has(rows, x)
           /\ Distinct(rows) /\ Distinct(idx) => Distinct(Pick(rows, idx))
<1>. DEFINE m == Len(idx)
            p == Pick(rows, idx)
<1>1. m \in Nat /\ DOMAIN idx = 1 .. m /\ \A i \in 1 .. m : idx[i] \in 1 .. Len(rows)
  OBVIOUS
<1>2. p = [i \in 1 .. m |-> rows[idx[i]]]
  BY <1>1 DEF Pick
<1>3. \A i \in 1 .. m : rows[idx[i]] \in T
  BY <1>1
<1>4. p \in Seq(T) /\ Len(p) = m /\ \A i \in 1 .. m : p[i] = rows[idx[i]]
  <2>. HIDE DEF m, p
  <2>. QED  BY <1>1, <1>2, <1>3
<1>. HIDE DEF p, m
<1>5. \A x : Has(p, x) => Has(rows, x)
  BY <1>1, <1>4 DEF Has
<1>6. Distinct(rows) /\ Distinct(idx) => Distinct(p)
  BY <1>1, <1>4 DEF Distinct, m
<1>. QED  BY <1>1, <1>4, <1>5, <1>6 DEF p, m

LEMMA PickConcat ==
    ASSUME NEW T, NEW rows \in Seq(T), NEW a \in Seq(1 .. Len(rows)), NEW b \in Seq(1 .. Len(rows))
    PROVE  Pick(rows, a \o b) = Pick(rows, a) \o Pick(rows, b)
<1>. DEFINE D == 1 .. Len(rows)
            m == Len(a)
            n == Len(b)
            u == a \o b
            v == Pick(rows, a) \o Pick(rows, b)
<1>1. /\ u \in Seq(D) /\ Len(u) = m + n /\ m \in Nat /\ n \in Nat
      /\ \A i \in 1 .. m + n : u[i] = IF i <= m THEN a[i] ELSE b[i - m]
  BY ConcatProperties
<1>2. /\ Pick(rows, a) \in Seq(T) /\ Len(Pick(rows, a)) = m /\ \A i \in 1 .. m : Pick(rows, a)[i] = rows[a[i]]
      /\ Pick(rows, b) \in Seq(T) /\ Len(Pick(rows, b)) = n /\ \A i \in 1 .. n : Pick(rows, b)[i] = rows[b[i]]
  BY PickIs
<1>3. /\ v \in Seq(T) /\ Len(v) = m + n
      /\ \A i \in 1 .. m + n : v[i] = IF i <= m THEN Pick(rows, a)[i] ELSE Pick(rows, b)[i - m]
  <2>. DEFINE x == Pick(rows, a)
              y == Pick(rows, b)
  <2>1. x \in Seq(T) /\ Len(x) = m /\ y \in Seq(T) /\ Len(y) = n
    BY <1>2
  <2>. HIDE DEF x, y, m, n
  <2>2. /\ x \o y \in Seq(T) /\ Len(x \o y) = m + n
        /\ \A i \in 1 .. m + n : (x \o y)[i] = IF i <= m THEN x[i] ELSE y[i - m]
    BY <2>1, ConcatProperties
  <2>. QED  BY <2>2 DEF x, y
<1>. HIDE DEF D, u, v
<1>4. /\ Pick(rows, u) \in Seq(T) /\ Len(Pick(rows, u)) = m + n
      /\ \A i \in 1 .. m + n : Pick(rows, u)[i] = rows[u[i]]
  <2>1. u \in Seq(1 .. Len(rows)) /\ Len(u) = m + n
    BY <1>1 DEF D
  <2>. HIDE DEF m, n
  <2>2. /\ Pick(rows, u) \in Seq(T) /\ Len(Pick(rows, u)) = Len(u)
        /\ \A i \in 1 .. Len(u) : Pick(rows, u)[i] = rows[u[i]]
    BY <2>1, PickIs
  <2>. QED  BY <2>1, <2>2
<1>5. ASSUME NEW i \in 1 .. m + n PROVE Pick(rows, u)[i] = v[i]
  <2>1. CASE i <= m
    <3>1. i \in 1 .. m
      BY <1>1, <2>1
    <3>. QED  BY <1>1, <1>2, <1>3, <1>4, <2>1, <3>1
  <2>2. CASE ~ (i <= m)
    <3>1. i - m \in 1 .. n
      BY <1>1, <2>2
    <3>. QED  BY <1>1, <1>2, <1>3, <1>4, <2>2, <3>1, ZenonT(40)
  <2>. QED  BY <2>1, <2>2
<1>6. Pick(rows, u) = v
  <2>. DEFINE w == Pick(rows, u)
  <2>1. w \in Seq(T) /\ Len(w) = Len(v) /\ \A i \in 1 .. Len(v) : w[i] = v[i]
    BY <1>3, <1>4, <1>5
  <2>. HIDE DEF w
  <2>2. w = v
    BY <1>3, <2>1, SeqEqual
  <2>. QED  BY <2>2 DEF w
<1>. QED  BY <1>6 DEF u, v

LEMMA PickPermutation ==
    ASSUME NEW T, NEW rows \in Seq(T), NEW idx, Permutes(idx, Len(rows))
    PROVE  /\ Pick(rows, idx) \in Seq(T) /\ Len(Pick(rows, idx)) = Len(rows)
           /\ \A x : Has(Pick(rows, idx), x) <=> Has(rows, x)
           /\ Distinct(rows) => Distinct(Pick(rows, idx))
           /\ Pick(Pick(rows, idx), ReverseIdx(idx)) = rows
<1>. DEFINE n == Len(rows)
            p == Pick(rows, idx)
            rev == ReverseIdx(idx)
<1>1. idx \in Seq(1 .. n) /\ Len(idx) = n /\ Distinct(idx) /\ (\A x \in 1 .. n : Has(idx, x)) /\ n \in Nat
  BY DEF Permutes
<1>2. /\ p \in Seq(T) /\ Len(p) = n
      /\ \A i \in 1 .. n : idx[i] \in 1 .. n /\ p[i] = rows[idx[i]]
      /\ \A x : Has(p, x) => Has(rows, x)
      /\ Distinct(rows) => Distinct(p)
  BY <1>1, PickIs
<1>. HIDE DEF p
<1>3. ASSUME NEW x, Has(rows, x) PROVE Has(p, x)
  <2>1. PICK j \in 1 .. n : rows[j] = x
    BY <1>3 DEF Has
  <2>2. PICK i \in 1 .. n : idx[i] = j
    BY <1>1, <2>1 DEF Has
  <2>. QED  BY <1>2, <2>1, <2>2 DEF Has
<1>4. ASSUME NEW j \in 1 .. n PROVE rev[j] \in 1 .. n /\ idx[rev[j]] = j
  <2>1. DOMAIN idx = 1 .. n
    BY <1>1
  <2>2. rev[j] = CHOOSE i \in 1 .. n : idx[i] = j
    BY <2>1 DEF ReverseIdx
  <2>3. \E i \in 1 .. n : idx[i] = j
    BY <1>1 DEF Has
  <2>. HIDE DEF rev
  <2>. QED  BY <2>2, <2>3
<1>5. rev \in Seq(1 .. n) /\ Len(rev) = n
  <2>1. rev = [j \in 1 .. n |-> rev[j]]
    BY <1>1 DEF ReverseIdx
  <2>. HIDE DEF rev
  <2>. QED  BY <1>1, <1>4, <2>1
<1>. HIDE DEF rev
<1>6. Pick(p, rev) = rows
  <2>. DEFINE w == Pick(p, rev)
  <2>1. w \in Seq(T) /\ Len(w) = n /\ \A j \in 1 .. n : w[j] = p[rev[j]]
    <3>1. rev \in Seq(1 .. Len(p)) /\ Len(rev) = n
      BY <1>2, <1>5
    <3>. QED  BY <1>2, <3>1, PickIs
  <2>. HIDE DEF w
  <2>2. \A j \in 1 .. n : w[j] = rows[j]
    BY <1>2, <1>4, <2>1
  <2>3. w = rows
    BY <2>1, <2>2, SeqEqual
  <2>. QED  BY <2>3 DEF w
<1>. QED  BY <1>2, <1>3, <1>6 DEF p, rev

LEMMA IdentityPermutes ==
    ASSUME NEW n \in Nat
    PROVE  Permutes([i \in 1 .. n |-> i], n)
<1>. DEFINE id == [i \in 1 .. n |-> i]
<1>1. id \in Seq(1 .. n) /\ Len(id) = n /\ \A i \in 1 .. n : id[i] = i
  OBVIOUS
<1>. HIDE DEF id
<1>2. Permutes(id, n)
  BY <1>1 DEF Permutes, Distinct, Has
<1>. QED  BY <1>2 DEF id

LEMMA PickIdentity ==
    ASSUME NEW T, NEW rows \in Seq(T)
    PROVE  Pick(rows, [i \in DOMAIN rows |-> i]) = rows
<1>1. rows = [i \in DOMAIN rows |-> rows[i]]
  OBVIOUS
<1>. QED  BY <1>1 DEF Pick

LEMMA DistinctLength ==
    ASSUME NEW n \in Nat, NEW s \in Seq(1 .. n), Distinct(s)
    PROVE  Len(s) \in 0 .. n
<1>. DEFINE D == 1 .. Len(s)
<1>1. Len(s) \in Nat /\ s \in [D -> 1 .. n]
  OBVIOUS
<1>2. IsFiniteSet(D) /\ Cardinality(D) = Len(s) /\ IsFiniteSet(1 .. n) /\ Cardinality(1 .. n) = n
  BY <1>1, IntervalCounts
<1>3. s \in Injection(D, 1 .. n)
  BY <1>1 DEF Distinct, Injection, IsInjective
<1>4. Cardinality(D) <= Cardinality(1 .. n)
  <2>. HIDE DEF D
  <2>. QED  BY <1>2, <1>3, FS_Injection
<1>. QED  BY <1>1, <1>2, <1>4

(* A sequence of sequences, flattened from its front. *)
LEMMA FlattenFront ==
    ASSUME NEW T, NEW s \in Seq(Seq(T)), s # <<>>
    PROVE  /\ Head(s) \in Seq(T) /\ Tail(s) \in Seq(Seq(T)) /\ Len(Tail(s)) = Len(s) - 1
           /\ FlattenSeq(Tail(s)) \in Seq(T)
           /\ FlattenSeq(s) = Head(s) \o FlattenSeq(Tail(s))
<1>. DEFINE n == Len(s)
            t == Tail(s)
            a == Head(s)
<1>1. n \in Nat \ {0} /\ a = s[1] /\ a \in Seq(T) /\ t \in Seq(Seq(T)) /\ Len(t) = n - 1
      /\ \A i \in 1 .. n - 1 : t[i] = s[i + 1] /\ t[i] \in Seq(T)
  OBVIOUS
<1>2. PICK f : Joining(s, f, T) /\ FlattenSeq(s) = f[n]
  BY FlattenJoins
<1>. HIDE DEF t
<1>3. PICK g : Joining(t, g, T) /\ FlattenSeq(t) = g[n - 1]
  BY <1>1, FlattenJoins
<1>. HIDE DEF n, a
<1>4. (\A i \in 0 .. n : f[i] \in Seq(T)) /\ f[0] = <<>> /\ \A i \in 1 .. n : f[i] = f[i - 1] \o s[i]
  BY <1>2 DEF Joining, n
<1>5. (\A i \in 0 .. n - 1 : g[i] \in Seq(T)) /\ g[0] = <<>> /\ \A i \in 1 .. n - 1 : g[i] = g[i - 1] \o t[i]
  <2>1. Len(t) = n - 1
    BY <1>1
  <2>. QED  BY <1>3, <2>1 DEF Joining
<1>. DEFINE S == {m \in 0 .. n - 1 : f[m + 1] = a \o g[m]}
<1>6. 0 \in S
  <2>1. 1 \in 1 .. n /\ 1 - 1 = 0 /\ 0 \in 0 .. n - 1 /\ 0 + 1 = 1
    BY <1>1
  <2>2. f[1] = <<>> \o s[1]
    BY <1>4, <2>1
  <2>3. <<>> \o a = a /\ a \o <<>> = a
    BY <1>1, ConcatEmptySeq
  <2>4. f[1] = a \o g[0]
    BY <1>1, <1>5, <2>2, <2>3
  <2>. QED  BY <2>1, <2>4
<1>7. ASSUME NEW m \in 0 .. (n - 1) - 1, m \in S PROVE m + 1 \in S
  <2>1. m + 1 \in 0 .. n - 1 /\ m \in 0 .. n - 1 /\ m + 1 \in 1 .. n - 1 /\ (m + 1) - 1 = m
        /\ (m + 1) + 1 \in 1 .. n /\ ((m + 1) + 1) - 1 = m + 1
    BY <1>1
  <2>2. f[(m + 1) + 1] = f[m + 1] \o s[(m + 1) + 1] /\ g[m + 1] = g[m] \o t[m + 1] /\ f[m + 1] = a \o g[m]
    BY <1>4, <1>5, <1>7, <2>1
  <2>3. t[m + 1] = s[(m + 1) + 1] /\ t[m + 1] \in Seq(T) /\ g[m] \in Seq(T)
    BY <1>1, <1>5, <2>1
  <2>. DEFINE x == g[m]
              y == t[m + 1]
  <2>4. x \in Seq(T) /\ y \in Seq(T) /\ f[(m + 1) + 1] = (a \o x) \o y /\ g[m + 1] = x \o y
    BY <2>2, <2>3
  <2>. HIDE DEF x, y
  <2>5. (a \o x) \o y = a \o (x \o y)
    <3>1. a \in Seq(T) /\ x \in Seq(T) /\ y \in Seq(T)
      BY <1>1, <2>4
    <3>2. \A u, v, w \in Seq(T) : (u \o v) \o w = u \o (v \o w)
      BY ConcatAssociative, SMTT(40)
    <3>. QED  BY <3>1, <3>2
  <2>. QED  BY <2>1, <2>4, <2>5
<1>8. 0 .. n - 1 \subseteq S
  <2>. HIDE DEF S
  <2>1. n - 1 \in Nat
    BY <1>1
  <2>. QED  BY <1>6, <1>7, <2>1, InductUpTo
<1>9. n - 1 \in 0 .. n - 1 /\ (n - 1) + 1 = n
  BY <1>1
<1>10. f[n] = a \o g[n - 1] /\ g[n - 1] \in Seq(T)
  BY <1>5, <1>8, <1>9
<1>. QED  BY <1>1, <1>2, <1>3, <1>10 DEF n, t, a

LEMMA FlattenEmpty == FlattenSeq(<<>>) = <<>>
  BY DEF FlattenSeq

LEMMA FlattenType ==
    ASSUME NEW T, NEW s \in Seq(Seq(T))
    PROVE  FlattenSeq(s) \in Seq(T)
<1>1. PICK f : Joining(s, f, T) /\ FlattenSeq(s) = f[Len(s)]
  BY FlattenJoins
<1>2. Len(s) \in 0 .. Len(s)
  OBVIOUS
<1>. QED  BY <1>1, <1>2 DEF Joining

-----------------------------------------------------------------------------
(* Division *)
LEMMA Divided ==
    ASSUME NEW d \in Nat \ {0}, NEW q \in Nat, NEW r \in 0 .. d - 1, NEW n \in Nat, n = q * d + r
    PROVE  n \div d = q /\ n % d = r
<1>. DEFINE p == n \div d
            s == n % d
<1>1. p \in Nat /\ s \in 0 .. d - 1 /\ n = p * d + s
  BY Quotient
<1>. HIDE DEF p, s
<1>2. p = q
  <2>1. ~ (p < q)
    <3>. SUFFICES ASSUME p < q PROVE FALSE
      OBVIOUS
    <3>1. p * d \in Nat /\ q * d \in Nat /\ p * d + d <= q * d
      BY <1>1, Multiples
    <3>. QED  BY <1>1, <3>1
  <2>2. ~ (q < p)
    <3>. SUFFICES ASSUME q < p PROVE FALSE
      OBVIOUS
    <3>1. p * d \in Nat /\ q * d \in Nat /\ q * d + d <= p * d
      BY <1>1, Multiples
    <3>. QED  BY <1>1, <3>1
  <2>. QED  BY <1>1, <2>1, <2>2
<1>3. p * d = q * d /\ q * d \in Nat
  BY <1>2
<1>4. s = r
  BY <1>1, <1>3
<1>. QED  BY <1>2, <1>4 DEF p, s

\* Every position is in one block of d.
LEMMA Blocks ==
    ASSUME NEW d \in Nat, NEW n \in Nat
    PROVE  /\ n * d \in Nat
           /\ \A e \in 1 .. n : (e - 1) * d \in Nat /\ e * d = (e - 1) * d + d /\ e * d <= n * d
           /\ \A e \in 1 .. n : \A j \in 1 .. d : (e - 1) * d + j \in 1 .. n * d
           /\ \A m \in 1 .. n * d : \E e \in 1 .. n : \E j \in 1 .. d : m = (e - 1) * d + j
           /\ \A e, f \in 1 .. n : \A i, j \in 1 .. d : (e - 1) * d + i = (f - 1) * d + j => e = f /\ i = j
<1>1. n * d \in Nat
  OBVIOUS
<1>2. ASSUME NEW e \in 1 .. n PROVE (e - 1) * d \in Nat /\ e * d = (e - 1) * d + d /\ e * d <= n * d
  <2>1. e - 1 \in Nat /\ e - 1 < n /\ (e - 1) + 1 = e
    OBVIOUS
  <2>2. (e - 1) * d \in Nat /\ ((e - 1) + 1) * d = (e - 1) * d + d /\ (e - 1) * d + d <= n * d
    BY <2>1, Multiples
  <2>. QED  BY <2>1, <2>2
<1>3. ASSUME NEW e \in 1 .. n, NEW j \in 1 .. d PROVE (e - 1) * d + j \in 1 .. n * d
  BY <1>1, <1>2
<1>4. ASSUME NEW m \in 1 .. n * d PROVE \E e \in 1 .. n : \E j \in 1 .. d : m = (e - 1) * d + j
  <2>1. d # 0
    <3>1. d = 0 => n * d = 0
      OBVIOUS
    <3>. QED  BY <1>1, <3>1
  <2>. DEFINE q == (m - 1) \div d
              r == (m - 1) % d
  <2>2. m - 1 \in Nat /\ d \in Nat \ {0}
    BY <1>1, <2>1
  <2>3. q \in Nat /\ r \in 0 .. d - 1 /\ m - 1 = q * d + r
    <3>. DEFINE l == m - 1
    <3>1. l \in Nat
      BY <2>2
    <3>. HIDE DEF l
    <3>2. l \div d \in Nat /\ l % d \in 0 .. d - 1 /\ l = (l \div d) * d + (l % d)
      BY <2>2, <3>1, Quotient
    <3>. QED  BY <3>2 DEF l
  <2>. HIDE DEF q, r
  <2>4. q < n
    <3>. SUFFICES ASSUME n <= q PROVE FALSE
      BY <2>3
    <3>1. q * d \in Nat /\ n * d <= q * d
      <4>1. CASE n = q
        BY <1>1, <4>1
      <4>2. CASE n # q
        <5>1. n < q
          BY <2>3, <4>2
        <5>2. q * d \in Nat /\ n * d + d <= q * d
          BY <2>3, <5>1, Multiples
        <5>. QED  BY <1>1, <5>2
      <4>. QED  BY <4>1, <4>2
    <3>. QED  BY <1>1, <2>3, <3>1
  <2>5. q + 1 \in 1 .. n /\ r + 1 \in 1 .. d /\ (q + 1) - 1 = q
    BY <2>3, <2>4
  <2>6. q * d \in Nat
    BY <2>3
  <2>7. m = q * d + (r + 1)
    BY <2>3, <2>6
  <2>8. m = ((q + 1) - 1) * d + (r + 1)
    BY <2>5, <2>7
  <2>. QED  BY <2>5, <2>8
<1>5. ASSUME NEW e \in 1 .. n, NEW f \in 1 .. n, NEW i \in 1 .. d, NEW j \in 1 .. d,
             (e - 1) * d + i = (f - 1) * d + j
      PROVE  e = f /\ i = j
  <2>1. ASSUME NEW a \in 1 .. n, NEW b \in 1 .. n, NEW x \in 1 .. d, NEW y \in 1 .. d, a < b
        PROVE  (a - 1) * d + x # (b - 1) * d + y
    <3>1. a - 1 \in Nat /\ b - 1 \in Nat /\ a - 1 < b - 1
      BY <2>1
    <3>2. (a - 1) * d \in Nat /\ (b - 1) * d \in Nat /\ (a - 1) * d + d <= (b - 1) * d
      BY <3>1, Multiples
    <3>. QED  BY <3>2
  <2>2. e = f
    <3>1. e < f \/ f < e \/ e = f
      OBVIOUS
    <3>. QED  BY <1>5, <2>1, <3>1
  <2>3. (e - 1) * d \in Nat /\ (e - 1) * d = (f - 1) * d
    BY <1>2, <2>2
  <2>. QED  BY <1>5, <2>2, <2>3
<1>. QED  BY <1>1, <1>2, <1>3, <1>4, <1>5

-----------------------------------------------------------------------------
(* Padding and repeating *)
LEMMA PadIs ==
    ASSUME NEW T, NEW rows \in Seq(T), Len(rows) # 0, NEW d \in Nat \ {0}
    PROVE  /\ PadSize(Len(rows), d) \in Nat
           /\ Pad(rows, d) \in Seq(T) /\ Len(Pad(rows, d)) # 0
           /\ Unpad(Pad(rows, d), PadSize(Len(rows), d)) = rows
<1>. DEFINE n == Len(rows)
            size == PadSize(n, d)
            p == Pad(rows, d)
<1>1. n \in Nat \ {0}
  OBVIOUS
<1>. HIDE DEF n
<1>2. size \in Nat
  <2>. DEFINE r == n % d
  <2>1. r \in 0 .. d - 1
    BY <1>1, Quotient
  <2>. HIDE DEF r
  <2>. DEFINE m == d - r
  <2>2. m \in Nat
    BY <2>1
  <2>. HIDE DEF m
  <2>3. m % d \in 0 .. d - 1
    BY <2>2, Quotient
  <2>. QED  BY <2>3 DEF PadSize, m, r
<1>3. p = [i \in 1 .. n + size |-> rows[((i - 1) % n) + 1]]
  BY DEF Pad, n
<1>. HIDE DEF size
<1>4. ASSUME NEW i \in 1 .. n + size PROVE p[i] \in T
  <2>1. i - 1 \in Nat
    BY <1>1, <1>2
  <2>2. (i - 1) % n \in 0 .. n - 1
    <3>. DEFINE l == i - 1
    <3>1. l \in Nat
      BY <2>1
    <3>. HIDE DEF l
    <3>2. l % n \in 0 .. n - 1
      BY <1>1, <3>1, Quotient
    <3>. QED  BY <3>2 DEF l
  <2>3. ((i - 1) % n) + 1 \in 1 .. n
    BY <1>1, <2>2
  <2>4. rows[((i - 1) % n) + 1] \in T
    <3>. DEFINE j == ((i - 1) % n) + 1
    <3>1. j \in 1 .. Len(rows)
      BY <2>3 DEF n
    <3>. HIDE DEF j
    <3>2. rows[j] \in T
      BY <3>1
    <3>. QED  BY <3>2 DEF j
  <2>. QED  BY <1>3, <2>4
<1>5. ASSUME NEW i \in 1 .. n PROVE p[i] = rows[i]
  <2>. DEFINE l == i - 1
  <2>1. l \in 0 .. n - 1 /\ l \in Nat /\ l + 1 = i /\ 0 * n = 0 /\ i \in 1 .. n + size
    BY <1>1, <1>2
  <2>2. p[i] = rows[(l % n) + 1]
    BY <1>3, <2>1
  <2>. HIDE DEF l
  <2>3. l = 0 * n + l
    BY <2>1
  <2>4. l % n = l
    BY <1>1, <2>1, <2>3, Divided
  <2>. QED  BY <2>1, <2>2, <2>4
<1>6. p = [i \in 1 .. n + size |-> p[i]]
  BY <1>3
<1>. HIDE DEF p
<1>7. p \in Seq(T) /\ Len(p) = n + size
  <2>1. n + size \in Nat
    BY <1>1, <1>2
  <2>. HIDE DEF size
  <2>. QED  BY <1>4, <1>6, <2>1
<1>8. Unpad(p, size) = rows
  <2>. DEFINE w == Unpad(p, size)
  <2>1. (n + size) - size = n
    BY <1>1, <1>2
  <2>2. w = SubSeq(p, 1, n)
    BY <1>7, <2>1 DEF Unpad
  <2>. HIDE DEF w
  <2>3. w \in Seq(T) /\ Len(w) = n /\ \A i \in 1 .. n : w[i] = p[i]
    <3>1. n \in 0 .. Len(p)
      BY <1>1, <1>2, <1>7
    <3>. QED  BY <1>1, <1>7, <2>2, <3>1
  <2>4. w = rows
    <3>1. Len(w) = Len(rows) /\ \A i \in 1 .. Len(w) : w[i] = rows[i]
      BY <1>5, <2>3 DEF n
    <3>. QED  BY <2>3, <3>1, SeqEqual
  <2>. QED  BY <2>4 DEF w
<1>. QED  BY <1>1, <1>2, <1>7, <1>8 DEF p, size, n

LEMMA RepeatIs ==
    ASSUME NEW T, NEW rows \in Seq(T), NEW n \in Nat \ {0}
    PROVE  /\ RepeatInterleave(rows, n) \in Seq(T)
           /\ \A i \in 1 .. Len(rows) * n : (i - 1) \div n + 1 \in 1 .. Len(rows)
<1>. DEFINE l == Len(rows)
            p == RepeatInterleave(rows, n)
<1>1. l \in Nat
  OBVIOUS
<1>2. p = [i \in 1 .. l * n |-> rows[(i - 1) \div n + 1]]
  BY DEF RepeatInterleave
<1>. HIDE DEF l, p
<1>3. ASSUME NEW i \in 1 .. l * n PROVE (i - 1) \div n + 1 \in 1 .. l
  <2>1. PICK e \in 1 .. l, j \in 1 .. n : i = (e - 1) * n + j
    <3>1. \A m \in 1 .. l * n : \E e \in 1 .. l : \E j \in 1 .. n : m = (e - 1) * n + j
      BY <1>1, Blocks
    <3>. QED  BY <3>1
  <2>. DEFINE m == i - 1
              q == e - 1
              r == j - 1
  <2>2. q \in Nat /\ r \in 0 .. n - 1 /\ m = q * n + r /\ m \in Nat /\ q + 1 = e
    <3>1. (e - 1) * n \in Nat
      BY <1>1
    <3>. QED  BY <1>1, <2>1, <3>1
  <2>. HIDE DEF m, q, r
  <2>3. m \div n = q
    BY <2>2, Divided
  <2>4. m \div n + 1 \in 1 .. l
    BY <2>2, <2>3
  <2>. QED  BY <2>4 DEF m
<1>4. ASSUME NEW i \in 1 .. l * n PROVE p[i] \in T
  <2>. DEFINE j == (i - 1) \div n + 1
  <2>1. p[i] = rows[j]
    BY <1>2
  <2>2. j \in 1 .. Len(rows)
    BY <1>3 DEF l
  <2>. HIDE DEF j
  <2>. QED  BY <2>1, <2>2
<1>5. p \in Seq(T)
  <2>1. p = [i \in 1 .. l * n |-> p[i]]
    BY <1>2
  <2>2. l * n \in Nat
    BY <1>1
  <2>. QED  BY <1>4, <2>1, <2>2
<1>. QED  BY <1>3, <1>5 DEF l, p

-----------------------------------------------------------------------------
(* Chunks and slices of rows that are different *)
Place(e, d, j) == (e - 1) * d + j

LEMMA Places ==
    ASSUME NEW d \in Nat, NEW n \in Nat, NEW l, n * d = l
    PROVE  /\ \A e \in 1 .. n : \A j \in 1 .. d : Place(e, d, j) \in 1 .. l
           /\ \A m \in 1 .. l : \E e \in 1 .. n : \E j \in 1 .. d : m = Place(e, d, j)
           /\ \A e, f \in 1 .. n : \A i, j \in 1 .. d : Place(e, d, i) = Place(f, d, j) => e = f /\ i = j
<1>1. \A e \in 1 .. n : \A j \in 1 .. d : (e - 1) * d + j \in 1 .. n * d
  BY Blocks
<1>2. \A m \in 1 .. n * d : \E e \in 1 .. n : \E j \in 1 .. d : m = (e - 1) * d + j
  BY Blocks
<1>3. \A e, f \in 1 .. n : \A i, j \in 1 .. d : (e - 1) * d + i = (f - 1) * d + j => e = f /\ i = j
  BY Blocks
<1>. QED  BY <1>1, <1>2, <1>3, Zenon DEF Place

LEMMA ChunksDistinct ==
    ASSUME NEW T, NEW rows \in Seq(T), Distinct(rows), NEW n \in Nat \ {0}, Len(rows) % n = 0
    PROVE  /\ \A r \in 1 .. n : /\ ChunkOf(rows, n, r) \in Seq(T) /\ Distinct(ChunkOf(rows, n, r))
                                /\ Len(ChunkOf(rows, n, r)) = Len(rows) \div n
                                /\ \A x : Has(ChunkOf(rows, n, r), x) => Has(rows, x)
           /\ \A x : Has(rows, x) => \E r \in 1 .. n : Has(ChunkOf(rows, n, r), x)
           /\ \A r, q \in 1 .. n : \A x : Has(ChunkOf(rows, n, r), x) /\ Has(ChunkOf(rows, n, q), x) => r = q
<1>. DEFINE d == Len(rows) \div n
            l == Len(rows)
<1>1. Chunked(T, rows, n, d)
  BY ChunkIs
<1>. HIDE DEF d
<1>2. /\ d \in Nat /\ n * d = l /\ n \in Nat
      /\ \A r \in 1 .. n : ChunkOf(rows, n, r) \in Seq(T) /\ Len(ChunkOf(rows, n, r)) = d
  BY <1>1 DEF Chunked
<1>3. \A r \in 1 .. n : \A i \in 1 .. d : ChunkOf(rows, n, r)[i] = rows[Place(r, d, i)]
  BY <1>1 DEF Chunked, Place
<1>4. /\ \A e \in 1 .. n : \A j \in 1 .. d : Place(e, d, j) \in 1 .. l
      /\ \A m \in 1 .. l : \E e \in 1 .. n : \E j \in 1 .. d : m = Place(e, d, j)
      /\ \A e, f \in 1 .. n : \A i, j \in 1 .. d : Place(e, d, i) = Place(f, d, j) => e = f /\ i = j
  <2>. HIDE DEF l
  <2>. QED  BY <1>2, Places
<1>5. \A i, j \in 1 .. l : rows[i] = rows[j] => i = j
  BY DEF Distinct
<1>. HIDE DEF l
<1>6. ASSUME NEW r \in 1 .. n, NEW q \in 1 .. n, NEW i \in 1 .. d, NEW j \in 1 .. d,
             ChunkOf(rows, n, r)[i] = ChunkOf(rows, n, q)[j]
      PROVE  r = q /\ i = j
  <2>1. Place(r, d, i) \in 1 .. l /\ Place(q, d, j) \in 1 .. l /\ rows[Place(r, d, i)] = rows[Place(q, d, j)]
    BY <1>3, <1>4, <1>6
  <2>2. Place(r, d, i) = Place(q, d, j)
    BY <1>5, <2>1
  <2>. QED  BY <1>4, <2>2
<1>7. ASSUME NEW r \in 1 .. n
      PROVE  /\ Distinct(ChunkOf(rows, n, r))
             /\ \A x : Has(ChunkOf(rows, n, r), x) <=> \E i \in 1 .. d : ChunkOf(rows, n, r)[i] = x
  BY <1>2, <1>6 DEF Distinct, Has
<1>8. \A x : Has(rows, x) <=> \E m \in 1 .. l : rows[m] = x
  BY DEF Has, l
<1>9. ASSUME NEW r \in 1 .. n, NEW x, Has(ChunkOf(rows, n, r), x) PROVE Has(rows, x)
  <2>1. PICK i \in 1 .. d : ChunkOf(rows, n, r)[i] = x
    BY <1>7, <1>9
  <2>2. Place(r, d, i) \in 1 .. l /\ rows[Place(r, d, i)] = x
    BY <1>3, <1>4, <2>1
  <2>. QED  BY <1>8, <2>2
<1>10. ASSUME NEW x, Has(rows, x) PROVE \E r \in 1 .. n : Has(ChunkOf(rows, n, r), x)
  <2>1. PICK m \in 1 .. l : rows[m] = x
    BY <1>8, <1>10
  <2>2. PICK r \in 1 .. n : \E j \in 1 .. d : m = Place(r, d, j)
    BY <1>4
  <2>3. PICK j \in 1 .. d : m = Place(r, d, j)
    BY <2>2
  <2>4. ChunkOf(rows, n, r)[j] = x
    BY <1>3, <2>1, <2>3
  <2>. QED  BY <1>7, <2>4
<1>11. ASSUME NEW r \in 1 .. n, NEW q \in 1 .. n, NEW x, Has(ChunkOf(rows, n, r), x), Has(ChunkOf(rows, n, q), x)
       PROVE  r = q
  <2>1. PICK i \in 1 .. d : ChunkOf(rows, n, r)[i] = x
    BY <1>7, <1>11
  <2>2. PICK j \in 1 .. d : ChunkOf(rows, n, q)[j] = x
    BY <1>7, <1>11
  <2>. QED  BY <1>6, <2>1, <2>2
<1>. QED  BY <1>2, <1>7, <1>9, <1>10, <1>11 DEF d

\* Every row is in one slice.
Sliced(s, rows, T) ==
    /\ \A j \in 1 .. Len(s) :
        /\ s[j] \in Seq(T) /\ s[j] # <<>> /\ Distinct(s[j])
        /\ \A x : Has(s[j], x) => Has(rows, x)
    /\ \A x : Has(rows, x) => \E j \in 1 .. Len(s) : Has(s[j], x)
    /\ \A i, j \in 1 .. Len(s) : \A x : Has(s[i], x) /\ Has(s[j], x) => i = j

LEMMA SplitDistinct ==
    ASSUME NEW T, NEW rows \in Seq(T), Distinct(rows), NEW d \in Nat \ {0}
    PROVE  Sliced(Split(rows, d), rows, T)
<1>. DEFINE s == Split(rows, d)
            n == Len(rows)
            q == CeilDiv(n, d)
            cut == CutAt(n, d)
<1>1. s \in Seq(Seq(T)) /\ Len(s) = q /\ Slices(s, rows, cut)
  BY SplitIs
<1>2. n \in Nat /\ \A m \in 1 .. n : rows[m] \in T
  OBVIOUS
<1>3. /\ cut \in [0 .. q -> 0 .. n]
      /\ \A i \in 1 .. q : cut[i - 1] < cut[i]
      /\ \A i, j \in 1 .. q : i < j => cut[i] <= cut[j - 1]
      /\ \A p \in 1 .. n : \E i \in 1 .. q : cut[i - 1] < p /\ p <= cut[i]
  <2>. HIDE DEF n
  <2>. QED  BY <1>2, CutsOf
<1>4. q \in Nat /\ \A i \in 1 .. q : s[i] = SubSeq(rows, cut[i - 1] + 1, cut[i])
  BY <1>1 DEF Slices
<1>5. Distinct(rows) /\ n = Len(rows)
  OBVIOUS
<1>. HIDE DEF s, q, cut, n
<1>6. ASSUME NEW i \in 1 .. q
      PROVE  /\ cut[i - 1] \in 0 .. n /\ cut[i] \in 0 .. n /\ cut[i - 1] < cut[i]
             /\ s[i] \in Seq(T) /\ Len(s[i]) = cut[i] - cut[i - 1]
             /\ \A h \in 1 .. Len(s[i]) : cut[i - 1] + h \in 1 .. n /\ s[i][h] = rows[cut[i - 1] + h]
  <2>1. i \in 0 .. q /\ i - 1 \in 0 .. q
    BY <1>4
  <2>. DEFINE a == cut[i - 1]
              b == cut[i]
  <2>2. a \in 0 .. n /\ b \in 0 .. n /\ a < b /\ s[i] = SubSeq(rows, a + 1, b)
    BY <1>3, <1>4, <2>1
  <2>. HIDE DEF a, b
  <2>3. /\ SubSeq(rows, a + 1, b) \in Seq(T) /\ Len(SubSeq(rows, a + 1, b)) = b - a
        /\ \A h \in 1 .. b - a : a + h \in 1 .. n /\ SubSeq(rows, a + 1, b)[h] = rows[a + h]
    BY <1>2, <1>5, <2>2
  <2>. QED  BY <2>2, <2>3 DEF a, b
<1>7. ASSUME NEW j \in 1 .. q PROVE s[j] \in Seq(T) /\ s[j] # <<>> /\ Distinct(s[j]) /\ \A x : Has(s[j], x) => Has(rows, x)
  <2>1. s[j] # <<>>
    <3>1. Len(s[j]) > 0
      BY <1>6
    <3>. QED  BY <3>1
  <2>2. Distinct(s[j])
    <3>. SUFFICES ASSUME NEW h \in 1 .. Len(s[j]), NEW g \in 1 .. Len(s[j]), s[j][h] = s[j][g] PROVE h = g
      BY DEF Distinct
    <3>. DEFINE a == cut[j - 1]
    <3>1. a \in Nat /\ a + h \in 1 .. n /\ a + g \in 1 .. n /\ rows[a + h] = rows[a + g]
      BY <1>6
    <3>. HIDE DEF a
    <3>2. a + h = a + g
      BY <1>5, <3>1 DEF Distinct
    <3>3. h \in Int /\ g \in Int
      BY <1>6
    <3>. QED  BY <3>1, <3>2, <3>3
  <2>3. \A x : Has(s[j], x) => Has(rows, x)
    BY <1>5, <1>6 DEF Has
  <2>. QED  BY <1>6, <2>1, <2>2, <2>3
<1>8. ASSUME NEW x, Has(rows, x) PROVE \E j \in 1 .. q : Has(s[j], x)
  <2>1. PICK p \in 1 .. n : rows[p] = x
    BY <1>5, <1>8 DEF Has
  <2>2. PICK i \in 1 .. q : cut[i - 1] < p /\ p <= cut[i]
    BY <1>3
  <2>3. p - cut[i - 1] \in 1 .. Len(s[i]) /\ cut[i - 1] + (p - cut[i - 1]) = p
    BY <1>6, <2>2
  <2>4. s[i][p - cut[i - 1]] = x
    BY <1>6, <2>1, <2>3
  <2>. QED  BY <2>3, <2>4 DEF Has
<1>9. ASSUME NEW i \in 1 .. q, NEW j \in 1 .. q, NEW x, Has(s[i], x), Has(s[j], x) PROVE i = j
  <2>1. ASSUME NEW e \in 1 .. q, NEW f \in 1 .. q, Has(s[e], x), Has(s[f], x), e < f PROVE FALSE
    <3>1. PICK h \in 1 .. Len(s[e]) : s[e][h] = x
      BY <2>1 DEF Has
    <3>2. PICK g \in 1 .. Len(s[f]) : s[f][g] = x
      BY <2>1 DEF Has
    <3>. DEFINE a == cut[e - 1]
                b == cut[f - 1]
                c == cut[e]
    <3>3. a \in Nat /\ a + h \in 1 .. n /\ rows[a + h] = x /\ h \in 1 .. c - a /\ c \in Nat
      <4>1. a \in Nat /\ c \in Nat /\ Len(s[e]) = c - a /\ a + h \in 1 .. n /\ s[e][h] = rows[a + h]
        BY <1>6, SMTT(40)
      <4>. QED  BY <3>1, <4>1
    <3>4. b \in Nat /\ b + g \in 1 .. n /\ rows[b + g] = x /\ g \in Nat \ {0}
      <4>1. b \in Nat /\ b + g \in 1 .. n /\ s[f][g] = rows[b + g]
        BY <1>6, SMTT(40)
      <4>2. g \in Nat \ {0}
        BY <1>6
      <4>. QED  BY <3>2, <4>1, <4>2
    <3>5. c <= b
      BY <1>3, <2>1
    <3>. HIDE DEF a, b, c
    <3>6. a + h = b + g
      BY <1>5, <3>3, <3>4 DEF Distinct
    <3>. QED  BY <3>3, <3>4, <3>5, <3>6
  <2>. QED  BY <1>9, <2>1
<1>10. Len(s) = q
  BY <1>1
<1>. QED  BY <1>7, <1>8, <1>9, <1>10 DEF s, Sliced

(* Mini-batches: the slices of a chunk, once for every epoch *)
Repeats(W, S, E) ==
    /\ Len(W) = E * Len(S) /\ Len(W) \in Nat
    /\ \A e \in 1 .. E : \A j \in 1 .. Len(S) : W[(e - 1) * Len(S) + j] = S[j]

LEMMA FlattenRepeats ==
    ASSUME NEW T, NEW S \in Seq(T), NEW n \in Nat
    PROVE  FlattenSeq([e \in 1 .. n |-> S]) \in Seq(T) /\ Repeats(FlattenSeq([e \in 1 .. n |-> S]), S, n)
<1>. DEFINE s == [e \in 1 .. n |-> S]
            d == Len(S)
<1>1. s \in Seq(Seq(T)) /\ Len(s) = n /\ d \in Nat /\ \A e \in 1 .. n : s[e] = S
  OBVIOUS
<1>. HIDE DEF s
<1>2. PICK f : Joining(s, f, T) /\ FlattenSeq(s) = f[n]
  BY <1>1, FlattenJoins
<1>3. (\A i \in 0 .. n : f[i] \in Seq(T)) /\ f[0] = <<>> /\ \A i \in 1 .. n : f[i] = f[i - 1] \o S
  BY <1>1, <1>2 DEF Joining
<1>. DEFINE Z == {m \in 0 .. n : Repeats(f[m], S, m)}
<1>4. 0 \in Z
  <2>1. Len(<<>>) = 0 /\ 0 * d = 0 /\ 1 .. 0 = {} /\ 0 \in 0 .. n
    BY <1>1
  <2>. QED  BY <1>3, <2>1 DEF Repeats
<1>5. ASSUME NEW m \in 0 .. n - 1, m \in Z PROVE m + 1 \in Z
  <2>1. m + 1 \in 0 .. n /\ m \in 0 .. n /\ m + 1 \in 1 .. n /\ (m + 1) - 1 = m /\ m \in Nat
    OBVIOUS
  <2>. DEFINE x == f[m]
              y == f[m + 1]
              l == m * d
  <2>2. x \in Seq(T) /\ y = x \o S /\ Repeats(x, S, m)
    BY <1>3, <1>5, <2>1
  <2>3. l \in Nat /\ (m + 1) * d = l + d
    BY <1>1, <2>1
  <2>4. Len(x) = l /\ \A e \in 1 .. m : \A j \in 1 .. d : x[(e - 1) * d + j] = S[j]
    BY <2>2 DEF Repeats
  <2>. HIDE DEF x
  <2>5. /\ x \o S \in Seq(T) /\ Len(x \o S) = Len(x) + d
        /\ \A i \in 1 .. Len(x) + d : (x \o S)[i] = IF i <= Len(x) THEN x[i] ELSE S[i - Len(x)]
    BY <2>2, ConcatProperties
  <2>. HIDE DEF y
  <2>6. y \in Seq(T) /\ Len(y) = l + d /\ \A i \in 1 .. l + d : y[i] = IF i <= l THEN x[i] ELSE S[i - l]
    BY <2>2, <2>4, <2>5
  <2>. HIDE DEF d
  <2>7. ASSUME NEW e \in 1 .. m + 1, NEW j \in 1 .. d PROVE y[(e - 1) * d + j] = S[j]
    <3>1. CASE e = m + 1
      <4>1. (e - 1) * d = l
        BY <2>1, <3>1 DEF l
      <4>2. l + j \in 1 .. l + d /\ ~ (l + j <= l) /\ (l + j) - l = j
        BY <1>1, <2>3
      <4>. HIDE DEF l
      <4>3. y[l + j] = S[j]
        BY <2>6, <4>2
      <4>. QED  BY <4>1, <4>3
    <3>2. CASE e # m + 1
      <4>1. e \in 1 .. m
        BY <2>1, <3>2
      <4>. DEFINE p == (e - 1) * d + j
      <4>2. p \in 1 .. l
        BY <1>1, <2>1, <4>1, Blocks
      <4>3. x[p] = S[j]
        BY <2>4, <4>1
      <4>. HIDE DEF p, l
      <4>4. p \in 1 .. l + d /\ p <= l
        BY <1>1, <2>3, <4>2
      <4>5. y[p] = S[j]
        BY <2>6, <4>3, <4>4
      <4>. QED  BY <4>5 DEF p
    <3>. QED  BY <3>1, <3>2
  <2>8. Len(y) = (m + 1) * d /\ Len(y) \in Nat
    BY <2>3, <2>6, <1>1
  <2>. QED  BY <2>1, <2>7, <2>8 DEF Repeats, y, d
<1>6. 0 .. n \subseteq Z
  <2>. HIDE DEF Z
  <2>. QED  BY <1>4, <1>5, InductUpTo
<1>7. n \in 0 .. n
  OBVIOUS
<1>. QED  BY <1>2, <1>3, <1>6, <1>7 DEF s

-----------------------------------------------------------------------------
(* How often a row is trained on *)
LEMMA CountEmpty == Cardinality({}) = 0
  BY FS_EmptySet

LEMMA CountOne == \A x : Cardinality({x}) = 1
  BY FS_Singleton

LEMMA OneInEach ==
    ASSUME NEW d \in Nat, NEW n \in Nat, NEW j \in 1 .. d
    PROVE  Cardinality({Place(e, d, j) : e \in 1 .. n}) = n
<1>. DEFINE f == [e \in 1 .. n |-> Place(e, d, j)]
            S == {Place(e, d, j) : e \in 1 .. n}
            l == n * d
<1>1. l = n * d
  OBVIOUS
<1>. HIDE DEF l
<1>2. \A e, h \in 1 .. n : Place(e, d, j) = Place(h, d, j) => e = h
  <2>1. \A e, h \in 1 .. n : \A i, k \in 1 .. d : Place(e, d, i) = Place(h, d, k) => e = h /\ i = k
    BY <1>1, Places
  <2>. QED  BY <2>1
<1>3. f \in Bijection(1 .. n, S)
  <2>1. f \in [1 .. n -> S]
    OBVIOUS
  <2>2. \A e, h \in 1 .. n : f[e] = f[h] => e = h
    BY <1>2
  <2>3. \A s \in S : \E e \in 1 .. n : f[e] = s
    OBVIOUS
  <2>. HIDE DEF f, S
  <2>. QED  BY <2>1, <2>2, <2>3 DEF Bijection, Injection, Surjection, IsInjective
<1>. HIDE DEF S, f
<1>4. IsFiniteSet(1 .. n) /\ Cardinality(1 .. n) = n
  BY IntervalCounts
<1>5. ExistsBijection(1 .. n, S)
  BY <1>3 DEF ExistsBijection
<1>6. Cardinality(S) = n
  BY <1>4, <1>5, FS_Bijection
<1>. QED  BY <1>6 DEF S

Mini(rows, r) == MiniBatches(ChunkOf(rows, DPSize, r))
MiniCount(rows) == PPOEpochs * CeilDiv(Len(rows) \div DPSize, MiniBatchSize)
InMini(rows, m, x) == \E r \in Ranks : Has(Mini(rows, r)[m], x)
TimesIn(rows, k, x) == Cardinality({m \in 1 .. k : InMini(rows, m, x)})

LEMMA MiniBatchesOfChunk ==
    ASSUME NEW T, NEW rows \in Seq(T), Distinct(rows), Len(rows) % DPSize = 0, Len(rows) # 0
    PROVE  /\ Len(rows) \div DPSize \in Nat \ {0}
           /\ CeilDiv(Len(rows) \div DPSize, MiniBatchSize) \in Nat \ {0} /\ MiniCount(rows) \in Nat \ {0}
           /\ \A r \in Ranks :
                /\ Mini(rows, r) \in Seq(Seq(T)) /\ Len(Mini(rows, r)) = MiniCount(rows)
                /\ Len(Split(ChunkOf(rows, DPSize, r), MiniBatchSize)) = CeilDiv(Len(rows) \div DPSize, MiniBatchSize)
                /\ Repeats(Mini(rows, r), Split(ChunkOf(rows, DPSize, r), MiniBatchSize), PPOEpochs)
<1>. DEFINE l == Len(rows)
            c == l \div DPSize
            d == CeilDiv(c, MiniBatchSize)
<1>1. DPSize \in Nat \ {0} /\ MiniBatchSize \in Nat \ {0} /\ PPOEpochs \in Nat \ {0}
  BY TrainingBatchAssumption
<1>2. l \in Nat \ {0} /\ l % DPSize = 0
  OBVIOUS
<1>3. c \in Nat \ {0}
  <2>. HIDE DEF l
  <2>1. c \in Nat /\ l % DPSize \in 0 .. DPSize - 1 /\ l = c * DPSize + (l % DPSize)
    BY <1>1, <1>2, Quotient
  <2>2. c = 0 => c * DPSize = 0
    BY <1>1
  <2>. QED  BY <1>2, <2>1, <2>2
<1>4. d \in Nat \ {0}
  <2>. HIDE DEF c
  <2>1. d \in Nat /\ (c > 0 => d >= 1)
    BY <1>1, <1>3, Ceiling
  <2>. QED  BY <1>3, <2>1
<1>5. MiniCount(rows) = PPOEpochs * d
  BY DEF MiniCount
<1>6. PPOEpochs * d \in Nat \ {0}
  <2>. HIDE DEF d
  <2>1. PPOEpochs * d \in Nat
    BY <1>1, <1>4
  <2>2. 0 < PPOEpochs /\ 0 \in Nat
    BY <1>1
  <2>3. 0 * d + d <= PPOEpochs * d /\ 0 * d \in Nat
    BY <1>1, <1>4, <2>2, Multiples
  <2>. QED  BY <1>4, <2>1, <2>3
<1>7. ASSUME NEW r \in Ranks
      PROVE  /\ Mini(rows, r) \in Seq(Seq(T)) /\ Len(Mini(rows, r)) = MiniCount(rows)
             /\ Len(Split(ChunkOf(rows, DPSize, r), MiniBatchSize)) = d
             /\ Repeats(Mini(rows, r), Split(ChunkOf(rows, DPSize, r), MiniBatchSize), PPOEpochs)
  <2>. DEFINE a == ChunkOf(rows, DPSize, r)
              S == Split(a, MiniBatchSize)
  <2>1. r \in 1 .. DPSize
    BY DEF Ranks
  <2>2. a \in Seq(T) /\ Len(a) = c
    <3>. HIDE DEF c, a
    <3>1. \A q \in 1 .. DPSize : ChunkOf(rows, DPSize, q) \in Seq(T) /\ Len(ChunkOf(rows, DPSize, q)) = Len(rows) \div DPSize
      BY <1>1, ChunksDistinct
    <3>. QED  BY <2>1, <3>1 DEF c, a
  <2>3. S \in Seq(Seq(T)) /\ Len(S) = d
    <3>. HIDE DEF a
    <3>1. Split(a, MiniBatchSize) \in Seq(Seq(T)) /\ Len(Split(a, MiniBatchSize)) = CeilDiv(Len(a), MiniBatchSize)
      BY <1>1, <2>2, SplitIs
    <3>. QED  BY <2>2, <3>1
  <2>4. Mini(rows, r) = FlattenSeq([e \in 1 .. PPOEpochs |-> S])
    BY DEF Mini, MiniBatches
  <2>. HIDE DEF S, d
  <2>5. Mini(rows, r) \in Seq(Seq(T)) /\ Repeats(Mini(rows, r), S, PPOEpochs)
    <3>. DEFINE U == Seq(T)
    <3>. HIDE DEF U
    <3>1. S \in Seq(U)
      BY <2>3 DEF U
    <3>2. /\ FlattenSeq([e \in 1 .. PPOEpochs |-> S]) \in Seq(U)
          /\ Repeats(FlattenSeq([e \in 1 .. PPOEpochs |-> S]), S, PPOEpochs)
      BY <1>1, <3>1, FlattenRepeats
    <3>. QED  BY <2>4, <3>2 DEF U
  <2>6. Len(Mini(rows, r)) = MiniCount(rows)
    BY <1>5, <2>3, <2>5 DEF Repeats
  <2>. QED  BY <2>3, <2>5, <2>6 DEF S
<1>. QED  BY <1>3, <1>4, <1>5, <1>6, <1>7

LEMMA MiniBatchIs ==
    ASSUME NEW T, NEW rows \in Seq(T), Distinct(rows), Len(rows) % DPSize = 0, Len(rows) # 0,
           NEW r \in Ranks, NEW m \in 1 .. MiniCount(rows)
    PROVE  /\ Mini(rows, r)[m] \in Seq(T) /\ Mini(rows, r)[m] # <<>> /\ Distinct(Mini(rows, r)[m])
           /\ \A x : Has(Mini(rows, r)[m], x) => Has(ChunkOf(rows, DPSize, r), x)
<1>. DEFINE a == ChunkOf(rows, DPSize, r)
            S == Split(a, MiniBatchSize)
            d == CeilDiv(Len(rows) \div DPSize, MiniBatchSize)
            W == Mini(rows, r)
<1>1. DPSize \in Nat \ {0} /\ MiniBatchSize \in Nat \ {0} /\ PPOEpochs \in Nat /\ r \in 1 .. DPSize
  BY TrainingBatchAssumption DEF Ranks
<1>2. d \in Nat /\ Len(S) = d /\ Repeats(W, S, PPOEpochs)
  BY MiniBatchesOfChunk
<1>3. a \in Seq(T) /\ Distinct(a)
  <2>. HIDE DEF a
  <2>1. \A q \in 1 .. DPSize : ChunkOf(rows, DPSize, q) \in Seq(T) /\ Distinct(ChunkOf(rows, DPSize, q))
    BY <1>1, ChunksDistinct
  <2>. QED  BY <1>1, <2>1 DEF a
<1>. HIDE DEF a
<1>4. \A j \in 1 .. Len(S) : S[j] \in Seq(T) /\ S[j] # <<>> /\ Distinct(S[j]) /\ \A x : Has(S[j], x) => Has(a, x)
  <2>1. Sliced(S, a, T)
    BY <1>1, <1>3, SplitDistinct
  <2>. HIDE DEF S
  <2>. QED  BY <2>1 DEF Sliced
<1>. DEFINE l == MiniCount(rows)
<1>5. PPOEpochs * d = l
  BY DEF MiniCount
<1>. HIDE DEF d, l, S, W
<1>6. PICK e \in 1 .. PPOEpochs, j \in 1 .. d : m = Place(e, d, j)
  <2>1. \A h \in 1 .. l : \E e \in 1 .. PPOEpochs : \E j \in 1 .. d : h = Place(e, d, j)
    BY <1>1, <1>2, <1>5, Places
  <2>2. m \in 1 .. l
    BY DEF l
  <2>. QED  BY <2>1, <2>2
<1>7. W[m] = S[j]
  BY <1>2, <1>6 DEF Repeats, Place
<1>8. W[m] \in Seq(T) /\ W[m] # <<>> /\ Distinct(W[m]) /\ \A x : Has(W[m], x) => Has(a, x)
  BY <1>2, <1>4, <1>7
<1>. QED  BY <1>8 DEF W, a

\* A row is in one mini-batch of every epoch.
LEMMA MiniBatchesOfRow ==
    ASSUME NEW T, NEW rows \in Seq(T), Distinct(rows), Len(rows) % DPSize = 0, Len(rows) # 0, NEW x
    PROVE  /\ ~ Has(rows, x) => {m \in 1 .. MiniCount(rows) : InMini(rows, m, x)} = {}
           /\ Has(rows, x) => Cardinality({m \in 1 .. MiniCount(rows) : InMini(rows, m, x)}) = PPOEpochs
<1>. DEFINE d == CeilDiv(Len(rows) \div DPSize, MiniBatchSize)
            S(r) == Split(ChunkOf(rows, DPSize, r), MiniBatchSize)
            l == MiniCount(rows)
            X == {m \in 1 .. l : InMini(rows, m, x)}
<1>1. DPSize \in Nat \ {0} /\ MiniBatchSize \in Nat \ {0} /\ PPOEpochs \in Nat /\ Ranks = 1 .. DPSize
  BY TrainingBatchAssumption DEF Ranks
<1>2. d \in Nat /\ PPOEpochs * d = l
  BY MiniBatchesOfChunk DEF MiniCount
<1>3. /\ \A r \in Ranks : \A y : Has(ChunkOf(rows, DPSize, r), y) => Has(rows, y)
      /\ \A y : Has(rows, y) => \E r \in Ranks : Has(ChunkOf(rows, DPSize, r), y)
      /\ \A r, q \in Ranks : \A y : Has(ChunkOf(rows, DPSize, r), y) /\ Has(ChunkOf(rows, DPSize, q), y) => r = q
      /\ \A r \in Ranks : ChunkOf(rows, DPSize, r) \in Seq(T) /\ Distinct(ChunkOf(rows, DPSize, r))
  BY <1>1, ChunksDistinct
<1>4. \A r \in Ranks : \A m \in 1 .. l : \A y : Has(Mini(rows, r)[m], y) => Has(ChunkOf(rows, DPSize, r), y)
  BY MiniBatchIs
<1>5. ASSUME ~ Has(rows, x) PROVE X = {}
  BY <1>3, <1>4, <1>5 DEF InMini
<1>6. ASSUME Has(rows, x) PROVE Cardinality(X) = PPOEpochs
  <2>1. PICK r \in Ranks : Has(ChunkOf(rows, DPSize, r), x)
    BY <1>3, <1>6
  <2>. DEFINE a == ChunkOf(rows, DPSize, r)
              s == Split(a, MiniBatchSize)
              W == Mini(rows, r)
  <2>2. Len(s) = d /\ Repeats(W, s, PPOEpochs)
    BY MiniBatchesOfChunk
  <2>3. /\ \A y : Has(a, y) => \E j \in 1 .. Len(s) : Has(s[j], y)
        /\ \A i, j \in 1 .. Len(s) : \A y : Has(s[i], y) /\ Has(s[j], y) => i = j
    <3>1. a \in Seq(T) /\ Distinct(a)
      BY <1>3
    <3>2. MiniBatchSize \in Nat \ {0}
      BY <1>1
    <3>. HIDE DEF a
    <3>3. Sliced(Split(a, MiniBatchSize), a, T)
      BY <3>1, <3>2, SplitDistinct
    <3>. QED  BY <3>3 DEF Sliced
  <2>4. Has(a, x)
    BY <2>1
  <2>. HIDE DEF d, s, a, W
  <2>5. PICK j \in 1 .. d : Has(s[j], x)
    BY <2>2, <2>3, <2>4
  <2>6. \A i \in 1 .. d : Has(s[i], x) <=> i = j
    BY <2>2, <2>3, <2>5
  <2>7. \A e \in 1 .. PPOEpochs : \A i \in 1 .. d : W[Place(e, d, i)] = s[i]
    BY <2>2 DEF Repeats, Place
  <2>. DEFINE Y == {Place(e, d, j) : e \in 1 .. PPOEpochs}
  <2>8. ASSUME NEW m \in 1 .. l PROVE InMini(rows, m, x) <=> Has(W[m], x)
    <3>1. ASSUME NEW q \in Ranks, Has(Mini(rows, q)[m], x) PROVE q = r
      <4>1. Has(ChunkOf(rows, DPSize, q), x)
        BY <1>4, <3>1
      <4>. QED  BY <1>3, <2>1, <4>1
    <3>. QED  BY <2>1, <3>1 DEF InMini, W
  <2>. HIDE DEF l
  <2>9. /\ \A e \in 1 .. PPOEpochs : \A i \in 1 .. d : Place(e, d, i) \in 1 .. l
        /\ \A m \in 1 .. l : \E e \in 1 .. PPOEpochs : \E i \in 1 .. d : m = Place(e, d, i)
    BY <1>1, <1>2, Places
  <2>10. ASSUME NEW m \in X PROVE m \in Y
    <3>1. Has(W[m], x)
      BY <2>8
    <3>2. PICK e \in 1 .. PPOEpochs : \E i \in 1 .. d : m = Place(e, d, i)
      BY <2>9
    <3>3. PICK i \in 1 .. d : m = Place(e, d, i)
      BY <3>2
    <3>4. i = j
      BY <2>6, <2>7, <3>1, <3>3
    <3>. QED  BY <3>3, <3>4
  <2>11. ASSUME NEW m \in Y PROVE m \in X
    <3>1. PICK e \in 1 .. PPOEpochs : m = Place(e, d, j)
      OBVIOUS
    <3>2. m \in 1 .. l /\ W[m] = s[j]
      BY <2>7, <2>9, <3>1
    <3>. QED  BY <2>5, <2>8, <3>2
  <2>12. X = Y
    <3>. HIDE DEF X, Y
    <3>. QED  BY <2>10, <2>11
  <2>13. Cardinality(Y) = PPOEpochs
    BY <1>1, <1>2, OneInEach
  <2>. QED  BY <2>12, <2>13
<1>. QED  BY <1>5, <1>6

-----------------------------------------------------------------------------
(* Sums: SumFunctionOnSet, whose recursive function exists and does not depend on the order. *)
Others(s)       == s \ {CHOOSE x \in s : TRUE}
SumStep(f, g, s) == IF s = {} THEN 0 ELSE f[CHOOSE x \in s : TRUE] + g[Others(s)]
Sums(f, S, g) == g \in [SUBSET S -> Nat] /\ \A s \in SUBSET S : g[s] = SumStep(f, g, s)

LEMMA OthersAre ==
    ASSUME NEW s, IsFiniteSet(s), s # {}
    PROVE  /\ (CHOOSE x \in s : TRUE) \in s /\ Others(s) \subseteq s
           /\ IsFiniteSet(Others(s)) /\ Cardinality(s) \in Nat /\ Cardinality(Others(s)) \in Nat
           /\ Cardinality(Others(s)) = Cardinality(s) - 1
<1>1. (CHOOSE x \in s : TRUE) \in s
  OBVIOUS
<1>2. Others(s) \subseteq s
  BY DEF Others
<1>. DEFINE y == CHOOSE x \in s : TRUE
<1>3. y \in s /\ Others(s) = s \ {y}
  BY <1>1 DEF Others
<1>. HIDE DEF y
<1>4. IsFiniteSet(s \ {y}) /\ Cardinality(s \ {y}) = Cardinality(s) - 1
  BY <1>3, FS_RemoveElement
<1>. QED  BY <1>1, <1>2, <1>3, <1>4, FS_CardinalityType

LEMMA SumsExist ==
    ASSUME NEW S, IsFiniteSet(S), NEW D, S \subseteq D, NEW f \in [D -> Nat]
    PROVE  \E g : Sums(f, S, g)
<1>. DEFINE Good(n, g) == g \in [SUBSET S -> Nat] /\ \A s \in SUBSET S : Cardinality(s) <= n => g[s] = SumStep(f, g, s)
            Z == {n \in Nat : \E g : Good(n, g)}
<1>1. ASSUME NEW s \in SUBSET S PROVE IsFiniteSet(s) /\ Cardinality(s) \in Nat /\ (Cardinality(s) = 0 <=> s = {})
  BY FS_Subset, FS_CardinalityType, FS_EmptySet
<1>2. ASSUME NEW s \in SUBSET S, s # {}
      PROVE  /\ Others(s) \in SUBSET S /\ Cardinality(Others(s)) = Cardinality(s) - 1
             /\ f[CHOOSE x \in s : TRUE] \in Nat
  BY <1>1, <1>2, OthersAre
<1>3. 0 \in Z
  <2>. DEFINE g == [s \in SUBSET S |-> 0]
  <2>1. g \in [SUBSET S -> Nat]
    OBVIOUS
  <2>2. \A s \in SUBSET S : Cardinality(s) <= 0 => g[s] = SumStep(f, g, s)
    <3>. SUFFICES ASSUME NEW s \in SUBSET S, Cardinality(s) <= 0 PROVE g[s] = SumStep(f, g, s)
      OBVIOUS
    <3>1. s = {}
      BY <1>1
    <3>. QED  BY <3>1 DEF SumStep
  <2>. HIDE DEF g
  <2>. QED  BY <2>1, <2>2
<1>4. ASSUME NEW n \in Nat, n \in Z PROVE n + 1 \in Z
  <2>1. PICK g : Good(n, g)
    BY <1>4
  <2>2. g \in [SUBSET S -> Nat] /\ \A s \in SUBSET S : Cardinality(s) <= n => g[s] = SumStep(f, g, s)
    BY <2>1
  <2>. DEFINE h == [s \in SUBSET S |-> IF Cardinality(s) = n + 1 THEN SumStep(f, g, s) ELSE g[s]]
  <2>3. \A s \in SUBSET S : h[s] = IF Cardinality(s) = n + 1 THEN SumStep(f, g, s) ELSE g[s]
    OBVIOUS
  <2>4. ASSUME NEW s \in SUBSET S PROVE SumStep(f, g, s) \in Nat
    <3>1. CASE s = {}
      BY <3>1 DEF SumStep
    <3>2. CASE s # {}
      <4>1. g[Others(s)] \in Nat /\ f[CHOOSE x \in s : TRUE] \in Nat
        BY <1>2, <2>2, <3>2
      <4>. QED  BY <3>2, <4>1 DEF SumStep
    <3>. QED  BY <3>1, <3>2
  <2>5. h \in [SUBSET S -> Nat]
    BY <2>2, <2>4
  <2>. HIDE DEF h
  <2>6. ASSUME NEW s \in SUBSET S, Cardinality(s) <= n + 1 PROVE h[s] = SumStep(f, h, s)
    <3>1. SumStep(f, h, s) = SumStep(f, g, s)
      <4>1. CASE s = {}
        BY <4>1 DEF SumStep
      <4>2. CASE s # {}
        <5>1. Others(s) \in SUBSET S /\ Cardinality(Others(s)) # n + 1
          BY <1>1, <1>2, <2>6, <4>2
        <5>2. h[Others(s)] = g[Others(s)]
          BY <2>3, <5>1
        <5>. QED  BY <4>2, <5>2 DEF SumStep
      <4>. QED  BY <4>1, <4>2
    <3>2. h[s] = SumStep(f, g, s)
      <4>1. CASE Cardinality(s) = n + 1
        BY <2>3, <4>1
      <4>2. CASE Cardinality(s) # n + 1
        <5>1. Cardinality(s) <= n
          BY <1>1, <2>6, <4>2
        <5>. QED  BY <2>2, <2>3, <4>2, <5>1
      <4>. QED  BY <4>1, <4>2
    <3>. QED  BY <3>1, <3>2
  <2>. QED  BY <2>5, <2>6
<1>5. Nat \subseteq Z
  <2>. HIDE DEF Z
  <2>. QED  BY <1>3, <1>4, NatInduct
<1>6. Cardinality(S) \in Nat /\ \A s \in SUBSET S : Cardinality(s) <= Cardinality(S)
  BY FS_CardinalityType, FS_Subset
<1>7. PICK g : Good(Cardinality(S), g)
  BY <1>5, <1>6
<1>. QED  BY <1>6, <1>7 DEF Sums

Steps(f, S, g) == \A s \in SUBSET S : g[s] = SumStep(f, g, s)

LEMMA SumsUnique ==
    ASSUME NEW S, IsFiniteSet(S), NEW f, NEW g, NEW h, NEW R \in SUBSET S, Steps(f, S, g), Steps(f, R, h)
    PROVE  \A s \in SUBSET R : h[s] = g[s]
<1>0. /\ \A s \in SUBSET S : g[s] = SumStep(f, g, s)
      /\ \A s \in SUBSET R : h[s] = SumStep(f, h, s)
  BY DEF Steps
<1>. DEFINE Z == {n \in Nat : \A s \in SUBSET R : Cardinality(s) <= n => h[s] = g[s]}
<1>1. ASSUME NEW s \in SUBSET R
      PROVE  s \in SUBSET S /\ IsFiniteSet(s) /\ Cardinality(s) \in Nat /\ (Cardinality(s) = 0 <=> s = {})
  BY FS_Subset, FS_CardinalityType, FS_EmptySet
<1>2. ASSUME NEW s \in SUBSET R, s # {}
      PROVE  Others(s) \in SUBSET R /\ Cardinality(Others(s)) \in Nat /\ Cardinality(Others(s)) = Cardinality(s) - 1
  BY <1>1, <1>2, OthersAre
<1>3. 0 \in Z
  <2>. SUFFICES ASSUME NEW s \in SUBSET R, Cardinality(s) <= 0 PROVE h[s] = g[s]
    OBVIOUS
  <2>1. s = {}
    BY <1>1
  <2>2. h[s] = 0 /\ g[s] = 0
    BY <1>0, <1>1, <2>1 DEF SumStep
  <2>. QED  BY <2>2
<1>4. ASSUME NEW n \in Nat, n \in Z PROVE n + 1 \in Z
  <2>. SUFFICES ASSUME NEW s \in SUBSET R, Cardinality(s) <= n + 1 PROVE h[s] = g[s]
    OBVIOUS
  <2>1. CASE s = {}
    <3>1. h[s] = 0 /\ g[s] = 0
      BY <1>0, <1>1, <2>1 DEF SumStep
    <3>. QED  BY <3>1
  <2>2. CASE s # {}
    <3>1. Cardinality(Others(s)) <= n /\ Others(s) \in SUBSET R
      BY <1>1, <1>2, <2>2
    <3>2. h[Others(s)] = g[Others(s)]
      BY <1>4, <3>1
    <3>3. h[s] = SumStep(f, h, s) /\ g[s] = SumStep(f, g, s)
      BY <1>0, <1>1
    <3>. QED  BY <2>2, <3>2, <3>3 DEF SumStep
  <2>. QED  BY <2>1, <2>2
<1>5. Nat \subseteq Z
  <2>. HIDE DEF Z
  <2>. QED  BY <1>3, <1>4, NatInduct
<1>. QED  BY <1>1, <1>5

LEMMA SumIs ==
    ASSUME NEW S, IsFiniteSet(S), NEW D, S \subseteq D, NEW f \in [D -> Nat]
    PROVE  \E g : Sums(f, S, g) /\ \A s \in SUBSET S : SumFunctionOnSet(f, s) = g[s]
<1>1. PICK g : Sums(f, S, g)
  BY SumsExist
<1>2. ASSUME NEW R \in SUBSET S PROVE SumFunctionOnSet(f, R) = g[R]
  <2>. DEFINE h == CHOOSE h : h = [s \in SUBSET R |->
                                     IF s = {} THEN 0 ELSE f[CHOOSE x \in s : TRUE] + h[s \ {CHOOSE x \in s : TRUE}]]
  <2>1. SumFunctionOnSet(f, R) = h[R]
    BY DEF SumFunctionOnSet, FoldFunctionOnSet, MapThenFoldSet
  <2>2. IsFiniteSet(R) /\ R \subseteq D
    BY FS_Subset
  <2>3. PICK e : Sums(f, R, e)
    BY <2>2, SumsExist
  <2>4. e = [s \in SUBSET R |-> IF s = {} THEN 0 ELSE f[CHOOSE x \in s : TRUE] + e[s \ {CHOOSE x \in s : TRUE}]]
    <3>1. e = [s \in SUBSET R |-> e[s]]
      BY <2>3 DEF Sums
    <3>2. \A s \in SUBSET R : e[s] = IF s = {} THEN 0 ELSE f[CHOOSE x \in s : TRUE] + e[s \ {CHOOSE x \in s : TRUE}]
      BY <2>3 DEF Sums, SumStep, Others
    <3>. QED  BY <3>1, <3>2
  <2>5. h = [s \in SUBSET R |-> IF s = {} THEN 0 ELSE f[CHOOSE x \in s : TRUE] + h[s \ {CHOOSE x \in s : TRUE}]]
    BY <2>4
  <2>. HIDE DEF h
  <2>6. Steps(f, R, h)
    BY <2>5 DEF Steps, SumStep, Others
  <2>7. Steps(f, S, g)
    BY <1>1 DEF Sums, Steps
  <2>8. \A s \in SUBSET R : h[s] = g[s]
    BY <2>6, <2>7, SumsUnique
  <2>9. R \in SUBSET R
    OBVIOUS
  <2>10. h[R] = g[R]
    BY <2>8, <2>9
  <2>. QED  BY <2>1, <2>10
<1>. QED  BY <1>1, <1>2

Removing(f, S, g) == \A s \in SUBSET S : \A x \in s : g[s] = f[x] + g[s \ {x}]

LEMMA SumRemoves ==
    ASSUME NEW S, IsFiniteSet(S), NEW D, S \subseteq D, NEW f \in [D -> Nat], NEW g, Sums(f, S, g)
    PROVE  Removing(f, S, g)
<1>. DEFINE Z == {n \in Nat : \A s \in SUBSET S : Cardinality(s) <= n => \A x \in s : g[s] = f[x] + g[s \ {x}]}
<1>1. ASSUME NEW s \in SUBSET S
      PROVE  IsFiniteSet(s) /\ Cardinality(s) \in Nat /\ (Cardinality(s) = 0 <=> s = {}) /\ g[s] \in Nat
  BY FS_Subset, FS_CardinalityType, FS_EmptySet DEF Sums
<1>2. ASSUME NEW s \in SUBSET S, NEW x \in s
      PROVE  s \ {x} \in SUBSET S /\ Cardinality(s \ {x}) = Cardinality(s) - 1 /\ f[x] \in Nat
  BY <1>1, FS_RemoveElement
<1>3. 0 \in Z
  BY <1>1
<1>4. ASSUME NEW n \in Nat, n \in Z PROVE n + 1 \in Z
  <2>. SUFFICES ASSUME NEW s \in SUBSET S, Cardinality(s) <= n + 1, NEW x \in s PROVE g[s] = f[x] + g[s \ {x}]
    OBVIOUS
  <2>. DEFINE y == CHOOSE y \in s : TRUE
  <2>1. y \in s
    OBVIOUS
  <2>2. g[s] = f[y] + g[s \ {y}]
    BY DEF Sums, SumStep, Others
  <2>. HIDE DEF y
  <2>3. CASE x = y
    BY <2>2, <2>3
  <2>4. CASE x # y
    <3>1. /\ s \ {y} \in SUBSET S /\ Cardinality(s \ {y}) <= n /\ x \in s \ {y}
          /\ s \ {x} \in SUBSET S /\ Cardinality(s \ {x}) <= n /\ y \in s \ {x}
      BY <1>1, <1>2, <2>1, <2>4
    <3>2. g[s \ {y}] = f[x] + g[(s \ {y}) \ {x}] /\ g[s \ {x}] = f[y] + g[(s \ {x}) \ {y}]
      BY <1>4, <3>1
    <3>3. (s \ {y}) \ {x} = (s \ {x}) \ {y} /\ (s \ {x}) \ {y} \in SUBSET S
      OBVIOUS
    <3>. DEFINE w == g[(s \ {x}) \ {y}]
    <3>4. w \in Nat /\ f[x] \in Nat /\ f[y] \in Nat
      BY <1>1, <1>2, <2>1, <3>3
    <3>5. g[s] = f[y] + (f[x] + w) /\ g[s \ {x}] = f[y] + w
      BY <2>2, <3>2, <3>3
    <3>. HIDE DEF w
    <3>. QED  BY <3>4, <3>5
  <2>. QED  BY <2>3, <2>4
<1>5. Nat \subseteq Z
  <2>. HIDE DEF Z
  <2>. QED  BY <1>3, <1>4, NatInduct
<1>6. ASSUME NEW s \in SUBSET S, NEW x \in s PROVE g[s] = f[x] + g[s \ {x}]
  <2>1. Cardinality(s) \in Nat
    BY <1>1
  <2>2. Cardinality(s) \in Z
    BY <1>5, <2>1
  <2>3. Cardinality(s) <= Cardinality(s)
    BY <2>1
  <2>. QED  BY <2>2, <2>3
<1>. QED  BY <1>6 DEF Removing

LEMMA SumOnSet ==
    ASSUME NEW S, IsFiniteSet(S), NEW D, S \subseteq D, NEW f \in [D -> Nat]
    PROVE  /\ SumFunctionOnSet(f, S) \in Nat /\ SumFunctionOnSet(f, {}) = 0
           /\ \A x \in S : SumFunctionOnSet(f, S) = f[x] + SumFunctionOnSet(f, S \ {x})
<1>1. PICK g : Sums(f, S, g) /\ \A s \in SUBSET S : SumFunctionOnSet(f, s) = g[s]
  BY SumIs
<1>2. \A s \in SUBSET S : \A x \in s : g[s] = f[x] + g[s \ {x}]
  <2>1. Removing(f, S, g)
    BY <1>1, SumRemoves
  <2>. QED  BY <2>1 DEF Removing
<1>3. SumFunctionOnSet(f, S) \in Nat
  BY <1>1 DEF Sums
<1>4. SumFunctionOnSet(f, {}) = 0
  BY <1>1 DEF Sums, SumStep
<1>. QED  BY <1>1, <1>2, <1>3, <1>4

LEMMA SumOfSequence ==
    ASSUME NEW f \in Seq(Nat)
    PROVE  SumFunction(f) \in Nat /\ SumFunction(f) = SumFunctionOnSet(f, DOMAIN f)
<1>1. Len(f) \in Nat /\ DOMAIN f = 1 .. Len(f) /\ f \in [1 .. Len(f) -> Nat]
  OBVIOUS
<1>2. IsFiniteSet(1 .. Len(f))
  BY <1>1, FS_Interval
<1>3. SumFunctionOnSet(f, 1 .. Len(f)) \in Nat
  BY <1>1, <1>2, SumOnSet
<1>. QED  BY <1>1, <1>3 DEF SumFunction

LEMMA SumUnion ==
    ASSUME NEW D, NEW f \in [D -> Nat], NEW A, NEW B, IsFiniteSet(A), IsFiniteSet(B),
           A \subseteq D, B \subseteq D, A \cap B = {}
    PROVE  SumFunctionOnSet(f, A \cup B) = SumFunctionOnSet(f, A) + SumFunctionOnSet(f, B)
<1>. DEFINE G(s) == SumFunctionOnSet(f, A \cup s) = SumFunctionOnSet(f, A) + SumFunctionOnSet(f, s)
            Z == {n \in Nat : \A s \in SUBSET B : Cardinality(s) <= n => G(s)}
<1>1. ASSUME NEW s \in SUBSET B
      PROVE  /\ IsFiniteSet(s) /\ Cardinality(s) \in Nat /\ (Cardinality(s) = 0 <=> s = {})
             /\ IsFiniteSet(A \cup s) /\ A \cup s \subseteq D /\ s \subseteq D
  BY FS_Subset, FS_CardinalityType, FS_EmptySet, FS_Union
<1>2. SumFunctionOnSet(f, A) \in Nat /\ SumFunctionOnSet(f, {}) = 0
  BY SumOnSet
<1>3. 0 \in Z
  <2>. SUFFICES ASSUME NEW s \in SUBSET B, Cardinality(s) <= 0 PROVE G(s)
    OBVIOUS
  <2>1. s = {}
    <3>1. Cardinality(s) \in Nat /\ (Cardinality(s) = 0 <=> s = {})
      BY <1>1
    <3>2. Cardinality(s) = 0
      BY <3>1
    <3>. QED  BY <3>1, <3>2
  <2>2. A \cup s = A
    BY <2>1
  <2>. QED  BY <1>2, <2>1, <2>2
<1>4. ASSUME NEW n \in Nat, n \in Z PROVE n + 1 \in Z
  <2>. SUFFICES ASSUME NEW s \in SUBSET B, Cardinality(s) <= n + 1 PROVE G(s)
    OBVIOUS
  <2>1. CASE s = {}
    <3>1. A \cup s = A
      BY <2>1
    <3>. QED  BY <1>2, <2>1, <3>1
  <2>2. CASE s # {}
    <3>1. PICK x \in s : TRUE
      BY <2>2
    <3>2. s \ {x} \in SUBSET B /\ Cardinality(s \ {x}) <= n
      <4>1. IsFiniteSet(s) /\ Cardinality(s) \in Nat
        BY <1>1
      <4>2. Cardinality(s \ {x}) = Cardinality(s) - 1
        BY <3>1, <4>1, FS_RemoveElement
      <4>. QED  BY <4>1, <4>2
    <3>3. SumFunctionOnSet(f, A \cup (s \ {x})) = SumFunctionOnSet(f, A) + SumFunctionOnSet(f, s \ {x})
      BY <1>4, <3>2
    <3>4. x \in A \cup s /\ (A \cup s) \ {x} = A \cup (s \ {x})
      BY <3>1
    <3>5. SumFunctionOnSet(f, A \cup s) = f[x] + SumFunctionOnSet(f, A \cup (s \ {x}))
      <4>1. IsFiniteSet(A \cup s) /\ A \cup s \subseteq D
        BY <1>1
      <4>2. SumFunctionOnSet(f, A \cup s) = f[x] + SumFunctionOnSet(f, (A \cup s) \ {x})
        BY <3>4, <4>1, SumOnSet
      <4>. QED  BY <3>4, <4>2
    <3>6. SumFunctionOnSet(f, s) = f[x] + SumFunctionOnSet(f, s \ {x})
      BY <1>1, <3>1, SumOnSet
    <3>7. SumFunctionOnSet(f, s \ {x}) \in Nat /\ f[x] \in Nat
      BY <1>1, <3>1, <3>2, SumOnSet
    <3>. DEFINE a == SumFunctionOnSet(f, A)
                b == SumFunctionOnSet(f, s \ {x})
    <3>8. a \in Nat /\ b \in Nat /\ SumFunctionOnSet(f, A \cup s) = f[x] + (a + b) /\ SumFunctionOnSet(f, s) = f[x] + b
      BY <1>2, <3>3, <3>5, <3>6, <3>7
    <3>9. f[x] + (a + b) = a + (f[x] + b)
      <4>. HIDE DEF a, b
      <4>. QED  BY <3>7, <3>8
    <3>. QED  BY <3>8, <3>9
  <2>. QED  BY <2>1, <2>2
<1>5. Nat \subseteq Z
  <2>. HIDE DEF Z
  <2>. QED  BY <1>3, <1>4, NatInduct
<1>6. B \in SUBSET B /\ Cardinality(B) \in Nat
  BY FS_CardinalityType
<1>. QED  BY <1>5, <1>6

LEMMA TimesInIs ==
    ASSUME NEW T, NEW rows \in Seq(T), Distinct(rows), Len(rows) % DPSize = 0, Len(rows) # 0, NEW x
    PROVE  /\ TimesIn(rows, 0, x) = 0
           /\ \A k \in 0 .. MiniCount(rows) : TimesIn(rows, k, x) \in 0 .. PPOEpochs
           /\ \A k \in 0 .. MiniCount(rows) - 1 :
                TimesIn(rows, k + 1, x) = TimesIn(rows, k, x) + (IF InMini(rows, k + 1, x) THEN 1 ELSE 0)
           /\ TimesIn(rows, MiniCount(rows), x) = IF Has(rows, x) THEN PPOEpochs ELSE 0
<1>. DEFINE l == MiniCount(rows)
            X(k) == {m \in 1 .. k : InMini(rows, m, x)}
<1>1. PPOEpochs \in Nat \ {0} /\ l \in Nat
  BY TrainingBatchAssumption, MiniBatchesOfChunk
<1>2. /\ ~ Has(rows, x) => X(l) = {}
      /\ Has(rows, x) => Cardinality(X(l)) = PPOEpochs
  BY MiniBatchesOfRow
<1>3. Cardinality({}) = 0
  BY CountEmpty
<1>. HIDE DEF l
<1>4. ASSUME NEW k \in 0 .. l
      PROVE  IsFiniteSet(X(k)) /\ Cardinality(X(k)) \in Nat /\ Cardinality(X(k)) <= Cardinality(X(l))
  <2>1. IsFiniteSet(1 .. l) /\ X(l) \subseteq 1 .. l
    BY <1>1, IntervalCounts
  <2>2. X(k) \subseteq X(l)
    BY <1>1
  <2>. DEFINE a == X(k)
              b == X(l)
  <2>3. IsFiniteSet(1 .. l) /\ b \subseteq 1 .. l /\ a \subseteq b
    BY <2>1, <2>2
  <2>. HIDE DEF a, b
  <2>4. IsFiniteSet(b)
    BY <2>3, FS_Subset
  <2>5. IsFiniteSet(a) /\ Cardinality(a) <= Cardinality(b)
    BY <2>3, <2>4, FS_Subset
  <2>6. Cardinality(a) \in Nat
    BY <2>5, FS_CardinalityType
  <2>. QED  BY <2>5, <2>6 DEF a, b
<1>5. Cardinality(X(l)) = IF Has(rows, x) THEN PPOEpochs ELSE 0
  <2>. HIDE DEF X
  <2>. QED  BY <1>2, <1>3
<1>6. X(0) = {}
  OBVIOUS
<1>7. ASSUME NEW k \in 0 .. l - 1
      PROVE  Cardinality(X(k + 1)) = Cardinality(X(k)) + (IF InMini(rows, k + 1, x) THEN 1 ELSE 0)
  <2>1. k \in 0 .. l /\ \A m : m \in 1 .. k + 1 <=> m \in 1 .. k \/ m = k + 1
    BY <1>1
  <2>2. k + 1 \notin X(k)
    OBVIOUS
  <2>3. CASE InMini(rows, k + 1, x)
    <3>1. X(k + 1) = X(k) \cup {k + 1}
      BY <2>1, <2>3
    <3>2. IsFiniteSet(X(k)) /\ Cardinality(X(k)) \in Nat
      BY <1>4, <2>1
    <3>. HIDE DEF X
    <3>3. Cardinality(X(k) \cup {k + 1}) = Cardinality(X(k)) + 1
      BY <2>2, <3>2, FS_AddElement
    <3>. QED  BY <2>3, <3>1, <3>3
  <2>4. CASE ~ InMini(rows, k + 1, x)
    <3>1. X(k + 1) = X(k)
      BY <2>1, <2>4
    <3>2. Cardinality(X(k)) \in Nat
      BY <1>4, <2>1
    <3>. HIDE DEF X
    <3>. QED  BY <2>4, <3>1, <3>2
  <2>. QED  BY <2>3, <2>4
<1>8. \A k : TimesIn(rows, k, x) = Cardinality(X(k))
  BY DEF TimesIn
<1>. HIDE DEF X
<1>9. \A k \in 0 .. l : TimesIn(rows, k, x) \in 0 .. PPOEpochs
  <2>. SUFFICES ASSUME NEW k \in 0 .. l PROVE TimesIn(rows, k, x) \in 0 .. PPOEpochs
    OBVIOUS
  <2>. QED  BY <1>1, <1>4, <1>5, <1>8
<1>. QED  BY <1>3, <1>5, <1>6, <1>7, <1>8, <1>9 DEF l

\* A row is at most once in what the ranks have put out.
Hits(out, S, x) == {p \in Ranks \X S : p[2] \in DOMAIN out[p[1]] /\ out[p[1]][p[2]] = x}

LEMMA OutputCount ==
    ASSUME NEW n \in Nat, NEW out, NEW x,
           \A r \in Ranks : out[r] \in Seq(1 .. n) /\ Distinct(out[r]),
           \A r, q \in Ranks : Has(out[r], x) /\ Has(out[q], x) => r = q
    PROVE  Cardinality(Hits(out, 1 .. n, x))
                = IF \E r \in Ranks : Has(out[r], x) THEN 1 ELSE 0
<1>. DEFINE X == {p \in Ranks \X (1 .. n) : p[2] \in DOMAIN out[p[1]] /\ out[p[1]][p[2]] = x}
<1>1. ASSUME NEW r \in Ranks PROVE DOMAIN out[r] = 1 .. Len(out[r]) /\ Len(out[r]) \in 0 .. n
  BY DistinctLength
<1>2. CASE \E r \in Ranks : Has(out[r], x)
  <2>1. PICK r \in Ranks : Has(out[r], x)
    BY <1>2
  <2>2. PICK i \in 1 .. Len(out[r]) : out[r][i] = x
    BY <2>1 DEF Has
  <2>3. i \in 1 .. n /\ <<r, i>> \in X
    BY <1>1, <2>2
  <2>4. ASSUME NEW q \in Ranks, NEW j \in 1 .. Len(out[q]), out[q][j] = x PROVE q = r /\ j = i
    <3>1. q = r
      BY <2>1, <2>4 DEF Has
    <3>. QED  BY <2>2, <2>4, <3>1 DEF Distinct
  <2>5. ASSUME NEW p \in X PROVE p = <<r, i>>
    <3>1. p[1] \in Ranks /\ p[2] \in DOMAIN out[p[1]] /\ out[p[1]][p[2]] = x /\ p = <<p[1], p[2]>>
      OBVIOUS
    <3>2. p[2] \in 1 .. Len(out[p[1]])
      BY <1>1, <3>1
    <3>3. p[1] = r /\ p[2] = i
      BY <2>4, <3>1, <3>2
    <3>. QED  BY <3>1, <3>3
  <2>6. X = {<<r, i>>}
    <3>. HIDE DEF X
    <3>. QED  BY <2>3, <2>5
  <2>7. Cardinality(X) = 1
    BY <2>6, CountOne
  <2>. QED  BY <1>2, <2>7 DEF Hits
<1>3. CASE ~ \E r \in Ranks : Has(out[r], x)
  <2>1. X = {}
    <3>. SUFFICES ASSUME NEW p \in X PROVE FALSE
      OBVIOUS
    <3>1. p[1] \in Ranks /\ p[2] \in DOMAIN out[p[1]] /\ out[p[1]][p[2]] = x
      OBVIOUS
    <3>2. p[2] \in 1 .. Len(out[p[1]])
      BY <1>1, <3>1
    <3>. QED  BY <1>3, <3>1, <3>2 DEF Has
  <2>. QED  BY <1>3, <2>1, CountEmpty DEF Hits
<1>. QED  BY <1>2, <1>3

\* The largest of the numbers that are reduced over the ranks
LEMMA LargestExists ==
    ASSUME NEW S, S # {}, NEW n \in Nat, NEW f \in [S -> 0 .. n]
    PROVE  \E m \in Range(f) : \A q \in S : f[q] <= m
<1>. DEFINE Z == {b \in Nat : (\A q \in S : f[q] <= b) => \E m \in Range(f) : \A q \in S : f[q] <= m}
<1>1. \A q \in S : f[q] \in Nat /\ f[q] \in Range(f)
  BY DEF Range
<1>2. 0 \in Z
  <2>. SUFFICES ASSUME \A q \in S : f[q] <= 0 PROVE \E m \in Range(f) : \A q \in S : f[q] <= m
    OBVIOUS
  <2>1. PICK r \in S : TRUE
    OBVIOUS
  <2>2. \A q \in S : f[q] = 0
    BY <1>1
  <2>3. 0 \in Range(f)
    BY <1>1, <2>1, <2>2
  <2>. QED  BY <2>2, <2>3
<1>3. ASSUME NEW b \in Nat, b \in Z PROVE b + 1 \in Z
  <2>. SUFFICES ASSUME \A q \in S : f[q] <= b + 1 PROVE \E m \in Range(f) : \A q \in S : f[q] <= m
    OBVIOUS
  <2>1. CASE \E r \in S : f[r] = b + 1
    <3>1. b + 1 \in Range(f)
      BY <1>1, <2>1
    <3>. QED  BY <3>1
  <2>2. CASE ~ \E r \in S : f[r] = b + 1
    <3>1. \A q \in S : f[q] <= b
      BY <1>1, <2>2
    <3>. QED  BY <1>3, <3>1
  <2>. QED  BY <2>1, <2>2
<1>4. Nat \subseteq Z
  <2>. HIDE DEF Z
  <2>. QED  BY <1>2, <1>3, NatInduct
<1>5. \A q \in S : f[q] <= n
  OBVIOUS
<1>. QED  BY <1>4, <1>5

LEMMA AgreedIs ==
    ASSUME NEW n \in Nat, num \in [Ranks -> 0 .. n], NEW r \in Ranks
    PROVE  Agreed(r) \in 0 .. n
<1>1. \E m \in Range(num) : \A q \in Ranks : num[q] <= m
  BY LargestExists
<1>2. Agreed(r) \in Range(num)
  BY <1>1 DEF Agreed
<1>. QED  BY <1>2 DEF Range

-----------------------------------------------------------------------------
(* What generation, the driver and the ranks keep to *)
Early     == {"validate", "validating", "validated", "generate", "generating"}
Scoreless == Early \cup {"balance", "balancing", "reward", "log_prob", "computing"}
Phases    == Scoreless \cup {"filter", "update", "updating", "done", "failed"}
Places8   == {"idle", "prepare", "reduce", "partition", "balance", "forward", "forwarded", "returned"}
Engines   == Cardinality(RolloutRanks)
Working   == phase \in {"computing", "updating"}

GenOK ==
    /\ test_batch \in Seq(Nat) /\ gen_batch \in Seq(Nat) /\ gen_output \in Seq(Nat) /\ pad_size \in Nat
    /\ generated \in {<<>>} \cup [RolloutRanks -> Seq(Nat)]
    /\ phase \in {"validating", "generating"} =>
        /\ Len(gen_batch) % Engines = 0
        /\ generated \in [RolloutRanks -> Seq(Nat)]
        /\ \A r \in RolloutRanks : generated[r] \in {<<>>, ChunkOf(gen_batch, Engines, r)}
    /\ phase = "validating" =>
        /\ test_batch # <<>> /\ gen_batch = Pad(test_batch, WorldSize)
        /\ pad_size = PadSize(Len(test_batch), WorldSize)
    /\ phase = "generating" =>
        gen_batch = RepeatInterleave([i \in 1 .. config.train_batch_size |-> i - 1], config.rollout_n)
    /\ phase = "validated" => gen_output = test_batch
    /\ phase = "balance" => gen_output = [row \in Rows |-> Uid(row)]

BatchOK ==
    /\ phase \in Phases
    /\ batch \in [rows : Seq(Rows), scores : Seq(Rows), old_log_probs : Seq(Rows)]
    /\ batch.rows # <<>> /\ Distinct(batch.rows)
    /\ batch.scores \in {<<>>, batch.rows} /\ batch.old_log_probs \in {<<>>, batch.rows}
    /\ phase \in Scoreless => batch.scores = <<>> /\ batch.old_log_probs = <<>>
    /\ phase = "filter" => batch.scores = batch.rows /\ batch.old_log_probs = batch.rows
    /\ rewards \in Seq(Rows)
    /\ phase \in {"log_prob", "computing"} => rewards = batch.rows
    /\ seqlen \in {<<>>} \cup [Rows -> Lengths]
    /\ phase \notin Early \cup {"failed"} => seqlen \in [Rows -> Lengths]
    /\ phase = "balancing" =>
        call[Driver].seqlen_list = LengthsOf(batch.rows) /\ call[Driver].k_partitions = WorldSize

\* What a rank has to do, how many batches that is, and how many it has done
WorkAt(place, rows, r) == IF place = "computing" THEN <<ChunkOf(rows, DPSize, r)>> ELSE Mini(rows, r)
CountAt(place, rows)   == IF place = "computing" THEN 1 ELSE MiniCount(rows)
Work(r)   == WorkAt(phase, batch.rows, r)
WorkCount == CountAt(phase, batch.rows)
Done      == WorkCount - Len(todo[1])

RanksTyped ==
    /\ at \in [Ranks -> Places8]
    /\ todo \in [Ranks -> Seq(Seq(Rows))]
    /\ num \in [Ranks -> 0 .. Cardinality(Rows)]
    /\ micro \in [Ranks -> Seq(Seq(Rows))]
    /\ indices \in [Ranks -> Seq(Rows)]
    /\ output \in [Ranks -> Seq(Rows)]

\* The order in which the rows of a rank's batch go through the model
Order(r) == IF config.use_dynamic_bsz THEN indices[r] ELSE [i \in DOMAIN Head(todo[r]) |-> i]

RankOK(r) ==
    /\ at[r] # "idle"
    /\ at[r] = "returned" => IF phase = "computing" THEN output[r] = Head(todo[r]) ELSE todo[r] = <<>>
    /\ at[r] # "returned" => todo[r] # <<>>
    /\ at[r] \in {"prepare", "reduce", "partition", "balance"} => output[r] = <<>>
    /\ at[r] \in {"reduce", "partition", "balance"} => config.use_dynamic_bsz
    /\ at[r] = "balance" =>
        call[r].seqlen_list = LengthsOf(Head(todo[r])) /\ call[r].k_partitions = num[r]
    /\ at[r] \in {"forward", "forwarded"} =>
        /\ Permutes(Order(r), Len(Head(todo[r])))
        /\ micro[r] \in Seq(Seq(1 .. Len(Head(todo[r]))))
        /\ output[r] \o Pick(Head(todo[r]), FlattenSeq(micro[r])) = Pick(Head(todo[r]), Order(r))
        /\ at[r] = "forwarded" <=> micro[r] = <<>>

WorkOK ==
    /\ ~ Working => \A r \in Ranks : at[r] \in {"idle", "returned"}
    /\ Working =>
        /\ Len(batch.rows) % DPSize = 0
        /\ Done \in 0 .. WorkCount /\ (phase = "computing" => Done = 0)
        /\ \A r \in Ranks : todo[r] = SubSeq(Work(r), Done + 1, WorkCount)
        /\ \A r \in Ranks : RankOK(r)

TrainedOK ==
    /\ phase \notin {"updating", "done"} => trained = [row \in Rows |-> 0]
    /\ phase = "updating" => trained = [row \in Rows |-> TimesIn(batch.rows, Done, row)]
    /\ phase = "done" => trained = [row \in Rows |-> IF Has(batch.rows, row) THEN PPOEpochs ELSE 0]

TBInv ==
    /\ KKInv /\ config \in Configs
    /\ GenOK /\ BatchOK /\ RanksTyped /\ WorkOK /\ TrainedOK

LEMMA ConfigIs ==
    ASSUME config \in Configs
    PROVE  /\ config.train_batch_size \in Nat \ {0} /\ config.rollout_n \in Nat \ {0}
           /\ config.use_dynamic_bsz \in BOOLEAN
           /\ Rows = 1 .. Cardinality(Rows) /\ Cardinality(Rows) \in Nat \ {0}
           /\ Cardinality(Rows) = config.train_batch_size * config.rollout_n
           /\ WorldSize \in Nat \ {0}
           /\ RolloutRanks = 1 .. Engines /\ Engines \in Nat \ {0}
<1>. DEFINE a == config.train_batch_size
            b == config.rollout_n
            s == config.sp_size
            t == config.tp_size
<1>1. a \in Nat \ {0} /\ b \in Nat \ {0} /\ s \in Nat \ {0} /\ t \in Nat \ {0} /\ config.use_dynamic_bsz \in BOOLEAN
      /\ (DPSize * s) % t = 0 /\ DPSize \in Nat \ {0}
  BY TrainingBatchAssumption
<1>2. Rows = 1 .. a * b /\ WorldSize = DPSize * s /\ RolloutRanks = 1 .. WorldSize \div t
  BY DEF Rows, WorldSize, RolloutRanks
<1>. HIDE DEF a, b, s, t
<1>3. ASSUME NEW x \in Nat \ {0}, NEW y \in Nat \ {0} PROVE x * y \in Nat \ {0}
  <2>1. 0 < x /\ 0 \in Nat
    OBVIOUS
  <2>2. x * y \in Nat /\ 0 * y \in Nat /\ 0 * y + y <= x * y
    BY <2>1, Multiples
  <2>. QED  BY <2>2
<1>4. a * b \in Nat \ {0} /\ DPSize * s \in Nat \ {0}
  BY <1>1, <1>3
<1>5. Rows = 1 .. Cardinality(Rows) /\ Cardinality(Rows) \in Nat \ {0} /\ Cardinality(Rows) = a * b
  <2>. DEFINE n == a * b
  <2>1. n \in Nat \ {0} /\ Rows = 1 .. n
    BY <1>2, <1>4
  <2>. HIDE DEF n
  <2>2. Cardinality(Rows) = n
    BY <2>1, IntervalCounts
  <2>. QED  BY <2>1, <2>2 DEF n
<1>6. RolloutRanks = 1 .. Engines /\ Engines \in Nat \ {0}
  <2>. DEFINE n == WorldSize \div t
              w == WorldSize
  <2>1. w \in Nat \ {0} /\ w % t = 0
    BY <1>1, <1>2, <1>4
  <2>2. n \in Nat \ {0}
    <3>1. n \in Nat /\ w = n * t + 0
      BY <1>1, <2>1, Quotient
    <3>. HIDE DEF n, w
    <3>2. n = 0 => n * t = 0
      BY <1>1
    <3>. QED  BY <2>1, <3>1, <3>2
  <2>3. RolloutRanks = 1 .. n
    BY <1>2
  <2>. HIDE DEF n
  <2>4. Engines = n
    BY <2>2, <2>3, IntervalCounts DEF Engines
  <2>. QED  BY <2>2, <2>3, <2>4
<1>. QED  BY <1>1, <1>2, <1>4, <1>5, <1>6 DEF a, b

LEMMA SameConfig ==
    ASSUME config' = config
    PROVE  /\ Rows' = Rows /\ WorldSize' = WorldSize /\ RolloutRanks' = RolloutRanks /\ Engines' = Engines
           /\ \A row : Uid(row)' = Uid(row)
  BY DEF Rows, WorldSize, RolloutRanks, Engines, Uid

LEMMA RanksAre ==
    1 \in Ranks /\ Ranks = 1 .. DPSize /\ DPSize \in Nat \ {0} /\ Driver \notin Ranks /\ Driver \in Callers /\ Ranks \subseteq Callers
  BY TrainingBatchAssumption DEF Ranks, Driver

LEMMA FrameKK ==
    ASSUME KKInv, UNCHANGED kkVars
    PROVE  KKInv'
  BY DEF kkVars, KKInv, HeapsOK, ReturnedOK

LEMMA FrameGen ==
    ASSUME GenOK, UNCHANGED genVars, config' = config,
           phase' = phase \/ phase' \notin {"validating", "generating", "validated", "balance"}
    PROVE  GenOK'
<1>1. /\ test_batch' = test_batch /\ pad_size' = pad_size /\ gen_batch' = gen_batch
      /\ generated' = generated /\ gen_output' = gen_output
  BY DEF genVars
<1>2. Rows' = Rows /\ WorldSize' = WorldSize /\ RolloutRanks' = RolloutRanks /\ Engines' = Engines /\ \A row : Uid(row)' = Uid(row)
  BY SameConfig
<1>3. CASE phase' = phase
  BY <1>1, <1>2, <1>3 DEF GenOK
<1>4. CASE phase' \notin {"validating", "generating", "validated", "balance"}
  BY <1>1, <1>2, <1>4 DEF GenOK
<1>. QED  BY <1>3, <1>4

LEMMA FrameBatch ==
    ASSUME BatchOK, UNCHANGED <<batch, rewards, config, seqlen, phase>>,
           phase = "balancing" => call'[Driver] = call[Driver]
    PROVE  BatchOK'
<1>1. batch' = batch /\ rewards' = rewards /\ seqlen' = seqlen /\ phase' = phase
  OBVIOUS
<1>2. Rows' = Rows /\ WorldSize' = WorldSize
  BY SameConfig
<1>3. LengthsOf(batch.rows)' = LengthsOf(batch.rows)
  BY <1>1 DEF LengthsOf
<1>. QED  BY <1>1, <1>2, <1>3 DEF BatchOK

LEMMA FrameRanks ==
    ASSUME RanksTyped, UNCHANGED rankVars, config' = config
    PROVE  RanksTyped'
<1>1. at' = at /\ todo' = todo /\ num' = num /\ micro' = micro /\ indices' = indices /\ output' = output
  BY DEF rankVars
<1>2. Rows' = Rows
  BY SameConfig
<1>. QED  BY <1>1, <1>2 DEF RanksTyped

\* While no rank works, steps of the driver do not disturb the ranks.
LEMMA FrameIdle ==
    ASSUME WorkOK, ~ Working, ~ Working', at' = at
    PROVE  WorkOK'
  BY DEF WorkOK

LEMMA FrameTrained ==
    ASSUME TrainedOK, UNCHANGED <<trained, config>>,
           phase \notin {"updating", "done"}, phase' \notin {"updating", "done"}
    PROVE  TrainedOK'
<1>1. Rows' = Rows
  BY SameConfig
<1>. QED  BY <1>1 DEF TrainedOK

\* A step of the driver before there are scores
LEMMA FrameScoreless ==
    ASSUME BatchOK, UNCHANGED <<batch, rewards, config, seqlen>>, phase \in Scoreless,
           phase' \in Scoreless \cup {"failed"}, phase' \notin {"log_prob", "computing", "balancing"},
           phase' \in Early \cup {"failed"} \/ phase \notin Early \cup {"failed"}
    PROVE  BatchOK'
<1>1. batch' = batch /\ rewards' = rewards /\ seqlen' = seqlen
  OBVIOUS
<1>2. Rows' = Rows
  BY SameConfig
<1>3. phase' \in Phases /\ phase' # "filter"
  BY DEF Phases, Scoreless, Early
<1>4. batch.scores = <<>> /\ batch.old_log_probs = <<>>
  BY DEF BatchOK
<1>5. phase' \notin Early \cup {"failed"} => seqlen \in [Rows -> Lengths]
  BY DEF BatchOK
<1>. QED  BY <1>1, <1>2, <1>3, <1>4, <1>5 DEF BatchOK

LEMMA Gathered ==
    ASSUME GenOK, config \in Configs, phase \in {"validating", "generating"}, AllGenerated
    PROVE  FlattenSeq(generated) = gen_batch
<1>1. Engines \in Nat \ {0} /\ RolloutRanks = 1 .. Engines
  BY ConfigIs
<1>2. gen_batch \in Seq(Nat) /\ Len(gen_batch) % Engines = 0 /\ generated \in [RolloutRanks -> Seq(Nat)]
  BY DEF GenOK
<1>3. \A r \in RolloutRanks : generated[r] = ChunkOf(gen_batch, Engines, r)
  BY DEF GenOK, AllGenerated
<1>4. generated = [r \in 1 .. Engines |-> ChunkOf(gen_batch, Engines, r)]
  BY <1>1, <1>2, <1>3
<1>. QED  BY <1>1, <1>2, <1>4, FlattenChunks

LEMMA GenerateKeeps ==
    ASSUME TBInv, Generate
    PROVE  TBInv'
<1>1. PICK r \in RolloutRanks : GenerateChunk(r)
  BY DEF Generate
<1>2. /\ phase \in {"validating", "generating"}
      /\ generated' = [generated EXCEPT ![r] = ChunkOf(gen_batch, Engines, r)]
      /\ UNCHANGED <<kkVars, driverVars, rankVars, test_batch, pad_size, gen_batch, gen_output, config, seqlen, trained>>
  BY <1>1 DEF GenerateChunk, Engines
<1>3. /\ phase' = phase /\ batch' = batch /\ rewards' = rewards /\ at' = at /\ todo' = todo
      /\ test_batch' = test_batch /\ pad_size' = pad_size /\ gen_batch' = gen_batch /\ gen_output' = gen_output
      /\ config' = config /\ seqlen' = seqlen /\ trained' = trained
  BY <1>2 DEF driverVars, rankVars
<1>4. GenOK'
  <2>1. Engines \in Nat \ {0} /\ RolloutRanks = 1 .. Engines
    BY ConfigIs DEF TBInv
  <2>2. /\ gen_batch \in Seq(Nat) /\ Len(gen_batch) % Engines = 0 /\ generated \in [RolloutRanks -> Seq(Nat)]
        /\ \A q \in RolloutRanks : generated[q] \in {<<>>, ChunkOf(gen_batch, Engines, q)}
    BY <1>2 DEF TBInv, GenOK
  <2>3. ChunkOf(gen_batch, Engines, r) \in Seq(Nat)
    BY <2>1, <2>2, ChunkIs DEF Chunked
  <2>4. /\ generated' \in [RolloutRanks -> Seq(Nat)]
        /\ \A q \in RolloutRanks : generated'[q] \in {<<>>, ChunkOf(gen_batch, Engines, q)}
    BY <1>2, <2>2, <2>3
  <2>5. Rows' = Rows /\ WorldSize' = WorldSize /\ RolloutRanks' = RolloutRanks /\ Engines' = Engines /\ \A row : Uid(row)' = Uid(row)
    BY <1>3, SameConfig
  <2>6. GenOK
    BY DEF TBInv
  <2>. QED  BY <1>2, <1>3, <2>4, <2>5, <2>6 DEF GenOK
<1>5. KKInv'
  BY <1>2, FrameKK DEF TBInv
<1>6. BatchOK'
  BY <1>2, <1>3, FrameBatch DEF TBInv
<1>7. RanksTyped'
  BY <1>2, <1>3, FrameRanks DEF TBInv
<1>8. WorkOK'
  BY <1>2, <1>3, FrameIdle DEF TBInv, Working
<1>9. TrainedOK'
  BY <1>2, <1>3, FrameTrained DEF TBInv
<1>. QED  BY <1>3, <1>4, <1>5, <1>6, <1>7, <1>8, <1>9 DEF TBInv

LEMMA ValidateKeeps ==
    ASSUME TBInv, Validate
    PROVE  TBInv'
<1>1. PICK n \in ValSizes :
        LET rows == [i \in 1 .. n |-> i]
        IN  /\ test_batch' = rows
            /\ pad_size' = PadSize(n, WorldSize)
            /\ CallGenerate(Pad(rows, WorldSize), "validating")
  BY DEF Validate
<1>2. /\ phase = "validate"
      /\ UNCHANGED <<kkVars, batch, rewards, rankVars, gen_output, config, seqlen, trained>>
  BY DEF Validate
<1>3. /\ batch' = batch /\ rewards' = rewards /\ at' = at /\ gen_output' = gen_output
      /\ config' = config /\ seqlen' = seqlen /\ trained' = trained
  BY <1>2 DEF rankVars
<1>. DEFINE rows == [i \in 1 .. n |-> i]
            sent == Pad(rows, WorldSize)
<1>4. test_batch' = rows /\ pad_size' = PadSize(n, WorldSize) /\ CallGenerate(sent, "validating")
  BY <1>1
<1>5. n \in Nat \ {0} /\ rows \in Seq(Nat) /\ Len(rows) = n /\ rows # <<>>
  <2>1. n \in Nat \ {0}
    BY TrainingBatchAssumption
  <2>2. rows \in Seq(Nat) /\ Len(rows) = n
    BY <2>1
  <2>. QED  BY <2>1, <2>2
<1>6. Engines \in Nat \ {0} /\ RolloutRanks = 1 .. Engines /\ WorldSize \in Nat \ {0}
  BY ConfigIs DEF TBInv
<1>7. sent \in Seq(Nat) /\ pad_size' \in Nat
  <2>. HIDE DEF rows
  <2>1. Len(rows) # 0
    BY <1>5
  <2>2. PadSize(Len(rows), WorldSize) \in Nat /\ Pad(rows, WorldSize) \in Seq(Nat)
    BY <1>5, <1>6, <2>1, PadIs
  <2>. QED  BY <1>4, <1>5, <2>2
<1>. HIDE DEF rows
<1>8. \/ /\ Len(sent) % Engines = 0 /\ phase' = "validating" /\ gen_batch' = sent
         /\ generated' = [r \in RolloutRanks |-> <<>>]
      \/ phase' = "failed" /\ gen_batch' = gen_batch /\ generated' = generated
  BY <1>4 DEF CallGenerate, Engines
<1>9. GenOK'
  <2>1. Rows' = Rows /\ WorldSize' = WorldSize /\ RolloutRanks' = RolloutRanks /\ Engines' = Engines
    BY <1>3, SameConfig
  <2>2. /\ gen_batch \in Seq(Nat) /\ gen_output \in Seq(Nat) /\ generated \in {<<>>} \cup [RolloutRanks -> Seq(Nat)]
    BY DEF TBInv, GenOK
  <2>3. test_batch' \in Seq(Nat) /\ gen_output' \in Seq(Nat) /\ pad_size' \in Nat /\ gen_batch' \in Seq(Nat)
    BY <1>3, <1>4, <1>5, <1>7, <1>8, <2>2
  <2>4. CASE phase' = "failed" /\ gen_batch' = gen_batch /\ generated' = generated
    BY <2>1, <2>2, <2>3, <2>4 DEF GenOK
  <2>5. CASE /\ Len(sent) % Engines = 0 /\ phase' = "validating" /\ gen_batch' = sent
             /\ generated' = [r \in RolloutRanks |-> <<>>]
    <3>1. <<>> \in Seq(Nat)
      OBVIOUS
    <3>2. generated' \in [RolloutRanks -> Seq(Nat)] /\ \A r \in RolloutRanks : generated'[r] = <<>>
      BY <2>5, <3>1
    <3>3. test_batch' # <<>> /\ gen_batch' = Pad(test_batch', WorldSize) /\ pad_size' = PadSize(Len(test_batch'), WorldSize)
      BY <1>4, <1>5, <2>5
    <3>. HIDE DEF sent
    <3>. QED  BY <2>1, <2>3, <2>5, <3>2, <3>3 DEF GenOK
  <2>. QED  BY <1>8, <2>4, <2>5
<1>10. KKInv'
  BY <1>2, FrameKK DEF TBInv
<1>11. phase \in Scoreless /\ phase' \in {"validating", "failed"}
  BY <1>2, <1>8 DEF Scoreless, Early
<1>12. BatchOK'
  BY <1>3, <1>11, FrameScoreless DEF TBInv, Scoreless, Early
<1>13. RanksTyped'
  BY <1>2, <1>3, FrameRanks DEF TBInv
<1>14. WorkOK'
  BY <1>2, <1>3, <1>11, FrameIdle DEF TBInv, Working
<1>15. TrainedOK'
  BY <1>2, <1>3, <1>11, FrameTrained DEF TBInv
<1>. QED  BY <1>3, <1>9, <1>10, <1>12, <1>13, <1>14, <1>15 DEF TBInv

LEMMA InitOK == Init => TBInv
<1>. SUFFICES ASSUME Init PROVE TBInv
  OBVIOUS
<1>1. KKInv /\ config \in Configs
  BY KKInitOK DEF Init
<1>2. Rows = 1 .. Cardinality(Rows) /\ Cardinality(Rows) \in Nat \ {0}
  BY <1>1, ConfigIs
<1>3. phase = "validate" /\ phase \in Early /\ phase \in Scoreless /\ phase \in Phases
  BY DEF Init, Early, Scoreless, Phases
<1>4. GenOK
  <2>1. <<>> \in Seq(Nat) /\ 0 \in Nat
    OBVIOUS
  <2>. QED  BY <1>3, <2>1 DEF Init, GenOK
<1>5. BatchOK
  <2>. DEFINE rows == [i \in Rows |-> i]
              n == Cardinality(Rows)
  <2>1. rows \in Seq(Rows) /\ Len(rows) = n /\ rows # <<>> /\ Distinct(rows)
    <3>1. n \in Nat \ {0} /\ Rows = 1 .. n
      BY <1>2
    <3>. HIDE DEF n
    <3>2. rows \in Seq(Rows) /\ Len(rows) = n
      BY <3>1
    <3>. QED  BY <3>1, <3>2 DEF Distinct
  <2>2. batch = [rows |-> rows, scores |-> <<>>, old_log_probs |-> <<>>] /\ rewards = <<>> /\ seqlen = <<>>
    BY DEF Init
  <2>3. <<>> \in Seq(Rows)
    OBVIOUS
  <2>. HIDE DEF rows, n
  <2>4. batch \in [rows : Seq(Rows), scores : Seq(Rows), old_log_probs : Seq(Rows)]
    BY <2>1, <2>2, <2>3
  <2>. QED  BY <1>3, <2>1, <2>2, <2>3, <2>4 DEF BatchOK
<1>6. RanksTyped
  <2>1. <<>> \in Seq(Seq(Rows)) /\ <<>> \in Seq(Rows) /\ 0 \in 0 .. Cardinality(Rows) /\ "idle" \in Places8
    BY <1>2 DEF Places8
  <2>. QED  BY <2>1 DEF Init, RanksTyped
<1>7. WorkOK
  BY <1>3 DEF Init, WorkOK, Working
<1>8. TrainedOK
  BY <1>3 DEF Init, TrainedOK
<1>. QED  BY <1>1, <1>4, <1>5, <1>6, <1>7, <1>8 DEF TBInv

LEMMA CollectValidationKeeps ==
    ASSUME TBInv, CollectValidation
    PROVE  TBInv'
<1>1. /\ phase = "validating" /\ AllGenerated /\ phase' = "validated"
      /\ gen_output' = Unpad(FlattenSeq(generated), pad_size)
      /\ UNCHANGED <<kkVars, batch, rewards, rankVars, test_batch, pad_size, gen_batch, generated, config, seqlen, trained>>
  BY DEF CollectValidation
<1>2. /\ batch' = batch /\ rewards' = rewards /\ at' = at /\ test_batch' = test_batch /\ pad_size' = pad_size
      /\ gen_batch' = gen_batch /\ generated' = generated /\ config' = config /\ seqlen' = seqlen /\ trained' = trained
  BY <1>1 DEF rankVars
<1>3. GenOK'
  <2>1. GenOK /\ config \in Configs
    BY DEF TBInv
  <2>2. FlattenSeq(generated) = gen_batch
    BY <1>1, <2>1, Gathered
  <2>3. test_batch \in Seq(Nat) /\ test_batch # <<>> /\ gen_batch = Pad(test_batch, WorldSize)
        /\ pad_size = PadSize(Len(test_batch), WorldSize)
    BY <1>1, <2>1 DEF GenOK
  <2>4. WorldSize \in Nat \ {0} /\ Len(test_batch) # 0
    BY <2>1, <2>3, ConfigIs
  <2>5. gen_output' = test_batch
    BY <1>1, <2>2, <2>3, <2>4, PadIs
  <2>6. Rows' = Rows /\ WorldSize' = WorldSize /\ RolloutRanks' = RolloutRanks /\ Engines' = Engines
    BY <1>2, SameConfig
  <2>. QED  BY <1>1, <1>2, <2>1, <2>3, <2>5, <2>6 DEF GenOK
<1>4. KKInv'
  BY <1>1, FrameKK DEF TBInv
<1>5. BatchOK'
  BY <1>1, <1>2, FrameScoreless DEF TBInv, Scoreless, Early
<1>6. RanksTyped'
  BY <1>1, <1>2, FrameRanks DEF TBInv
<1>7. WorkOK'
  BY <1>1, <1>2, FrameIdle DEF TBInv, Working
<1>8. TrainedOK'
  BY <1>1, <1>2, FrameTrained DEF TBInv
<1>. QED  BY <1>2, <1>3, <1>4, <1>5, <1>6, <1>7, <1>8 DEF TBInv

LEMMA EndValidationKeeps ==
    ASSUME TBInv, EndValidation
    PROVE  TBInv'
<1>1. /\ phase = "validated" /\ phase' = "generate"
      /\ test_batch' = <<>> /\ pad_size' = 0
      /\ gen_batch' = <<>> /\ generated' = <<>> /\ gen_output' = <<>>
      /\ UNCHANGED <<kkVars, batch, rewards, rankVars, config, seqlen, trained>>
  BY DEF EndValidation
<1>2. batch' = batch /\ rewards' = rewards /\ at' = at /\ config' = config /\ seqlen' = seqlen /\ trained' = trained
  BY <1>1 DEF rankVars
<1>3. GenOK'
  <2>1. <<>> \in Seq(Nat) /\ 0 \in Nat
    OBVIOUS
  <2>. QED  BY <1>1, <2>1 DEF GenOK
<1>4. KKInv'
  BY <1>1, FrameKK DEF TBInv
<1>5. BatchOK'
  BY <1>1, <1>2, FrameScoreless DEF TBInv, Scoreless, Early
<1>6. RanksTyped'
  BY <1>1, <1>2, FrameRanks DEF TBInv
<1>7. WorkOK'
  BY <1>1, <1>2, FrameIdle DEF TBInv, Working
<1>8. TrainedOK'
  BY <1>1, <1>2, FrameTrained DEF TBInv
<1>. QED  BY <1>2, <1>3, <1>4, <1>5, <1>6, <1>7, <1>8 DEF TBInv

LEMMA GenerateSequencesKeeps ==
    ASSUME TBInv, GenerateSequences
    PROVE  TBInv'
<1>. DEFINE prompts == [i \in 1 .. config.train_batch_size |-> i - 1]
            sent == RepeatInterleave(prompts, config.rollout_n)
<1>1. /\ phase = "generate" /\ CallGenerate(sent, "generating")
      /\ UNCHANGED <<kkVars, batch, rewards, rankVars, test_batch, pad_size, gen_output, config, seqlen, trained>>
  BY DEF GenerateSequences
<1>2. /\ batch' = batch /\ rewards' = rewards /\ at' = at /\ test_batch' = test_batch /\ pad_size' = pad_size
      /\ gen_output' = gen_output /\ config' = config /\ seqlen' = seqlen /\ trained' = trained
  BY <1>1 DEF rankVars
<1>3. sent \in Seq(Nat)
  <2>1. config.train_batch_size \in Nat \ {0} /\ config.rollout_n \in Nat \ {0}
    BY ConfigIs DEF TBInv
  <2>2. prompts \in Seq(Nat)
    BY <2>1
  <2>. HIDE DEF prompts
  <2>. QED  BY <2>1, <2>2, RepeatIs
<1>4. \/ /\ Len(sent) % Engines = 0 /\ phase' = "generating" /\ gen_batch' = sent
         /\ generated' = [r \in RolloutRanks |-> <<>>]
      \/ phase' = "failed" /\ gen_batch' = gen_batch /\ generated' = generated
  BY <1>1 DEF CallGenerate, Engines
<1>5. GenOK'
  <2>1. Rows' = Rows /\ WorldSize' = WorldSize /\ RolloutRanks' = RolloutRanks /\ Engines' = Engines
    BY <1>2, SameConfig
  <2>2. /\ test_batch \in Seq(Nat) /\ gen_batch \in Seq(Nat) /\ gen_output \in Seq(Nat) /\ pad_size \in Nat
        /\ generated \in {<<>>} \cup [RolloutRanks -> Seq(Nat)]
    BY DEF TBInv, GenOK
  <2>3. CASE phase' = "failed" /\ gen_batch' = gen_batch /\ generated' = generated
    BY <1>2, <2>1, <2>2, <2>3 DEF GenOK
  <2>4. CASE /\ Len(sent) % Engines = 0 /\ phase' = "generating" /\ gen_batch' = sent
             /\ generated' = [r \in RolloutRanks |-> <<>>]
    <3>1. <<>> \in Seq(Nat)
      OBVIOUS
    <3>2. generated' \in [RolloutRanks -> Seq(Nat)] /\ \A r \in RolloutRanks : generated'[r] = <<>>
      BY <2>4, <3>1
    <3>3. gen_batch' = RepeatInterleave([i \in 1 .. config'.train_batch_size |-> i - 1], config'.rollout_n)
      BY <1>2, <2>4
    <3>4. gen_batch' \in Seq(Nat) /\ Len(gen_batch') % Engines = 0
      BY <1>3, <2>4
    <3>. HIDE DEF sent
    <3>. QED  BY <1>2, <2>1, <2>2, <2>4, <3>2, <3>3, <3>4 DEF GenOK
  <2>. QED  BY <1>4, <2>3, <2>4
<1>. HIDE DEF prompts
<1>6. KKInv'
  BY <1>1, FrameKK DEF TBInv
<1>7. phase' \in {"generating", "failed"}
  BY <1>4
<1>8. BatchOK'
  BY <1>1, <1>2, <1>7, FrameScoreless DEF TBInv, Scoreless, Early
<1>9. RanksTyped'
  BY <1>1, <1>2, FrameRanks DEF TBInv
<1>10. WorkOK'
  BY <1>1, <1>2, <1>7, FrameIdle DEF TBInv, Working
<1>11. TrainedOK'
  BY <1>1, <1>2, <1>7, FrameTrained DEF TBInv
<1>. QED  BY <1>2, <1>5, <1>6, <1>8, <1>9, <1>10, <1>11 DEF TBInv

LEMMA UnionKeeps ==
    ASSUME TBInv, Union
    PROVE  TBInv'
<1>1. /\ phase = "generating" /\ AllGenerated /\ phase' = "balance"
      /\ gen_output' = FlattenSeq(generated) /\ seqlen' \in [Rows -> Lengths]
      /\ UNCHANGED <<kkVars, batch, rewards, rankVars, test_batch, pad_size, gen_batch, generated, config, trained>>
  BY DEF Union
<1>2. /\ batch' = batch /\ rewards' = rewards /\ at' = at /\ test_batch' = test_batch /\ pad_size' = pad_size
      /\ gen_batch' = gen_batch /\ generated' = generated /\ config' = config /\ trained' = trained
  BY <1>1 DEF rankVars
<1>3. Rows' = Rows /\ WorldSize' = WorldSize /\ RolloutRanks' = RolloutRanks /\ Engines' = Engines
      /\ \A row : Uid(row)' = Uid(row)
  BY <1>2, SameConfig
<1>4. GenOK'
  <2>1. GenOK /\ config \in Configs
    BY DEF TBInv
  <2>2. FlattenSeq(generated) = gen_batch
    BY <1>1, <2>1, Gathered
  <2>. DEFINE b == config.train_batch_size
              n == config.rollout_n
              prompts == [i \in 1 .. b |-> i - 1]
  <2>3. gen_batch = RepeatInterleave(prompts, n)
    BY <1>1, <2>1 DEF GenOK
  <2>4. b \in Nat \ {0} /\ n \in Nat \ {0} /\ Rows = 1 .. b * n /\ \A row : Uid(row) = (row - 1) \div n
    BY <2>1, ConfigIs DEF Uid, Rows
  <2>. HIDE DEF b, n
  <2>5. prompts \in Seq(Nat) /\ Len(prompts) = b
    BY <2>4
  <2>6. \A i \in 1 .. b * n : (i - 1) \div n + 1 \in 1 .. b
    <3>. HIDE DEF prompts
    <3>. QED  BY <2>4, <2>5, RepeatIs
  <2>7. ASSUME NEW i \in 1 .. b * n PROVE prompts[(i - 1) \div n + 1] = (i - 1) \div n
    <3>. DEFINE q == (i - 1) \div n
    <3>1. q + 1 \in 1 .. b
      BY <2>6
    <3>2. b * n \in Nat
      <4>. HIDE DEF prompts
      <4>. QED  BY <2>4
    <3>3. q \in Int
      BY <2>4, <3>2
    <3>. HIDE DEF q
    <3>4. prompts[q + 1] = q
      BY <3>1, <3>3
    <3>. QED  BY <3>4 DEF q
  <2>8. RepeatInterleave(prompts, n) = [i \in 1 .. b * n |-> prompts[(i - 1) \div n + 1]]
    <3>. HIDE DEF prompts
    <3>. QED  BY <2>5 DEF RepeatInterleave
  <2>. HIDE DEF prompts
  <2>9. [i \in 1 .. b * n |-> prompts[(i - 1) \div n + 1]] = [row \in 1 .. b * n |-> (row - 1) \div n]
    BY <2>7
  <2>10. gen_output' = [row \in Rows |-> Uid(row)]
    BY <1>1, <2>2, <2>3, <2>4, <2>8, <2>9
  <2>11. gen_output' \in Seq(Nat)
    BY <1>1, <2>1, <2>2 DEF GenOK
  <2>12. /\ test_batch \in Seq(Nat) /\ gen_batch \in Seq(Nat) /\ pad_size \in Nat
         /\ generated \in {<<>>} \cup [RolloutRanks -> Seq(Nat)]
    BY <2>1 DEF GenOK
  <2>. QED  BY <1>1, <1>2, <1>3, <2>10, <2>11, <2>12 DEF GenOK
<1>5. BatchOK'
  <2>1. BatchOK /\ phase \in Scoreless
    BY <1>1 DEF TBInv, Scoreless, Early
  <2>2. phase' \in Phases /\ phase' \in Scoreless
    BY <1>1 DEF Phases, Scoreless, Early
  <2>. QED  BY <1>1, <1>2, <1>3, <2>1, <2>2 DEF BatchOK
<1>6. KKInv'
  BY <1>1, FrameKK DEF TBInv
<1>7. RanksTyped'
  BY <1>1, <1>2, FrameRanks DEF TBInv
<1>8. WorkOK'
  BY <1>1, <1>2, FrameIdle DEF TBInv, Working
<1>9. TrainedOK'
  BY <1>1, <1>2, FrameTrained DEF TBInv
<1>. QED  BY <1>2, <1>4, <1>5, <1>6, <1>7, <1>8, <1>9 DEF TBInv

LEMMA LengthsTyped ==
    ASSUME seqlen \in [Rows -> Lengths], NEW rows \in Seq(Rows)
    PROVE  /\ LengthsOf(rows) \in Seq(Nat) /\ Len(LengthsOf(rows)) = Len(rows)
           /\ DOMAIN LengthsOf(rows) = 1 .. Len(rows)
           /\ \A i \in 1 .. Len(rows) : LengthsOf(rows)[i] \in 1 .. MaxTokenLen
<1>1. LengthsOf(rows) = [i \in 1 .. Len(rows) |-> seqlen[rows[i]]]
  BY DEF LengthsOf
<1>2. MaxTokenLen \in Nat /\ Lengths \subseteq 1 .. MaxTokenLen
  BY TrainingBatchAssumption
<1>6. \A i \in 1 .. Len(rows) : rows[i] \in Rows
  OBVIOUS
<1>3. \A i \in 1 .. Len(rows) : seqlen[rows[i]] \in 1 .. MaxTokenLen
  <2>1. \A x \in Rows : seqlen[x] \in Lengths
    OBVIOUS
  <2>. QED  BY <1>2, <1>6, <2>1
<1>4. \A i \in 1 .. Len(rows) : seqlen[rows[i]] \in Nat
  BY <1>2, <1>3
<1>5. Len(rows) \in Nat
  OBVIOUS
<1>. QED  BY <1>1, <1>3, <1>4, <1>5

LEMMA KKStepOf ==
    ASSUME KKInv, NEW c \in Callers, KKStep(c)
    PROVE  KKInv' /\ call' = call
  BY MergeKeeps, ReturnKeeps DEF KKStep, Merge, Return

LEMMA BalanceKeeps ==
    ASSUME TBInv, Balance
    PROVE  TBInv'
<1>1. /\ phase = "balance" /\ phase' \in {"balancing", "reward", "failed"}
      /\ UNCHANGED <<batch, rewards, rankVars, genVars, config, seqlen, trained>>
      /\ \/ Call(Driver, LengthsOf(batch.rows), WorldSize, TRUE) /\ phase' = "balancing"
         \/ UNCHANGED kkVars /\ phase' # "balancing"
  BY DEF Balance
<1>2. batch' = batch /\ rewards' = rewards /\ at' = at /\ config' = config /\ seqlen' = seqlen /\ trained' = trained
  BY <1>1 DEF rankVars
<1>3. KKInv /\ config \in Configs /\ BatchOK
  BY DEF TBInv
<1>4. phase \in Scoreless /\ phase \notin Early \cup {"failed"}
  BY <1>1 DEF Scoreless, Early
<1>5. KKInv' /\ (phase' = "balancing" => call'[Driver].seqlen_list = LengthsOf(batch.rows) /\ call'[Driver].k_partitions = WorldSize)
  <2>1. CASE UNCHANGED kkVars /\ phase' # "balancing"
    BY <1>3, <2>1, FrameKK
  <2>2. CASE Call(Driver, LengthsOf(batch.rows), WorldSize, TRUE)
    <3>1. seqlen \in [Rows -> Lengths] /\ batch.rows \in Seq(Rows)
      BY <1>3, <1>4 DEF BatchOK
    <3>. DEFINE lens == LengthsOf(batch.rows)
    <3>2. lens \in Seq(Nat)
      BY <3>1, LengthsTyped
    <3>. HIDE DEF lens
    <3>3. Call(Driver, lens, WorldSize, TRUE)
      BY <2>2 DEF lens
    <3>4. WorldSize \in 1 .. Len(lens) /\ TRUE \in BOOLEAN
      BY <3>3 DEF Call, MayCall
    <3>5. Driver \in Callers
      BY RanksAre
    <3>6. KKInv'
      BY <1>3, <3>2, <3>3, <3>4, <3>5, CallKeeps
    <3>7. call'[Driver].seqlen_list = lens /\ call'[Driver].k_partitions = WorldSize
      BY <1>3, <3>3, <3>5 DEF Call, KKInv
    <3>. QED  BY <3>6, <3>7 DEF lens
  <2>. QED  BY <1>1, <2>1, <2>2
<1>6. GenOK'
  BY <1>1, <1>2, FrameGen DEF TBInv
<1>7. BatchOK'
  <2>1. Rows' = Rows /\ WorldSize' = WorldSize
    BY <1>2, SameConfig
  <2>2. LengthsOf(batch.rows)' = LengthsOf(batch.rows)
    BY <1>2 DEF LengthsOf
  <2>3. phase' \in Phases /\ phase' # "filter" /\ phase' \notin {"log_prob", "computing"}
    BY <1>1 DEF Phases, Scoreless
  <2>4. batch.scores = <<>> /\ batch.old_log_probs = <<>> /\ seqlen \in [Rows -> Lengths]
    BY <1>3, <1>4 DEF BatchOK
  <2>. QED  BY <1>2, <1>3, <1>5, <2>1, <2>2, <2>3, <2>4 DEF BatchOK
<1>8. RanksTyped'
  BY <1>1, <1>2, FrameRanks DEF TBInv
<1>9. WorkOK'
  BY <1>1, <1>2, FrameIdle DEF TBInv, Working
<1>10. TrainedOK'
  BY <1>1, <1>2, FrameTrained DEF TBInv
<1>. QED  BY <1>2, <1>3, <1>5, <1>6, <1>7, <1>8, <1>9, <1>10 DEF TBInv

\* A rank is not disturbed by what happens elsewhere.
LEMMA FrameRank ==
    ASSUME NEW r, UNCHANGED <<phase, config, seqlen>>, RankOK(r),
           at'[r] = at[r], todo'[r] = todo[r], num'[r] = num[r], micro'[r] = micro[r],
           indices'[r] = indices[r], output'[r] = output[r], call'[r] = call[r]
    PROVE  RankOK(r)'
<1>1. LengthsOf(Head(todo[r]))' = LengthsOf(Head(todo[r]))
  BY DEF LengthsOf
<1>2. Order(r)' = Order(r)
  BY DEF Order
<1>. QED  BY <1>1, <1>2 DEF RankOK

LEMMA FrameWork ==
    ASSUME WorkOK, UNCHANGED <<phase, batch, config, seqlen, rankVars, call>>
    PROVE  WorkOK'
<1>1. /\ phase' = phase /\ batch' = batch /\ config' = config /\ seqlen' = seqlen /\ call' = call
      /\ at' = at /\ todo' = todo /\ num' = num /\ micro' = micro /\ indices' = indices /\ output' = output
  BY DEF rankVars
<1>2. Working' = Working /\ WorkCount' = WorkCount /\ Done' = Done /\ \A r \in Ranks : Work(r)' = Work(r)
  BY <1>1 DEF Working, WorkCount, Done, Work
<1>3. ASSUME NEW r \in Ranks, RankOK(r) PROVE RankOK(r)'
  BY <1>1, <1>3, FrameRank
<1>. QED  BY <1>1, <1>2, <1>3 DEF WorkOK

LEMMA FrameTraining ==
    ASSUME TrainedOK, UNCHANGED <<phase, batch, config, trained>>, todo'[1] = todo[1]
    PROVE  TrainedOK'
<1>1. Rows' = Rows /\ phase' = phase /\ batch' = batch /\ trained' = trained
  BY SameConfig
<1>2. Done' = Done
  BY <1>1 DEF Done, WorkCount
<1>. QED  BY <1>1, <1>2 DEF TrainedOK

\* A step of the partitioning changes neither rows nor ranks.
LEMMA PartitioningKeeps ==
    ASSUME TBInv, NEW c \in Callers, KKStep(c),
           UNCHANGED <<driverVars, rankVars, genVars, config, seqlen, trained>>
    PROVE  TBInv'
<1>1. /\ phase' = phase /\ batch' = batch /\ rewards' = rewards /\ config' = config
      /\ seqlen' = seqlen /\ trained' = trained /\ todo' = todo
  BY DEF driverVars, rankVars
<1>2. KKInv' /\ call' = call
  BY KKStepOf DEF TBInv
<1>3. GenOK'
  BY <1>1, FrameGen DEF TBInv
<1>4. BatchOK'
  BY <1>1, <1>2, FrameBatch DEF TBInv
<1>5. RanksTyped'
  BY <1>1, FrameRanks DEF TBInv
<1>6. WorkOK'
  BY <1>1, <1>2, FrameWork DEF TBInv
<1>7. TrainedOK'
  BY <1>1, FrameTraining DEF TBInv
<1>. QED  BY <1>1, <1>2, <1>3, <1>4, <1>5, <1>6, <1>7 DEF TBInv

LEMMA ReorderKeeps ==
    ASSUME TBInv, Reorder
    PROVE  TBInv'
<1>1. /\ phase = "balancing" /\ partitions[Driver] # <<>> /\ phase' = "reward"
      /\ batch' = [batch EXCEPT !.rows = Pick(@, GlobalIdx)]
      /\ partitions' = [partitions EXCEPT ![Driver] = <<>>]
      /\ UNCHANGED <<call, states_pq, rewards, rankVars, genVars, config, seqlen, trained>>
  BY DEF Reorder
<1>2. rewards' = rewards /\ at' = at /\ config' = config /\ seqlen' = seqlen /\ trained' = trained
  BY <1>1 DEF rankVars
<1>3. KKInv /\ config \in Configs /\ BatchOK
  BY DEF TBInv
<1>4. KKInv'
  <2>1. \A c \in Callers : partitions'[c] = partitions[c] \/ partitions'[c] = <<>>
    BY <1>1, <1>3 DEF KKInv
  <2>2. ReturnedOK'
    BY <1>1, <1>3, <2>1 DEF KKInv, ReturnedOK
  <2>3. HeapsOK' /\ DOMAIN partitions' = Callers
    BY <1>1, <1>3 DEF KKInv, HeapsOK
  <2>. QED  BY <1>1, <1>3, <2>2, <2>3 DEF KKInv
<1>. DEFINE rows == batch.rows
            n == Len(rows)
            P == partitions[Driver]
            s == [i \in 1 .. WorldSize |-> Ascending(P[i])]
<1>5. rows \in Seq(Rows) /\ rows # <<>> /\ Distinct(rows) /\ seqlen \in [Rows -> Lengths]
  BY <1>1, <1>3 DEF BatchOK, Early
<1>6. LengthsOf(rows) = call[Driver].seqlen_list /\ call[Driver].k_partitions = WorldSize
  BY <1>1, <1>3 DEF BatchOK
<1>7. DOMAIN LengthsOf(rows) = 1 .. n /\ n \in Nat
  BY <1>5, LengthsTyped
<1>8. Permutes(GlobalIdx, n)
  <2>1. Exact(P, LengthsOf(rows), WorldSize, call[Driver].equal_size)
    BY <1>1, <1>3, <1>6, RanksAre DEF KKInv, ReturnedOK
  <2>2. /\ P \in [1 .. WorldSize -> SUBSET (1 .. n)]
        /\ \A x \in 1 .. n : \E i \in 1 .. WorldSize : x \in P[i]
        /\ \A i, j \in 1 .. WorldSize : i # j => P[i] \cap P[j] = {}
    BY <1>7, <2>1 DEF Exact
  <2>3. WorldSize \in Nat
    BY <1>3, ConfigIs
  <2>4. GlobalIdx = FlattenSeq(s)
    BY DEF GlobalIdx
  <2>. HIDE DEF s, P, n, rows
  <2>5. s = [i \in 1 .. WorldSize |-> Ascending(P[i])]
    BY DEF s
  <2>6. Permutes(FlattenSeq(s), n)
    BY <1>7, <2>2, <2>3, <2>5, PartitionPermutes
  <2>. QED  BY <2>4, <2>6
<1>9. /\ Pick(rows, GlobalIdx) \in Seq(Rows) /\ Len(Pick(rows, GlobalIdx)) = n
      /\ Distinct(Pick(rows, GlobalIdx))
  BY <1>5, <1>8, PickPermutation
<1>10. BatchOK'
  <2>1. batch \in [rows : Seq(Rows), scores : Seq(Rows), old_log_probs : Seq(Rows)]
    BY <1>3 DEF BatchOK
  <2>2. /\ batch'.rows = Pick(rows, GlobalIdx) /\ batch'.scores = batch.scores
        /\ batch'.old_log_probs = batch.old_log_probs
        /\ batch' \in [rows : Seq(Rows), scores : Seq(Rows), old_log_probs : Seq(Rows)]
    <3>. HIDE DEF n
    <3>1. Pick(batch.rows, GlobalIdx) \in Seq(Rows)
      BY <1>9
    <3>. QED  BY <1>1, <2>1, <3>1
  <2>3. batch.scores = <<>> /\ batch.old_log_probs = <<>>
    BY <1>1, <1>3 DEF BatchOK, Scoreless
  <2>4. Pick(rows, GlobalIdx) # <<>>
    <3>. HIDE DEF rows
    <3>1. Len(rows) # 0
      BY <1>5
    <3>. QED  BY <1>9, <3>1
  <2>5. Rows' = Rows /\ WorldSize' = WorldSize
    BY <1>2, SameConfig
  <2>6. phase' \in Phases /\ phase' # "filter" /\ phase' # "balancing" /\ phase' \notin {"log_prob", "computing"}
    BY <1>1 DEF Phases, Scoreless
  <2>. HIDE DEF rows, n
  <2>7. batch'.rows # <<>> /\ Distinct(batch'.rows)
    BY <1>9, <2>2, <2>4
  <2>. QED  BY <1>2, <1>3, <1>5, <2>2, <2>3, <2>5, <2>6, <2>7 DEF BatchOK
<1>11. GenOK'
  BY <1>1, <1>2, FrameGen DEF TBInv
<1>12. RanksTyped'
  BY <1>1, <1>2, FrameRanks DEF TBInv
<1>13. WorkOK'
  BY <1>1, <1>2, FrameIdle DEF TBInv, Working
<1>14. TrainedOK'
  BY <1>1, <1>2, FrameTrained DEF TBInv
<1>. QED  BY <1>2, <1>3, <1>4, <1>10, <1>11, <1>12, <1>13, <1>14 DEF TBInv

LEMMA LaunchRewardKeeps ==
    ASSUME TBInv, LaunchReward
    PROVE  TBInv'
<1>1. /\ phase = "reward" /\ phase' = "log_prob" /\ rewards' = batch.rows
      /\ UNCHANGED <<kkVars, batch, rankVars, genVars, config, seqlen, trained>>
  BY DEF LaunchReward
<1>2. batch' = batch /\ at' = at /\ config' = config /\ seqlen' = seqlen /\ trained' = trained
  BY <1>1 DEF rankVars
<1>3. BatchOK'
  <2>1. BatchOK
    BY DEF TBInv
  <2>2. Rows' = Rows
    BY <1>2, SameConfig
  <2>3. batch.scores = <<>> /\ batch.old_log_probs = <<>> /\ seqlen \in [Rows -> Lengths] /\ batch.rows \in Seq(Rows)
    BY <1>1, <2>1 DEF BatchOK, Scoreless, Early
  <2>4. phase' \in Phases /\ phase' # "filter" /\ phase' # "balancing"
    BY <1>1 DEF Phases, Scoreless
  <2>. QED  BY <1>1, <1>2, <2>1, <2>2, <2>3, <2>4 DEF BatchOK
<1>4. KKInv'
  BY <1>1, FrameKK DEF TBInv
<1>5. GenOK'
  BY <1>1, <1>2, FrameGen DEF TBInv
<1>6. RanksTyped'
  BY <1>1, <1>2, FrameRanks DEF TBInv
<1>7. WorkOK'
  BY <1>1, <1>2, FrameIdle DEF TBInv, Working
<1>8. TrainedOK'
  BY <1>1, <1>2, FrameTrained DEF TBInv
<1>. QED  BY <1>2, <1>3, <1>4, <1>5, <1>6, <1>7, <1>8 DEF TBInv

\* What a call gives a rank to do: batches of different rows of its chunk, none empty
Worked(T, rows, r, w, n) ==
    /\ w \in Seq(Seq(T)) /\ Len(w) = n /\ n \in Nat \ {0}
    /\ \A m \in 1 .. n : /\ w[m] \in Seq(T) /\ w[m] # <<>> /\ Distinct(w[m])
                         /\ \A x : Has(w[m], x) => Has(ChunkOf(rows, DPSize, r), x)

LEMMA WorkIs ==
    ASSUME NEW T, NEW rows \in Seq(T), Distinct(rows), Len(rows) % DPSize = 0, rows # <<>>,
           NEW place, NEW r \in Ranks
    PROVE  Worked(T, rows, r, WorkAt(place, rows, r), CountAt(place, rows))
<1>1. Len(rows) # 0 /\ Ranks = 1 .. DPSize /\ DPSize \in Nat \ {0}
  BY RanksAre
<1>2. CASE place = "computing"
  <2>. DEFINE chunk == ChunkOf(rows, DPSize, r)
  <2>1. chunk \in Seq(T) /\ Distinct(chunk) /\ Len(chunk) = Len(rows) \div DPSize
    BY <1>1, ChunksDistinct
  <2>2. Len(rows) \div DPSize \in Nat \ {0}
    BY <1>1, MiniBatchesOfChunk
  <2>. HIDE DEF chunk
  <2>3. chunk # <<>>
    BY <2>1, <2>2
  <2>4. <<chunk>> \in Seq(Seq(T)) /\ Len(<<chunk>>) = 1 /\ <<chunk>>[1] = chunk
    BY <2>1
  <2>5. WorkAt(place, rows, r) = <<chunk>> /\ CountAt(place, rows) = 1
    BY <1>2 DEF WorkAt, CountAt, chunk
  <2>. QED  BY <2>1, <2>3, <2>4, <2>5 DEF Worked, chunk
<1>3. CASE place # "computing"
  <2>1. /\ MiniCount(rows) \in Nat \ {0} /\ Mini(rows, r) \in Seq(Seq(T))
        /\ Len(Mini(rows, r)) = MiniCount(rows)
    BY <1>1, MiniBatchesOfChunk
  <2>2. \A m \in 1 .. MiniCount(rows) :
            /\ Mini(rows, r)[m] \in Seq(T) /\ Mini(rows, r)[m] # <<>> /\ Distinct(Mini(rows, r)[m])
            /\ \A x : Has(Mini(rows, r)[m], x) => Has(ChunkOf(rows, DPSize, r), x)
    BY <1>1, MiniBatchIs
  <2>3. WorkAt(place, rows, r) = Mini(rows, r) /\ CountAt(place, rows) = MiniCount(rows)
    BY <1>3 DEF WorkAt, CountAt
  <2>. QED  BY <2>1, <2>2, <2>3 DEF Worked
<1>. QED  BY <1>2, <1>3

LEMMA WholeSequence ==
    ASSUME NEW T, NEW s \in Seq(T)
    PROVE  SubSeq(s, 1, Len(s)) = s
  OBVIOUS

LEMMA DispatchKeeps ==
    ASSUME TBInv, NEW next \in {"computing", "updating"}, NEW work, Dispatch(work, next),
           work = [r \in Ranks |-> WorkAt(next, batch.rows, r)],
           phase = IF next = "computing" THEN "log_prob" ELSE "update"
    PROVE  TBInv'
<1>1. /\ UNCHANGED <<kkVars, batch, rewards, num, micro, indices, genVars, config, seqlen, trained>>
      /\ \/ /\ Len(batch.rows) % DPSize = 0
            /\ todo' = work
            /\ at' = [r \in Ranks |-> "prepare"]
            /\ output' = [r \in Ranks |-> <<>>]
            /\ phase' = next
         \/ phase' = "failed" /\ todo' = todo /\ at' = at /\ output' = output
  BY DEF Dispatch
<1>2. /\ batch' = batch /\ rewards' = rewards /\ config' = config /\ seqlen' = seqlen /\ trained' = trained
      /\ num' = num /\ micro' = micro /\ indices' = indices
      /\ phase' \in {next, "failed"}
  BY <1>1
<1>3. Rows' = Rows
  BY <1>2, SameConfig
<1>4. BatchOK /\ WorkOK /\ RanksTyped /\ TrainedOK
  BY DEF TBInv
<1>5. batch.rows \in Seq(Rows) /\ batch.rows # <<>> /\ Distinct(batch.rows)
  BY <1>4 DEF BatchOK
<1>6. KKInv'
  BY <1>1, FrameKK DEF TBInv
<1>7. GenOK'
  BY <1>1, <1>2, FrameGen DEF TBInv
<1>8. BatchOK'
  <2>1. phase' \in Phases /\ phase' # "filter" /\ phase' # "balancing" /\ phase' # "log_prob"
    BY <1>2 DEF Phases, Scoreless
  <2>2. seqlen \in [Rows -> Lengths]
    BY <1>4 DEF BatchOK, Early
  <2>3. phase' \in Scoreless => phase = "log_prob" /\ phase \in Scoreless
    BY <1>2 DEF Scoreless, Early
  <2>4. phase' = "computing" => phase = "log_prob"
    BY <1>2
  <2>. QED  BY <1>2, <1>3, <1>4, <2>1, <2>2, <2>3, <2>4 DEF BatchOK
<1>9. ASSUME Len(batch.rows) % DPSize = 0, todo' = work, at' = [r \in Ranks |-> "prepare"],
             output' = [r \in Ranks |-> <<>>], phase' = next
      PROVE  RanksTyped' /\ WorkOK' /\ TrainedOK'
  <2>. DEFINE n == CountAt(next, batch.rows)
  <2>1. \A r \in Ranks : Worked(Rows, batch.rows, r, WorkAt(next, batch.rows, r), n)
    BY <1>5, <1>9, WorkIs
  <2>2. Working' /\ WorkCount' = n /\ \A r \in Ranks : Work(r)' = WorkAt(next, batch.rows, r)
    BY <1>2, <1>9 DEF Working, WorkCount, Work
  <2>. HIDE DEF n
  <2>3. n \in Nat \ {0} /\ \A r \in Ranks : todo'[r] = WorkAt(next, batch.rows, r)
        /\ todo'[r] \in Seq(Seq(Rows)) /\ Len(todo'[r]) = n
    BY <1>9, <2>1, RanksAre DEF Worked
  <2>4. Done' = 0
    <3>1. Len(todo'[1]) = n
      BY <2>3, RanksAre
    <3>. QED  BY <2>2, <2>3, <3>1 DEF Done
  <2>5. RanksTyped'
    <3>1. todo' \in [Ranks -> Seq(Seq(Rows))]
      BY <1>9, <2>3
    <3>2. at' \in [Ranks -> Places8]
      BY <1>9 DEF Places8
    <3>3. <<>> \in Seq(Rows)
      OBVIOUS
    <3>4. output' \in [Ranks -> Seq(Rows)]
      BY <1>9, <3>3
    <3>. QED  BY <1>2, <1>3, <1>4, <3>1, <3>2, <3>4 DEF RanksTyped
  <2>6. \A r \in Ranks : todo'[r] = SubSeq(Work(r)', Done' + 1, WorkCount')
    <3>. SUFFICES ASSUME NEW r \in Ranks PROVE todo'[r] = SubSeq(todo'[r], 1, Len(todo'[r]))
      BY <2>2, <2>3, <2>4
    <3>. QED  BY <2>3, WholeSequence
  <2>7. \A r \in Ranks : RankOK(r)'
    <3>. SUFFICES ASSUME NEW r \in Ranks PROVE RankOK(r)'
      OBVIOUS
    <3>1. at'[r] = "prepare" /\ output'[r] = <<>>
      BY <1>9
    <3>2. todo'[r] # <<>>
      BY <2>3
    <3>. QED  BY <3>1, <3>2 DEF RankOK
  <2>8. WorkOK'
    BY <1>2, <1>9, <2>2, <2>3, <2>4, <2>6, <2>7 DEF WorkOK
  <2>9. TrainedOK'
    <3>1. trained = [row \in Rows |-> 0]
      BY <1>4 DEF TrainedOK
    <3>2. \A row : TimesIn(batch.rows, 0, row) = 0
      <4>1. Len(batch.rows) # 0
        BY <1>5
      <4>. QED  BY <1>5, <1>9, <4>1, TimesInIs
    <3>3. trained' = [row \in Rows |-> TimesIn(batch.rows, 0, row)]
      BY <1>2, <3>1, <3>2
    <3>. QED  BY <1>2, <1>3, <1>9, <2>4, <3>1, <3>3 DEF TrainedOK
  <2>. QED  BY <2>5, <2>8, <2>9
<1>10. ASSUME phase' = "failed", todo' = todo, at' = at, output' = output
       PROVE  RanksTyped' /\ WorkOK' /\ TrainedOK'
  <2>1. RanksTyped'
    BY <1>2, <1>3, <1>4, <1>10 DEF RanksTyped
  <2>2. WorkOK'
    BY <1>4, <1>10, FrameIdle DEF Working
  <2>3. TrainedOK'
    BY <1>2, <1>4, <1>10, FrameTrained
  <2>. QED  BY <2>1, <2>2, <2>3
<1>11. RanksTyped' /\ WorkOK' /\ TrainedOK'
  BY <1>1, <1>9, <1>10
<1>. QED  BY <1>2, <1>6, <1>7, <1>8, <1>11 DEF TBInv

LEMMA ComputeLogProbKeeps ==
    ASSUME TBInv, ComputeLogProb
    PROVE  TBInv'
<1>. DEFINE work == [r \in Ranks |-> <<ChunkOf(batch.rows, DPSize, r)>>]
<1>1. phase = "log_prob" /\ Dispatch(work, "computing")
  BY DEF ComputeLogProb
<1>2. work = [r \in Ranks |-> WorkAt("computing", batch.rows, r)]
  BY DEF WorkAt
<1>. HIDE DEF work
<1>. QED  BY <1>1, <1>2, DispatchKeeps

LEMMA UpdateActorKeeps ==
    ASSUME TBInv, UpdateActor
    PROVE  TBInv'
<1>. DEFINE work == [r \in Ranks |-> MiniBatches(ChunkOf(batch.rows, DPSize, r))]
<1>1. phase = "update" /\ Dispatch(work, "updating")
  BY DEF UpdateActor
<1>2. work = [r \in Ranks |-> WorkAt("updating", batch.rows, r)]
  BY DEF WorkAt, Mini
<1>. HIDE DEF work
<1>. QED  BY <1>1, <1>2, DispatchKeeps

LEMMA CollectKeeps ==
    ASSUME TBInv, Collect
    PROVE  TBInv'
<1>. DEFINE out == [r \in Ranks |-> output[r]]
            rows == batch.rows
<1>1. /\ phase = "computing" /\ (\A r \in Ranks : at[r] = "returned") /\ phase' = "filter"
      /\ batch' = [batch EXCEPT !.old_log_probs = FlattenSeq(out), !.scores = rewards]
      /\ at' = [r \in Ranks |-> "idle"]
      /\ UNCHANGED <<kkVars, rewards, todo, num, micro, indices, output, genVars, config, seqlen, trained>>
  BY DEF Collect, AllReturned
<1>2. /\ rewards' = rewards /\ config' = config /\ seqlen' = seqlen /\ trained' = trained /\ todo' = todo
      /\ num' = num /\ micro' = micro /\ indices' = indices /\ output' = output
  BY <1>1
<1>3. Rows' = Rows
  BY <1>2, SameConfig
<1>4. BatchOK /\ WorkOK /\ RanksTyped /\ TrainedOK
  BY DEF TBInv
<1>5. rows \in Seq(Rows) /\ rows # <<>> /\ Distinct(rows) /\ rewards = rows /\ seqlen \in [Rows -> Lengths]
  BY <1>1, <1>4 DEF BatchOK, Early
<1>6. FlattenSeq(out) = rows
  <2>1. /\ Len(rows) % DPSize = 0 /\ Done = 0 /\ WorkCount = 1
        /\ \A r \in Ranks : todo[r] = SubSeq(Work(r), Done + 1, WorkCount) /\ RankOK(r)
    BY <1>1, <1>4 DEF WorkOK, Working, WorkCount, CountAt
  <2>2. ASSUME NEW r \in Ranks PROVE output[r] = ChunkOf(rows, DPSize, r)
    <3>. DEFINE chunk == ChunkOf(rows, DPSize, r)
    <3>1. todo[r] = SubSeq(<<chunk>>, 1, 1)
      BY <1>1, <2>1 DEF Work, WorkAt
    <3>2. output[r] = Head(todo[r])
      BY <1>1, <2>1 DEF RankOK
    <3>. HIDE DEF chunk
    <3>3. <<chunk>> \in Seq({chunk}) /\ Len(<<chunk>>) = 1 /\ Head(<<chunk>>) = chunk
      OBVIOUS
    <3>4. SubSeq(<<chunk>>, 1, 1) = <<chunk>>
      BY <3>3, WholeSequence
    <3>. QED  BY <3>1, <3>2, <3>3, <3>4 DEF chunk
  <2>3. out = [r \in 1 .. DPSize |-> ChunkOf(rows, DPSize, r)]
    BY <2>2, RanksAre
  <2>4. rows \in Seq(Rows) /\ DPSize \in Nat \ {0} /\ Len(rows) % DPSize = 0
    BY <1>5, <2>1, RanksAre
  <2>. HIDE DEF out, rows
  <2>. QED  BY <2>3, <2>4, FlattenChunks
<1>7. BatchOK'
  <2>1. batch \in [rows : Seq(Rows), scores : Seq(Rows), old_log_probs : Seq(Rows)]
    BY <1>4 DEF BatchOK
  <2>. HIDE DEF out
  <2>2. /\ batch'.rows = rows /\ batch'.scores = rows /\ batch'.old_log_probs = rows
        /\ batch' \in [rows : Seq(Rows), scores : Seq(Rows), old_log_probs : Seq(Rows)]
    BY <1>1, <1>5, <1>6, <2>1
  <2>3. phase' \in Phases /\ phase' \notin Scoreless /\ phase' \notin {"log_prob", "computing", "balancing"}
    BY <1>1 DEF Phases, Scoreless, Early
  <2>. HIDE DEF rows
  <2>4. rewards' \in Seq(Rows)
    BY <1>2, <1>5
  <2>. QED  BY <1>2, <1>3, <1>5, <2>2, <2>3, <2>4 DEF BatchOK
<1>8. KKInv'
  BY <1>1, FrameKK DEF TBInv
<1>9. GenOK'
  BY <1>1, <1>2, FrameGen DEF TBInv
<1>10. RanksTyped'
  <2>1. at' \in [Ranks -> Places8]
    BY <1>1 DEF Places8
  <2>. QED  BY <1>2, <1>3, <1>4, <2>1 DEF RanksTyped
<1>11. WorkOK'
  BY <1>1 DEF WorkOK, Working
<1>12. TrainedOK'
  BY <1>1, <1>2, <1>4, FrameTrained
<1>. QED  BY <1>2, <1>7, <1>8, <1>9, <1>10, <1>11, <1>12 DEF TBInv

LEMMA KeepGroupsPicks ==
    ASSUME NEW T, NEW rows \in Seq(T), rows # <<>>, Distinct(rows),
           NEW kept \in SUBSET DOMAIN rows, NEW idx,
           idx = Ascending(IF kept = {} THEN DOMAIN rows ELSE kept)
    PROVE  Pick(rows, idx) \in Seq(T) /\ Pick(rows, idx) # <<>> /\ Distinct(Pick(rows, idx))
<1>. DEFINE n == Len(rows)
            S == IF kept = {} THEN DOMAIN rows ELSE kept
<1>1. n \in Nat /\ DOMAIN rows = 1 .. n /\ n # 0
  OBVIOUS
<1>2. S \in SUBSET (1 .. n) /\ S # {} /\ idx = Ascending(S)
  BY <1>1
<1>. HIDE DEF S, n
<1>3. S \in SUBSET Nat /\ IsFiniteSet(S)
  <2>1. IsFiniteSet(1 .. n)
    BY <1>1, IntervalCounts
  <2>2. 1 .. n \subseteq Nat
    BY <1>1
  <2>. QED  BY <1>2, <2>1, <2>2, FS_Subset
<1>4. idx \in Seq(S) /\ Distinct(idx) /\ \A x \in S : Has(idx, x)
  BY <1>2, <1>3, AscendingIs
<1>5. idx \in Seq(1 .. n) /\ Len(idx) # 0
  <2>1. Len(idx) # 0
    <3>1. PICK x \in S : TRUE
      BY <1>2
    <3>2. PICK i \in 1 .. Len(idx) : idx[i] = x
      BY <1>4 DEF Has
    <3>. QED  BY <3>2
  <2>3. idx \in Seq(1 .. n)
    <3>. DEFINE I == 1 .. n
    <3>1. S \in SUBSET I
      BY <1>2
    <3>. HIDE DEF I
    <3>2. idx \in Seq(I)
      BY <1>4, <3>1
    <3>. QED  BY <3>2 DEF I
  <2>. QED  BY <2>1, <2>3
<1>6. Pick(rows, idx) \in Seq(T) /\ Len(Pick(rows, idx)) = Len(idx) /\ Distinct(Pick(rows, idx))
  BY <1>4, <1>5, PickIs DEF n
<1>. QED  BY <1>5, <1>6

LEMMA FilterKeeps ==
    ASSUME TBInv, Filter
    PROVE  TBInv'
<1>1. /\ phase = "filter" /\ phase' = "update" /\ (KeepGroups \/ batch' = batch)
      /\ UNCHANGED <<kkVars, rewards, rankVars, genVars, config, seqlen, trained>>
  BY DEF Filter
<1>2. rewards' = rewards /\ at' = at /\ config' = config /\ seqlen' = seqlen /\ trained' = trained
  BY <1>1 DEF rankVars
<1>3. Rows' = Rows
  BY <1>2, SameConfig
<1>4. BatchOK
  BY DEF TBInv
<1>5. /\ batch.rows \in Seq(Rows) /\ batch.rows # <<>> /\ Distinct(batch.rows) /\ seqlen \in [Rows -> Lengths]
      /\ batch.scores = batch.rows /\ batch.old_log_probs = batch.rows
  BY <1>1, <1>4 DEF BatchOK, Early
<1>6. /\ batch' \in [rows : Seq(Rows), scores : Seq(Rows), old_log_probs : Seq(Rows)]
      /\ batch'.rows # <<>> /\ Distinct(batch'.rows) /\ batch'.scores = batch'.rows /\ batch'.old_log_probs = batch'.rows
  <2>1. CASE batch' = batch
    BY <1>4, <1>5, <2>1 DEF BatchOK
  <2>2. CASE KeepGroups
    <3>1. PICK keep \in SUBSET {Uid(row) : row \in Rows} :
            LET kept == {i \in DOMAIN batch.rows : Uid(batch.rows[i]) \in keep}
                idx  == Ascending(IF kept = {} THEN DOMAIN batch.rows ELSE kept)
            IN  batch' = [rows          |-> Pick(batch.rows, idx),
                          scores        |-> Pick(batch.scores, idx),
                          old_log_probs |-> Pick(batch.old_log_probs, idx)]
      BY <2>2 DEF KeepGroups
    <3>. DEFINE kept == {i \in DOMAIN batch.rows : Uid(batch.rows[i]) \in keep}
                idx  == Ascending(IF kept = {} THEN DOMAIN batch.rows ELSE kept)
                new  == Pick(batch.rows, idx)
    <3>2. batch' = [rows |-> new, scores |-> new, old_log_probs |-> new]
      BY <1>5, <3>1
    <3>3. kept \in SUBSET DOMAIN batch.rows
      OBVIOUS
    <3>. HIDE DEF kept
    <3>4. idx = Ascending(IF kept = {} THEN DOMAIN batch.rows ELSE kept)
      OBVIOUS
    <3>. HIDE DEF idx
    <3>5. new \in Seq(Rows) /\ new # <<>> /\ Distinct(new)
      BY <1>5, <3>3, <3>4, KeepGroupsPicks
    <3>. HIDE DEF new
    <3>. QED  BY <3>2, <3>5
  <2>. QED  BY <1>1, <2>1, <2>2
<1>7. BatchOK'
  <2>1. phase' \in Phases /\ phase' \notin Scoreless /\ phase' \notin {"log_prob", "computing", "balancing", "filter"}
    BY <1>1 DEF Phases, Scoreless, Early
  <2>2. rewards' \in Seq(Rows)
    BY <1>2, <1>4 DEF BatchOK
  <2>. QED  BY <1>2, <1>3, <1>5, <1>6, <2>1, <2>2 DEF BatchOK
<1>8. KKInv'
  BY <1>1, FrameKK DEF TBInv
<1>9. GenOK'
  BY <1>1, <1>2, FrameGen DEF TBInv
<1>10. RanksTyped'
  BY <1>1, <1>2, FrameRanks DEF TBInv
<1>11. WorkOK'
  BY <1>1, <1>2, FrameIdle DEF TBInv, Working
<1>12. TrainedOK'
  BY <1>1, <1>2, FrameTrained DEF TBInv
<1>. QED  BY <1>2, <1>7, <1>8, <1>9, <1>10, <1>11, <1>12 DEF TBInv

LEMMA FinishKeeps ==
    ASSUME TBInv, Finish
    PROVE  TBInv'
<1>1. /\ phase = "updating" /\ (\A r \in Ranks : at[r] = "returned") /\ phase' = "done"
      /\ UNCHANGED <<kkVars, batch, rewards, rankVars, genVars, config, seqlen, trained>>
  BY DEF Finish, AllReturned
<1>2. batch' = batch /\ rewards' = rewards /\ at' = at /\ config' = config /\ seqlen' = seqlen /\ trained' = trained
  BY <1>1 DEF rankVars
<1>3. Rows' = Rows
  BY <1>2, SameConfig
<1>4. BatchOK /\ WorkOK /\ TrainedOK
  BY DEF TBInv
<1>5. BatchOK'
  <2>1. phase' \in Phases /\ phase' \notin Scoreless /\ phase' \notin {"log_prob", "computing", "balancing", "filter"}
    BY <1>1 DEF Phases, Scoreless, Early
  <2>2. seqlen \in [Rows -> Lengths]
    BY <1>1, <1>4 DEF BatchOK, Early
  <2>. QED  BY <1>2, <1>3, <1>4, <2>1, <2>2 DEF BatchOK
<1>6. KKInv'
  BY <1>1, FrameKK DEF TBInv
<1>7. GenOK'
  BY <1>1, <1>2, FrameGen DEF TBInv
<1>8. RanksTyped'
  BY <1>1, <1>2, FrameRanks DEF TBInv
<1>9. WorkOK'
  BY <1>1, <1>2 DEF WorkOK, Working
<1>10. TrainedOK'
  <2>1. Len(batch.rows) % DPSize = 0 /\ Done \in 0 .. WorkCount /\ todo[1] = <<>>
    BY <1>1, <1>4, RanksAre DEF WorkOK, Working, RankOK
  <2>2. batch.rows \in Seq(Rows) /\ Distinct(batch.rows) /\ Len(batch.rows) # 0
    BY <1>4 DEF BatchOK
  <2>3. WorkCount = MiniCount(batch.rows) /\ MiniCount(batch.rows) \in Nat
    BY <1>1, <2>1, <2>2, MiniBatchesOfChunk DEF WorkCount, CountAt
  <2>4. Done = MiniCount(batch.rows)
    BY <2>1, <2>3 DEF Done
  <2>5. \A row : TimesIn(batch.rows, MiniCount(batch.rows), row) = IF Has(batch.rows, row) THEN PPOEpochs ELSE 0
    BY <2>1, <2>2, TimesInIs
  <2>6. trained = [row \in Rows |-> TimesIn(batch.rows, Done, row)]
    BY <1>1, <1>4 DEF TrainedOK
  <2>7. trained = [row \in Rows |-> IF Has(batch.rows, row) THEN PPOEpochs ELSE 0]
    BY <2>4, <2>5, <2>6
  <2>. QED  BY <1>1, <1>2, <1>3, <2>7 DEF TrainedOK
<1>. QED  BY <1>2, <1>5, <1>6, <1>7, <1>8, <1>9, <1>10 DEF TBInv

LEMMA SuffixIs ==
    ASSUME NEW T, NEW s \in Seq(T), NEW d \in 0 .. Len(s)
    PROVE  /\ SubSeq(s, d + 1, Len(s)) \in Seq(T) /\ Len(SubSeq(s, d + 1, Len(s))) = Len(s) - d
           /\ d < Len(s) => /\ Head(SubSeq(s, d + 1, Len(s))) = s[d + 1]
                            /\ Tail(SubSeq(s, d + 1, Len(s))) = SubSeq(s, d + 2, Len(s))
<1>. DEFINE t == SubSeq(s, d + 1, Len(s))
            u == SubSeq(s, d + 2, Len(s))
<1>1. /\ t \in Seq(T) /\ Len(t) = Len(s) - d
      /\ \A i \in 1 .. Len(s) - d : t[i] = s[d + i]
  OBVIOUS
<1>2. ASSUME d < Len(s)
      PROVE  Head(t) = s[d + 1] /\ Tail(t) = u
  <2>1. /\ u \in Seq(T) /\ Len(u) = Len(s) - d - 1
        /\ \A i \in 1 .. Len(s) - d - 1 : u[i] = s[d + 1 + i]
    BY <1>2
  <2>. HIDE DEF t, u
  <2>2. /\ Tail(t) \in Seq(T) /\ Len(Tail(t)) = Len(t) - 1 /\ Head(t) = t[1]
        /\ \A i \in 1 .. Len(t) - 1 : Tail(t)[i] = t[i + 1]
    BY <1>1, <1>2
  <2>3. \A i \in 1 .. Len(u) : Tail(t)[i] = u[i]
    BY <1>1, <1>2, <2>1, <2>2
  <2>4. Len(Tail(t)) = Len(u)
    BY <1>1, <2>1, <2>2
  <2>5. Tail(t) = u
    BY <2>1, <2>2, <2>3, <2>4
  <2>. QED  BY <1>1, <1>2, <2>2, <2>5
<1>. QED  BY <1>1, <1>2

\* The batch that a rank is at
AtBatch(r, h) ==
    /\ h = Head(todo[r]) /\ h = Work(r)[Done + 1] /\ h \in Seq(Rows) /\ Distinct(h)
    /\ Len(h) \in 1 .. Cardinality(Rows)
    /\ Done \in 0 .. WorkCount - 1 /\ WorkCount \in Nat \ {0} /\ Len(todo[r]) = WorkCount - Done
    /\ \A x : Has(h, x) => Has(ChunkOf(batch.rows, DPSize, r), x)
    /\ Tail(todo[r]) = SubSeq(Work(r), Done + 2, WorkCount)

LEMMA HeadIs ==
    ASSUME TBInv, NEW r \in Ranks, at[r] \notin {"idle", "returned"}
    PROVE  Working /\ AtBatch(r, Head(todo[r])) /\ seqlen \in [Rows -> Lengths]
<1>1. BatchOK /\ WorkOK /\ config \in Configs
  BY DEF TBInv
<1>2. Working
  BY <1>1 DEF WorkOK
<1>3. seqlen \in [Rows -> Lengths]
  BY <1>1, <1>2 DEF BatchOK, Working, Early
<1>4. /\ batch.rows \in Seq(Rows) /\ batch.rows # <<>> /\ Distinct(batch.rows) /\ Len(batch.rows) % DPSize = 0
      /\ Done \in 0 .. WorkCount /\ todo[r] = SubSeq(Work(r), Done + 1, WorkCount) /\ todo[r] # <<>>
  BY <1>1, <1>2 DEF BatchOK, WorkOK, RankOK
<1>5. Worked(Rows, batch.rows, r, Work(r), WorkCount)
  BY <1>4, WorkIs DEF Work, WorkCount
<1>. DEFINE w == Work(r)
            n == WorkCount
            d == Done
<1>6. w \in Seq(Seq(Rows)) /\ Len(w) = n /\ n \in Nat \ {0} /\ d \in 0 .. n /\ todo[r] = SubSeq(w, d + 1, n)
  BY <1>4, <1>5 DEF Worked
<1>. HIDE DEF w, n, d
<1>7. /\ Len(todo[r]) = n - d
      /\ d < n => Head(todo[r]) = w[d + 1] /\ Tail(todo[r]) = SubSeq(w, d + 2, n)
  <2>. DEFINE S == Seq(Rows)
  <2>. HIDE DEF S
  <2>1. w \in Seq(S) /\ d \in 0 .. Len(w)
    BY <1>6 DEF S
  <2>. QED  BY <1>6, <2>1, SuffixIs
<1>8. d < n
  <2>1. SubSeq(w, d + 1, n) \in Seq(Seq(Rows)) /\ SubSeq(w, d + 1, n) # <<>>
    <3>. DEFINE S == Seq(Rows)
    <3>. HIDE DEF S
    <3>1. w \in Seq(S) /\ d \in 0 .. Len(w) /\ Len(w) = n
      BY <1>6 DEF S
    <3>2. SubSeq(w, d + 1, n) \in Seq(S)
      BY <3>1, SuffixIs
    <3>. QED  BY <1>4, <1>6, <3>2 DEF S
  <2>2. Len(SubSeq(w, d + 1, n)) # 0
    BY <2>1
  <2>. QED  BY <1>6, <1>7, <2>2
<1>9. d + 1 \in 1 .. n /\ d \in 0 .. n - 1
  BY <1>6, <1>8
<1>10. /\ w[d + 1] \in Seq(Rows) /\ w[d + 1] # <<>> /\ Distinct(w[d + 1])
       /\ \A x : Has(w[d + 1], x) => Has(ChunkOf(batch.rows, DPSize, r), x)
  BY <1>5, <1>9 DEF Worked, w, n
<1>. DEFINE h == w[d + 1]
<1>11. h \in Seq(Rows) /\ Len(h) # 0 /\ Distinct(h)
  BY <1>10
<1>12. Rows = 1 .. Cardinality(Rows) /\ Cardinality(Rows) \in Nat \ {0}
  BY <1>1, ConfigIs
<1>13. Len(h) \in 1 .. Cardinality(Rows)
  <2>. DEFINE c == Cardinality(Rows)
  <2>1. c \in Nat /\ h \in Seq(1 .. c)
    BY <1>11, <1>12
  <2>. HIDE DEF c, h
  <2>2. Len(h) \in 0 .. c
    BY <1>11, <2>1, DistinctLength
  <2>3. Len(h) \in 1 .. c
    BY <1>11, <2>1, <2>2
  <2>. QED  BY <2>3 DEF c
<1>14. h = Head(todo[r]) /\ Tail(todo[r]) = SubSeq(w, d + 2, n)
  BY <1>7, <1>8
<1>. HIDE DEF h
<1>15. AtBatch(r, h)
  <2>1. h = Work(r)[Done + 1]
    BY DEF h, w, d
  <2>2. Done \in 0 .. WorkCount - 1 /\ WorkCount \in Nat \ {0} /\ Len(todo[r]) = WorkCount - Done
    BY <1>6, <1>7, <1>9 DEF n, d
  <2>3. Tail(todo[r]) = SubSeq(Work(r), Done + 2, WorkCount)
    BY <1>14 DEF n, d, w
  <2>4. \A x : Has(h, x) => Has(ChunkOf(batch.rows, DPSize, r), x)
    BY <1>10 DEF h
  <2>. QED  BY <1>11, <1>13, <1>14, <2>1, <2>2, <2>3, <2>4 DEF AtBatch
<1>. QED  BY <1>2, <1>3, <1>14, <1>15

\* A step of one rank that leaves what it has to do, and the other ranks, as they are
LEMMA RankStepKeeps ==
    ASSUME TBInv, NEW r \in Ranks, Working,
           UNCHANGED <<driverVars, genVars, config, seqlen, trained, todo>>,
           KKInv', RanksTyped', RankOK(r)',
           \A q \in Ranks \ {r} : /\ at'[q] = at[q] /\ num'[q] = num[q] /\ micro'[q] = micro[q]
                                  /\ indices'[q] = indices[q] /\ output'[q] = output[q] /\ call'[q] = call[q]
    PROVE  TBInv'
<1>1. /\ phase' = phase /\ batch' = batch /\ rewards' = rewards /\ config' = config /\ seqlen' = seqlen
      /\ trained' = trained /\ todo' = todo
  BY DEF driverVars
<1>2. GenOK'
  BY <1>1, FrameGen DEF TBInv
<1>3. BatchOK'
  BY <1>1, FrameBatch DEF TBInv, Working
<1>4. TrainedOK'
  BY <1>1, FrameTraining DEF TBInv
<1>5. WorkOK'
  <2>1. WorkOK
    BY DEF TBInv
  <2>2. Working' /\ WorkCount' = WorkCount /\ Done' = Done /\ \A q \in Ranks : Work(q)' = Work(q)
    BY <1>1 DEF Working, WorkCount, Done, Work
  <2>3. ASSUME NEW q \in Ranks PROVE RankOK(q)'
    <3>1. RankOK(q)
      BY <2>1 DEF WorkOK
    <3>2. CASE q = r
      BY <3>2
    <3>3. CASE q # r
      BY <1>1, <3>1, <3>3, FrameRank
    <3>. QED  BY <3>2, <3>3
  <2>. QED  BY <1>1, <2>1, <2>2, <2>3 DEF WorkOK
<1>. QED  BY <1>1, <1>2, <1>3, <1>4, <1>5 DEF TBInv

\* A step that changes the state of one rank, to given values, and that of no other
Becomes(r, a, n, m, x, o) ==
    /\ at' = [at EXCEPT ![r] = a] /\ num' = [num EXCEPT ![r] = n] /\ micro' = [micro EXCEPT ![r] = m]
    /\ indices' = [indices EXCEPT ![r] = x] /\ output' = [output EXCEPT ![r] = o]
Became(r, a, n, m, x, o) ==
    /\ at'[r] = a /\ num'[r] = n /\ micro'[r] = m /\ indices'[r] = x /\ output'[r] = o
    /\ \A q \in Ranks \ {r} : /\ at'[q] = at[q] /\ num'[q] = num[q] /\ micro'[q] = micro[q]
                              /\ indices'[q] = indices[q] /\ output'[q] = output[q]

LEMMA RankTyped ==
    ASSUME RanksTyped, config' = config, todo' = todo, NEW r \in Ranks,
           NEW a \in Places8, NEW n \in 0 .. Cardinality(Rows), NEW m \in Seq(Seq(Rows)),
           NEW x \in Seq(Rows), NEW o \in Seq(Rows), Becomes(r, a, n, m, x, o)
    PROVE  RanksTyped' /\ Became(r, a, n, m, x, o)
<1>0. /\ at' = [at EXCEPT ![r] = a] /\ num' = [num EXCEPT ![r] = n] /\ micro' = [micro EXCEPT ![r] = m]
      /\ indices' = [indices EXCEPT ![r] = x] /\ output' = [output EXCEPT ![r] = o]
  BY DEF Becomes
<1>1. Rows' = Rows
  BY SameConfig
<1>2. at' \in [Ranks -> Places8] /\ num' \in [Ranks -> 0 .. Cardinality(Rows)]
  BY <1>0 DEF RanksTyped
<1>3. micro' \in [Ranks -> Seq(Seq(Rows))]
  <2>. DEFINE S == Seq(Seq(Rows))
  <2>1. micro \in [Ranks -> S] /\ m \in S
    BY DEF RanksTyped
  <2>. HIDE DEF S
  <2>2. micro' \in [Ranks -> S]
    BY <1>0, <2>1
  <2>. QED  BY <2>2 DEF S
<1>4. indices' \in [Ranks -> Seq(Rows)] /\ output' \in [Ranks -> Seq(Rows)]
  <2>. DEFINE S == Seq(Rows)
  <2>1. indices \in [Ranks -> S] /\ x \in S /\ output \in [Ranks -> S] /\ o \in S
    BY DEF RanksTyped
  <2>. HIDE DEF S
  <2>2. indices' \in [Ranks -> S] /\ output' \in [Ranks -> S]
    BY <1>0, <2>1
  <2>. QED  BY <2>2 DEF S
<1>5. RanksTyped'
  BY <1>1, <1>2, <1>3, <1>4 DEF RanksTyped
<1>6. Became(r, a, n, m, x, o)
  BY <1>0 DEF RanksTyped, Became
<1>. QED  BY <1>5, <1>6

LEMMA SameFunction ==
    ASSUME NEW S, NEW T, NEW f \in [S -> T], NEW x \in S
    PROVE  f = [f EXCEPT ![x] = f[x]] /\ f[x] \in T
  OBVIOUS

LEMMA SameRank ==
    ASSUME RanksTyped, NEW r \in Ranks
    PROVE  /\ num = [num EXCEPT ![r] = num[r]] /\ num[r] \in 0 .. Cardinality(Rows)
           /\ micro = [micro EXCEPT ![r] = micro[r]] /\ micro[r] \in Seq(Seq(Rows))
           /\ indices = [indices EXCEPT ![r] = indices[r]] /\ indices[r] \in Seq(Rows)
           /\ output = [output EXCEPT ![r] = output[r]] /\ output[r] \in Seq(Rows)
<1>1. num \in [Ranks -> 0 .. Cardinality(Rows)] /\ micro \in [Ranks -> Seq(Seq(Rows))]
      /\ indices \in [Ranks -> Seq(Rows)] /\ output \in [Ranks -> Seq(Rows)]
  BY DEF RanksTyped
<1>. QED  BY <1>1, SameFunction

LEMMA TakenKeeps ==
    ASSUME KKInv, NEW c \in Callers, partitions' = [partitions EXCEPT ![c] = <<>>], call' = call, states_pq' = states_pq
    PROVE  KKInv'
<1>1. \A d \in Callers : partitions'[d] = partitions[d] \/ partitions'[d] = <<>>
  BY DEF KKInv
<1>2. ReturnedOK'
  BY <1>1 DEF KKInv, ReturnedOK
<1>3. HeapsOK' /\ DOMAIN partitions' = Callers
  BY DEF KKInv, HeapsOK
<1>. QED  BY <1>2, <1>3 DEF KKInv

LEMMA TotalIs ==
    ASSUME seqlen \in [Rows -> Lengths], NEW rows \in Seq(Rows)
    PROVE  Total(rows) \in Nat
<1>1. LengthsOf(rows) \in Seq(Nat)
  BY LengthsTyped
<1>. QED  BY <1>1, SumOfSequence DEF Total

LEMMA CountKeeps ==
    ASSUME TBInv, NEW r \in Ranks, Count(r), UNCHANGED <<driverVars, genVars, config, seqlen, trained>>
    PROVE  TBInv'
<1>. DEFINE h == Head(todo[r])
            n == Minimum(Len(h), CeilDiv(Total(h), MaxTokenLen))
<1>1. /\ at[r] = "prepare" /\ config.use_dynamic_bsz
      /\ num' = [num EXCEPT ![r] = n] /\ at' = [at EXCEPT ![r] = "reduce"]
      /\ UNCHANGED <<todo, micro, indices, output, kkVars>>
  BY DEF Count
<1>2. Working /\ AtBatch(r, h) /\ seqlen \in [Rows -> Lengths]
  BY <1>1, HeadIs
<1>3. RanksTyped /\ RankOK(r) /\ KKInv
  BY <1>2 DEF TBInv, WorkOK
<1>4. n \in 0 .. Cardinality(Rows)
  <2>1. h \in Seq(Rows) /\ Len(h) \in 1 .. Cardinality(Rows) /\ Cardinality(Rows) \in Nat
    BY <1>2, ConfigIs DEF AtBatch, TBInv
  <2>. HIDE DEF h
  <2>2. Total(h) \in Nat /\ MaxTokenLen \in Nat \ {0}
    BY <1>2, <2>1, TotalIs, TrainingBatchAssumption
  <2>3. CeilDiv(Total(h), MaxTokenLen) \in Nat
    BY <2>2, Ceiling
  <2>. DEFINE c == CeilDiv(Total(h), MaxTokenLen)
  <2>. HIDE DEF c
  <2>4. Minimum(Len(h), c) \in 0 .. Cardinality(Rows)
    <3>1. c \in Nat
      BY <2>3 DEF c
    <3>. QED  BY <2>1, <3>1 DEF Minimum
  <2>. QED  BY <2>4 DEF c
<1>. HIDE DEF n
<1>5. "reduce" \in Places8
  BY DEF Places8
<1>6. RanksTyped' /\ Became(r, "reduce", n, micro[r], indices[r], output[r])
  <2>1. /\ micro = [micro EXCEPT ![r] = micro[r]] /\ micro[r] \in Seq(Seq(Rows))
        /\ indices = [indices EXCEPT ![r] = indices[r]] /\ indices[r] \in Seq(Rows)
        /\ output = [output EXCEPT ![r] = output[r]] /\ output[r] \in Seq(Rows)
    BY <1>3, SameRank
  <2>2. Becomes(r, "reduce", n, micro[r], indices[r], output[r])
    BY <1>1, <2>1 DEF Becomes
  <2>. QED  BY <1>1, <1>3, <1>4, <1>5, <2>1, <2>2, RankTyped
<1>7. RankOK(r)'
  <2>1. output[r] = <<>> /\ todo[r] # <<>>
    BY <1>1, <1>3 DEF RankOK
  <2>. QED  BY <1>1, <1>6, <2>1 DEF RankOK, Became
<1>8. KKInv' /\ call' = call
  BY <1>1, <1>3, FrameKK DEF kkVars
<1>. QED  BY <1>1, <1>2, <1>6, <1>7, <1>8, RankStepKeeps DEF Became

LEMMA PartitionKeeps ==
    ASSUME TBInv, NEW r \in Ranks, Partition(r), UNCHANGED <<driverVars, genVars, config, seqlen, trained>>
    PROVE  TBInv'
<1>. DEFINE h == Head(todo[r])
            lens == LengthsOf(h)
<1>1. /\ at[r] = "partition" /\ Call(r, lens, num[r], FALSE) /\ at' = [at EXCEPT ![r] = "balance"]
      /\ UNCHANGED <<todo, num, micro, indices, output>>
  BY DEF Partition
<1>2. Working /\ AtBatch(r, h) /\ seqlen \in [Rows -> Lengths]
  BY <1>1, HeadIs
<1>3. RanksTyped /\ RankOK(r) /\ KKInv /\ r \in Callers
  BY <1>2, RanksAre DEF TBInv, WorkOK
<1>4. lens \in Seq(Nat) /\ num[r] \in 1 .. Len(lens)
  <2>1. h \in Seq(Rows)
    BY <1>2 DEF AtBatch
  <2>. HIDE DEF h
  <2>2. lens \in Seq(Nat)
    BY <1>2, <2>1, LengthsTyped
  <2>. HIDE DEF lens
  <2>. QED  BY <1>1, <2>2 DEF Call, MayCall
<1>5. "balance" \in Places8
  BY DEF Places8
<1>. HIDE DEF lens
<1>10. /\ num[r] \in 0 .. Cardinality(Rows) /\ num' = [num EXCEPT ![r] = num[r]]
       /\ micro[r] \in Seq(Seq(Rows)) /\ micro' = [micro EXCEPT ![r] = micro[r]]
       /\ indices[r] \in Seq(Rows) /\ indices' = [indices EXCEPT ![r] = indices[r]]
       /\ output[r] \in Seq(Rows) /\ output' = [output EXCEPT ![r] = output[r]]
  BY <1>1, <1>3, SameRank
<1>6. RanksTyped' /\ Became(r, "balance", num[r], micro[r], indices[r], output[r])
  <2>1. Becomes(r, "balance", num[r], micro[r], indices[r], output[r])
    BY <1>1, <1>10 DEF Becomes
  <2>. QED  BY <1>1, <1>3, <1>5, <1>10, <2>1, RankTyped
<1>7. KKInv'
  <2>1. FALSE \in BOOLEAN
    OBVIOUS
  <2>. QED  BY <1>1, <1>3, <1>4, <2>1, CallKeeps
<1>8. /\ call'[r].seqlen_list = lens /\ call'[r].k_partitions = num[r]
      /\ \A q \in Ranks \ {r} : call'[q] = call[q]
  BY <1>1, <1>3, RanksAre DEF Call, KKInv
<1>9. RankOK(r)'
  <2>1. output[r] = <<>> /\ todo[r] # <<>> /\ config.use_dynamic_bsz
    BY <1>1, <1>3 DEF RankOK
  <2>2. LengthsOf(Head(todo[r]))' = lens
    BY <1>1 DEF lens, LengthsOf
  <2>. QED  BY <1>1, <1>6, <1>8, <2>1, <2>2 DEF RankOK, Became
<1>. QED  BY <1>1, <1>2, <1>6, <1>7, <1>8, <1>9, RankStepKeeps DEF Became

\* Sets of indices that hold each of 1 .. n once
Parts(P, k, n) ==
    /\ P \in [1 .. k -> SUBSET (1 .. n)]
    /\ \A x \in 1 .. n : \E i \in 1 .. k : x \in P[i]
    /\ \A i, j \in 1 .. k : i # j => P[i] \cap P[j] = {}

LEMMA PartsPermute ==
    ASSUME NEW n \in Nat, NEW k \in Nat, NEW P, Parts(P, k, n), NEW s, s = [i \in 1 .. k |-> Ascending(P[i])]
    PROVE  s \in Seq(Seq(1 .. n)) /\ Len(s) = k /\ Permutes(FlattenSeq(s), n)
<1>1. /\ P \in [1 .. k -> SUBSET (1 .. n)]
      /\ \A x \in 1 .. n : \E i \in 1 .. k : x \in P[i]
      /\ \A i, j \in 1 .. k : i # j => P[i] \cap P[j] = {}
  BY DEF Parts
<1>. QED  BY <1>1, PartitionPermutes

\* Any order of the partitions of a list gives indices that are a permutation of the list's.
Arranges(s, P, k) == \E p \in Bijection(1 .. k, 1 .. k) : s = [i \in 1 .. k |-> Ascending(P[p[i]])]

LEMMA RearrangedPartition ==
    ASSUME NEW n \in Nat, NEW k \in Nat \ {0}, NEW P, Parts(P, k, n), NEW s, Arranges(s, P, k)
    PROVE  s \in Seq(Seq(1 .. n)) /\ s # <<>> /\ Permutes(FlattenSeq(s), n)
<1>. PICK p \in Bijection(1 .. k, 1 .. k) : s = [i \in 1 .. k |-> Ascending(P[p[i]])]
  BY DEF Arranges
<1>. DEFINE Q == [i \in 1 .. k |-> P[p[i]]]
<1>9. s = [i \in 1 .. k |-> Ascending(Q[i])]
  OBVIOUS
<1>0. /\ P \in [1 .. k -> SUBSET (1 .. n)]
      /\ \A x \in 1 .. n : \E i \in 1 .. k : x \in P[i]
      /\ \A i, j \in 1 .. k : i # j => P[i] \cap P[j] = {}
  BY DEF Parts
<1>1. /\ p \in [1 .. k -> 1 .. k]
      /\ \A i, j \in 1 .. k : p[i] = p[j] => i = j
      /\ \A j \in 1 .. k : \E i \in 1 .. k : p[i] = j
  BY DEF Bijection, Injection, Surjection, IsInjective
<1>. DEFINE S == SUBSET (1 .. n)
            K == 1 .. k
<1>2. Q \in [1 .. k -> SUBSET (1 .. n)]
  <2>1. P \in [K -> S] /\ p \in [K -> K] /\ Q = [i \in K |-> P[p[i]]]
    BY <1>0, <1>1
  <2>. HIDE DEF S, K
  <2>2. Q \in [K -> S]
    BY <2>1
  <2>. QED  BY <2>2 DEF S, K
<1>3. ASSUME NEW x \in 1 .. n PROVE \E i \in 1 .. k : x \in Q[i]
  <2>1. PICK j \in 1 .. k : x \in P[j]
    BY <1>0
  <2>2. PICK i \in 1 .. k : p[i] = j
    BY <1>1
  <2>. QED  BY <2>1, <2>2
<1>4. ASSUME NEW i \in 1 .. k, NEW j \in 1 .. k, i # j PROVE Q[i] \cap Q[j] = {}
  <2>1. p[i] \in 1 .. k /\ p[j] \in 1 .. k /\ p[i] # p[j]
    BY <1>1, <1>4
  <2>2. Q[i] = P[p[i]] /\ Q[j] = P[p[j]]
    OBVIOUS
  <2>. QED  BY <1>0, <2>1, <2>2
<1>6. Parts(Q, k, n)
  BY <1>2, <1>3, <1>4 DEF Parts
<1>. HIDE DEF Q
<1>7. s \in Seq(Seq(1 .. n)) /\ Len(s) = k /\ Permutes(FlattenSeq(s), n)
  <2>1. k \in Nat
    OBVIOUS
  <2>. QED  BY <1>6, <1>9, <2>1, PartsPermute
<1>8. s # <<>>
  BY <1>7
<1>. QED  BY <1>7, <1>8

LEMMA SequenceOfSubset ==
    ASSUME NEW S, NEW T, S \subseteq T
    PROVE  /\ Seq(S) \subseteq Seq(T)
           /\ Seq(Seq(S)) \subseteq Seq(Seq(T))
<1>1. ASSUME NEW A, NEW B, A \subseteq B PROVE Seq(A) \subseteq Seq(B)
  BY <1>1
<1>2. Seq(S) \subseteq Seq(T)
  BY <1>1
<1>. QED  BY <1>1, <1>2

\* A rank starts to go through its micro-batches, in any order of them that covers its batch.
LEMMA ForwardStarts ==
    ASSUME TBInv, NEW r \in Ranks, at[r] \in {"prepare", "balance"},
           UNCHANGED <<driverVars, genVars, config, seqlen, trained, todo, num, output>>,
           at' = [at EXCEPT ![r] = "forward"],
           NEW m \in Seq(Seq(1 .. Len(Head(todo[r])))), m # <<>>, micro' = [micro EXCEPT ![r] = m],
           NEW x \in Seq(Rows), indices' = [indices EXCEPT ![r] = x],
           Permutes(FlattenSeq(m), Len(Head(todo[r]))),
           FlattenSeq(m) = IF config.use_dynamic_bsz THEN x ELSE [i \in DOMAIN Head(todo[r]) |-> i],
           KKInv', \A q \in Ranks \ {r} : call'[q] = call[q]
    PROVE  TBInv'
<1>. DEFINE h == Head(todo[r])
            n == Len(h)
<1>1. Working /\ AtBatch(r, h) /\ seqlen \in [Rows -> Lengths]
  BY HeadIs
<1>2. RanksTyped /\ RankOK(r) /\ Rows = 1 .. Cardinality(Rows)
  BY <1>1, ConfigIs DEF TBInv, WorkOK
<1>3. h \in Seq(Rows) /\ n \in 1 .. Cardinality(Rows) /\ Cardinality(Rows) \in Nat
  BY <1>1, ConfigIs DEF AtBatch, TBInv
<1>. HIDE DEF h, n
<1>4. m \in Seq(Seq(1 .. n)) /\ Permutes(FlattenSeq(m), n)
  BY DEF h, n
<1>5. m \in Seq(Seq(Rows))
  <2>1. 1 .. n \subseteq Rows
    <3>. DEFINE c == Cardinality(Rows)
    <3>1. n \in 1 .. c /\ c \in Nat
      BY <1>3
    <3>. HIDE DEF c
    <3>2. 1 .. n \subseteq 1 .. c
      BY <3>1
    <3>. QED  BY <1>2, <3>2 DEF c
  <2>. QED  BY <1>4, <2>1, SequenceOfSubset
<1>6. "forward" \in Places8
  BY DEF Places8
<1>7. /\ num[r] \in 0 .. Cardinality(Rows) /\ num' = [num EXCEPT ![r] = num[r]]
      /\ output[r] \in Seq(Rows) /\ output' = [output EXCEPT ![r] = output[r]]
  BY <1>2, SameRank
<1>8. RanksTyped' /\ Became(r, "forward", num[r], m, x, output[r])
  <2>1. Becomes(r, "forward", num[r], m, x, output[r])
    BY <1>7 DEF Becomes
  <2>. QED  BY <1>2, <1>5, <1>6, <1>7, <2>1, RankTyped
<1>9. RankOK(r)'
  <2>1. output[r] = <<>> /\ todo[r] # <<>>
    BY <1>2 DEF RankOK
  <2>2. Order(r)' = FlattenSeq(m) /\ Head(todo'[r]) = h /\ Len(Head(todo'[r])) = n
    BY <1>8 DEF Order, h, n, Became
  <2>3. Pick(h, FlattenSeq(m)) \in Seq(Rows)
    <3>1. FlattenSeq(m) \in Seq(1 .. Len(h))
      BY <1>4 DEF Permutes, n
    <3>. QED  BY <1>3, <3>1, PickIs
  <2>4. <<>> \o Pick(h, FlattenSeq(m)) = Pick(h, FlattenSeq(m))
    BY <2>3
  <2>5. output'[r] \o Pick(h, FlattenSeq(micro'[r])) = Pick(h, Order(r)')
    BY <1>8, <2>1, <2>2, <2>4 DEF Became
  <2>6. todo'[r] # <<>> /\ Permutes(Order(r)', n) /\ micro'[r] \in Seq(Seq(1 .. n)) /\ micro'[r] # <<>>
    BY <1>4, <1>8, <2>1, <2>2 DEF Became
  <2>. QED  BY <1>8, <2>2, <2>5, <2>6 DEF RankOK, Became
<1>10. UNCHANGED <<driverVars, genVars, config, seqlen, trained, todo>>
  OBVIOUS
<1>. QED  BY <1>1, <1>8, <1>9, <1>10, RankStepKeeps DEF Became

LEMMA MicroBatchesKeeps ==
    ASSUME TBInv, NEW r \in Ranks, MicroBatches(r), UNCHANGED <<driverVars, genVars, config, seqlen, trained>>
    PROVE  TBInv'
<1>. DEFINE h == Head(todo[r])
            n == Len(h)
            k == num[r]
            P == partitions[r]
<1>1. /\ at[r] = "balance" /\ P # <<>> /\ at' = [at EXCEPT ![r] = "forward"]
      /\ partitions' = [partitions EXCEPT ![r] = <<>>]
      /\ UNCHANGED <<todo, num, output, call, states_pq>>
  BY DEF MicroBatches
<1>2. PICK p \in Bijection(1 .. k, 1 .. k) :
        LET sorted   == [i \in 1 .. k |-> P[p[i]]]
            idx_list == [i \in 1 .. k |-> Ascending(sorted[i])]
        IN  /\ micro' = [micro EXCEPT ![r] = idx_list]
            /\ indices' = [indices EXCEPT ![r] = FlattenSeq(idx_list)]
  BY DEF MicroBatches
<1>. DEFINE Q == [i \in 1 .. k |-> P[p[i]]]
            s == [i \in 1 .. k |-> Ascending(Q[i])]
<1>3. micro' = [micro EXCEPT ![r] = s] /\ indices' = [indices EXCEPT ![r] = FlattenSeq(s)]
  BY <1>2
<1>4. Working /\ AtBatch(r, h) /\ seqlen \in [Rows -> Lengths]
  BY <1>1, HeadIs
<1>5. RankOK(r) /\ KKInv /\ r \in Callers /\ config \in Configs
  BY <1>4, RanksAre DEF TBInv, WorkOK
<1>6. h \in Seq(Rows) /\ n \in 1 .. Cardinality(Rows) /\ Rows = 1 .. Cardinality(Rows) /\ Cardinality(Rows) \in Nat
  BY <1>4, <1>5, ConfigIs DEF AtBatch
<1>7. /\ config.use_dynamic_bsz /\ call[r].seqlen_list = LengthsOf(h) /\ call[r].k_partitions = k
  BY <1>1, <1>5 DEF RankOK
<1>8. k \in Nat \ {0} /\ Exact(P, LengthsOf(h), k, call[r].equal_size)
  BY <1>1, <1>5, <1>7 DEF KKInv, ReturnedOK
<1>9. DOMAIN LengthsOf(h) = 1 .. n
  <2>. HIDE DEF h
  <2>. QED  BY <1>4, <1>6, LengthsTyped
<1>10. Parts(P, k, n)
  BY <1>8, <1>9 DEF Parts, Exact
<1>11. n \in Nat
  BY <1>6
<1>. HIDE DEF s, Q, P, k, n, h
<1>12. Arranges(s, P, k)
  <2>1. s = [i \in 1 .. k |-> Ascending(P[p[i]])]
    BY DEF Q, s
  <2>. QED  BY <2>1 DEF Arranges
<1>13. s \in Seq(Seq(1 .. n)) /\ s # <<>> /\ Permutes(FlattenSeq(s), n)
  BY <1>8, <1>10, <1>11, <1>12, RearrangedPartition
<1>14. FlattenSeq(s) \in Seq(Rows)
  <2>1. 1 .. n \subseteq Rows
    <3>. DEFINE c == Cardinality(Rows)
    <3>1. n \in 1 .. c /\ c \in Nat
      BY <1>6
    <3>. HIDE DEF c
    <3>2. 1 .. n \subseteq 1 .. c
      BY <3>1
    <3>. QED  BY <1>6, <3>2 DEF c
  <2>2. FlattenSeq(s) \in Seq(1 .. n)
    BY <1>13 DEF Permutes
  <2>. QED  BY <2>1, <2>2, SequenceOfSubset
<1>15. KKInv'
  BY <1>1, <1>5, TakenKeeps
<1>16. s \in Seq(Seq(1 .. Len(Head(todo[r])))) /\ Permutes(FlattenSeq(s), Len(Head(todo[r])))
  BY <1>13 DEF n, h
<1>17. UNCHANGED <<driverVars, genVars, config, seqlen, trained, todo, num, output>>
  BY <1>1
<1>18. \A q \in Ranks \ {r} : call'[q] = call[q]
  BY <1>1
<1>19. FlattenSeq(s) = IF config.use_dynamic_bsz THEN FlattenSeq(s) ELSE [i \in DOMAIN Head(todo[r]) |-> i]
  BY <1>7
<1>. DEFINE x == FlattenSeq(s)
<1>20. x \in Seq(Rows) /\ indices' = [indices EXCEPT ![r] = x] /\ Permutes(FlattenSeq(s), Len(Head(todo[r])))
       /\ FlattenSeq(s) = IF config.use_dynamic_bsz THEN x ELSE [i \in DOMAIN Head(todo[r]) |-> i]
  BY <1>3, <1>14, <1>16, <1>19
<1>. HIDE DEF x
<1>. QED  BY <1>1, <1>3, <1>13, <1>15, <1>16, <1>17, <1>18, <1>20, ForwardStarts

LEMMA SliceMicroBatchesKeeps ==
    ASSUME TBInv, NEW r \in Ranks, SliceMicroBatches(r), UNCHANGED <<driverVars, genVars, config, seqlen, trained>>
    PROVE  TBInv'
<1>. DEFINE h == Head(todo[r])
            n == Len(h)
            all == [i \in DOMAIN h |-> i]
            m == Split(all, MicroBatchSize)
<1>1. /\ at[r] = "prepare" /\ ~ config.use_dynamic_bsz /\ at' = [at EXCEPT ![r] = "forward"]
      /\ micro' = [micro EXCEPT ![r] = m]
      /\ UNCHANGED <<todo, num, indices, output, kkVars>>
  BY DEF SliceMicroBatches
<1>2. Working /\ AtBatch(r, h) /\ seqlen \in [Rows -> Lengths]
  BY <1>1, HeadIs
<1>3. RanksTyped /\ KKInv /\ config \in Configs
  BY DEF TBInv
<1>4. h \in Seq(Rows) /\ n \in 1 .. Cardinality(Rows) /\ Cardinality(Rows) \in Nat
  BY <1>2, <1>3, ConfigIs DEF AtBatch
<1>5. n \in Nat /\ n > 0 /\ all = [i \in 1 .. n |-> i]
  BY <1>4
<1>. HIDE DEF all
<1>6. Permutes(all, n)
  <2>. HIDE DEF n
  <2>. QED  BY <1>5, IdentityPermutes
<1>7. all \in Seq(1 .. n) /\ Len(all) = n /\ MicroBatchSize \in Nat \ {0}
  BY <1>6, TrainingBatchAssumption DEF Permutes
<1>8. m \in Seq(Seq(1 .. n)) /\ Len(m) = CeilDiv(n, MicroBatchSize) /\ FlattenSeq(m) = all
  <2>. HIDE DEF n
  <2>. QED  BY <1>7, SplitIs
<1>9. m # <<>>
  <2>. HIDE DEF n, m
  <2>1. CeilDiv(n, MicroBatchSize) >= 1
    BY <1>5, <1>7, Ceiling
  <2>. QED  BY <1>8, <2>1
<1>10. KKInv' /\ call' = call
  BY <1>1, <1>3, FrameKK DEF kkVars
<1>. DEFINE x == indices[r]
<1>11. x \in Seq(Rows) /\ indices' = [indices EXCEPT ![r] = x]
  BY <1>1, <1>3, SameRank
<1>12. FlattenSeq(m) = IF config.use_dynamic_bsz THEN x ELSE [i \in DOMAIN Head(todo[r]) |-> i]
  BY <1>1, <1>8 DEF all
<1>13. m \in Seq(Seq(1 .. Len(Head(todo[r])))) /\ Permutes(FlattenSeq(m), Len(Head(todo[r])))
  BY <1>6, <1>8
<1>. HIDE DEF x, m, n, h
<1>14. UNCHANGED <<driverVars, genVars, config, seqlen, trained, todo, num, output>>
  BY <1>1
<1>15. \A q \in Ranks \ {r} : call'[q] = call[q]
  BY <1>10
<1>. QED  BY <1>1, <1>9, <1>10, <1>11, <1>12, <1>13, <1>14, <1>15, ForwardStarts

LEMMA ConcatEmpty ==
    ASSUME NEW T, NEW s \in Seq(T)
    PROVE  s \o <<>> = s /\ <<>> \o s = s
  OBVIOUS

\* What went through the model when all micro-batches have
LEMMA Forwarded ==
    ASSUME TBInv, NEW r \in Ranks, at[r] = "forwarded"
    PROVE  output[r] = Pick(Head(todo[r]), Order(r)) /\ Permutes(Order(r), Len(Head(todo[r])))
<1>. DEFINE h == Head(todo[r])
<1>1. Working /\ RanksTyped
  BY HeadIs DEF TBInv
<1>2. RankOK(r)
  BY <1>1 DEF TBInv, WorkOK
<1>3. /\ Permutes(Order(r), Len(h)) /\ micro[r] = <<>>
      /\ output[r] \o Pick(h, FlattenSeq(micro[r])) = Pick(h, Order(r))
  BY <1>2 DEF RankOK
<1>4. output[r] \in Seq(Rows)
  BY <1>1 DEF RanksTyped
<1>. HIDE DEF h
<1>5. Pick(h, <<>>) = <<>>
  BY DEF Pick
<1>6. output[r] \o <<>> = output[r]
  BY <1>4, ConcatEmpty
<1>. QED  BY <1>3, <1>5, <1>6, FlattenEmpty DEF h

LEMMA RestoreKeeps ==
    ASSUME TBInv, NEW r \in Ranks, Restore(r), UNCHANGED <<driverVars, genVars, config, seqlen, trained>>
    PROVE  TBInv'
<1>. DEFINE h == Head(todo[r])
            x == IF config.use_dynamic_bsz THEN Pick(output[r], ReverseIdx(indices[r])) ELSE output[r]
<1>1. /\ phase = "computing" /\ at[r] = "forwarded" /\ at' = [at EXCEPT ![r] = "returned"]
      /\ UNCHANGED <<todo, num, micro, indices, kkVars>>
      /\ output' = IF config.use_dynamic_bsz
                   THEN [output EXCEPT ![r] = Pick(@, ReverseIdx(indices[r]))]
                   ELSE output
  BY DEF Restore
<1>2. Working /\ AtBatch(r, h) /\ seqlen \in [Rows -> Lengths]
  BY <1>1, HeadIs
<1>3. RanksTyped /\ KKInv /\ RankOK(r) /\ config \in Configs
  BY <1>2 DEF TBInv, WorkOK
<1>4. h \in Seq(Rows)
  BY <1>2 DEF AtBatch
<1>5. output[r] = Pick(h, Order(r)) /\ Permutes(Order(r), Len(h))
  BY <1>1, Forwarded
<1>6. x = h
  <2>1. CASE config.use_dynamic_bsz
    <3>1. Order(r) = indices[r]
      BY <2>1 DEF Order
    <3>. HIDE DEF h
    <3>2. Pick(Pick(h, indices[r]), ReverseIdx(indices[r])) = h
      BY <1>4, <1>5, <3>1, PickPermutation
    <3>. QED  BY <1>5, <2>1, <3>1, <3>2
  <2>2. CASE ~ config.use_dynamic_bsz
    <3>1. Order(r) = [i \in DOMAIN h |-> i]
      BY <2>2 DEF Order
    <3>. HIDE DEF h
    <3>2. Pick(h, [i \in DOMAIN h |-> i]) = h
      BY <1>4, PickIdentity
    <3>. QED  BY <1>5, <2>2, <3>1, <3>2
  <2>. QED  BY <2>1, <2>2
<1>7. output' = [output EXCEPT ![r] = x]
  <2>1. output = [output EXCEPT ![r] = output[r]]
    BY <1>3, SameRank
  <2>. QED  BY <1>1, <2>1
<1>. HIDE DEF x
<1>8. "returned" \in Places8
  BY DEF Places8
<1>9. RanksTyped' /\ Became(r, "returned", num[r], micro[r], indices[r], x)
  <2>1. /\ num = [num EXCEPT ![r] = num[r]] /\ num[r] \in 0 .. Cardinality(Rows)
        /\ micro = [micro EXCEPT ![r] = micro[r]] /\ micro[r] \in Seq(Seq(Rows))
        /\ indices = [indices EXCEPT ![r] = indices[r]] /\ indices[r] \in Seq(Rows)
    BY <1>3, SameRank
  <2>2. Becomes(r, "returned", num[r], micro[r], indices[r], x)
    BY <1>1, <1>7, <2>1 DEF Becomes
  <2>3. x \in Seq(Rows)
    BY <1>4, <1>6
  <2>. QED  BY <1>1, <1>3, <1>8, <2>1, <2>2, <2>3, RankTyped
<1>10. RankOK(r)'
  BY <1>1, <1>6, <1>9 DEF RankOK, Became, driverVars
<1>11. KKInv' /\ call' = call
  BY <1>1, <1>3, FrameKK DEF kkVars
<1>. QED  BY <1>1, <1>2, <1>9, <1>10, <1>11, RankStepKeeps DEF Became

LEMMA RankKeeps ==
    ASSUME TBInv, NEW r \in Ranks, Rank(r)
    PROVE  TBInv'
<1>1. UNCHANGED <<driverVars, genVars, config, seqlen, trained>>
  BY DEF Rank
<1>2. CASE Count(r)
  BY <1>1, <1>2, CountKeeps
<1>3. CASE Partition(r)
  BY <1>1, <1>3, PartitionKeeps
<1>4. CASE MicroBatches(r)
  BY <1>1, <1>4, MicroBatchesKeeps
<1>5. CASE SliceMicroBatches(r)
  BY <1>1, <1>5, SliceMicroBatchesKeeps
<1>6. CASE Restore(r)
  BY <1>1, <1>6, RestoreKeeps
<1>7. CASE KKStep(r) /\ UNCHANGED rankVars
  <2>1. r \in Callers
    BY RanksAre
  <2>. QED  BY <1>1, <1>7, <2>1, PartitioningKeeps
<1>. QED  BY <1>2, <1>3, <1>4, <1>5, <1>6, <1>7 DEF Rank

LEMMA SameWork ==
    ASSUME phase' = phase, batch' = batch
    PROVE  WorkCount' = WorkCount /\ \A q : Work(q)' = Work(q)
  BY DEF WorkCount, Work

LEMMA SameDone ==
    ASSUME phase' = phase, batch' = batch, todo' = todo
    PROVE  Done' = Done
  BY SameWork DEF Done

LEMMA EmptyWhen ==
    ASSUME NEW T, NEW s \in Seq(T)
    PROVE  s = <<>> <=> Len(s) = 0
  OBVIOUS

LEMMA AllReduceMaxKeeps ==
    ASSUME TBInv, AllReduceMax
    PROVE  TBInv'
<1>1. /\ \A r \in Ranks : at[r] = "reduce"
      /\ num' = [r \in Ranks |-> Agreed(r)] /\ at' = [r \in Ranks |-> "partition"]
      /\ UNCHANGED <<kkVars, driverVars, todo, micro, indices, output, genVars, config, seqlen, trained>>
  BY DEF AllReduceMax, AllAt
<1>2. /\ phase' = phase /\ batch' = batch /\ rewards' = rewards /\ todo' = todo /\ config' = config
      /\ seqlen' = seqlen /\ trained' = trained /\ micro' = micro /\ indices' = indices /\ output' = output
  BY <1>1 DEF driverVars
<1>3. Working /\ \A r \in Ranks : RankOK(r)
  BY <1>1, RanksAre, HeadIs DEF TBInv, WorkOK
<1>4. RanksTyped /\ WorkOK /\ KKInv /\ config \in Configs
  BY DEF TBInv
<1>5. KKInv' /\ call' = call
  BY <1>1, <1>4, FrameKK DEF kkVars
<1>6. GenOK' /\ BatchOK' /\ TrainedOK'
  BY <1>1, <1>2, <1>5, FrameGen, FrameBatch, FrameTraining DEF TBInv
<1>7. RanksTyped'
  <2>1. num' \in [Ranks -> 0 .. Cardinality(Rows)]
    <3>1. Cardinality(Rows) \in Nat /\ num \in [Ranks -> 0 .. Cardinality(Rows)]
      BY <1>4, ConfigIs DEF RanksTyped
    <3>2. \A r \in Ranks : Agreed(r) \in 0 .. Cardinality(Rows)
      BY <3>1, AgreedIs
    <3>. QED  BY <1>1, <3>2
  <2>2. at' \in [Ranks -> Places8]
    BY <1>1 DEF Places8
  <2>3. Rows' = Rows
    BY <1>2, SameConfig
  <2>. QED  BY <1>2, <1>4, <2>1, <2>2, <2>3 DEF RanksTyped
<1>8. WorkOK'
  <2>1. WorkCount' = WorkCount /\ Done' = Done /\ \A q \in Ranks : Work(q)' = Work(q)
    BY <1>2, SameWork, SameDone
  <2>3. Working'
    BY <1>2, <1>3 DEF Working
  <2>2. ASSUME NEW r \in Ranks PROVE RankOK(r)'
    <3>1. output[r] = <<>> /\ todo[r] # <<>> /\ config.use_dynamic_bsz
      BY <1>1, <1>3 DEF RankOK
    <3>2. at'[r] = "partition"
      BY <1>1
    <3>. QED  BY <1>2, <3>1, <3>2 DEF RankOK
  <2>. QED  BY <1>2, <1>3, <1>4, <2>1, <2>2, <2>3 DEF WorkOK
<1>. QED  BY <1>2, <1>4, <1>5, <1>6, <1>7, <1>8 DEF TBInv

LEMMA ForwardOnce ==
    ASSUME NEW T, NEW h \in Seq(T), NEW m \in Seq(Seq(1 .. Len(h))), m # <<>>, NEW o \in Seq(T)
    PROVE  /\ o \o Pick(h, Head(m)) \in Seq(T)
           /\ (o \o Pick(h, Head(m))) \o Pick(h, FlattenSeq(Tail(m))) = o \o Pick(h, FlattenSeq(m))
           /\ Tail(m) \in Seq(Seq(1 .. Len(h)))
           /\ Tail(m) = <<>> <=> ~ (Len(m) > 1)
<1>. DEFINE I == 1 .. Len(h)
            a == Head(m)
            b == FlattenSeq(Tail(m))
<1>1. /\ a \in Seq(I) /\ Tail(m) \in Seq(Seq(I)) /\ Len(Tail(m)) = Len(m) - 1
      /\ b \in Seq(I) /\ FlattenSeq(m) = a \o b
  <2>. HIDE DEF I
  <2>1. m \in Seq(Seq(I))
    BY DEF I
  <2>. QED  BY <2>1, FlattenFront
<1>2. Tail(m) = <<>> <=> ~ (Len(m) > 1)
  <2>. DEFINE t == Tail(m)
  <2>1. t \in Seq(Seq(I)) /\ Len(t) = Len(m) - 1 /\ Len(m) \in Nat
    BY <1>1
  <2>. HIDE DEF t
  <2>2. t = <<>> <=> Len(t) = 0
    BY <2>1, EmptyWhen
  <2>3. t = <<>> <=> ~ (Len(m) > 1)
    <3>1. Len(t) = Len(m) - 1 /\ Len(m) \in Nat /\ Len(t) \in Nat
      BY <2>1
    <3>. HIDE DEF I
    <3>. QED  BY <2>2, <3>1
  <2>. QED  BY <2>3 DEF t
<1>. HIDE DEF a, b
<1>3. a \in Seq(1 .. Len(h)) /\ b \in Seq(1 .. Len(h))
  BY <1>1
<1>. HIDE DEF I
<1>4. Pick(h, a) \in Seq(T) /\ Pick(h, b) \in Seq(T) /\ Pick(h, a \o b) = Pick(h, a) \o Pick(h, b)
  BY <1>3, PickIs, PickConcat
<1>5. (o \o Pick(h, a)) \o Pick(h, b) = o \o (Pick(h, a) \o Pick(h, b)) /\ o \o Pick(h, a) \in Seq(T)
  <2>. DEFINE p == Pick(h, a)
              q == Pick(h, b)
  <2>1. p \in Seq(T) /\ q \in Seq(T)
    BY <1>4
  <2>. HIDE DEF p, q
  <2>2. (o \o p) \o q = o \o (p \o q) /\ o \o p \in Seq(T)
    BY <2>1
  <2>. QED  BY <2>2 DEF p, q
<1>. QED  BY <1>1, <1>2, <1>4, <1>5 DEF a, b, I

LEMMA ForwardKeeps ==
    ASSUME TBInv, Forward
    PROVE  TBInv'
<1>1. /\ \A r \in Ranks : at[r] = "forward"
      /\ output' = [r \in Ranks |-> output[r] \o Pick(Head(todo[r]), Head(micro[r]))]
      /\ micro' = [r \in Ranks |-> Tail(micro[r])]
      /\ at' = [r \in Ranks |-> IF Len(micro[r]) > 1 THEN "forward" ELSE "forwarded"]
      /\ UNCHANGED <<kkVars, driverVars, todo, num, indices, genVars, config, seqlen, trained>>
  BY DEF Forward, AllAt
<1>2. /\ phase' = phase /\ batch' = batch /\ rewards' = rewards /\ todo' = todo /\ config' = config
      /\ seqlen' = seqlen /\ trained' = trained /\ num' = num /\ indices' = indices
  BY <1>1 DEF driverVars
<1>3. Working /\ \A r \in Ranks : RankOK(r) /\ AtBatch(r, Head(todo[r]))
  BY <1>1, RanksAre, HeadIs DEF TBInv, WorkOK
<1>4. RanksTyped /\ WorkOK /\ KKInv /\ config \in Configs
  BY DEF TBInv
<1>5. KKInv' /\ call' = call
  BY <1>1, <1>4, FrameKK DEF kkVars
<1>6. GenOK' /\ BatchOK' /\ TrainedOK'
  BY <1>1, <1>2, <1>5, FrameGen, FrameBatch, FrameTraining DEF TBInv
<1>7. ASSUME NEW r \in Ranks
      PROVE  RankOK(r)' /\ output'[r] \in Seq(Rows) /\ micro'[r] \in Seq(Seq(Rows)) /\ at'[r] \in Places8
  <2>. DEFINE h == Head(todo[r])
              m == micro[r]
              o == output[r]
  <2>1. h \in Seq(Rows) /\ Len(h) \in 1 .. Cardinality(Rows) /\ o \in Seq(Rows)
    BY <1>3, <1>4 DEF AtBatch, RanksTyped
  <2>2. /\ m \in Seq(Seq(1 .. Len(h))) /\ m # <<>> /\ Permutes(Order(r), Len(h))
        /\ o \o Pick(h, FlattenSeq(m)) = Pick(h, Order(r)) /\ todo[r] # <<>>
    BY <1>1, <1>3 DEF RankOK
  <2>3. /\ output'[r] = o \o Pick(h, Head(m)) /\ micro'[r] = Tail(m)
        /\ at'[r] = IF Len(m) > 1 THEN "forward" ELSE "forwarded"
    BY <1>1
  <2>4. Order(r)' = Order(r) /\ Head(todo'[r]) = h /\ todo'[r] # <<>>
    BY <1>2, <2>2 DEF Order
  <2>. HIDE DEF h, m, o
  <2>5. /\ o \o Pick(h, Head(m)) \in Seq(Rows)
        /\ (o \o Pick(h, Head(m))) \o Pick(h, FlattenSeq(Tail(m))) = o \o Pick(h, FlattenSeq(m))
        /\ Tail(m) \in Seq(Seq(1 .. Len(h)))
        /\ Tail(m) = <<>> <=> ~ (Len(m) > 1)
    BY <2>1, <2>2, ForwardOnce
  <2>6. micro'[r] \in Seq(Seq(Rows))
    <3>1. 1 .. Len(h) \subseteq Rows
      <4>. DEFINE c == Cardinality(Rows)
      <4>1. Len(h) \in 1 .. c /\ c \in Nat /\ Rows = 1 .. c
        BY <1>4, <2>1, ConfigIs
      <4>. HIDE DEF c
      <4>2. 1 .. Len(h) \subseteq 1 .. c
        BY <4>1
      <4>. QED  BY <4>1, <4>2
    <3>. QED  BY <2>3, <2>5, <3>1, SequenceOfSubset
  <2>7. RankOK(r)'
    <3>1. /\ Permutes(Order(r)', Len(Head(todo'[r]))) /\ micro'[r] \in Seq(Seq(1 .. Len(Head(todo'[r]))))
          /\ output'[r] \o Pick(Head(todo'[r]), FlattenSeq(micro'[r])) = Pick(Head(todo'[r]), Order(r)')
      BY <2>2, <2>3, <2>4, <2>5
    <3>2. at'[r] \in {"forward", "forwarded"} /\ (at'[r] = "forwarded" <=> micro'[r] = <<>>)
      BY <2>3, <2>5
    <3>. QED  BY <2>4, <3>1, <3>2 DEF RankOK
  <2>. QED  BY <2>3, <2>5, <2>6, <2>7 DEF Places8
<1>8. RanksTyped'
  <2>1. output' \in [Ranks -> Seq(Rows)]
    BY <1>1, <1>7
  <2>2. micro' \in [Ranks -> Seq(Seq(Rows))]
    <3>. DEFINE S == Seq(Seq(Rows))
    <3>1. \A r \in Ranks : micro'[r] \in S
      BY <1>7
    <3>. HIDE DEF S
    <3>2. micro' \in [Ranks -> S]
      BY <1>1, <3>1
    <3>. QED  BY <3>2 DEF S
  <2>3. at' \in [Ranks -> Places8]
    BY <1>1, <1>7
  <2>4. Rows' = Rows
    BY <1>2, SameConfig
  <2>. QED  BY <1>2, <1>4, <2>1, <2>2, <2>3, <2>4 DEF RanksTyped
<1>9. WorkOK'
  <2>1. WorkCount' = WorkCount /\ Done' = Done /\ \A q \in Ranks : Work(q)' = Work(q)
    BY <1>2, SameWork, SameDone
  <2>3. Working'
    BY <1>2, <1>3 DEF Working
  <2>. QED  BY <1>2, <1>3, <1>4, <1>7, <2>1, <2>3 DEF WorkOK
<1>. QED  BY <1>2, <1>4, <1>5, <1>6, <1>8, <1>9 DEF TBInv

\* The rows of one optimizer step are those of one mini-batch of every rank.
LEMMA StepTrains ==
    ASSUME TBInv, phase = "updating", \A r \in Ranks : at[r] = "forwarded", NEW x
    PROVE  Cardinality({p \in Ranks \X Rows : p[2] \in DOMAIN output[p[1]] /\ output[p[1]][p[2]] = x})
                = IF InMini(batch.rows, Done + 1, x) THEN 1 ELSE 0
<1>1. config \in Configs /\ BatchOK /\ WorkOK /\ Working
  BY DEF TBInv, Working
<1>. DEFINE n == Cardinality(Rows)
            rows == batch.rows
<1>2. n \in Nat /\ Rows = 1 .. n
  BY <1>1, ConfigIs
<1>3. rows \in Seq(Rows) /\ Distinct(rows) /\ Len(rows) % DPSize = 0
  BY <1>1 DEF BatchOK, WorkOK
<1>4. ASSUME NEW r \in Ranks
      PROVE  /\ output[r] \in Seq(Rows) /\ Distinct(output[r])
             /\ \A y : Has(output[r], y) <=> Has(Mini(rows, r)[Done + 1], y)
             /\ \A y : Has(output[r], y) => Has(ChunkOf(rows, DPSize, r), y)
  <2>. DEFINE h == Head(todo[r])
  <2>1. AtBatch(r, h)
    BY <1>4, HeadIs
  <2>2. output[r] = Pick(h, Order(r)) /\ Permutes(Order(r), Len(h))
    BY <1>4, Forwarded
  <2>3. h = Mini(rows, r)[Done + 1]
    BY <2>1 DEF AtBatch, Work, WorkAt
  <2>. HIDE DEF h
  <2>4. h \in Seq(Rows) /\ Distinct(h) /\ \A y : Has(h, y) => Has(ChunkOf(rows, DPSize, r), y)
    BY <2>1 DEF AtBatch
  <2>5. /\ Pick(h, Order(r)) \in Seq(Rows) /\ Distinct(Pick(h, Order(r)))
        /\ \A y : Has(Pick(h, Order(r)), y) <=> Has(h, y)
    BY <2>2, <2>4, PickPermutation
  <2>. QED  BY <2>2, <2>3, <2>4, <2>5
<1>5. ASSUME NEW r \in Ranks, NEW q \in Ranks, Has(output[r], x), Has(output[q], x)
      PROVE  r = q
  <2>1. Has(ChunkOf(rows, DPSize, r), x) /\ Has(ChunkOf(rows, DPSize, q), x)
    BY <1>4, <1>5
  <2>2. r \in 1 .. DPSize /\ q \in 1 .. DPSize /\ DPSize \in Nat \ {0}
    BY RanksAre
  <2>. QED  BY <1>3, <2>1, <2>2, ChunksDistinct
<1>6. (\E r \in Ranks : Has(output[r], x)) <=> InMini(rows, Done + 1, x)
  BY <1>4 DEF InMini
<1>7. \A r \in Ranks : output[r] \in Seq(1 .. n) /\ Distinct(output[r])
  BY <1>2, <1>4
<1>. HIDE DEF n
<1>8. Cardinality(Hits(output, 1 .. n, x))
            = IF \E r \in Ranks : Has(output[r], x) THEN 1 ELSE 0
  <2>1. n \in Nat
    BY <1>2
  <2>2. \A r, q \in Ranks : Has(output[r], x) /\ Has(output[q], x) => r = q
    BY <1>5
  <2>. HIDE DEF rows
  <2>. QED  BY <2>1, <2>2, <1>7, OutputCount
<1>. QED  BY <1>2, <1>6, <1>8 DEF Hits

LEMMA OptimizerStepKeeps ==
    ASSUME TBInv, OptimizerStep
    PROVE  TBInv'
<1>1. /\ phase = "updating" /\ \A r \in Ranks : at[r] = "forwarded"
      /\ trained' = [row \in Rows |-> trained[row] + Cardinality(
            {p \in Ranks \X Rows : p[2] \in DOMAIN output[p[1]] /\ output[p[1]][p[2]] = row})]
      /\ output' = [r \in Ranks |-> <<>>]
      /\ todo' = [r \in Ranks |-> Tail(todo[r])]
      /\ at' = [r \in Ranks |-> IF Len(todo[r]) > 1 THEN "prepare" ELSE "returned"]
      /\ UNCHANGED <<kkVars, driverVars, num, micro, indices, genVars, config, seqlen>>
  BY DEF OptimizerStep, AllAt
<1>2. /\ phase' = phase /\ batch' = batch /\ rewards' = rewards /\ config' = config
      /\ seqlen' = seqlen /\ num' = num /\ indices' = indices /\ micro' = micro
  BY <1>1 DEF driverVars
<1>3. \A r \in Ranks : AtBatch(r, Head(todo[r]))
  BY <1>1, HeadIs
<1>4. RanksTyped /\ WorkOK /\ KKInv /\ config \in Configs /\ BatchOK /\ TrainedOK /\ Working
  BY <1>1 DEF TBInv, Working
<1>5. KKInv' /\ call' = call
  BY <1>1, <1>4, FrameKK DEF kkVars
<1>6. GenOK' /\ BatchOK'
  BY <1>1, <1>2, <1>5, FrameGen, FrameBatch DEF TBInv
<1>. DEFINE rows == batch.rows
            d == Done
            n == WorkCount
<1>7. d \in 0 .. n - 1 /\ n \in Nat \ {0}
  BY <1>3, RanksAre DEF AtBatch
<1>8. ASSUME NEW r \in Ranks
      PROVE  /\ Len(todo[r]) = n - d /\ todo[r] \in Seq(Seq(Rows)) /\ todo'[r] = Tail(todo[r])
             /\ todo'[r] = SubSeq(Work(r), d + 2, n)
             /\ todo'[r] \in Seq(Seq(Rows)) /\ Len(todo'[r]) = n - d - 1
             /\ (todo'[r] = <<>> <=> n - d = 1)
  <2>. DEFINE t == todo[r]
  <2>1. Len(t) = n - d /\ t \in Seq(Seq(Rows)) /\ todo'[r] = Tail(t) /\ Tail(t) = SubSeq(Work(r), d + 2, n)
    BY <1>1, <1>3, <1>4 DEF AtBatch, RanksTyped
  <2>. HIDE DEF t, d, n
  <2>2. Len(t) # 0
    BY <1>7, <2>1
  <2>3. Tail(t) \in Seq(Seq(Rows)) /\ Len(Tail(t)) = Len(t) - 1
    <3>. DEFINE S == Seq(Rows)
    <3>1. t \in Seq(S)
      BY <2>1
    <3>. HIDE DEF S
    <3>2. Tail(t) \in Seq(S) /\ Len(Tail(t)) = Len(t) - 1
      BY <2>2, <3>1
    <3>. QED  BY <3>2 DEF S
  <2>4. Tail(t) = <<>> <=> Len(Tail(t)) = 0
    BY <2>3, EmptyWhen
  <2>5. Tail(t) = <<>> <=> n - d = 1
    BY <1>7, <2>1, <2>3, <2>4
  <2>6. Len(Tail(t)) = n - d - 1
    BY <1>7, <2>1, <2>3
  <2>. QED  BY <2>1, <2>3, <2>5, <2>6 DEF t
<1>9. WorkCount' = n /\ \A r \in Ranks : Work(r)' = Work(r)
  BY <1>2, SameWork
<1>10. Done' = d + 1
  <2>1. Len(todo'[1]) = n - d - 1
    BY <1>8, RanksAre
  <2>. HIDE DEF n, d
  <2>. QED  BY <1>7, <1>9, <2>1 DEF Done
<1>. HIDE DEF d, n
<1>11. RanksTyped'
  <2>1. todo' \in [Ranks -> Seq(Seq(Rows))]
    <3>. DEFINE S == Seq(Seq(Rows))
    <3>1. \A r \in Ranks : todo'[r] \in S
      BY <1>8
    <3>. HIDE DEF S
    <3>2. todo' \in [Ranks -> S]
      BY <1>1, <3>1
    <3>. QED  BY <3>2 DEF S
  <2>2. <<>> \in Seq(Rows)
    OBVIOUS
  <2>3. output' \in [Ranks -> Seq(Rows)]
    BY <1>1, <2>2
  <2>4. at' \in [Ranks -> Places8]
    BY <1>1 DEF Places8
  <2>5. Rows' = Rows
    BY <1>2, SameConfig
  <2>. QED  BY <1>2, <1>4, <2>1, <2>3, <2>4, <2>5 DEF RanksTyped
<1>12. WorkOK'
  <2>1. Working' /\ phase' # "computing"
    BY <1>1, <1>2 DEF Working
  <2>2. Len(batch'.rows) % DPSize = 0
    BY <1>2, <1>4 DEF WorkOK
  <2>3. Done' \in 0 .. WorkCount'
    BY <1>7, <1>9, <1>10
  <2>4. \A r \in Ranks : todo'[r] = SubSeq(Work(r)', Done' + 1, WorkCount')
    <3>1. d + 1 + 1 = d + 2
      BY <1>7
    <3>. QED  BY <1>8, <1>9, <1>10, <3>1
  <2>5. ASSUME NEW r \in Ranks PROVE RankOK(r)'
    <3>1. at'[r] = IF n - d > 1 THEN "prepare" ELSE "returned"
      BY <1>1, <1>8
    <3>2. output'[r] = <<>>
      BY <1>1
    <3>3. CASE n - d > 1
      <4>1. at'[r] = "prepare" /\ todo'[r] # <<>>
        BY <1>7, <1>8, <3>1, <3>3
      <4>. QED  BY <2>1, <3>2, <4>1 DEF RankOK
    <3>4. CASE ~ (n - d > 1)
      <4>1. at'[r] = "returned" /\ todo'[r] = <<>>
        BY <1>7, <1>8, <3>1, <3>4
      <4>. QED  BY <2>1, <3>2, <4>1 DEF RankOK
    <3>. QED  BY <3>3, <3>4
  <2>. QED  BY <2>1, <2>2, <2>3, <2>4, <2>5 DEF WorkOK
<1>13. TrainedOK'
  <2>1. /\ rows \in Seq(Rows) /\ Distinct(rows) /\ Len(rows) % DPSize = 0 /\ Len(rows) # 0
    BY <1>4 DEF BatchOK, WorkOK
  <2>2. n = MiniCount(rows)
    BY <1>1 DEF n, WorkCount, CountAt
  <2>3. \A row : TimesIn(rows, d + 1, row) = TimesIn(rows, d, row) + (IF InMini(rows, d + 1, row) THEN 1 ELSE 0)
    <3>1. d \in 0 .. MiniCount(rows) - 1
      BY <1>7, <2>2
    <3>. HIDE DEF rows
    <3>. QED  BY <2>1, <3>1, TimesInIs
  <2>4. trained = [row \in Rows |-> TimesIn(rows, d, row)]
    BY <1>1, <1>4 DEF TrainedOK, d
  <2>5. \A row \in Rows : Cardinality(
            {p \in Ranks \X Rows : p[2] \in DOMAIN output[p[1]] /\ output[p[1]][p[2]] = row})
                = IF InMini(rows, d + 1, row) THEN 1 ELSE 0
    BY <1>1, StepTrains DEF d
  <2>6. trained' = [row \in Rows |-> TimesIn(rows, d + 1, row)]
    BY <1>1, <2>3, <2>4, <2>5
  <2>7. Rows' = Rows
    BY <1>2, SameConfig
  <2>. QED  BY <1>1, <1>2, <1>10, <2>6, <2>7 DEF TrainedOK
<1>. QED  BY <1>2, <1>4, <1>5, <1>6, <1>11, <1>12, <1>13 DEF TBInv

LEMMA DriveKeeps ==
    ASSUME TBInv, Drive
    PROVE  TBInv'
<1>1. CASE Validate \/ CollectValidation \/ EndValidation \/ GenerateSequences \/ Union
  BY <1>1, ValidateKeeps, CollectValidationKeeps, EndValidationKeeps, GenerateSequencesKeeps, UnionKeeps
<1>2. CASE Balance \/ Reorder \/ LaunchReward
  BY <1>2, BalanceKeeps, ReorderKeeps, LaunchRewardKeeps
<1>3. CASE KKStep(Driver) /\ UNCHANGED <<driverVars, rankVars, genVars, config, seqlen, trained>>
  <2>1. Driver \in Callers
    BY RanksAre
  <2>. QED  BY <1>3, <2>1, PartitioningKeeps
<1>4. CASE ComputeLogProb \/ Collect \/ Filter \/ UpdateActor \/ Finish
  BY <1>4, ComputeLogProbKeeps, CollectKeeps, FilterKeeps, UpdateActorKeeps, FinishKeeps
<1>. QED  BY <1>1, <1>2, <1>3, <1>4 DEF Drive

LEMMA TBStepKeeps == TBInv /\ [Next]_vars => TBInv'
<1>. SUFFICES ASSUME TBInv, [Next]_vars PROVE TBInv'
  OBVIOUS
<1>1. CASE Drive
  BY <1>1, DriveKeeps
<1>2. CASE Generate
  BY <1>2, GenerateKeeps
<1>3. ASSUME NEW r \in Ranks, Rank(r) PROVE TBInv'
  BY <1>3, RankKeeps
<1>4. CASE AllReduceMax
  BY <1>4, AllReduceMaxKeeps
<1>5. CASE Forward
  BY <1>5, ForwardKeeps
<1>6. CASE OptimizerStep
  BY <1>6, OptimizerStepKeeps
<1>7. CASE UNCHANGED vars
  <2>1. UNCHANGED <<kkVars, driverVars, rankVars, genVars, config, seqlen, trained>>
    BY <1>7 DEF vars
  <2>2. /\ phase' = phase /\ batch' = batch /\ rewards' = rewards /\ config' = config /\ seqlen' = seqlen
        /\ trained' = trained /\ todo' = todo /\ call' = call
    BY <2>1 DEF driverVars, rankVars, kkVars
  <2>3. KKInv' /\ GenOK' /\ BatchOK'
    BY <2>1, <2>2, FrameKK, FrameGen, FrameBatch DEF TBInv
  <2>4. RanksTyped' /\ WorkOK' /\ TrainedOK'
    BY <2>1, <2>2, FrameRanks, FrameWork, FrameTraining DEF TBInv
  <2>. QED  BY <2>2, <2>3, <2>4 DEF TBInv
<1>. QED  BY <1>1, <1>2, <1>3, <1>4, <1>5, <1>6, <1>7 DEF Next

LEMMA AlwaysTBInv == Spec => []TBInv
  BY InitOK, TBStepKeeps, PTL DEF Spec

LEMMA KKInvTyped == KKInv => KKTypeOK
<1>. SUFFICES ASSUME KKInv PROVE KKTypeOK
  OBVIOUS
<1>1. ASSUME NEW c \in Callers, NEW s \in states_pq[c]
      PROVE  s \in [1 .. call[c].k_partitions -> [sum : Nat, items : SUBSET DOMAIN call[c].seqlen_list]]
  BY <1>1 DEF KKInv, HeapsOK, HeapOK, StateOK, IsRow, Bucket
<1>2. ASSUME NEW c \in Callers
      PROVE  partitions[c] = <<>> \/
                  partitions[c] \in [1 .. call[c].k_partitions -> SUBSET DOMAIN call[c].seqlen_list]
  <2>. SUFFICES ASSUME partitions[c] # <<>>
                PROVE  partitions[c] \in [1 .. call[c].k_partitions -> SUBSET DOMAIN call[c].seqlen_list]
    OBVIOUS
  <2>1. Exact(partitions[c], call[c].seqlen_list, call[c].k_partitions, call[c].equal_size)
    BY DEF KKInv, ReturnedOK
  <2>. QED  BY <2>1 DEF Exact
<1>. QED  BY <1>1, <1>2 DEF KKInv, KKTypeOK

LEMMA TBInvTyped == TBInv => TypeOK
<1>. SUFFICES ASSUME TBInv PROVE TypeOK
  OBVIOUS
<1>1. KKTypeOK
  BY KKInvTyped DEF TBInv
<1>2. GenOK /\ BatchOK /\ RanksTyped /\ WorkOK /\ TrainedOK
  BY DEF TBInv
<1>3. trained \in [Rows -> 0 .. PPOEpochs]
  <2>1. PPOEpochs \in Nat
    BY TrainingBatchAssumption
  <2>2. CASE phase = "updating"
    <3>1. /\ batch.rows \in Seq(Rows) /\ Distinct(batch.rows) /\ Len(batch.rows) % DPSize = 0 /\ Len(batch.rows) # 0
          /\ Done \in 0 .. MiniCount(batch.rows)
      BY <1>2, <2>2 DEF BatchOK, WorkOK, Working, WorkCount, CountAt
    <3>2. \A row : TimesIn(batch.rows, Done, row) \in 0 .. PPOEpochs
      BY <3>1, TimesInIs
    <3>3. trained = [row \in Rows |-> TimesIn(batch.rows, Done, row)]
      BY <1>2, <2>2 DEF TrainedOK
    <3>. QED  BY <3>2, <3>3
  <2>3. CASE phase = "done"
    BY <1>2, <2>1, <2>3 DEF TrainedOK
  <2>4. CASE phase \notin {"updating", "done"}
    BY <1>2, <2>1, <2>4 DEF TrainedOK
  <2>. QED  BY <2>2, <2>3, <2>4
<1>4. phase \in {"validate", "validating", "validated", "generate", "generating", "balance", "balancing", "reward",
                 "log_prob", "computing", "filter", "update", "updating", "done", "failed"}
  BY <1>2 DEF BatchOK, Phases, Scoreless, Early
<1>5. /\ {test_batch, gen_batch, gen_output} \subseteq Seq(Nat) /\ pad_size \in Nat
      /\ generated \in {<<>>} \cup [RolloutRanks -> Seq(Nat)]
  BY <1>2 DEF GenOK
<1>6. /\ seqlen \in {<<>>} \cup [Rows -> Lengths]
      /\ batch \in [rows : Seq(Rows), scores : Seq(Rows), old_log_probs : Seq(Rows)]
      /\ rewards \in Seq(Rows)
  BY <1>2 DEF BatchOK
<1>7. /\ at \in [Ranks -> {"idle", "prepare", "reduce", "partition", "balance", "forward",
                           "forwarded", "returned"}]
      /\ todo \in [Ranks -> Seq(Seq(Rows))]
      /\ num \in [Ranks -> 0 .. Cardinality(Rows)]
      /\ micro \in [Ranks -> Seq(Seq(Rows))]
      /\ indices \in [Ranks -> Seq(Rows)]
      /\ output \in [Ranks -> Seq(Rows)]
  BY <1>2 DEF RanksTyped, Places8
<1>. QED  BY <1>1, <1>3, <1>4, <1>5, <1>6, <1>7 DEF TypeOK

\* Whatever pads, cuts, joins, repeats, reorders and sorts rows (pad_dataproto_to_divisor, DataProto.chunk, concat,
\* repeat, split, reorder, rearrange_micro_batches and restore_dynamic_batch), what was computed about a row ends
\* up at that row: for every number of ranks, every length, batch size and configuration, every partitioning that
\* the balancing may return, and every order in which engines and ranks take their steps.
THEOREM RowsAlwaysStayTogether == Spec => []RowsStayTogether
<1>1. TBInv => RowsStayTogether
  <2>. SUFFICES ASSUME TBInv PROVE RowsStayTogether
    OBVIOUS
  <2>1. GenOK /\ BatchOK /\ WorkOK
    BY DEF TBInv
  <2>2. /\ phase = "validated" => gen_output = test_batch
        /\ phase = "balance" => gen_output = [row \in Rows |-> Uid(row)]
    BY <2>1 DEF GenOK
  <2>3. batch.scores \in {<<>>, batch.rows} /\ batch.old_log_probs \in {<<>>, batch.rows}
    BY <2>1 DEF BatchOK
  <2>4. phase = "computing" => \A r \in Ranks : at[r] = "returned" => output[r] = Head(todo[r])
    BY <2>1 DEF WorkOK, Working, RankOK
  <2>5. RowsMatch
    BY <2>2, <2>3, <2>4 DEF RowsMatch
  <2>. QED  BY <2>5, TBInvTyped DEF RowsStayTogether
<1>. QED  BY <1>1, AlwaysTBInv, PTL

\* When update_policy returns, every row that _apply_filter_groups kept was in exactly one optimizer step of each
\* epoch, on whichever rank and in whichever micro-batch it was, and a row that was filtered out in none: for every
\* size of mini-batch and micro-batch, every number of epochs, and every way of cutting and sorting micro-batches.
THEOREM EveryKeptRowIsTrainedOn == Spec => []EveryRowIsTrainedOn
<1>1. TBInv => EveryRowIsTrainedOn
  <2>. SUFFICES ASSUME TBInv, phase = "done", NEW row \in Rows
                PROVE  trained[row] = IF row \in Range(batch.rows) THEN PPOEpochs ELSE 0
    BY DEF EveryRowIsTrainedOn
  <2>1. trained[row] = IF Has(batch.rows, row) THEN PPOEpochs ELSE 0
    BY DEF TBInv, TrainedOK
  <2>2. batch.rows \in Seq(Rows)
    BY DEF TBInv, BatchOK
  <2>3. Has(batch.rows, row) <=> row \in Range(batch.rows)
    BY <2>2 DEF Has, Range
  <2>. QED  BY <2>1, <2>3
<1>. QED  BY <1>1, AlwaysTBInv, PTL

-----------------------------------------------------------------------------
(* The sums of the buckets are the lengths of what is in them *)

Adds(s, lens, k) == \A i \in 1 .. k : s[i].sum = SumFunctionOnSet(lens, s[i].items)
Even(P, lens, k) ==
    \A i, j \in 1 .. k : \E x \in DOMAIN lens :
        SumFunctionOnSet(lens, P[i]) - SumFunctionOnSet(lens, P[j]) <= lens[x]

KKSums ==
    /\ \A c \in Callers : \A s \in states_pq[c] : Adds(s, call[c].seqlen_list, call[c].k_partitions)
    /\ \A c \in Callers : partitions[c] # <<>> => Even(partitions[c], call[c].seqlen_list, call[c].k_partitions)

\* What may happen to the calls: one starts, takes a step, or its result is taken.
Taken(c) ==
    /\ partitions' = [partitions EXCEPT ![c] = <<>>]
    /\ UNCHANGED <<call, states_pq>>
Called(c) == \E lens \in Seq(Nat) : \E k \in 1 .. Len(lens) : \E equal \in BOOLEAN : Call(c, lens, k, equal)
KKChange == UNCHANGED kkVars \/ \E c \in Callers : Called(c) \/ KKStep(c) \/ Taken(c)

LEMMA FiniteIndices ==
    ASSUME NEW lens \in Seq(Nat)
    PROVE  lens \in [DOMAIN lens -> Nat] /\ \A A \in SUBSET DOMAIN lens : IsFiniteSet(A)
<1>1. IsFiniteSet(DOMAIN lens)
  <2>1. Len(lens) \in Nat /\ DOMAIN lens = 1 .. Len(lens)
    OBVIOUS
  <2>. QED  BY <2>1, FS_Interval
<1>2. lens \in [DOMAIN lens -> Nat]
  OBVIOUS
<1>. QED  BY <1>1, <1>2, FS_Subset

LEMMA SumOfLengths ==
    ASSUME NEW lens \in Seq(Nat)
    PROVE  /\ SumFunctionOnSet(lens, {}) = 0
           /\ \A x \in DOMAIN lens : SumFunctionOnSet(lens, {x}) = lens[x]
           /\ \A A \in SUBSET DOMAIN lens : SumFunctionOnSet(lens, A) \in Nat
           /\ \A A, B \in SUBSET DOMAIN lens : A \cap B = {} =>
                SumFunctionOnSet(lens, A \cup B) = SumFunctionOnSet(lens, A) + SumFunctionOnSet(lens, B)
<1>. DEFINE D == DOMAIN lens
<1>1. lens \in [D -> Nat] /\ \A A \in SUBSET D : IsFiniteSet(A)
  BY FiniteIndices
<1>. HIDE DEF D
<1>2. \A A \in SUBSET D : /\ SumFunctionOnSet(lens, A) \in Nat /\ SumFunctionOnSet(lens, {}) = 0
                          /\ \A x \in A : SumFunctionOnSet(lens, A) = lens[x] + SumFunctionOnSet(lens, A \ {x})
  BY <1>1, SumOnSet
<1>3. ASSUME NEW x \in D PROVE SumFunctionOnSet(lens, {x}) = lens[x]
  <2>1. SumFunctionOnSet(lens, {x}) = lens[x] + SumFunctionOnSet(lens, {x} \ {x})
    BY <1>2, <1>3
  <2>2. {x} \ {x} = {}
    OBVIOUS
  <2>3. SumFunctionOnSet(lens, {}) = 0 /\ lens[x] \in Nat
    BY <1>1, <1>2, <1>3
  <2>. DEFINE rest == {x} \ {x}
  <2>4. rest = {} /\ SumFunctionOnSet(lens, {x}) = lens[x] + SumFunctionOnSet(lens, rest)
    BY <2>1, <2>2
  <2>. HIDE DEF rest
  <2>5. SumFunctionOnSet(lens, rest) = 0
    BY <2>3, <2>4
  <2>. QED  BY <2>3, <2>4, <2>5
<1>4. ASSUME NEW A \in SUBSET D, NEW B \in SUBSET D, A \cap B = {}
      PROVE  SumFunctionOnSet(lens, A \cup B) = SumFunctionOnSet(lens, A) + SumFunctionOnSet(lens, B)
  BY <1>1, <1>4, SumUnion
<1>5. SumFunctionOnSet(lens, {}) = 0
  BY <1>2
<1>. QED  BY <1>2, <1>3, <1>4, <1>5 DEF D

LEMMA SingleAdds ==
    ASSUME NEW lens \in Seq(Nat)
    PROVE  /\ EmptySet.sum = SumFunctionOnSet(lens, EmptySet.items)
           /\ \A x \in DOMAIN lens : Single(lens, x).sum = SumFunctionOnSet(lens, Single(lens, x).items)
<1>1. EmptySet.sum = 0 /\ EmptySet.items = {}
  BY DEF EmptySet
<1>2. \A x : Single(lens, x).sum = lens[x] /\ Single(lens, x).items = {x}
  BY DEF Single
<1>. QED  BY <1>1, <1>2, SumOfLengths

LEMMA StartAdds ==
    ASSUME NEW lens \in Seq(Nat), NEW k \in Nat \ {0}, NEW equal \in BOOLEAN, equal => Len(lens) % k = 0,
           NEW s \in IF equal THEN EqualStart(lens, k) ELSE FreeStart(lens, k)
    PROVE  Adds(s, lens, k)
<1>1. CASE equal
  <2>1. PICK m \in 1 .. Len(lens) \div k : s = [i \in 1 .. k |-> Single(lens, At(lens, m * k - i))]
    BY <1>1 DEF EqualStart
  <2>. DEFINE n == Len(lens)
  <2>2. n \in Nat /\ n % k = 0 /\ m \in 1 .. n \div k
    BY <1>1
  <2>. HIDE DEF n
  <2>3. \A i \in 1 .. k : m * k - i \in 0 .. n - 1
    BY <2>2, ChunksOfPositions
  <2>4. ASSUME NEW i \in 1 .. k PROVE s[i].sum = SumFunctionOnSet(lens, s[i].items)
    <3>. DEFINE x == At(lens, m * k - i)
    <3>1. x \in DOMAIN lens
      BY <2>3, AtPosition DEF n
    <3>2. s[i] = Single(lens, x)
      BY <2>1
    <3>. HIDE DEF x
    <3>. QED  BY <3>1, <3>2, SingleAdds
  <2>. QED  BY <2>4 DEF Adds
<1>2. CASE ~ equal
  <2>1. PICK x \in DOMAIN lens : s = [i \in 1 .. k |-> IF i = 1 THEN Single(lens, x) ELSE EmptySet]
    BY <1>2 DEF FreeStart
  <2>2. ASSUME NEW i \in 1 .. k PROVE s[i].sum = SumFunctionOnSet(lens, s[i].items)
    <3>1. s[i] = Single(lens, x) \/ s[i] = EmptySet
      BY <2>1
    <3>. QED  BY <3>1, SingleAdds
  <2>. QED  BY <2>2 DEF Adds
<1>. QED  BY <1>1, <1>2

LEMMA MergeAdds ==
    ASSUME NEW lens \in Seq(Nat), NEW k \in Nat \ {0}, NEW s, NEW t, IsRow(s, lens, k), IsRow(t, lens, k),
           \A i, j \in 1 .. k : s[i].items \cap t[j].items = {},
           Adds(s, lens, k), Adds(t, lens, k), NEW u, Rearranged(u, Merged(s, t), k)
    PROVE  Adds(u, lens, k)
<1>1. PICK p \in Bijection(1 .. k, 1 .. k) : \A i \in 1 .. k : u[i] = Merged(s, t)[p[i]]
  BY DEF Rearranged
<1>2. \A i \in 1 .. k : p[i] \in 1 .. k
  BY DEF Bijection, Injection
<1>3. ASSUME NEW i \in 1 .. k PROVE Merged(s, t)[i].sum = SumFunctionOnSet(lens, Merged(s, t)[i].items)
  <2>. DEFINE j == k + 1 - i
  <2>1. j \in 1 .. k
    OBVIOUS
  <2>2. /\ Merged(s, t)[i].sum = s[i].sum + t[j].sum
        /\ Merged(s, t)[i].items = s[i].items \cup t[j].items
    BY MergedBuckets
  <2>. HIDE DEF j
  <2>3. s[i].items \in SUBSET DOMAIN lens /\ t[j].items \in SUBSET DOMAIN lens
    BY <2>1 DEF IsRow, Bucket
  <2>4. s[i].items \cap t[j].items = {}
    BY <2>1
  <2>5. s[i].sum = SumFunctionOnSet(lens, s[i].items) /\ t[j].sum = SumFunctionOnSet(lens, t[j].items)
    BY <2>1 DEF Adds
  <2>6. SumFunctionOnSet(lens, s[i].items \cup t[j].items)
            = SumFunctionOnSet(lens, s[i].items) + SumFunctionOnSet(lens, t[j].items)
    BY <2>3, <2>4, SumOfLengths
  <2>. QED  BY <2>2, <2>5, <2>6
<1>. QED  BY <1>1, <1>2, <1>3 DEF Adds

LEMMA LastStateIsEven ==
    ASSUME NEW lens \in Seq(Nat), NEW k \in Nat \ {0}, NEW s, StateOK(s, lens, k), Adds(s, lens, k)
    PROVE  Even([i \in DOMAIN s |-> s[i].items], lens, k)
<1>1. PICK x \in DOMAIN lens : s[1].sum - s[k].sum <= lens[x]
  BY DEF StateOK, Narrow
<1>2. IsRow(s, lens, k) /\ Decreasing(s, k) /\ DOMAIN s = 1 .. k
  BY RowLength DEF StateOK
<1>3. ASSUME NEW i \in 1 .. k, NEW j \in 1 .. k
      PROVE  SumFunctionOnSet(lens, s[i].items) - SumFunctionOnSet(lens, s[j].items) <= lens[x]
  <2>1. 1 \in 1 .. k /\ k \in 1 .. k /\ 1 <= i /\ j <= k
    OBVIOUS
  <2>2. s[i].sum \in Nat /\ s[1].sum \in Nat /\ s[i].sum <= s[1].sum
    BY <1>2, <2>1, DecreasingSums
  <2>3. s[j].sum \in Nat /\ s[k].sum \in Nat /\ s[k].sum <= s[j].sum
    BY <1>2, <2>1, DecreasingSums
  <2>4. s[i].sum = SumFunctionOnSet(lens, s[i].items) /\ s[j].sum = SumFunctionOnSet(lens, s[j].items)
    BY DEF Adds
  <2>5. lens[x] \in Nat
    OBVIOUS
  <2>. QED  BY <1>1, <2>2, <2>3, <2>4, <2>5
<1>. QED  BY <1>2, <1>3 DEF Even

LEMMA KKChangeKeepsSums ==
    ASSUME KKInv, KKSums, KKChange
    PROVE  KKSums'
<1>1. CASE UNCHANGED kkVars
  BY <1>1 DEF kkVars, KKSums
<1>2. ASSUME NEW c \in Callers, Called(c) PROVE KKSums'
  <2>0. PICK lens \in Seq(Nat) : \E k \in 1 .. Len(lens) : \E equal \in BOOLEAN : Call(c, lens, k, equal)
    BY <1>2 DEF Called
  <2>01. PICK k \in 1 .. Len(lens) : \E equal \in BOOLEAN : Call(c, lens, k, equal)
    BY <2>0
  <2>1. PICK equal \in BOOLEAN : Call(c, lens, k, equal)
    BY <2>01
  <2>2. /\ partitions[c] = <<>> /\ partitions' = partitions /\ (equal => Len(lens) % k = 0)
        /\ call'[c].seqlen_list = lens /\ call'[c].k_partitions = k
        /\ states_pq'[c] = IF equal THEN EqualStart(lens, k) ELSE FreeStart(lens, k)
        /\ \A d \in Callers : d # c => call'[d] = call[d] /\ states_pq'[d] = states_pq[d]
    BY <2>1 DEF Call, MayCall, KKInv
  <2>3. k \in Nat \ {0}
    OBVIOUS
  <2>4. \A s \in states_pq'[c] : Adds(s, lens, k)
    BY <2>2, <2>3, StartAdds
  <2>5. \A d \in Callers : \A s \in states_pq'[d] : Adds(s, call'[d].seqlen_list, call'[d].k_partitions)
    BY <2>2, <2>4 DEF KKSums
  <2>6. \A d \in Callers : partitions'[d] # <<>> => Even(partitions'[d], call'[d].seqlen_list, call'[d].k_partitions)
    BY <2>2 DEF KKSums
  <2>. QED  BY <2>5, <2>6 DEF KKSums
<1>3. ASSUME NEW c \in Callers, Merge(c) PROVE KKSums'
  <2>. DEFINE pq == states_pq[c]
              lens == call[c].seqlen_list
              k == call[c].k_partitions
  <2>1. lens \in Seq(Nat) /\ k \in Nat \ {0}
    BY DEF KKInv
  <2>2. PICK s \in PopFirst(pq) : \E t \in PopFirst(pq \ {s}) : \E u \in Sorted(Merged(s, t)) :
            states_pq' = [states_pq EXCEPT ![c] = (@ \ {s, t}) \cup {u}]
    BY <1>3 DEF Merge
  <2>3. PICK t \in PopFirst(pq \ {s}) : \E u \in Sorted(Merged(s, t)) :
            states_pq' = [states_pq EXCEPT ![c] = (@ \ {s, t}) \cup {u}]
    BY <2>2
  <2>4. PICK u \in Sorted(Merged(s, t)) : states_pq' = [states_pq EXCEPT ![c] = (@ \ {s, t}) \cup {u}]
    BY <2>3
  <2>5. s \in pq /\ t \in pq /\ s # t
    BY <2>2, <2>3, PopFirstPops
  <2>6. IsRow(s, lens, k) /\ IsRow(t, lens, k) /\ Separate(pq, k)
    BY <2>5 DEF KKInv, HeapsOK, HeapOK, StateOK
  <2>7. /\ states_pq'[c] = (pq \ {s, t}) \cup {u} /\ call' = call /\ partitions' = partitions
        /\ \A d \in Callers : d # c => states_pq'[d] = states_pq[d]
    BY <1>3, <2>4 DEF Merge, KKInv
  <2>8. Adds(s, lens, k) /\ Adds(t, lens, k) /\ \A v \in pq : Adds(v, lens, k)
    BY <2>5 DEF KKSums
  <2>9. \A i, j \in 1 .. k : s[i].items \cap t[j].items = {}
    BY <2>5, <2>6 DEF Separate
  <2>. HIDE DEF pq, lens, k
  <2>10. IsRow(Merged(s, t), lens, k)
    BY <2>1, <2>6, MergedBuckets
  <2>11. Rearranged(u, Merged(s, t), k)
    BY <2>1, <2>4, <2>10, SortedRow
  <2>12. Adds(u, lens, k)
    BY <2>1, <2>6, <2>8, <2>9, <2>11, MergeAdds
  <2>13. \A v \in states_pq'[c] : Adds(v, lens, k)
    BY <2>7, <2>8, <2>12
  <2>. QED  BY <2>7, <2>13 DEF KKSums, lens, k
<1>4. ASSUME NEW c \in Callers, Return(c) PROVE KKSums'
  <2>. DEFINE lens == call[c].seqlen_list
              k == call[c].k_partitions
  <2>1. lens \in Seq(Nat) /\ k \in Nat \ {0}
    BY DEF KKInv
  <2>2. PICK s \in states_pq[c] : /\ partitions' = [partitions EXCEPT ![c] = [i \in DOMAIN s |-> s[i].items]]
                                  /\ states_pq' = [states_pq EXCEPT ![c] = {}]
                                  /\ call' = call
    BY <1>4 DEF Return
  <2>3. /\ partitions'[c] = [i \in DOMAIN s |-> s[i].items] /\ states_pq'[c] = {}
        /\ \A d \in Callers : d # c => states_pq'[d] = states_pq[d] /\ partitions'[d] = partitions[d]
    BY <2>2 DEF KKInv
  <2>4. StateOK(s, lens, k) /\ Adds(s, lens, k)
    BY <2>2 DEF KKInv, HeapsOK, HeapOK, KKSums
  <2>. HIDE DEF lens, k
  <2>5. Even(partitions'[c], lens, k)
    BY <2>1, <2>3, <2>4, LastStateIsEven
  <2>. QED  BY <2>2, <2>3, <2>5 DEF KKSums, lens, k
<1>5. ASSUME NEW c \in Callers, Taken(c) PROVE KKSums'
  <2>1. \A d \in Callers : partitions'[d] = partitions[d] \/ partitions'[d] = <<>>
    BY <1>5 DEF Taken, KKInv
  <2>2. call' = call /\ states_pq' = states_pq
    BY <1>5 DEF Taken
  <2>. QED  BY <2>1, <2>2 DEF KKSums
<1>. QED  BY <1>1, <1>2, <1>3, <1>4, <1>5 DEF KKChange, KKStep

LEMMA SumsAreBalanced == KKInv /\ KKSums => PartitionsAreBalanced
<1>. SUFFICES ASSUME KKInv, KKSums, NEW c \in Callers, NEW i \in DOMAIN partitions[c], NEW j \in DOMAIN partitions[c]
              PROVE  \E x \in Indices(c) :
                        LengthOf(c, partitions[c][i]) - LengthOf(c, partitions[c][j]) <= call[c].seqlen_list[x]
  BY DEF PartitionsAreBalanced
<1>1. partitions[c] # <<>>
  <2>1. DOMAIN <<>> = {}
    OBVIOUS
  <2>. QED  BY <2>1
<1>2. DOMAIN partitions[c] = 1 .. call[c].k_partitions
  BY <1>1 DEF KKInv, ReturnedOK, Exact
<1>3. Even(partitions[c], call[c].seqlen_list, call[c].k_partitions)
  BY <1>1 DEF KKSums
<1>. QED  BY <1>2, <1>3 DEF Even, Indices, LengthOf

LEMMA KKInitSums == KKInit => KKSums
  BY DEF KKInit, KKSums

\* The lengths of two partitions that get_seqlen_balanced_partitions returns never differ by more than the longest
\* sequence, whatever order ties are popped and sorted in: for any lists, numbers of partitions and callers.
THEOREM PartitionsAlwaysBalanced == KKSpec => []PartitionsAreBalanced
<1>1. KKInit => KKInv /\ KKSums
  BY KKInitOK, KKInitSums
<1>2. KKInv /\ KKSums /\ [KKNext]_kkVars => (KKInv /\ KKSums)'
  <2>1. [KKNext]_kkVars => KKChange
    <3>1. \A lens \in Lists : lens \in Seq(Nat)
      BY SeqlenAssumption
    <3>. QED  BY <3>1 DEF KKNext, KKChange, Called
  <2>. QED  BY <2>1, KKStepKeeps, KKChangeKeepsSums
<1>3. KKInv /\ KKSums => PartitionsAreBalanced
  BY SumsAreBalanced
<1>. QED  BY <1>1, <1>2, <1>3, PTL DEF KKSpec

-----------------------------------------------------------------------------
(* Lengths of rows that are picked, and of partitions together *)
LEMMA SumUpTo ==
    ASSUME NEW lens \in Seq(Nat), NEW j \in 0 .. Len(lens)
    PROVE  /\ SumFunctionOnSet(lens, 1 .. j) \in Nat
           /\ j = 0 => SumFunctionOnSet(lens, 1 .. j) = 0
           /\ j < Len(lens) => SumFunctionOnSet(lens, 1 .. j + 1) = SumFunctionOnSet(lens, 1 .. j) + lens[j + 1]
<1>. DEFINE D == DOMAIN lens
<1>1. D = 1 .. Len(lens) /\ Len(lens) \in Nat
  OBVIOUS
<1>2. 1 .. j \in SUBSET D
  BY <1>1
<1>3. /\ \A A \in SUBSET D : SumFunctionOnSet(lens, A) \in Nat
      /\ SumFunctionOnSet(lens, {}) = 0 /\ \A x \in D : SumFunctionOnSet(lens, {x}) = lens[x]
      /\ \A A, B \in SUBSET D : A \cap B = {} =>
            SumFunctionOnSet(lens, A \cup B) = SumFunctionOnSet(lens, A) + SumFunctionOnSet(lens, B)
  BY SumOfLengths
<1>4. ASSUME j = 0 PROVE SumFunctionOnSet(lens, 1 .. j) = 0
  <2>1. 1 .. j = {}
    BY <1>4
  <2>. QED  BY <1>3, <2>1
<1>5. ASSUME j < Len(lens)
      PROVE  SumFunctionOnSet(lens, 1 .. j + 1) = SumFunctionOnSet(lens, 1 .. j) + lens[j + 1]
  <2>1. j + 1 \in D /\ {j + 1} \in SUBSET D /\ (1 .. j) \cap {j + 1} = {}
    BY <1>1, <1>5
  <2>2. 1 .. j + 1 = (1 .. j) \cup {j + 1}
    OBVIOUS
  <2>. DEFINE A == 1 .. j
              B == {j + 1}
  <2>3. SumFunctionOnSet(lens, A \cup B) = SumFunctionOnSet(lens, A) + SumFunctionOnSet(lens, B)
    <3>1. A \in SUBSET D /\ B \in SUBSET D /\ A \cap B = {}
      BY <1>2, <2>1
    <3>. HIDE DEF A, B, D
    <3>. QED  BY <1>3, <3>1
  <2>4. SumFunctionOnSet(lens, B) = lens[j + 1]
    BY <1>3, <2>1
  <2>5. SumFunctionOnSet(lens, 1 .. j + 1) = SumFunctionOnSet(lens, A \cup B)
    BY <2>2
  <2>. QED  BY <2>3, <2>4, <2>5
<1>. QED  BY <1>2, <1>3, <1>4, <1>5

\* A sum over different indices of a list is the sum over the set of them.
LEMMA SumAlong ==
    ASSUME NEW lens \in Seq(Nat), NEW p \in Seq(1 .. Len(lens)), Distinct(p),
           NEW g \in Seq(Nat), Len(g) = Len(p), \A i \in 1 .. Len(p) : g[i] = lens[p[i]]
    PROVE  SumFunction(g) = SumFunctionOnSet(lens, {p[i] : i \in 1 .. Len(p)})
<1>. DEFINE n == Len(p)
            D == DOMAIN lens
            Z == {j \in 0 .. n : SumFunctionOnSet(g, 1 .. j) = SumFunctionOnSet(lens, {p[i] : i \in 1 .. j})}
<1>1. n \in Nat /\ D = 1 .. Len(lens) /\ \A i \in 1 .. n : p[i] \in D
  OBVIOUS
<1>2. /\ SumFunctionOnSet(lens, {}) = 0 /\ \A x \in D : SumFunctionOnSet(lens, {x}) = lens[x]
      /\ \A A, B \in SUBSET D : A \cap B = {} =>
            SumFunctionOnSet(lens, A \cup B) = SumFunctionOnSet(lens, A) + SumFunctionOnSet(lens, B)
  BY SumOfLengths
<1>3. 0 \in Z
  <2>. DEFINE B == {p[i] : i \in 1 .. 0}
  <2>1. B = {} /\ 0 \in 0 .. n
    BY <1>1
  <2>2. SumFunctionOnSet(g, 1 .. 0) = 0
    BY SumUpTo
  <2>. HIDE DEF B
  <2>3. SumFunctionOnSet(lens, B) = 0
    BY <1>2, <2>1
  <2>. QED  BY <2>1, <2>2, <2>3 DEF B
<1>4. ASSUME NEW j \in 0 .. n - 1, j \in Z PROVE j + 1 \in Z
  <2>. DEFINE A == {p[i] : i \in 1 .. j}
              B == {p[j + 1]}
              C == {p[i] : i \in 1 .. j + 1}
  <2>1. j + 1 \in 0 .. n /\ j + 1 \in 1 .. n /\ j \in 0 .. Len(g) /\ j < Len(g)
    BY <1>1
  <2>2. C = A \cup B /\ A \in SUBSET D /\ B \in SUBSET D
    <3>1. \A i : i \in 1 .. j + 1 <=> i \in 1 .. j \/ i = j + 1
      BY <2>1
    <3>2. \A i \in 1 .. j : i \in 1 .. n
      BY <2>1
    <3>3. C = A \cup B
      BY <3>1
    <3>. QED  BY <1>1, <2>1, <3>2, <3>3
  <2>3. A \cap B = {}
    <3>1. ASSUME NEW i \in 1 .. j PROVE p[i] # p[j + 1]
      <4>1. i \in 1 .. n /\ i # j + 1
        BY <2>1
      <4>. QED  BY <2>1, <4>1 DEF Distinct
    <3>. QED  BY <3>1
  <2>4. SumFunctionOnSet(g, 1 .. j + 1) = SumFunctionOnSet(g, 1 .. j) + g[j + 1]
    BY <2>1, SumUpTo
  <2>5. SumFunctionOnSet(g, 1 .. j) = SumFunctionOnSet(lens, A)
    BY <1>4
  <2>6. SumFunctionOnSet(lens, B) = lens[p[j + 1]] /\ g[j + 1] = lens[p[j + 1]]
    BY <1>1, <1>2, <2>1
  <2>. HIDE DEF A, B, C
  <2>7. SumFunctionOnSet(lens, C) = SumFunctionOnSet(lens, A) + SumFunctionOnSet(lens, B)
    BY <1>2, <2>2, <2>3
  <2>8. SumFunctionOnSet(g, 1 .. j + 1) = SumFunctionOnSet(lens, C)
    BY <2>4, <2>5, <2>6, <2>7
  <2>. QED  BY <2>1, <2>8 DEF C
<1>5. n \in Z
  <2>. HIDE DEF Z
  <2>1. 0 .. n \subseteq Z
    BY <1>1, <1>3, <1>4, InductUpTo
  <2>. QED  BY <1>1, <2>1
<1>6. SumFunction(g) = SumFunctionOnSet(g, 1 .. n)
  BY SumOfSequence
<1>. QED  BY <1>5, <1>6

LEMMA TotalAlong ==
    ASSUME seqlen \in [Rows -> Lengths], NEW rows \in Seq(Rows), NEW idx \in Seq(1 .. Len(rows)), Distinct(idx)
    PROVE  Total(Pick(rows, idx)) = SumFunctionOnSet(LengthsOf(rows), {idx[i] : i \in 1 .. Len(idx)})
<1>. DEFINE picked == Pick(rows, idx)
            lens == LengthsOf(rows)
            g == LengthsOf(picked)
<1>1. /\ picked \in Seq(Rows) /\ Len(picked) = Len(idx)
      /\ \A i \in 1 .. Len(idx) : idx[i] \in 1 .. Len(rows) /\ picked[i] = rows[idx[i]]
  BY PickIs
<1>. HIDE DEF picked
<1>2. /\ lens \in Seq(Nat) /\ Len(lens) = Len(rows) /\ g \in Seq(Nat) /\ Len(g) = Len(idx)
  BY <1>1, LengthsTyped
<1>3. ASSUME NEW i \in 1 .. Len(idx) PROVE g[i] = lens[idx[i]]
  <2>1. g[i] = seqlen[picked[i]]
    BY <1>1 DEF LengthsOf
  <2>2. lens[idx[i]] = seqlen[rows[idx[i]]]
    BY <1>1 DEF LengthsOf
  <2>. QED  BY <1>1, <2>1, <2>2
<1>. HIDE DEF lens, g
<1>4. idx \in Seq(1 .. Len(lens))
  BY <1>2
<1>5. SumFunction(g) = SumFunctionOnSet(lens, {idx[i] : i \in 1 .. Len(idx)})
  BY <1>2, <1>3, <1>4, SumAlong
<1>. QED  BY <1>5 DEF Total, g, lens, picked

LEMMA TotalOfPart ==
    ASSUME seqlen \in [Rows -> Lengths], NEW rows \in Seq(Rows), NEW A \in SUBSET (1 .. Len(rows))
    PROVE  Total(Pick(rows, Ascending(A))) = SumFunctionOnSet(LengthsOf(rows), A)
<1>. DEFINE idx == Ascending(A)
<1>1. IsFiniteSet(A) /\ A \in SUBSET Nat
  <2>1. Len(rows) \in Nat
    OBVIOUS
  <2>2. IsFiniteSet(1 .. Len(rows))
    BY <2>1, FS_Interval
  <2>3. A \subseteq 1 .. Len(rows)
    OBVIOUS
  <2>4. IsFiniteSet(A)
    BY <2>2, <2>3, FS_Subset
  <2>. QED  BY <2>3, <2>4
<1>2. idx \in Seq(A) /\ Distinct(idx) /\ \A x \in A : Has(idx, x)
  BY <1>1, AscendingIs
<1>. HIDE DEF idx
<1>3. idx \in Seq(1 .. Len(rows))
  <2>1. A \subseteq 1 .. Len(rows)
    OBVIOUS
  <2>2. Seq(A) \subseteq Seq(1 .. Len(rows))
    BY <2>1, SequenceOfSubset
  <2>. QED  BY <1>2, <2>2
<1>4. {idx[i] : i \in 1 .. Len(idx)} = A
  <2>1. \A i \in 1 .. Len(idx) : idx[i] \in A
    BY <1>2
  <2>2. \A x \in A : \E i \in 1 .. Len(idx) : idx[i] = x
    BY <1>2 DEF Has
  <2>. QED  BY <2>1, <2>2
<1>. QED  BY <1>2, <1>3, <1>4, TotalAlong DEF idx

LEMMA TotalOfAll ==
    ASSUME seqlen \in [Rows -> Lengths], NEW rows \in Seq(Rows)
    PROVE  /\ Total(rows) = SumFunctionOnSet(LengthsOf(rows), 1 .. Len(rows))
           /\ Total(rows) \in Nat /\ Total(rows) <= Len(rows) * MaxTokenLen
<1>. DEFINE lens == LengthsOf(rows)
            n == Len(rows)
            Z == {j \in 0 .. n : SumFunctionOnSet(lens, 1 .. j) <= j * MaxTokenLen}
<1>1. /\ lens \in Seq(Nat) /\ Len(lens) = n /\ n \in Nat /\ DOMAIN lens = 1 .. n
      /\ \A i \in 1 .. n : lens[i] \in 1 .. MaxTokenLen
  BY LengthsTyped
<1>2. MaxTokenLen \in Nat
  BY TrainingBatchAssumption
<1>3. SumFunction(lens) \in Nat /\ SumFunction(lens) = SumFunctionOnSet(lens, 1 .. n)
  BY <1>1, SumOfSequence
<1>. HIDE DEF lens, n
<1>4. 0 \in Z
  <2>1. SumFunctionOnSet(lens, 1 .. 0) = 0
    BY <1>1, SumUpTo
  <2>2. 0 * MaxTokenLen = 0
    BY <1>2
  <2>. QED  BY <1>1, <2>1, <2>2
<1>5. ASSUME NEW j \in 0 .. n - 1, j \in Z PROVE j + 1 \in Z
  <2>1. j \in Nat /\ j < n /\ j + 1 \in 0 .. n /\ j + 1 \in 1 .. n /\ j \in 0 .. Len(lens)
    BY <1>1
  <2>2. SumFunctionOnSet(lens, 1 .. j + 1) = SumFunctionOnSet(lens, 1 .. j) + lens[j + 1]
    BY <1>1, <2>1, SumUpTo
  <2>3. (j + 1) * MaxTokenLen = j * MaxTokenLen + MaxTokenLen /\ j * MaxTokenLen \in Nat
    BY <1>1, <1>2, <2>1, Multiples
  <2>4. lens[j + 1] \in 1 .. MaxTokenLen
    BY <1>1, <2>1
  <2>. DEFINE a == SumFunctionOnSet(lens, 1 .. j)
              b == j * MaxTokenLen
  <2>5. a \in Nat /\ a <= b /\ b \in Nat
    BY <1>1, <1>5, <2>1, <2>3, SumUpTo
  <2>. HIDE DEF a, b
  <2>6. a + lens[j + 1] <= b + MaxTokenLen
    BY <1>2, <2>4, <2>5
  <2>. QED  BY <2>1, <2>2, <2>3, <2>6 DEF a, b
<1>6. n \in Z
  <2>. HIDE DEF Z
  <2>1. 0 .. n \subseteq Z
    BY <1>1, <1>4, <1>5, InductUpTo
  <2>. QED  BY <1>1, <2>1
<1>. QED  BY <1>3, <1>6 DEF Total, lens, n

LEMMA LongestIs ==
    ASSUME seqlen \in [Rows -> Lengths], NEW rows \in Seq(Rows), rows # <<>>
    PROVE  /\ Longest(rows) \in 1 .. MaxTokenLen
           /\ \A i \in 1 .. Len(rows) : LengthsOf(rows)[i] <= Longest(rows)
<1>. DEFINE f == [i \in 1 .. Len(rows) |-> seqlen[rows[i]]]
            all == {seqlen[rows[i]] : i \in DOMAIN rows}
<1>1. DOMAIN rows = 1 .. Len(rows) /\ 1 .. Len(rows) # {}
  <2>1. Len(rows) \in Nat /\ Len(rows) # 0 /\ DOMAIN rows = 1 .. Len(rows)
    OBVIOUS
  <2>2. 1 \in 1 .. Len(rows)
    BY <2>1
  <2>. QED  BY <2>1, <2>2
<1>2. \A i \in 1 .. Len(rows) : LengthsOf(rows)[i] = seqlen[rows[i]] /\ LengthsOf(rows)[i] \in 1 .. MaxTokenLen
  BY LengthsTyped DEF LengthsOf
<1>3. MaxTokenLen \in Nat
  BY TrainingBatchAssumption
<1>4. f \in [1 .. Len(rows) -> 0 .. MaxTokenLen]
  BY <1>2, <1>3
<1>5. PICK m \in Range(f) : \A q \in 1 .. Len(rows) : f[q] <= m
  <2>. HIDE DEF f
  <2>. QED  BY <1>1, <1>3, <1>4, LargestExists
<1>6. m \in all /\ \A i \in DOMAIN rows : seqlen[rows[i]] <= m
  BY <1>1, <1>5 DEF Range
<1>7. Longest(rows) \in all /\ \A i \in DOMAIN rows : seqlen[rows[i]] <= Longest(rows)
  <2>1. \E n \in all : \A i \in DOMAIN rows : seqlen[rows[i]] <= n
    BY <1>6
  <2>2. Longest(rows) = CHOOSE n \in all : \A i \in DOMAIN rows : seqlen[rows[i]] <= n
    BY DEF Longest
  <2>. HIDE DEF all
  <2>. QED  BY <2>1, <2>2
<1>. QED  BY <1>1, <1>2, <1>7

\* If every partition has a length of at least m and one of e more, all together have that much.
LEMMA PartsTogether ==
    ASSUME NEW lens \in Seq(Nat), NEW k \in Nat, NEW P, Parts(P, k, Len(lens)),
           NEW m \in Nat, \A j \in 1 .. k : m <= SumFunctionOnSet(lens, P[j]),
           NEW e \in Nat, NEW i \in 1 .. k, m + e <= SumFunctionOnSet(lens, P[i])
    PROVE  k * m + e <= SumFunctionOnSet(lens, 1 .. Len(lens))
<1>. DEFINE D == DOMAIN lens
            U(j) == {x \in D : \E l \in 1 .. j : x \in P[l]}
            Sum(A) == SumFunctionOnSet(lens, A)
            Z == {j \in 0 .. k : j * m + (IF i <= j THEN e ELSE 0) <= Sum(U(j))}
<1>1. D = 1 .. Len(lens) /\ \A j \in 1 .. k : P[j] \in SUBSET D
  BY DEF Parts
<1>2. /\ Sum({}) = 0 /\ \A A \in SUBSET D : Sum(A) \in Nat
      /\ \A A, B \in SUBSET D : A \cap B = {} => Sum(A \cup B) = Sum(A) + Sum(B)
  BY SumOfLengths
<1>. HIDE DEF Sum, D
<1>3. 0 \in Z
  <2>. DEFINE A == U(0)
  <2>1. A = {} /\ 0 * m = 0 /\ ~ (i <= 0) /\ 0 \in 0 .. k
    OBVIOUS
  <2>. HIDE DEF A
  <2>2. Sum(A) = 0
    BY <1>2, <2>1
  <2>3. 0 * m + (IF i <= 0 THEN e ELSE 0) = 0
    BY <2>1
  <2>4. 0 * m + (IF i <= 0 THEN e ELSE 0) <= Sum(A)
    BY <2>2, <2>3
  <2>. HIDE DEF U
  <2>. QED  BY <2>1, <2>4 DEF A
<1>4. ASSUME NEW j \in 0 .. k - 1, j \in Z PROVE j + 1 \in Z
  <2>. DEFINE A == U(j)
              B == P[j + 1]
              C == U(j + 1)
              a == j * m
  <2>1. j \in Nat /\ j + 1 \in 1 .. k /\ j + 1 \in 0 .. k
    OBVIOUS
  <2>2. A \in SUBSET D /\ B \in SUBSET D /\ C = A \cup B
    <3>1. \A l : l \in 1 .. j + 1 <=> l \in 1 .. j \/ l = j + 1
      BY <2>1
    <3>. QED  BY <1>1, <2>1, <3>1
  <2>3. A \cap B = {}
    <3>1. ASSUME NEW l \in 1 .. j PROVE P[l] \cap P[j + 1] = {}
      <4>1. l \in 1 .. k /\ l # j + 1
        BY <2>1
      <4>. QED  BY <2>1, <4>1 DEF Parts
    <3>. QED  BY <3>1
  <2>4. (j + 1) * m = a + m /\ a \in Nat
    BY <2>1, Multiples
  <2>5. a + (IF i <= j THEN e ELSE 0) <= Sum(A)
    BY <1>4
  <2>6. m <= Sum(B) /\ (i = j + 1 => m + e <= Sum(B))
    BY <2>1 DEF Sum
  <2>. HIDE DEF A, B, C, a, U
  <2>7. Sum(C) = Sum(A) + Sum(B) /\ Sum(A) \in Nat /\ Sum(B) \in Nat
    BY <1>2, <2>2, <2>3
  <2>8. i <= j + 1 <=> i <= j \/ i = j + 1
    BY <2>1
  <2>9. a + m + (IF i <= j + 1 THEN e ELSE 0) <= Sum(A) + Sum(B)
    BY <2>1, <2>4, <2>5, <2>6, <2>7, <2>8
  <2>. QED  BY <2>1, <2>4, <2>7, <2>9 DEF C
<1>5. k \in Z
  <2>. HIDE DEF Z
  <2>1. 0 .. k \subseteq Z
    BY <1>3, <1>4, InductUpTo
  <2>. QED  BY <2>1
<1>6. U(k) = 1 .. Len(lens)
  <2>1. \A x \in 1 .. Len(lens) : \E l \in 1 .. k : x \in P[l]
    BY DEF Parts
  <2>. QED  BY <1>1, <2>1
<1>7. i <= k
  OBVIOUS
<1>. QED  BY <1>5, <1>6, <1>7 DEF Sum

\* No partition is longer than the mean and one more row.
LEMMA PartFits ==
    ASSUME seqlen \in [Rows -> Lengths], NEW rows \in Seq(Rows), rows # <<>>,
           NEW k \in Nat, NEW P, Parts(P, k, Len(rows)), Even(P, LengthsOf(rows), k),
           Total(rows) <= k * MaxTokenLen, NEW i \in 1 .. k
    PROVE  Total(Pick(rows, Ascending(P[i]))) < MaxTokenLen + Longest(rows)
<1>. DEFINE lens == LengthsOf(rows)
            S(j) == SumFunctionOnSet(lens, P[j])
            top == Longest(rows)
<1>1. /\ lens \in Seq(Nat) /\ Len(lens) = Len(rows) /\ DOMAIN lens = 1 .. Len(rows)
      /\ \A x \in 1 .. Len(rows) : lens[x] \in Nat
  BY LengthsTyped
<1>2. top \in Nat \ {0} /\ \A x \in 1 .. Len(rows) : lens[x] <= top
  BY LongestIs
<1>3. \A j \in 1 .. k : P[j] \in SUBSET (1 .. Len(rows)) /\ S(j) \in Nat
  <2>1. \A j \in 1 .. k : P[j] \in SUBSET (1 .. Len(rows))
    BY DEF Parts
  <2>2. \A A \in SUBSET (1 .. Len(rows)) : SumFunctionOnSet(lens, A) \in Nat
    BY <1>1, SumOfLengths
  <2>. QED  BY <2>1, <2>2
<1>4. Total(Pick(rows, Ascending(P[i]))) = S(i)
  BY <1>3, TotalOfPart
<1>5. MaxTokenLen \in Nat
  BY TrainingBatchAssumption
<1>. SUFFICES ASSUME MaxTokenLen + top <= S(i) PROVE FALSE
  BY <1>2, <1>3, <1>4, <1>5
<1>6. ASSUME NEW j \in 1 .. k PROVE MaxTokenLen <= S(j)
  <2>1. PICK x \in DOMAIN lens : S(i) - S(j) <= lens[x]
    BY DEF Even
  <2>2. S(i) - S(j) <= top
    BY <1>1, <1>2, <1>3, <2>1
  <2>. HIDE DEF S, top
  <2>. QED  BY <1>2, <1>3, <1>5, <2>2
<1>7. k * MaxTokenLen + top <= SumFunctionOnSet(lens, 1 .. Len(lens))
  <2>1. Parts(P, k, Len(lens)) /\ \A j \in 1 .. k : MaxTokenLen <= SumFunctionOnSet(lens, P[j])
    BY <1>1, <1>6
  <2>2. MaxTokenLen + top <= SumFunctionOnSet(lens, P[i])
    OBVIOUS
  <2>. HIDE DEF lens, top, S
  <2>. QED  BY <1>1, <1>2, <1>5, <2>1, <2>2, PartsTogether
<1>8. Total(rows) = SumFunctionOnSet(lens, 1 .. Len(lens)) /\ Total(rows) \in Nat
  BY <1>1, TotalOfAll
<1>9. k * MaxTokenLen \in Nat
  BY <1>5
<1>. HIDE DEF lens, top, S
<1>. QED  BY <1>2, <1>7, <1>8, <1>9

\* Partitions that follow each other
Block(P, a, l) == UNION {P[a + i] : i \in 1 .. l}

LEMMA BlockGrows ==
    ASSUME NEW lens \in Seq(Nat), NEW k \in Nat, NEW P, Parts(P, k, Len(lens)),
           NEW a \in Nat, NEW l \in Nat, a + l <= k
    PROVE  /\ Block(P, a, l) \in SUBSET (1 .. Len(lens))
           /\ SumFunctionOnSet(lens, Block(P, a, l)) \in Nat
           /\ l = 0 => SumFunctionOnSet(lens, Block(P, a, l)) = 0
           /\ a + l < k => SumFunctionOnSet(lens, Block(P, a, l + 1))
                                = SumFunctionOnSet(lens, Block(P, a, l)) + SumFunctionOnSet(lens, P[a + l + 1])
<1>. DEFINE D == DOMAIN lens
            Sum(A) == SumFunctionOnSet(lens, A)
            A == Block(P, a, l)
            B == P[a + l + 1]
            C == Block(P, a, l + 1)
<1>1. D = 1 .. Len(lens) /\ \A j \in 1 .. k : P[j] \in SUBSET D
  BY DEF Parts
<1>2. Sum({}) = 0 /\ (\A S \in SUBSET D : Sum(S) \in Nat)
      /\ \A S, T \in SUBSET D : S \cap T = {} => Sum(S \cup T) = Sum(S) + Sum(T)
  BY SumOfLengths
<1>. HIDE DEF D
<1>3. A \in SUBSET D
  <2>1. \A i \in 1 .. l : a + i \in 1 .. k
    OBVIOUS
  <2>. QED  BY <1>1, <2>1 DEF Block
<1>4. l = 0 => A = {}
  BY DEF Block
<1>5. ASSUME a + l < k PROVE Sum(C) = Sum(A) + Sum(B)
  <2>1. a + l + 1 \in 1 .. k /\ B \in SUBSET D
    BY <1>1, <1>5
  <2>2. C = A \cup B
    <3>1. \A i : i \in 1 .. l + 1 <=> i \in 1 .. l \/ i = l + 1
      OBVIOUS
    <3>2. a + (l + 1) = a + l + 1
      OBVIOUS
    <3>. QED  BY <3>1, <3>2 DEF Block
  <2>3. A \cap B = {}
    <3>1. ASSUME NEW i \in 1 .. l PROVE P[a + i] \cap P[a + l + 1] = {}
      <4>1. a + i \in 1 .. k /\ a + i # a + l + 1
        OBVIOUS
      <4>. QED  BY <2>1, <4>1 DEF Parts
    <3>. QED  BY <3>1 DEF Block
  <2>. HIDE DEF A, B, C, Sum
  <2>. QED  BY <1>2, <1>3, <2>1, <2>2, <2>3
<1>6. Sum(A) \in Nat
  <2>. HIDE DEF A, Sum
  <2>. QED  BY <1>2, <1>3
<1>7. l = 0 => Sum(A) = 0
  <2>. HIDE DEF A, Sum
  <2>. QED  BY <1>2, <1>4
<1>. QED  BY <1>1, <1>3, <1>5, <1>6, <1>7

LEMMA BlocksEven ==
    ASSUME NEW lens \in Seq(Nat), NEW k \in Nat, NEW P, Parts(P, k, Len(lens)), NEW top \in Nat,
           \A i, j \in 1 .. k : SumFunctionOnSet(lens, P[i]) - SumFunctionOnSet(lens, P[j]) <= top,
           NEW c \in Nat, NEW a \in Nat, a + c <= k, NEW b \in Nat, b + c <= k
    PROVE  SumFunctionOnSet(lens, Block(P, a, c)) - SumFunctionOnSet(lens, Block(P, b, c)) <= c * top
<1>. DEFINE F(d, l) == SumFunctionOnSet(lens, Block(P, d, l))
            S(j) == SumFunctionOnSet(lens, P[j])
            Z == {l \in 0 .. c : F(a, l) - F(b, l) <= l * top}
<1>1. \A l \in 0 .. c : F(a, l) \in Nat /\ F(b, l) \in Nat
  <2>1. \A l \in 0 .. c : l \in Nat /\ a + l <= k /\ b + l <= k
    OBVIOUS
  <2>. QED  BY <2>1, BlockGrows
<1>2. F(a, 0) = 0 /\ F(b, 0) = 0
  <2>1. 0 \in Nat /\ a + 0 <= k /\ b + 0 <= k
    OBVIOUS
  <2>. QED  BY <2>1, BlockGrows
<1>3. \A j \in 1 .. k : S(j) \in Nat
  <2>1. \A j \in 1 .. k : P[j] \in SUBSET DOMAIN lens
    BY DEF Parts
  <2>. QED  BY <2>1, SumOfLengths
<1>4. 0 \in Z
  BY <1>2
<1>5. ASSUME NEW l \in 0 .. c - 1, l \in Z PROVE l + 1 \in Z
  <2>1. l \in Nat /\ l + 1 \in 0 .. c /\ l \in 0 .. c /\ a + l < k /\ b + l < k /\ a + l <= k /\ b + l <= k
        /\ a + l + 1 \in 1 .. k /\ b + l + 1 \in 1 .. k
    OBVIOUS
  <2>2. F(a, l + 1) = F(a, l) + S(a + l + 1)
    BY <2>1, BlockGrows
  <2>3. F(b, l + 1) = F(b, l) + S(b + l + 1)
    BY <2>1, BlockGrows
  <2>4. S(a + l + 1) - S(b + l + 1) <= top /\ S(a + l + 1) \in Nat /\ S(b + l + 1) \in Nat
    BY <1>3, <2>1
  <2>5. (l + 1) * top = l * top + top /\ l * top \in Nat
    BY <2>1, Multiples
  <2>6. F(a, l) - F(b, l) <= l * top /\ F(a, l) \in Nat /\ F(b, l) \in Nat
    BY <1>1, <1>5, <2>1
  <2>. DEFINE x == l * top
  <2>. HIDE DEF F, S, x
  <2>7. (F(a, l) + S(a + l + 1)) - (F(b, l) + S(b + l + 1)) <= x + top
    BY <2>4, <2>5, <2>6 DEF x
  <2>. QED  BY <2>1, <2>2, <2>3, <2>5, <2>7 DEF x
<1>6. c \in Z
  <2>. HIDE DEF Z
  <2>1. 0 .. c \subseteq Z
    BY <1>4, <1>5, InductUpTo
  <2>. QED  BY <2>1
<1>. QED  BY <1>6

\* Sequences of one length, one after the other
Placed(w, s, m, i) ==
    /\ Len(w) = i * m
    /\ \A e \in 1 .. i : \A j \in 1 .. m : w[Place(e, m, j)] = s[e][j]

LEMMA FlattenEqual ==
    ASSUME NEW T, NEW s \in Seq(Seq(T)), NEW m \in Nat, \A e \in 1 .. Len(s) : Len(s[e]) = m
    PROVE  FlattenSeq(s) \in Seq(T) /\ Placed(FlattenSeq(s), s, m, Len(s))
<1>. DEFINE n == Len(s)
<1>1. n \in Nat /\ \A e \in 1 .. n : s[e] \in Seq(T) /\ Len(s[e]) = m
  OBVIOUS
<1>2. PICK f : Joining(s, f, T) /\ FlattenSeq(s) = f[n]
  BY FlattenJoins
<1>3. (\A i \in 0 .. n : f[i] \in Seq(T)) /\ f[0] = <<>> /\ \A i \in 1 .. n : f[i] = f[i - 1] \o s[i]
  BY <1>2 DEF Joining
<1>. HIDE DEF n
<1>. DEFINE Z == {i \in 0 .. n : Placed(f[i], s, m, i)}
<1>4. 0 \in Z
  <2>1. Len(<<>>) = 0 /\ 0 * m = 0 /\ 1 .. 0 = {} /\ 0 \in 0 .. n
    BY <1>1
  <2>. QED  BY <1>3, <2>1 DEF Placed
<1>5. ASSUME NEW i \in 0 .. n - 1, i \in Z PROVE i + 1 \in Z
  <2>1. i + 1 \in 0 .. n /\ i \in 0 .. n /\ i + 1 \in 1 .. n /\ (i + 1) - 1 = i /\ i \in Nat
    BY <1>1
  <2>. DEFINE x == f[i]
              y == f[i + 1]
              z == s[i + 1]
              l == i * m
  <2>2. x \in Seq(T) /\ y = x \o z /\ z \in Seq(T) /\ Len(z) = m /\ Placed(x, s, m, i)
    BY <1>1, <1>3, <1>5, <2>1
  <2>3. l \in Nat /\ (i + 1) * m = l + m
    BY <2>1, Multiples
  <2>4. Len(x) = l /\ \A e \in 1 .. i : \A j \in 1 .. m : x[Place(e, m, j)] = s[e][j]
    BY <2>2 DEF Placed
  <2>. HIDE DEF x, z
  <2>5. /\ x \o z \in Seq(T) /\ Len(x \o z) = Len(x) + m
        /\ \A p \in 1 .. Len(x) + m : (x \o z)[p] = IF p <= Len(x) THEN x[p] ELSE z[p - Len(x)]
    BY <2>2, ConcatProperties
  <2>. HIDE DEF y
  <2>6. y \in Seq(T) /\ Len(y) = l + m /\ \A p \in 1 .. l + m : y[p] = IF p <= l THEN x[p] ELSE z[p - l]
    BY <2>2, <2>4, <2>5
  <2>7. ASSUME NEW e \in 1 .. i + 1, NEW j \in 1 .. m PROVE y[Place(e, m, j)] = s[e][j]
    <3>1. CASE e = i + 1
      <4>1. Place(e, m, j) = l + j
        <5>1. e - 1 = i
          BY <2>1, <3>1
        <5>. QED  BY <5>1 DEF l, Place
      <4>0. l \in Nat
        BY <2>3
      <4>. HIDE DEF l
      <4>2. l + j \in 1 .. l + m /\ ~ (l + j <= l) /\ (l + j) - l = j
        BY <4>0
      <4>3. y[l + j] = z[j]
        BY <2>6, <4>2
      <4>. QED  BY <3>1, <4>1, <4>3 DEF z
    <3>2. CASE e # i + 1
      <4>1. e \in 1 .. i
        BY <2>1, <3>2
      <4>. DEFINE p == Place(e, m, j)
      <4>2. p \in 1 .. l
        BY <2>1, <4>1, Places
      <4>3. x[p] = s[e][j]
        BY <2>4, <4>1
      <4>. HIDE DEF p, l
      <4>4. p \in 1 .. l + m /\ p <= l
        BY <2>3, <4>2
      <4>5. y[p] = s[e][j]
        BY <2>6, <4>3, <4>4
      <4>. QED  BY <4>5 DEF p
    <3>. QED  BY <3>1, <3>2
  <2>8. Len(y) = (i + 1) * m
    BY <2>3, <2>6
  <2>9. Placed(y, s, m, i + 1)
    BY <2>7, <2>8 DEF Placed
  <2>. QED  BY <2>1, <2>9 DEF y
<1>6. n \in 0 .. n /\ 0 .. n \subseteq Z
  <2>. HIDE DEF Z
  <2>1. 0 .. n \subseteq Z
    BY <1>1, <1>4, <1>5, InductUpTo
  <2>. QED  BY <1>1, <2>1
<1>. QED  BY <1>2, <1>3, <1>6 DEF n

LEMMA DividesExactly ==
    ASSUME NEW d \in Nat \ {0}, NEW q \in Nat, NEW n, n = q * d
    PROVE  n \div d = q /\ n % d = 0
<1>. DEFINE p == n \div d
            s == n % d
<1>0. n \in Nat /\ n = q * d
  BY Multiples
<1>1. p \in Nat /\ s \in 0 .. d - 1 /\ n = p * d + s
  BY <1>0, Quotient
<1>. HIDE DEF p, s
<1>2. p = q
  <2>1. ~ (p < q)
    <3>. SUFFICES ASSUME p < q PROVE FALSE
      OBVIOUS
    <3>1. p * d \in Nat /\ q * d \in Nat /\ p * d + d <= q * d
      BY <1>1, Multiples
    <3>. QED  BY <1>0, <1>1, <3>1
  <2>2. ~ (q < p)
    <3>. SUFFICES ASSUME q < p PROVE FALSE
      OBVIOUS
    <3>1. p * d \in Nat /\ q * d \in Nat /\ q * d + d <= p * d
      BY <1>1, Multiples
    <3>. QED  BY <1>0, <1>1, <3>1
  <2>. QED  BY <1>1, <2>1, <2>2
<1>3. n = p * d + s /\ n = p * d /\ p * d \in Nat
  BY <1>0, <1>1, <1>2
<1>4. s = 0
  <2>. DEFINE w == p * d
  <2>1. n = w + s /\ n = w /\ w \in Nat
    BY <1>3
  <2>. HIDE DEF w
  <2>. QED  BY <1>1, <2>1
<1>. QED  BY <1>2, <1>4 DEF p, s

LEMMA Factors ==
    ASSUME NEW a \in Nat, NEW b \in Nat, NEW c \in Nat
    PROVE  /\ a * b \in Nat /\ b * c \in Nat /\ (a * b) * c = (b * c) * a /\ (a * b) * c = a * (b * c)
           /\ (a + b) * c = a * c + b * c
  OBVIOUS

LEMMA SameFactor ==
    ASSUME NEW a \in Nat, NEW b \in Nat, NEW c \in Nat \ {0}, a * c = b * c
    PROVE  a = b
<1>1. ASSUME NEW x \in Nat, NEW y \in Nat, x < y, x * c = y * c PROVE FALSE
  <2>1. x * c + c <= y * c /\ x * c \in Nat
    BY <1>1, Multiples
  <2>. DEFINE p == x * c
  <2>. HIDE DEF p
  <2>2. p + c <= p /\ p \in Nat
    BY <1>1, <2>1 DEF p
  <2>. QED  BY <2>2
<1>2. ~ (a < b)
  BY <1>1
<1>3. ~ (b < a)
  BY <1>1
<1>. QED  BY <1>2, <1>3

\* What _balance_batch sends to rank r: the rows of the sp_size partitions that follow each other there.
Elements(s) == {s[i] : i \in 1 .. Len(s)}
Joins(G, P, k) == G = FlattenSeq([i \in 1 .. k |-> Ascending(P[i])])

EqualParts(P, d, sp, m, n, G) ==
    /\ (d * sp) * m = n /\ Parts(P, d * sp, n) /\ \A i \in 1 .. d * sp : Cardinality(P[i]) = m
    /\ Joins(G, P, d * sp)
Assigned(P, d, sp, n, G, r) ==
    /\ Permutes(G, n) /\ n % d = 0
    /\ (r - 1) * sp \in Nat /\ (r - 1) * sp + sp <= d * sp
    /\ Elements(ChunkOf(G, d, r)) = Block(P, (r - 1) * sp, sp)

LEMMA ChunkOfParts ==
    ASSUME NEW n \in Nat, NEW m \in Nat, NEW sp \in Nat \ {0}, NEW d \in Nat \ {0},
           NEW P, NEW G, EqualParts(P, d, sp, m, n, G), NEW r \in 1 .. d
    PROVE  Assigned(P, d, sp, n, G, r)
<1>. DEFINE W == d * sp
            size == sp * m
            u == (r - 1) * sp
            s == [i \in 1 .. W |-> Ascending(P[i])]
            C == ChunkOf(G, d, r)
<1>0. /\ (d * sp) * m = n /\ Parts(P, d * sp, n) /\ \A i \in 1 .. d * sp : Cardinality(P[i]) = m
      /\ Joins(G, P, d * sp)
  BY DEF EqualParts
<1>1. W \in Nat /\ size \in Nat /\ W * m = n /\ n = size * d + 0 /\ r - 1 \in Nat
  BY <1>0, Factors
<1>2. n \div d = size /\ n % d = 0
  <2>1. size \in Nat /\ n = size * d
    BY <1>1, Factors
  <2>. HIDE DEF size
  <2>. QED  BY <2>1, DividesExactly
<1>3. u \in Nat /\ u + sp <= W /\ \A e \in 1 .. sp : u + e \in 1 .. W
  BY Blocks
<1>4. /\ s \in Seq(Seq(1 .. n)) /\ Len(s) = W /\ Permutes(FlattenSeq(s), n)
      /\ \A i \in 1 .. W : Len(s[i]) = m /\ \A x : Has(s[i], x) <=> x \in P[i]
  <2>. DEFINE k == W
  <2>1. k \in Nat /\ Parts(P, k, n)
    BY <1>0, <1>1
  <2>2. s = [i \in 1 .. k |-> Ascending(P[i])] /\ \A i \in 1 .. k : Cardinality(P[i]) = m
    BY <1>0
  <2>. HIDE DEF k, s
  <2>3. s \in Seq(Seq(1 .. n)) /\ Len(s) = k /\ Permutes(FlattenSeq(s), n)
    BY <2>1, <2>2, PartsPermute
  <2>4. ASSUME NEW i \in 1 .. k PROVE Len(s[i]) = m /\ \A x : Has(s[i], x) <=> x \in P[i]
    <3>. DEFINE A == P[i]
    <3>1. A \subseteq 1 .. n
      BY <2>1 DEF Parts
    <3>0. 1 \in Int /\ n \in Int
      OBVIOUS
    <3>2. IsFiniteSet(1 .. n)
      BY <3>0, FS_Interval
    <3>3. A \in SUBSET Nat /\ IsFiniteSet(A)
      BY <3>1, <3>2, FS_Subset
    <3>. HIDE DEF A
    <3>. DEFINE t == Ascending(A)
    <3>4. t \in Seq(A) /\ Len(t) = Cardinality(A) /\ \A x \in A : Has(t, x)
      BY <3>3, AscendingIs
    <3>5. s[i] = t /\ Cardinality(A) = m
      BY <2>2 DEF A
    <3>. HIDE DEF t
    <3>6. \A x : Has(t, x) => x \in A
      BY <3>4 DEF Has
    <3>. QED  BY <3>4, <3>5, <3>6 DEF A
  <2>. QED  BY <2>3, <2>4 DEF k
<1>5. G = FlattenSeq(s)
  BY <1>0 DEF Joins
<1>. HIDE DEF s, W
<1>6. \A e \in 1 .. W : \A j \in 1 .. m : G[Place(e, m, j)] = s[e][j]
  <2>1. s \in Seq(Seq(1 .. n)) /\ Len(s) = W /\ \A e \in 1 .. Len(s) : Len(s[e]) = m
    BY <1>4
  <2>2. Placed(G, s, m, W)
    BY <1>5, <2>1, FlattenEqual
  <2>. QED  BY <2>2 DEF Placed
<1>7. G \in Seq(1 .. n) /\ Len(G) = n
  BY <1>4, <1>5 DEF Permutes
<1>8. Len(C) = size /\ \A i \in 1 .. size : C[i] = G[(r - 1) * size + i]
  <2>1. Chunked(1 .. n, G, d, Len(G) \div d)
    BY <1>2, <1>7, ChunkIs
  <2>2. Chunked(1 .. n, G, d, size)
    BY <1>2, <1>7, <2>1
  <2>. HIDE DEF size, C
  <2>. QED  BY <2>2 DEF Chunked, C
<1>9. ASSUME NEW e \in 1 .. sp, NEW j \in 1 .. m
      PROVE  Place(e, m, j) \in 1 .. size /\ C[Place(e, m, j)] = s[u + e][j]
  <2>1. Place(e, m, j) \in 1 .. size
    BY <1>1, Places
  <2>2. (r - 1) * size + Place(e, m, j) = Place(u + e, m, j)
    <3>. DEFINE v == u
    <3>1. v * m = (r - 1) * size
      BY <1>1, Factors
    <3>2. v \in Nat /\ e - 1 \in Nat
      BY <1>3
    <3>. HIDE DEF v
    <3>3. (v + (e - 1)) * m = v * m + (e - 1) * m
      BY <3>2, Factors
    <3>4. (v + e) - 1 = v + (e - 1)
      BY <3>2
    <3>. DEFINE a == v * m
                b == (e - 1) * m
    <3>5. a \in Nat /\ b \in Nat
      BY <3>2, Factors
    <3>6. Place(v + e, m, j) = (a + b) + j /\ Place(e, m, j) = b + j
      BY <3>3, <3>4 DEF Place
    <3>. HIDE DEF a, b
    <3>7. a + (b + j) = (a + b) + j
      BY <3>5
    <3>. QED  BY <3>1, <3>6, <3>7 DEF a, v
  <2>3. u + e \in 1 .. W
    BY <1>3
  <2>. HIDE DEF size, C, u
  <2>4. C[Place(e, m, j)] = G[(r - 1) * size + Place(e, m, j)]
    BY <1>8, <2>1
  <2>. QED  BY <1>6, <2>1, <2>2, <2>3, <2>4
<1>10. \A i \in 1 .. size : \E e \in 1 .. sp : \E j \in 1 .. m : i = Place(e, m, j)
  <2>1. m \in Nat /\ sp \in Nat /\ sp * m = size
    OBVIOUS
  <2>. HIDE DEF size
  <2>. QED  BY <2>1, Places
<1>. HIDE DEF size, C, u
<1>11. ASSUME NEW x, x \in Elements(C) PROVE x \in Block(P, u, sp)
  <2>1. PICK i \in 1 .. size : C[i] = x
    BY <1>8, <1>11 DEF Elements
  <2>2. PICK e \in 1 .. sp : \E j \in 1 .. m : i = Place(e, m, j)
    BY <1>10
  <2>3. PICK j \in 1 .. m : i = Place(e, m, j)
    BY <2>2
  <2>4. u + e \in 1 .. W /\ j \in 1 .. Len(s[u + e]) /\ s[u + e][j] = x
    BY <1>3, <1>4, <1>9, <2>1, <2>3
  <2>5. x \in P[u + e]
    BY <1>4, <2>4 DEF Has
  <2>. QED  BY <2>5 DEF Block
<1>12. ASSUME NEW x, x \in Block(P, u, sp) PROVE x \in Elements(C)
  <2>1. PICK e \in 1 .. sp : x \in P[u + e]
    BY <1>12 DEF Block
  <2>2. u + e \in 1 .. W /\ Has(s[u + e], x) /\ Len(s[u + e]) = m
    BY <1>3, <1>4, <2>1
  <2>3. PICK j \in 1 .. m : s[u + e][j] = x
    BY <2>2 DEF Has
  <2>4. Place(e, m, j) \in 1 .. size /\ C[Place(e, m, j)] = x
    BY <1>9, <2>3
  <2>. QED  BY <1>8, <2>4 DEF Elements
<1>13. Elements(C) = Block(P, u, sp)
  BY <1>11, <1>12
<1>. QED  BY <1>2, <1>3, <1>4, <1>5, <1>13 DEF C, u, W, Assigned

\* Equal partitions in order make chunks that are balanced.
NearEven(P, lens, k, top) ==
    \A i, j \in 1 .. k : SumFunctionOnSet(lens, P[i]) - SumFunctionOnSet(lens, P[j]) <= top

LEMMA ChunksEven ==
    ASSUME seqlen \in [Rows -> Lengths], NEW rows \in Seq(Rows),
           NEW sp \in Nat \ {0}, NEW d \in Nat \ {0}, NEW P, Parts(P, d * sp, Len(rows)),
           NEW top \in Nat, NearEven(P, LengthsOf(rows), d * sp, top),
           \A i \in 1 .. d * sp : Cardinality(P[i]) * (d * sp) = Len(rows),
           NEW G, Joins(G, P, d * sp), NEW r \in 1 .. d, NEW q \in 1 .. d
    PROVE  Total(ChunkOf(Pick(rows, G), d, r)) - Total(ChunkOf(Pick(rows, G), d, q)) <= sp * top
<1>. DEFINE n == Len(rows)
            W == d * sp
            m == Cardinality(P[1])
            lens == LengthsOf(rows)
<1>1. n \in Nat /\ lens \in Seq(Nat) /\ Len(lens) = n /\ W \in Nat \ {0}
  <2>1. W \in Nat /\ 1 * sp <= W
    BY Blocks
  <2>. QED  BY <2>1, LengthsTyped
<1>2. \A i \in 1 .. W : Cardinality(P[i]) \in Nat
  <2>1. \A i \in 1 .. W : P[i] \subseteq 1 .. n
    BY DEF Parts
  <2>2. IsFiniteSet(1 .. n)
    BY <1>1, FS_Interval
  <2>. QED  BY <2>1, <2>2, FS_Subset, FS_CardinalityType
<1>3. m \in Nat /\ m * W = n /\ \A i \in 1 .. W : Cardinality(P[i]) = m
  <2>. HIDE DEF W, n
  <2>1. 1 \in 1 .. W
    BY <1>1
  <2>2. m \in Nat /\ m * W = n
    BY <1>2, <2>1 DEF W, n
  <2>3. \A i \in 1 .. W : Cardinality(P[i]) * W = n
    BY DEF W, n
  <2>. HIDE DEF m
  <2>. QED  BY <1>1, <1>2, <2>2, <2>3, SameFactor
<1>4. (d * sp) * m = n
  <2>. HIDE DEF m, n
  <2>. QED  BY <1>1, <1>3
<1>5. ASSUME NEW p \in 1 .. d
      PROVE  /\ (p - 1) * sp \in Nat /\ (p - 1) * sp + sp <= W
             /\ Total(ChunkOf(Pick(rows, G), d, p)) = SumFunctionOnSet(lens, Block(P, (p - 1) * sp, sp))
  <2>. DEFINE C == ChunkOf(G, d, p)
  <2>1. /\ Permutes(G, n) /\ n % d = 0 /\ (p - 1) * sp \in Nat /\ (p - 1) * sp + sp <= d * sp
        /\ Elements(C) = Block(P, (p - 1) * sp, sp)
    <3>. HIDE DEF m, n, C
    <3>1. /\ Parts(P, d * sp, n) /\ \A i \in 1 .. d * sp : Cardinality(P[i]) = m
      BY <1>3 DEF n, W
    <3>2. n \in Nat /\ m \in Nat /\ (d * sp) * m = n
      BY <1>1, <1>3, <1>4
    <3>3. EqualParts(P, d, sp, m, n, G)
      BY <3>1, <3>2 DEF EqualParts
    <3>4. Assigned(P, d, sp, n, G, p)
      BY <3>2, <3>3, ChunkOfParts
    <3>. QED  BY <3>4 DEF Assigned, C
  <2>2. G \in Seq(1 .. n) /\ Distinct(G) /\ Len(G) = n
    BY <2>1 DEF Permutes
  <2>3. C \in Seq(1 .. n) /\ Distinct(C)
    BY <2>1, <2>2, ChunksDistinct
  <2>4. ChunkOf(Pick(rows, G), d, p) = Pick(rows, C)
    <3>. DEFINE new == Pick(rows, G)
                size == n \div d
    <3>1. /\ new \in Seq(Rows) /\ Len(new) = n /\ \A i \in 1 .. n : new[i] = rows[G[i]]
      <4>1. /\ Pick(rows, G) \in Seq(Rows) /\ Len(Pick(rows, G)) = Len(G)
            /\ \A i \in 1 .. Len(G) : G[i] \in 1 .. Len(rows) /\ Pick(rows, G)[i] = rows[G[i]]
        <5>1. G \in Seq(1 .. Len(rows))
          BY <2>2
        <5>. HIDE DEF C, n, new
        <5>. QED  BY <5>1, PickIs
      <4>. QED  BY <2>2, <4>1
    <3>. HIDE DEF new
    <3>0. C \in Seq(1 .. Len(rows)) /\ n \in Nat
      BY <1>1, <2>3
    <3>. HIDE DEF n
    <3>2. Chunked(Rows, new, d, size)
      BY <2>1, <3>1, ChunkIs
    <3>3. Chunked(1 .. n, G, d, size)
      BY <2>1, <2>2, ChunkIs
    <3>. HIDE DEF size
    <3>4. /\ (p - 1) * size \in Nat /\ p * size = (p - 1) * size + size /\ p * size <= n /\ size \in Nat
          /\ ChunkOf(new, d, p) \in Seq(Rows) /\ Len(ChunkOf(new, d, p)) = size /\ Len(C) = size
          /\ \A i \in 1 .. size : ChunkOf(new, d, p)[i] = new[(p - 1) * size + i] /\ C[i] = G[(p - 1) * size + i]
      BY <2>2, <3>1, <3>2, <3>3 DEF Chunked
    <3>5. /\ Pick(rows, C) \in Seq(Rows) /\ Len(Pick(rows, C)) = size
          /\ \A i \in 1 .. size : Pick(rows, C)[i] = rows[C[i]]
      <4>1. /\ Pick(rows, C) \in Seq(Rows) /\ Len(Pick(rows, C)) = Len(C)
            /\ \A i \in 1 .. Len(C) : C[i] \in 1 .. Len(rows) /\ Pick(rows, C)[i] = rows[C[i]]
        <5>. HIDE DEF C
        <5>. QED  BY <3>0, PickIs
      <4>. QED  BY <3>4, <4>1
    <3>6. ASSUME NEW i \in 1 .. size PROVE ChunkOf(new, d, p)[i] = Pick(rows, C)[i]
      <4>. DEFINE o == (p - 1) * size
      <4>1. o \in Nat /\ o + size <= n
        BY <3>4
      <4>. HIDE DEF o
      <4>2. o + i \in 1 .. n
        BY <3>0, <3>4, <4>1
      <4>3. new[o + i] = rows[G[o + i]]
        BY <3>1, <4>2
      <4>. QED  BY <3>4, <3>5, <4>3 DEF o
    <3>. DEFINE a == ChunkOf(new, d, p)
                b == Pick(rows, C)
    <3>7. a \in Seq(Rows) /\ b \in Seq(Rows) /\ Len(a) = Len(b) /\ \A i \in 1 .. Len(a) : a[i] = b[i]
      BY <3>4, <3>5, <3>6
    <3>. HIDE DEF a, b
    <3>8. a = b
      BY <3>7, SeqEqual
    <3>. QED  BY <3>8 DEF a, b, new
  <2>. HIDE DEF C
  <2>5. Total(Pick(rows, C)) = SumFunctionOnSet(lens, Elements(C))
    BY <2>3, TotalAlong DEF Elements
  <2>. QED  BY <2>1, <2>4, <2>5
<1>6. \A i, j \in 1 .. W : SumFunctionOnSet(lens, P[i]) - SumFunctionOnSet(lens, P[j]) <= top
  BY DEF NearEven
<1>7. Parts(P, W, Len(lens))
  BY <1>1
<1>. DEFINE a == (r - 1) * sp
            b == (q - 1) * sp
<1>8. a \in Nat /\ a + sp <= W /\ b \in Nat /\ b + sp <= W
  BY <1>5
<1>9. SumFunctionOnSet(lens, Block(P, a, sp)) - SumFunctionOnSet(lens, Block(P, b, sp)) <= sp * top
  <2>. HIDE DEF lens, W, a, b
  <2>. QED  BY <1>1, <1>6, <1>7, <1>8, BlocksEven
<1>. QED  BY <1>5, <1>9

-----------------------------------------------------------------------------
(* The work is spread evenly, whatever the driver and the ranks do *)

After     == {"reward", "log_prob", "computing"}
Counted   == {"reduce", "partition", "balance"}

\* There are enough micro-batches for the tokens of a rank, and those that are left nearly fit.
Fits(c, a, h, n, m) ==
    c.use_dynamic_bsz =>
        /\ a \in Counted => Total(h) <= n * MaxTokenLen
        /\ a = "forward" => \A i \in DOMAIN m : Total(Pick(h, m[i])) < MaxTokenLen + Longest(h)
RankFits(r) == Fits(config, at[r], Head(todo[r]), num[r], micro[r])

EvenInv ==
    /\ KKSums
    /\ phase = "balancing" => call[Driver].equal_size
    /\ RanksAreBalanced
    /\ \A r \in Ranks : RankFits(r)

LEMMA SameTotals ==
    ASSUME seqlen' = seqlen
    PROVE  \A r : RankFits(r)' <=> Fits(config', at'[r], Head(todo'[r]), num'[r], micro'[r])
<1>. SUFFICES ASSUME NEW r PROVE RankFits(r)' <=> Fits(config', at'[r], Head(todo'[r]), num'[r], micro'[r])
  OBVIOUS
<1>1. \A rows : Longest(rows)' = Longest(rows)
  BY DEF Longest
<1>2. \A rows : Total(rows)' = Total(rows)
  BY DEF Total, LengthsOf
<1>. QED  BY <1>1, <1>2 DEF RankFits, Fits

LEMMA FrameFits ==
    ASSUME UNCHANGED <<config, seqlen>>, NEW r, RankFits(r),
           at'[r] = at[r], todo'[r] = todo[r], num'[r] = num[r], micro'[r] = micro[r]
    PROVE  RankFits(r)'
  BY SameTotals DEF RankFits

LEMMA IdleFits ==
    ASSUME NEW r, at'[r] \notin Counted \cup {"forward"}
    PROVE  RankFits(r)'
  BY DEF RankFits, Fits

\* A step starts at most one call of the partitioning, takes a step of one, or takes the result of one.
LEMMA SameSums == UNCHANGED kkVars => KKChange
  BY DEF KKChange

LEMMA CallStarts ==
    ASSUME NEW c \in Callers, NEW lens \in Seq(Nat), NEW k, NEW equal \in BOOLEAN, Call(c, lens, k, equal)
    PROVE  KKChange
<1>1. k \in 1 .. Len(lens)
  BY DEF Call, MayCall
<1>2. Called(c)
  BY <1>1 DEF Called
<1>. QED  BY <1>2 DEF KKChange

LEMMA ChangeOfBalance ==
    ASSUME TBInv, Balance
    PROVE  KKChange /\ (phase' = "balancing" => call'[Driver].equal_size)
<1>1. CASE UNCHANGED kkVars /\ phase' # "balancing"
  BY <1>1, SameSums
<1>2. CASE Call(Driver, LengthsOf(batch.rows), WorldSize, TRUE)
  <2>. DEFINE lens == LengthsOf(batch.rows)
  <2>1. phase = "balance"
    BY DEF Balance
  <2>2. seqlen \in [Rows -> Lengths] /\ batch.rows \in Seq(Rows)
    BY <2>1 DEF TBInv, BatchOK, Early
  <2>3. lens \in Seq(Nat) /\ TRUE \in BOOLEAN /\ Driver \in Callers
    BY <2>2, LengthsTyped, RanksAre
  <2>. HIDE DEF lens
  <2>4. Call(Driver, lens, WorldSize, TRUE)
    BY <1>2 DEF lens
  <2>5. call'[Driver].equal_size
    BY <2>3, <2>4 DEF Call, TBInv, KKInv
  <2>. QED  BY <2>3, <2>4, <2>5, CallStarts
<1>. QED  BY <1>1, <1>2 DEF Balance

LEMMA ChangeOfDrive ==
    ASSUME TBInv, Drive
    PROVE  KKChange
<1>0. Driver \in Callers
  BY RanksAre
<1>1. CASE Validate
  BY <1>1, SameSums DEF Validate
<1>2. CASE CollectValidation \/ EndValidation
  BY <1>2, SameSums DEF CollectValidation, EndValidation
<1>3. CASE GenerateSequences \/ Union
  BY <1>3, SameSums DEF GenerateSequences, Union
<1>4. CASE Balance
  BY <1>4, ChangeOfBalance
<1>5. CASE KKStep(Driver)
  BY <1>0, <1>5 DEF KKChange
<1>6. CASE Reorder
  <2>1. Taken(Driver)
    BY <1>6 DEF Reorder, Taken
  <2>. QED  BY <1>0, <2>1 DEF KKChange
<1>7. CASE LaunchReward \/ ComputeLogProb \/ UpdateActor
  BY <1>7, SameSums DEF LaunchReward, ComputeLogProb, UpdateActor, Dispatch
<1>8. CASE Collect \/ Filter \/ Finish
  BY <1>8, SameSums DEF Collect, Filter, Finish
<1>. QED  BY <1>1, <1>2, <1>3, <1>4, <1>5, <1>6, <1>7, <1>8 DEF Drive

LEMMA ChangeOfRank ==
    ASSUME TBInv, NEW r \in Ranks, Rank(r)
    PROVE  KKChange
<1>0. r \in Callers
  BY RanksAre
<1>1. CASE Count(r) \/ SliceMicroBatches(r) \/ Restore(r)
  BY <1>1, SameSums DEF Count, SliceMicroBatches, Restore
<1>2. CASE Partition(r)
  <2>. DEFINE h == Head(todo[r])
              lens == LengthsOf(h)
  <2>1. at[r] = "partition" /\ Call(r, lens, num[r], FALSE)
    BY <1>2 DEF Partition
  <2>2. h \in Seq(Rows) /\ seqlen \in [Rows -> Lengths]
    BY <2>1, HeadIs DEF AtBatch
  <2>. HIDE DEF h
  <2>3. lens \in Seq(Nat) /\ FALSE \in BOOLEAN
    BY <2>2, LengthsTyped
  <2>. HIDE DEF lens
  <2>. QED  BY <1>0, <2>1, <2>3, CallStarts
<1>3. CASE MicroBatches(r)
  <2>1. Taken(r)
    BY <1>3 DEF MicroBatches, Taken
  <2>. QED  BY <1>0, <2>1 DEF KKChange
<1>4. CASE KKStep(r)
  BY <1>0, <1>4 DEF KKChange
<1>. QED  BY <1>1, <1>2, <1>3, <1>4 DEF Rank

LEMMA ChangeOfNext ==
    ASSUME TBInv, [Next]_vars
    PROVE  KKChange
<1>1. CASE Drive
  BY <1>1, ChangeOfDrive
<1>2. ASSUME NEW r \in Ranks, Rank(r) PROVE KKChange
  BY <1>2, ChangeOfRank
<1>3. CASE Generate
  BY <1>3, SameSums DEF Generate, GenerateChunk
<1>4. CASE AllReduceMax \/ Forward \/ OptimizerStep
  BY <1>4, SameSums DEF AllReduceMax, Forward, OptimizerStep
<1>5. CASE UNCHANGED vars
  BY <1>5, SameSums DEF vars
<1>. QED  BY <1>1, <1>2, <1>3, <1>4, <1>5 DEF Next

\* The rows keep their order once the driver has reordered them, and what it asked for stays.
Quiet ==
    /\ UNCHANGED <<config, seqlen>>
    /\ batch'.rows = batch.rows
    /\ phase' \in After => phase \in After
Elsewhere == phase' \notin After
AskedFor == phase' = "balancing" => phase = "balancing" /\ call'[Driver] = call[Driver]

LEMMA RowsOfDrive ==
    ASSUME TBInv, Drive, ~ Balance, ~ Reorder
    PROVE  (Quiet \/ Elsewhere) /\ AskedFor
<1>1. CASE Validate
  BY <1>1 DEF Validate, CallGenerate, After, Elsewhere, AskedFor
<1>2. CASE CollectValidation \/ EndValidation
  BY <1>2 DEF CollectValidation, EndValidation, After, Elsewhere, AskedFor
<1>3. CASE GenerateSequences \/ Union
  BY <1>3 DEF GenerateSequences, Union, CallGenerate, After, Elsewhere, AskedFor
<1>4. CASE KKStep(Driver) /\ UNCHANGED <<driverVars, rankVars, genVars, config, seqlen, trained>>
  <2>1. call' = call
    BY <1>4, RanksAre, KKStepOf DEF TBInv
  <2>. QED  BY <1>4, <2>1 DEF driverVars, Quiet, AskedFor
<1>5. CASE LaunchReward \/ ComputeLogProb \/ UpdateActor
  BY <1>5 DEF LaunchReward, ComputeLogProb, UpdateActor, Dispatch, Quiet, Elsewhere, After, AskedFor
<1>6. CASE Collect \/ Filter \/ Finish
  BY <1>6 DEF Collect, Filter, Finish, Elsewhere, After, AskedFor
<1>. QED  BY <1>1, <1>2, <1>3, <1>4, <1>5, <1>6 DEF Drive

LEMMA RowsOfRank ==
    ASSUME TBInv, NEW r \in Ranks, Rank(r)
    PROVE  Quiet /\ AskedFor
<1>1. Quiet /\ phase' = phase
  BY DEF Rank, driverVars, Quiet
<1>2. r # Driver /\ r \in Callers /\ Driver \in Callers
  BY RanksAre
<1>3. call'[Driver] = call[Driver]
  <2>1. CASE Count(r) \/ SliceMicroBatches(r) \/ Restore(r)
    BY <2>1 DEF Count, SliceMicroBatches, Restore, kkVars
  <2>2. CASE Partition(r)
    BY <1>2, <2>2 DEF Partition, Call, TBInv, KKInv
  <2>3. CASE MicroBatches(r)
    BY <2>3 DEF MicroBatches
  <2>4. CASE KKStep(r)
    BY <1>2, <2>4, KKStepOf DEF TBInv
  <2>. QED  BY <2>1, <2>2, <2>3, <2>4 DEF Rank
<1>. QED  BY <1>1, <1>3 DEF AskedFor

LEMMA RowsOfNext ==
    ASSUME TBInv, [Next]_vars, ~ Balance, ~ Reorder
    PROVE  (Quiet \/ Elsewhere) /\ AskedFor
<1>1. CASE Drive
  BY <1>1, RowsOfDrive
<1>2. ASSUME NEW r \in Ranks, Rank(r) PROVE Quiet /\ AskedFor
  BY <1>2, RowsOfRank
<1>3. CASE Generate
  BY <1>3 DEF Generate, GenerateChunk, driverVars, kkVars, Quiet, AskedFor
<1>4. CASE AllReduceMax \/ Forward \/ OptimizerStep
  BY <1>4 DEF AllReduceMax, Forward, OptimizerStep, driverVars, kkVars, Quiet, AskedFor
<1>5. CASE UNCHANGED vars
  BY <1>5 DEF vars, driverVars, kkVars, Quiet, AskedFor
<1>. QED  BY <1>1, <1>2, <1>3, <1>4, <1>5 DEF Next

\* RanksAreBalanced of given rows
ChunksBalanced(rows) ==
    \A r, q \in Ranks :
        Total(ChunkOf(rows, DPSize, r)) - Total(ChunkOf(rows, DPSize, q)) <= config.sp_size * Longest(rows)

LEMMA SameChunks ==
    ASSUME UNCHANGED <<config, seqlen>>, ChunksBalanced(batch'.rows)
    PROVE  RanksAreBalanced'
<1>1. \A rows : Longest(rows)' = Longest(rows)
  BY DEF Longest
<1>2. \A rows : Total(rows)' = Total(rows)
  BY DEF Total, LengthsOf
<1>. QED  BY <1>1, <1>2 DEF RanksAreBalanced, ChunksBalanced

LEMMA QuietKeepsBalance ==
    ASSUME RanksAreBalanced, Quiet \/ Elsewhere
    PROVE  RanksAreBalanced'
<1>1. CASE Elsewhere
  BY <1>1 DEF Elsewhere, After, RanksAreBalanced
<1>2. CASE Quiet /\ phase' \in After /\ config.balance_batch
  <2>1. ChunksBalanced(batch'.rows)
    BY <1>2 DEF Quiet, After, RanksAreBalanced, ChunksBalanced
  <2>. QED  BY <1>2, <2>1, SameChunks DEF Quiet
<1>3. CASE Quiet /\ ~ config.balance_batch
  BY <1>3 DEF Quiet, RanksAreBalanced
<1>. QED  BY <1>1, <1>2, <1>3 DEF Elsewhere

LEMMA BalanceKeepsBalance ==
    ASSUME Balance
    PROVE  RanksAreBalanced'
<1>1. config' = config /\ (~ config.balance_batch \/ phase' \in {"balancing", "failed"})
  BY DEF Balance
<1>. QED  BY <1>1 DEF RanksAreBalanced

\* Reordering rows changes neither the longest nor which are there.
LEMMA LongestOfPick ==
    ASSUME seqlen \in [Rows -> Lengths], NEW rows \in Seq(Rows), NEW idx, Permutes(idx, Len(rows)), rows # <<>>
    PROVE  /\ Longest(Pick(rows, idx)) \in Nat
           /\ \A i \in 1 .. Len(rows) : LengthsOf(rows)[i] <= Longest(Pick(rows, idx))
<1>. DEFINE new == Pick(rows, idx)
            n == Len(rows)
<1>1. idx \in Seq(1 .. n) /\ Len(idx) = n /\ n \in Nat \ {0} /\ \A x \in 1 .. n : Has(idx, x)
  BY DEF Permutes
<1>2. new \in Seq(Rows) /\ Len(new) = n /\ \A i \in 1 .. n : new[i] = rows[idx[i]]
  BY <1>1, PickIs
<1>3. new # <<>>
  <2>. HIDE DEF new, n
  <2>. QED  BY <1>1, <1>2
<1>. HIDE DEF new
<1>4. Longest(new) \in Nat /\ \A i \in 1 .. n : LengthsOf(new)[i] <= Longest(new)
  <2>1. Longest(new) \in 1 .. MaxTokenLen /\ \A i \in 1 .. Len(new) : LengthsOf(new)[i] <= Longest(new)
    BY <1>2, <1>3, LongestIs
  <2>2. MaxTokenLen \in Nat
    BY TrainingBatchAssumption
  <2>. QED  BY <1>2, <2>1, <2>2
<1>5. ASSUME NEW i \in 1 .. n PROVE LengthsOf(rows)[i] <= Longest(new)
  <2>1. PICK j \in 1 .. n : idx[j] = i
    BY <1>1 DEF Has
  <2>2. new[j] = rows[i]
    BY <1>2, <2>1
  <2>3. LengthsOf(new)[j] = seqlen[new[j]]
    BY <1>2 DEF LengthsOf
  <2>4. LengthsOf(rows)[i] = seqlen[rows[i]]
    BY DEF LengthsOf
  <2>. QED  BY <1>4, <2>2, <2>3, <2>4
<1>. QED  BY <1>4, <1>5 DEF new

\* _balance_batch leaves every rank with the rows of as many partitions, which are even.
LEMMA ReorderBalances ==
    ASSUME TBInv, EvenInv, Reorder
    PROVE  RanksAreBalanced'
<1>. DEFINE rows == batch.rows
            n == Len(rows)
            P == partitions[Driver]
            lens == LengthsOf(rows)
            new == Pick(rows, GlobalIdx)
            top == Longest(new)
            sp == config.sp_size
<1>1. /\ phase = "balancing" /\ P # <<>> /\ batch'.rows = new
      /\ UNCHANGED <<config, seqlen>>
  BY DEF Reorder, TBInv, BatchOK
<1>2. KKInv /\ config \in Configs /\ BatchOK /\ KKSums /\ Driver \in Callers
  BY RanksAre DEF TBInv, EvenInv
<1>3. rows \in Seq(Rows) /\ rows # <<>> /\ seqlen \in [Rows -> Lengths]
  BY <1>1, <1>2 DEF BatchOK, Early
<1>4. /\ lens = call[Driver].seqlen_list /\ call[Driver].k_partitions = WorldSize /\ call[Driver].equal_size
  BY <1>1, <1>2 DEF BatchOK, EvenInv
<1>5. WorldSize = DPSize * sp /\ sp \in Nat \ {0} /\ DPSize \in Nat \ {0} /\ WorldSize \in Nat
  BY <1>2, ConfigIs, TrainingBatchAssumption DEF WorldSize
<1>6. lens \in Seq(Nat) /\ Len(lens) = n /\ DOMAIN lens = 1 .. n /\ n \in Nat
  BY <1>3, LengthsTyped
<1>7. Exact(P, lens, WorldSize, TRUE)
  <2>1. Exact(P, lens, WorldSize, call[Driver].equal_size)
    BY <1>1, <1>2, <1>4 DEF KKInv, ReturnedOK
  <2>. HIDE DEF P, lens
  <2>. QED  BY <1>4, <2>1 DEF Exact
<1>8. Even(P, lens, WorldSize)
  BY <1>1, <1>2, <1>4 DEF KKSums
<1>. HIDE DEF P, lens
<1>9. Parts(P, WorldSize, n) /\ \A i \in 1 .. WorldSize : Cardinality(P[i]) * WorldSize = n
  BY <1>6, <1>7 DEF Exact, Parts
<1>10. Joins(GlobalIdx, P, WorldSize)
  BY DEF Joins, GlobalIdx, P
<1>11. Permutes(GlobalIdx, n)
  <2>. DEFINE s == [i \in 1 .. WorldSize |-> Ascending(P[i])]
  <2>1. GlobalIdx = FlattenSeq(s)
    BY <1>10 DEF Joins
  <2>. HIDE DEF n
  <2>2. Permutes(FlattenSeq(s), n)
    BY <1>5, <1>6, <1>9, PartsPermute
  <2>. QED  BY <2>1, <2>2
<1>12. top \in Nat /\ \A i \in 1 .. n : lens[i] <= top
  BY <1>3, <1>11, LongestOfPick DEF lens
<1>. HIDE DEF top
<1>13. NearEven(P, lens, WorldSize, top)
  <2>1. ASSUME NEW i \in 1 .. WorldSize, NEW j \in 1 .. WorldSize
        PROVE  SumFunctionOnSet(lens, P[i]) - SumFunctionOnSet(lens, P[j]) <= top
    <3>1. PICK x \in 1 .. n : SumFunctionOnSet(lens, P[i]) - SumFunctionOnSet(lens, P[j]) <= lens[x]
      BY <1>6, <1>8 DEF Even
    <3>2. lens[x] <= top /\ lens[x] \in Nat
      BY <1>6, <1>12
    <3>3. SumFunctionOnSet(lens, P[i]) \in Nat /\ SumFunctionOnSet(lens, P[j]) \in Nat
      <4>1. P[i] \in SUBSET DOMAIN lens /\ P[j] \in SUBSET DOMAIN lens
        BY <1>6, <1>9 DEF Parts
      <4>. QED  BY <1>6, <4>1, SumOfLengths
    <3>. QED  BY <1>12, <3>1, <3>2, <3>3
  <2>. QED  BY <2>1 DEF NearEven
<1>14. ASSUME NEW r \in Ranks, NEW q \in Ranks
       PROVE  Total(ChunkOf(new, DPSize, r)) - Total(ChunkOf(new, DPSize, q)) <= sp * top
  <2>1. r \in 1 .. DPSize /\ q \in 1 .. DPSize
    BY RanksAre
  <2>. DEFINE G == GlobalIdx
  <2>2. /\ Parts(P, DPSize * sp, Len(rows)) /\ NearEven(P, LengthsOf(rows), DPSize * sp, top)
        /\ Joins(G, P, DPSize * sp)
        /\ \A i \in 1 .. DPSize * sp : Cardinality(P[i]) * (DPSize * sp) = Len(rows)
    BY <1>5, <1>9, <1>10, <1>13 DEF lens
  <2>3. new = Pick(rows, G)
    OBVIOUS
  <2>. HIDE DEF G, new, rows, sp
  <2>. QED  BY <1>3, <1>5, <1>12, <2>1, <2>2, <2>3, ChunksEven
<1>15. ChunksBalanced(new)
  BY <1>14 DEF ChunksBalanced, top
<1>. QED  BY <1>1, <1>15, SameChunks

LEMMA AgreedCovers ==
    ASSUME NEW n \in Nat, num \in [Ranks -> 0 .. n], NEW r \in Ranks
    PROVE  num[r] <= Agreed(r)
<1>1. \E m \in Range(num) : \A q \in Ranks : num[q] <= m
  BY LargestExists
<1>. QED  BY <1>1 DEF Agreed

\* What counting, agreeing, partitioning and running do to one rank
LEMMA CountFits ==
    ASSUME TBInv, NEW r \in Ranks, Count(r), UNCHANGED <<config, seqlen>>
    PROVE  RankFits(r)'
<1>. DEFINE h == Head(todo[r])
            c == CeilDiv(Total(h), MaxTokenLen)
            n == Minimum(Len(h), c)
            t == Total(h)
<1>1. at[r] = "prepare" /\ num' = [num EXCEPT ![r] = n] /\ at' = [at EXCEPT ![r] = "reduce"] /\ todo' = todo
  BY DEF Count
<1>2. h \in Seq(Rows) /\ seqlen \in [Rows -> Lengths]
  BY <1>1, HeadIs DEF AtBatch
<1>3. num'[r] = n /\ at'[r] = "reduce"
  BY <1>1 DEF TBInv, RanksTyped
<1>. HIDE DEF h
<1>4. Len(h) \in Nat /\ t \in Nat /\ t <= Len(h) * MaxTokenLen
  BY <1>2, TotalOfAll
<1>5. c \in Nat /\ t <= c * MaxTokenLen
  <2>1. MaxTokenLen \in Nat \ {0}
    BY TrainingBatchAssumption
  <2>. HIDE DEF t
  <2>. QED  BY <1>4, <2>1, Ceiling DEF t
<1>. HIDE DEF c, t
<1>6. t <= n * MaxTokenLen
  BY <1>4, <1>5 DEF Minimum
<1>. HIDE DEF n
<1>7. Total(Head(todo'[r])) <= num'[r] * MaxTokenLen
  BY <1>1, <1>3, <1>6 DEF t, h
<1>8. Fits(config', at'[r], Head(todo'[r]), num'[r], micro'[r])
  BY <1>3, <1>7 DEF Fits
<1>. QED  BY <1>8, SameTotals

LEMMA PartitionFits ==
    ASSUME TBInv, NEW r \in Ranks, Partition(r), RankFits(r), UNCHANGED <<config, seqlen>>
    PROVE  RankFits(r)'
<1>1. at[r] = "partition" /\ at' = [at EXCEPT ![r] = "balance"] /\ todo' = todo /\ num' = num
  BY DEF Partition
<1>2. at'[r] = "balance"
  BY <1>1 DEF TBInv, RanksTyped
<1>3. Fits(config', at'[r], Head(todo'[r]), num'[r], micro'[r])
  BY <1>1, <1>2 DEF RankFits, Fits, Counted
<1>. QED  BY <1>3, SameTotals

LEMMA MicroBatchesFit ==
    ASSUME TBInv, KKSums, NEW r \in Ranks, MicroBatches(r), RankFits(r), UNCHANGED <<config, seqlen>>
    PROVE  RankFits(r)'
<1>. DEFINE h == Head(todo[r])
            n == Len(h)
            k == num[r]
            P == partitions[r]
<1>1. at[r] = "balance" /\ P # <<>> /\ at' = [at EXCEPT ![r] = "forward"] /\ todo' = todo /\ num' = num
  BY DEF MicroBatches
<1>2. PICK p \in Bijection(1 .. k, 1 .. k) :
        LET sorted   == [i \in 1 .. k |-> P[p[i]]]
            idx_list == [i \in 1 .. k |-> Ascending(sorted[i])]
        IN  micro' = [micro EXCEPT ![r] = idx_list]
  BY DEF MicroBatches
<1>. DEFINE Q == [i \in 1 .. k |-> P[p[i]]]
            s == [i \in 1 .. k |-> Ascending(Q[i])]
<1>3. micro' = [micro EXCEPT ![r] = s]
  BY <1>2
<1>4. micro'[r] = s /\ at'[r] = "forward"
  <2>. HIDE DEF s
  <2>. QED  BY <1>1, <1>3 DEF TBInv, RanksTyped
<1>5. Working /\ AtBatch(r, h) /\ seqlen \in [Rows -> Lengths]
  BY <1>1, HeadIs
<1>6. RankOK(r) /\ KKInv /\ r \in Callers /\ config \in Configs
  BY <1>5, RanksAre DEF TBInv, WorkOK
<1>7. h \in Seq(Rows) /\ n \in Nat /\ h # <<>>
  <2>1. h \in Seq(Rows) /\ Len(h) \in 1 .. Cardinality(Rows) /\ Cardinality(Rows) \in Nat
    BY <1>5, <1>6, ConfigIs DEF AtBatch
  <2>. HIDE DEF h
  <2>. QED  BY <2>1
<1>8. config.use_dynamic_bsz /\ call[r].seqlen_list = LengthsOf(h) /\ call[r].k_partitions = k
  BY <1>1, <1>6 DEF RankOK
<1>9. k \in Nat \ {0} /\ Exact(P, LengthsOf(h), k, call[r].equal_size)
  BY <1>1, <1>6, <1>8 DEF KKInv, ReturnedOK
<1>10. DOMAIN LengthsOf(h) = 1 .. n
  <2>. HIDE DEF h
  <2>. QED  BY <1>5, <1>7, LengthsTyped
<1>11. Parts(P, k, n)
  BY <1>9, <1>10 DEF Parts, Exact
<1>12. Even(P, LengthsOf(h), k)
  BY <1>1, <1>6, <1>8 DEF KKSums
<1>13. Total(h) <= k * MaxTokenLen
  BY <1>1, <1>8 DEF RankFits, Fits, Counted
<1>14. p \in [1 .. k -> 1 .. k]
  BY DEF Bijection, Injection
<1>. HIDE DEF P, k, h
<1>15. ASSUME NEW i \in 1 .. k PROVE Total(Pick(h, s[i])) < MaxTokenLen + Longest(h)
  <2>1. p[i] \in 1 .. k /\ s[i] = Ascending(P[p[i]])
    BY <1>14
  <2>2. Total(Pick(h, Ascending(P[p[i]]))) < MaxTokenLen + Longest(h)
    <3>. DEFINE j == p[i]
    <3>1. j \in 1 .. k /\ k \in Nat
      BY <1>9, <2>1
    <3>. HIDE DEF j
    <3>2. Total(Pick(h, Ascending(P[j]))) < MaxTokenLen + Longest(h)
      BY <1>5, <1>7, <1>11, <1>12, <1>13, <3>1, PartFits
    <3>. QED  BY <3>2 DEF j
  <2>. QED  BY <2>1, <2>2
<1>16. DOMAIN s = 1 .. k
  OBVIOUS
<1>. HIDE DEF s
<1>17. Head(todo'[r]) = h
  BY <1>1 DEF h
<1>18. Fits(config', at'[r], h, num'[r], s)
  BY <1>4, <1>15, <1>16 DEF Fits, Counted
<1>. QED  BY <1>4, <1>17, <1>18, SameTotals

LEMMA ForwardFits ==
    ASSUME TBInv, NEW r \in Ranks, Forward, RankFits(r)
    PROVE  RankFits(r)'
<1>. DEFINE h == Head(todo[r])
            m == micro[r]
            T == Seq(1 .. Len(h))
<1>1. /\ at[r] = "forward" /\ micro'[r] = Tail(m) /\ todo' = todo /\ num' = num /\ config' = config /\ seqlen' = seqlen
      /\ at'[r] \in {"forward", "forwarded"}
  BY DEF Forward, AllAt
<1>2. m \in Seq(T) /\ m # <<>>
  BY <1>1, HeadIs DEF TBInv, WorkOK, RankOK
<1>. HIDE DEF m, T
<1>3. \A i \in DOMAIN Tail(m) : i + 1 \in DOMAIN m /\ Tail(m)[i] = m[i + 1]
  BY <1>2
<1>4. config.use_dynamic_bsz => \A i \in DOMAIN m : Total(Pick(h, m[i])) < MaxTokenLen + Longest(h)
  BY <1>1 DEF RankFits, Fits, m
<1>. HIDE DEF h
<1>5. config.use_dynamic_bsz => \A i \in DOMAIN Tail(m) : Total(Pick(h, Tail(m)[i])) < MaxTokenLen + Longest(h)
  BY <1>3, <1>4
<1>6. Head(todo'[r]) = h
  BY <1>1 DEF h
<1>7. Fits(config', at'[r], h, num'[r], Tail(m))
  BY <1>1, <1>5 DEF Fits, Counted
<1>. QED  BY <1>1, <1>6, <1>7, SameTotals

LEMMA AgreeFits ==
    ASSUME TBInv, NEW r \in Ranks, AllReduceMax, RankFits(r)
    PROVE  RankFits(r)'
<1>. DEFINE h == Head(todo[r])
            t == Total(h)
            a == num[r]
            b == Agreed(r)
<1>1. /\ at[r] = "reduce" /\ num'[r] = b /\ at'[r] = "partition" /\ todo' = todo
      /\ config' = config /\ seqlen' = seqlen
  BY DEF AllReduceMax, AllAt
<1>2. h \in Seq(Rows) /\ seqlen \in [Rows -> Lengths] /\ config.use_dynamic_bsz
  BY <1>1, HeadIs DEF AtBatch, TBInv, WorkOK, RankOK
<1>3. a \in Nat /\ b \in Nat /\ a <= b
  <2>. DEFINE n == Cardinality(Rows)
  <2>1. n \in Nat /\ num \in [Ranks -> 0 .. n]
    BY ConfigIs DEF TBInv, RanksTyped
  <2>. HIDE DEF n
  <2>. QED  BY <2>1, AgreedIs, AgreedCovers
<1>4. t \in Nat /\ t <= a * MaxTokenLen
  <2>1. t <= a * MaxTokenLen
    BY <1>1, <1>2 DEF RankFits, Fits, Counted
  <2>. HIDE DEF h, a
  <2>. QED  BY <1>2, <2>1, TotalIs
<1>. HIDE DEF t, a, b
<1>5. t <= b * MaxTokenLen
  <2>1. MaxTokenLen \in Nat
    BY TrainingBatchAssumption
  <2>2. a * MaxTokenLen \in Nat /\ b * MaxTokenLen \in Nat /\ a * MaxTokenLen <= b * MaxTokenLen
    <3>1. CASE a = b
      BY <1>3, <2>1, <3>1
    <3>2. CASE a < b
      BY <1>3, <2>1, <3>2, Multiples
    <3>. QED  BY <1>3, <3>1, <3>2
  <2>. DEFINE x == a * MaxTokenLen
              y == b * MaxTokenLen
  <2>3. t <= x /\ x <= y /\ x \in Nat /\ y \in Nat
    BY <1>4, <2>2
  <2>. HIDE DEF x, y
  <2>4. t <= y
    BY <1>4, <2>3
  <2>. QED  BY <2>4 DEF y
<1>6. Total(Head(todo'[r])) <= num'[r] * MaxTokenLen
  BY <1>1, <1>5 DEF t, h
<1>7. Fits(config', at'[r], Head(todo'[r]), num'[r], micro'[r])
  BY <1>1, <1>6 DEF Fits
<1>. QED  BY <1>1, <1>7, SameTotals

\* A step of one rank
LEMMA RankKeepsFit ==
    ASSUME TBInv, EvenInv, NEW q \in Ranks, Rank(q), NEW r \in Ranks
    PROVE  RankFits(r)'
<1>1. UNCHANGED <<config, seqlen>> /\ RankFits(r) /\ RanksTyped /\ KKSums
  BY DEF Rank, EvenInv, TBInv
<1>2. CASE Count(q)
  <2>1. CASE r = q
    BY <1>1, <1>2, <2>1, CountFits
  <2>2. CASE r # q
    BY <1>1, <1>2, <2>2, FrameFits DEF Count, RanksTyped
  <2>. QED  BY <2>1, <2>2
<1>3. CASE Partition(q)
  <2>1. CASE r = q
    BY <1>1, <1>3, <2>1, PartitionFits
  <2>2. CASE r # q
    BY <1>1, <1>3, <2>2, FrameFits DEF Partition, RanksTyped
  <2>. QED  BY <2>1, <2>2
<1>4. CASE MicroBatches(q)
  <2>1. CASE r = q
    BY <1>1, <1>4, <2>1, MicroBatchesFit
  <2>2. CASE r # q
    <3>1. \E s : micro' = [micro EXCEPT ![q] = s]
      BY <1>4 DEF MicroBatches
    <3>2. micro'[r] = micro[r]
      BY <1>1, <2>2, <3>1 DEF RanksTyped
    <3>3. at'[r] = at[r] /\ todo' = todo /\ num' = num
      BY <1>1, <1>4, <2>2 DEF MicroBatches, RanksTyped
    <3>. QED  BY <1>1, <3>2, <3>3, FrameFits
  <2>. QED  BY <2>1, <2>2
<1>5. CASE SliceMicroBatches(q)
  <2>1. ~ config'.use_dynamic_bsz
    BY <1>1, <1>5 DEF SliceMicroBatches
  <2>. QED  BY <2>1 DEF RankFits, Fits
<1>6. CASE Restore(q)
  <2>1. CASE r = q
    <3>1. at'[r] = "returned"
      BY <1>1, <1>6, <2>1 DEF Restore, RanksTyped
    <3>. QED  BY <3>1, IdleFits DEF Counted
  <2>2. CASE r # q
    BY <1>1, <1>6, <2>2, FrameFits DEF Restore, RanksTyped
  <2>. QED  BY <2>1, <2>2
<1>7. CASE UNCHANGED rankVars
  BY <1>1, <1>7, FrameFits DEF rankVars
<1>. QED  BY <1>2, <1>3, <1>4, <1>5, <1>6, <1>7 DEF Rank

\* What the driver does leaves ranks as they are, or outside of the model.
LEMMA DriveKeepsFit ==
    ASSUME TBInv, EvenInv, Drive, NEW r \in Ranks
    PROVE  RankFits(r)'
<1>0. RankFits(r) /\ WorkOK /\ r \in Ranks
  BY DEF EvenInv, TBInv
<1>1. phase \notin {"computing", "updating"} => at[r] \notin Counted \cup {"forward"}
  BY <1>0 DEF WorkOK, Working, Counted
<1>2. CASE Validate \/ CollectValidation \/ EndValidation
  BY <1>1, <1>2, IdleFits DEF Validate, CollectValidation, EndValidation, rankVars
<1>3. CASE GenerateSequences \/ Union
  BY <1>1, <1>3, IdleFits DEF GenerateSequences, Union, rankVars
<1>4. CASE Balance \/ Reorder \/ LaunchReward
  BY <1>1, <1>4, IdleFits DEF Balance, Reorder, LaunchReward, rankVars
<1>5. CASE KKStep(Driver) /\ UNCHANGED <<driverVars, rankVars, genVars, config, seqlen, trained>>
  BY <1>0, <1>5, FrameFits DEF rankVars
<1>6. CASE ComputeLogProb \/ UpdateActor
  <2>1. phase \notin {"computing", "updating"} /\ (at' = at \/ at' = [q \in Ranks |-> "prepare"])
    BY <1>6 DEF ComputeLogProb, UpdateActor, Dispatch
  <2>. QED  BY <1>1, <2>1, IdleFits DEF Counted
<1>7. CASE Collect
  <2>1. at'[r] = "idle"
    BY <1>7 DEF Collect
  <2>. QED  BY <2>1, IdleFits DEF Counted
<1>8. CASE Filter
  BY <1>1, <1>8, IdleFits DEF Filter, rankVars
<1>9. CASE Finish
  BY <1>0, <1>9, FrameFits DEF Finish, rankVars
<1>. QED  BY <1>2, <1>3, <1>4, <1>5, <1>6, <1>7, <1>8, <1>9 DEF Drive

LEMMA NextKeepsFit ==
    ASSUME TBInv, EvenInv, [Next]_vars, NEW r \in Ranks
    PROVE  RankFits(r)'
<1>0. RankFits(r)
  BY DEF EvenInv
<1>1. CASE Drive
  BY <1>1, DriveKeepsFit
<1>2. ASSUME NEW q \in Ranks, Rank(q) PROVE RankFits(r)'
  BY <1>2, RankKeepsFit
<1>3. CASE Generate
  BY <1>0, <1>3, FrameFits DEF Generate, GenerateChunk, rankVars
<1>4. CASE AllReduceMax
  BY <1>0, <1>4, AgreeFits
<1>5. CASE Forward
  BY <1>0, <1>5, ForwardFits
<1>6. CASE OptimizerStep
  <2>1. at'[r] \in {"prepare", "returned"}
    BY <1>6 DEF OptimizerStep
  <2>. QED  BY <2>1, IdleFits DEF Counted
<1>7. CASE UNCHANGED vars
  BY <1>0, <1>7, FrameFits DEF vars, rankVars
<1>. QED  BY <1>1, <1>2, <1>3, <1>4, <1>5, <1>6, <1>7 DEF Next

LEMMA InitEven == Init => EvenInv
<1>. SUFFICES ASSUME Init PROVE EvenInv
  OBVIOUS
<1>1. KKSums
  BY KKInitSums DEF Init
<1>2. phase = "validate" /\ \A r \in Ranks : at[r] = "idle"
  BY DEF Init
<1>. QED  BY <1>1, <1>2 DEF EvenInv, RanksAreBalanced, RankFits, Fits, Counted

LEMMA EvenStepKeeps == TBInv /\ EvenInv /\ [Next]_vars => EvenInv'
<1>. SUFFICES ASSUME TBInv, EvenInv, [Next]_vars PROVE EvenInv'
  OBVIOUS
<1>1. KKSums'
  BY ChangeOfNext, KKChangeKeepsSums DEF TBInv, EvenInv
<1>2. phase' = "balancing" => call'[Driver].equal_size
  <2>1. CASE Balance
    BY <2>1, ChangeOfBalance
  <2>2. CASE Reorder
    BY <2>2 DEF Reorder
  <2>3. CASE ~ Balance /\ ~ Reorder
    BY <2>3, RowsOfNext DEF AskedFor, EvenInv
  <2>. QED  BY <2>1, <2>2, <2>3
<1>3. RanksAreBalanced'
  <2>1. CASE Balance
    BY <2>1, BalanceKeepsBalance
  <2>2. CASE Reorder
    BY <2>2, ReorderBalances
  <2>3. CASE ~ Balance /\ ~ Reorder
    BY <2>3, RowsOfNext, QuietKeepsBalance DEF EvenInv
  <2>. QED  BY <2>1, <2>2, <2>3
<1>4. \A r \in Ranks : RankFits(r)'
  BY NextKeepsFit
<1>. QED  BY <1>1, <1>2, <1>3, <1>4 DEF EvenInv

\* The work is spread evenly at every level, whatever the lengths of the rows and however ties are broken: the
\* partitions of every call differ by at most the longest row; after _balance_batch the chunks of two data-parallel
\* ranks differ by at most the longest row for each of the partitions that make up a chunk; and a micro-batch of
\* rearrange_micro_batches holds less than max_token_len and the longest row of its batch.
THEOREM WorkStaysBalanced == Spec => []WorkIsBalanced
<1>1. Init => TBInv /\ EvenInv
  BY InitOK, InitEven
<1>2. TBInv /\ EvenInv /\ [Next]_vars => (TBInv /\ EvenInv)'
  BY TBStepKeeps, EvenStepKeeps
<1>3. TBInv /\ EvenInv => WorkIsBalanced
  <2>. SUFFICES ASSUME TBInv, EvenInv PROVE WorkIsBalanced
    OBVIOUS
  <2>1. PartitionsAreBalanced
    BY SumsAreBalanced DEF TBInv, EvenInv
  <2>2. RanksAreBalanced
    BY DEF EvenInv
  <2>3. MicroBatchesNearlyFit
    BY DEF EvenInv, RankFits, Fits, MicroBatchesNearlyFit
  <2>. QED  BY <2>1, <2>2, <2>3 DEF WorkIsBalanced
<1>. QED  BY <1>1, <1>2, <1>3, PTL DEF Spec

\* The partitions that the driver and the ranks are given are exact, and the states they come from never spread
\* further than the longest row: what is proved of any callers holds for those of the training batch.
THEOREM BatchesArePartitioned == Spec => [](PartitionsAreExact /\ SpreadIsBounded)
<1>1. TBInv => PartitionsAreExact /\ SpreadIsBounded
  BY InvIsExact, InvIsNarrow DEF TBInv
<1>. QED  BY <1>1, AlwaysTBInv, PTL

-----------------------------------------------------------------------------
(* The ranks stay in step *)

Alike(s, t) == Len(s) = Len(t) /\ \A m \in 1 .. Len(s) : Len(s[m]) = Len(t[m])
Busy        == IF config.use_dynamic_bsz THEN {"partition", "balance", "forward"} ELSE {"prepare", "forward"}
Cuts(r)     == IF config.use_dynamic_bsz THEN num[r] ELSE CeilDiv(Len(Head(todo[r])), MicroBatchSize)

\* What one rank knows of another
Together(r, q) ==
    /\ Alike(todo[r], todo[q])
    /\ config.use_dynamic_bsz /\ at[r] \in {"prepare", "reduce"} => at[q] \in {"prepare", "reduce"}
    /\ at[r] \in Busy => at[q] \in Busy /\ Cuts(r) = Cuts(q)
    /\ at[r] = "forward" => Len(micro[r]) = IF at[q] = "forward" THEN Len(micro[q]) ELSE Cuts(r)
MayCut(r) == at[r] \in {"reduce", "partition"} => num[r] \in 1 .. Len(Head(todo[r]))
StepInv   == /\ \A r, q \in Ranks : Together(r, q)
             /\ \A r \in Ranks : MayCut(r)

LEMMA SplitsAlike ==
    ASSUME NEW T, NEW a \in Seq(T), NEW b \in Seq(T), Len(a) = Len(b), NEW d \in Nat \ {0}
    PROVE  Alike(Split(a, d), Split(b, d))
<1>. DEFINE n == Len(a)
            c == CeilDiv(n, d)
            cut == CutAt(n, d)
<1>1. ASSUME NEW s \in Seq(T), Len(s) = n
      PROVE  Len(Split(s, d)) = c /\ \A i \in 1 .. c : Len(Split(s, d)[i]) = cut[i] - cut[i - 1]
  <2>. DEFINE S == Split(s, d)
  <2>1. Len(S) = c /\ Slices(S, s, cut)
    BY <1>1, SplitIs
  <2>2. c \in Nat /\ n \in Nat
    BY Ceiling
  <2>3. /\ cut \in [0 .. c -> 0 .. n]
        /\ \A i \in 1 .. c : cut[i - 1] < cut[i]
    BY <2>2, CutsOf
  <2>. HIDE DEF S, n, c, cut
  <2>4. ASSUME NEW i \in 1 .. c PROVE Len(S[i]) = cut[i] - cut[i - 1]
    <3>1. S[i] = SubSeq(s, cut[i - 1] + 1, cut[i])
      BY <2>1 DEF Slices
    <3>2. i - 1 \in 0 .. c /\ i \in 0 .. c
      BY <2>2
    <3>. DEFINE x == cut[i - 1]
                y == cut[i]
    <3>3. x \in 0 .. n /\ y \in 0 .. n /\ x < y
      BY <2>3, <3>2
    <3>. HIDE DEF x, y
    <3>4. Len(SubSeq(s, x + 1, y)) = y - x
      BY <1>1, <2>2, <3>3
    <3>. QED  BY <3>1, <3>4 DEF x, y
  <2>. QED  BY <2>1, <2>4 DEF S
<1>2. Len(b) = n
  OBVIOUS
<1>. HIDE DEF n, c, cut
<1>3. Len(a) = n
  BY DEF n
<1>. QED  BY <1>1, <1>2, <1>3 DEF Alike

\* The ranks are given as many batches, of as many rows.
LEMMA WorkAlike ==
    ASSUME NEW T, NEW rows \in Seq(T), Distinct(rows), Len(rows) % DPSize = 0, rows # <<>>,
           NEW place, NEW r \in Ranks, NEW q \in Ranks
    PROVE  Alike(WorkAt(place, rows, r), WorkAt(place, rows, q))
<1>. DEFINE a == ChunkOf(rows, DPSize, r)
            b == ChunkOf(rows, DPSize, q)
<1>0. Len(rows) # 0 /\ Ranks = 1 .. DPSize /\ DPSize \in Nat \ {0} /\ MiniBatchSize \in Nat \ {0} /\ PPOEpochs \in Nat \ {0}
  BY RanksAre, TrainingBatchAssumption
<1>1. a \in Seq(T) /\ b \in Seq(T) /\ Len(a) = Len(b)
  <2>1. \A p \in 1 .. DPSize : ChunkOf(rows, DPSize, p) \in Seq(T) /\ Len(ChunkOf(rows, DPSize, p)) = Len(rows) \div DPSize
    BY <1>0, ChunksDistinct
  <2>2. r \in 1 .. DPSize /\ q \in 1 .. DPSize
    BY <1>0
  <2>. QED  BY <2>1, <2>2
<1>2. CASE place = "computing"
  <2>1. WorkAt(place, rows, r) = <<a>> /\ WorkAt(place, rows, q) = <<b>>
    BY <1>2 DEF WorkAt
  <2>. HIDE DEF a, b
  <2>. QED  BY <1>1, <2>1 DEF Alike
<1>3. CASE place # "computing"
  <2>. DEFINE S == Split(a, MiniBatchSize)
              U == Split(b, MiniBatchSize)
              V == Mini(rows, r)
              W == Mini(rows, q)
              d == CeilDiv(Len(rows) \div DPSize, MiniBatchSize)
              l == MiniCount(rows)
  <2>1. WorkAt(place, rows, r) = V /\ WorkAt(place, rows, q) = W
    BY <1>3 DEF WorkAt
  <2>2. /\ d \in Nat /\ Len(S) = d /\ Len(U) = d /\ Repeats(V, S, PPOEpochs) /\ Repeats(W, U, PPOEpochs)
        /\ Len(V) = l /\ Len(W) = l
    BY <1>0, MiniBatchesOfChunk
  <2>3. PPOEpochs * d = l
    BY DEF MiniCount
  <2>. HIDE DEF a, b
  <2>4. Alike(S, U)
    BY <1>0, <1>1, SplitsAlike
  <2>. HIDE DEF S, U, V, W, d, l
  <2>5. ASSUME NEW m \in 1 .. l PROVE Len(V[m]) = Len(W[m])
    <3>1. \E e \in 1 .. PPOEpochs : \E j \in 1 .. d : m = Place(e, d, j)
      <4>1. \A h \in 1 .. l : \E e \in 1 .. PPOEpochs : \E j \in 1 .. d : h = Place(e, d, j)
        BY <1>0, <2>2, <2>3, Places
      <4>. QED  BY <4>1
    <3>2. PICK e \in 1 .. PPOEpochs, j \in 1 .. d : m = Place(e, d, j)
      BY <3>1
    <3>3. V[m] = S[j] /\ W[m] = U[j]
      BY <2>2, <3>2 DEF Repeats, Place
    <3>. QED  BY <2>2, <2>4, <3>3 DEF Alike
  <2>. QED  BY <2>1, <2>2, <2>5 DEF Alike
<1>. QED  BY <1>2, <1>3

LEMMA AlikeHeads ==
    ASSUME NEW T, NEW s \in Seq(Seq(T)), NEW t \in Seq(Seq(T)), Alike(s, t), s # <<>>
    PROVE  /\ Len(Head(s)) = Len(Head(t)) /\ Alike(Tail(s), Tail(t)) /\ t # <<>>
           /\ (Len(s) > 1 => Tail(s) # <<>>) /\ Tail(s) \in Seq(Seq(T)) /\ Tail(t) \in Seq(Seq(T))
<1>. DEFINE S == Seq(T)
<1>. HIDE DEF S
<1>1. s \in Seq(S) /\ t \in Seq(S) /\ Len(s) = Len(t) /\ Len(s) \in Nat \ {0}
  BY DEF Alike, S
<1>2. Head(s) = s[1] /\ Head(t) = t[1] /\ 1 \in 1 .. Len(s) /\ t # <<>>
  BY <1>1
<1>3. /\ Len(Tail(s)) = Len(s) - 1 /\ Len(Tail(t)) = Len(t) - 1
      /\ \A m \in 1 .. Len(s) - 1 : Tail(s)[m] = s[m + 1] /\ Tail(t)[m] = t[m + 1] /\ m + 1 \in 1 .. Len(s)
      /\ Tail(s) \in Seq(S) /\ Tail(t) \in Seq(S)
  BY <1>1, <1>2
<1>4. Len(s) > 1 => Tail(s) # <<>>
  <2>. DEFINE u == Tail(s)
  <2>1. u \in Seq(S) /\ Len(u) = Len(s) - 1
    BY <1>3
  <2>. HIDE DEF u
  <2>2. Len(s) > 1 => u # <<>>
    BY <1>1, <2>1, EmptyWhen
  <2>. QED  BY <2>2 DEF u
<1>. QED  BY <1>1, <1>2, <1>3, <1>4 DEF Alike, S

LEMMA TotalPositive ==
    ASSUME seqlen \in [Rows -> Lengths], NEW rows \in Seq(Rows), rows # <<>>
    PROVE  Total(rows) \in Nat \ {0}
<1>. DEFINE lens == LengthsOf(rows)
            n == Len(rows)
            A == 2 .. n
<1>1. /\ lens \in Seq(Nat) /\ Len(lens) = n /\ n \in Nat \ {0} /\ DOMAIN lens = 1 .. n
      /\ lens[1] \in 1 .. MaxTokenLen /\ MaxTokenLen \in Nat
  BY LengthsTyped, TrainingBatchAssumption
<1>4. Total(rows) = SumFunctionOnSet(lens, 1 .. n)
  BY TotalOfAll
<1>. HIDE DEF lens, n
<1>2. {1} \cup A = 1 .. n /\ {1} \cap A = {} /\ {1} \in SUBSET DOMAIN lens /\ A \in SUBSET DOMAIN lens /\ 1 \in DOMAIN lens
  BY <1>1
<1>. HIDE DEF A
<1>3. SumFunctionOnSet(lens, {1} \cup A) = SumFunctionOnSet(lens, {1}) + SumFunctionOnSet(lens, A)
      /\ SumFunctionOnSet(lens, {1}) = lens[1] /\ SumFunctionOnSet(lens, A) \in Nat
  <2>. DEFINE B == {1}
  <2>1. B \in SUBSET DOMAIN lens /\ A \in SUBSET DOMAIN lens /\ B \cap A = {}
    BY <1>2
  <2>2. SumFunctionOnSet(lens, B) = lens[1]
    BY <1>1, <1>2, SumOfLengths
  <2>. HIDE DEF B
  <2>3. SumFunctionOnSet(lens, B \cup A) = SumFunctionOnSet(lens, B) + SumFunctionOnSet(lens, A)
        /\ SumFunctionOnSet(lens, A) \in Nat
    BY <1>1, <2>1, SumOfLengths
  <2>. QED  BY <2>2, <2>3 DEF B
<1>5. Total(rows) = lens[1] + SumFunctionOnSet(lens, A)
  BY <1>2, <1>3, <1>4
<1>. QED  BY <1>1, <1>3, <1>5

\* A step that moves no rank, one that moves all of them to one place, and one that moves one rank
LEMMA FrameStep ==
    ASSUME UNCHANGED <<config, at, todo, num, micro>>, StepInv
    PROVE  StepInv'
  BY DEF StepInv, Together, MayCut, Busy, Cuts

LEMMA AllMove ==
    ASSUME NEW a, \A r \in Ranks : at'[r] = a,
           \A r, q \in Ranks : Alike(todo'[r], todo'[q]),
           a \in Busy' => \A r, q \in Ranks : Cuts(r)' = Cuts(q)',
           a = "forward" => \A r, q \in Ranks : Len(micro'[r]) = Len(micro'[q]),
           a \in {"reduce", "partition"} => \A r \in Ranks : num'[r] \in 1 .. Len(Head(todo'[r]))
    PROVE  StepInv'
<1>1. ASSUME NEW r \in Ranks, NEW q \in Ranks PROVE Together(r, q)'
  BY <1>1 DEF Together
<1>2. ASSUME NEW r \in Ranks PROVE MayCut(r)'
  BY <1>2 DEF MayCut
<1>. QED  BY <1>1, <1>2 DEF StepInv

OneMoves(r, a) ==
    /\ config' = config /\ todo' = todo /\ at'[r] = a
    /\ \A q \in Ranks \ {r} : at'[q] = at[q] /\ num'[q] = num[q] /\ micro'[q] = micro[q]

LEMMA OneCounts ==
    ASSUME StepInv, NEW r \in Ranks, OneMoves(r, "reduce"), at[r] = "prepare", config.use_dynamic_bsz,
           num'[r] \in 1 .. Len(Head(todo[r]))
    PROVE  StepInv'
<1>1. ASSUME NEW q \in Ranks PROVE Together(r, q)' /\ Together(q, r)'
  <2>1. CASE q = r
    BY <2>1 DEF Together, StepInv, OneMoves, Busy
  <2>2. CASE q # r
    <3>1. Together(r, q) /\ Together(q, r)
      BY DEF StepInv
    <3>2. at[q] \in {"prepare", "reduce"} /\ at'[q] = at[q]
      BY <2>2, <3>1 DEF Together, OneMoves
    <3>. QED  BY <3>1, <3>2 DEF Together, OneMoves, Busy
  <2>. QED  BY <2>1, <2>2
<1>2. ASSUME NEW p \in Ranks \ {r}, NEW q \in Ranks \ {r} PROVE Together(p, q)'
  BY <1>2 DEF StepInv, Together, OneMoves, Busy, Cuts
<1>3. ASSUME NEW q \in Ranks PROVE MayCut(q)'
  BY <1>3 DEF StepInv, MayCut, OneMoves
<1>. QED  BY <1>1, <1>2, <1>3 DEF StepInv

LEMMA OneCalls ==
    ASSUME StepInv, NEW r \in Ranks, OneMoves(r, "balance"), at[r] = "partition", config.use_dynamic_bsz,
           num'[r] = num[r]
    PROVE  StepInv'
<1>1. \A q \in Ranks : Cuts(q)' = Cuts(q) /\ num'[q] = num[q]
  BY DEF OneMoves, Cuts
<1>2. ASSUME NEW p \in Ranks, NEW q \in Ranks PROVE Together(p, q)'
  <2>1. Together(p, q) /\ at'[r] = "balance"
    BY DEF StepInv, OneMoves
  <2>2. /\ Alike(todo'[p], todo'[q]) /\ Busy' = Busy
        /\ at'[p] \in Busy <=> at[p] \in Busy
        /\ at'[q] \in Busy <=> at[q] \in Busy
    BY <2>1 DEF Together, OneMoves, Busy
  <2>3. ASSUME config.use_dynamic_bsz, at'[p] \in {"prepare", "reduce"} PROVE at'[q] \in {"prepare", "reduce"}
    BY <2>1, <2>3 DEF Together, OneMoves
  <2>4. ASSUME at'[p] = "forward"
        PROVE  Len(micro'[p]) = IF at'[q] = "forward" THEN Len(micro'[q]) ELSE Cuts(p)
    BY <2>1, <2>4 DEF Together, OneMoves
  <2>. QED  BY <1>1, <2>1, <2>2, <2>3, <2>4 DEF Together, OneMoves
<1>3. ASSUME NEW q \in Ranks PROVE MayCut(q)'
  BY <1>3 DEF StepInv, MayCut, OneMoves
<1>. QED  BY <1>2, <1>3 DEF StepInv

LEMMA OneEnters ==
    ASSUME StepInv, NEW r \in Ranks, OneMoves(r, "forward"), at[r] \in Busy, at[r] # "forward", num'[r] = num[r],
           Len(micro'[r]) = Cuts(r)
    PROVE  StepInv'
<1>1. \A q \in Ranks : Cuts(q)' = Cuts(q) /\ num'[q] = num[q]
  BY DEF OneMoves, Cuts
<1>2. ASSUME NEW q \in Ranks PROVE at[q] \in Busy /\ Cuts(r) = Cuts(q) /\ at'[q] \in Busy
  BY DEF StepInv, Together, OneMoves, Busy
<1>3. ASSUME NEW p \in Ranks, NEW q \in Ranks PROVE Together(p, q)'
  <2>1. Together(p, q) /\ Together(q, p) /\ at'[r] = "forward"
    BY DEF StepInv, OneMoves
  <2>2. Alike(todo'[p], todo'[q]) /\ Busy' = Busy /\ at'[p] \in Busy /\ at'[q] \in Busy /\ Cuts(p) = Cuts(q)
    BY <1>2, <2>1 DEF Together, OneMoves, Busy
  <2>3. config.use_dynamic_bsz => at'[p] \notin {"prepare", "reduce"}
    BY <2>2 DEF Busy
  <2>4. ASSUME at'[p] = "forward"
        PROVE  Len(micro'[p]) = IF at'[q] = "forward" THEN Len(micro'[q]) ELSE Cuts(p)
    <3>1. CASE p = r /\ q = r
      BY <2>1, <3>1
    <3>2. CASE p = r /\ q # r
      BY <1>2, <2>1, <2>2, <3>2 DEF Together, OneMoves
    <3>3. CASE p # r /\ q = r
      BY <1>2, <2>1, <2>2, <2>4, <3>3 DEF Together, OneMoves
    <3>4. CASE p # r /\ q # r
      BY <2>1, <2>4, <3>4 DEF Together, OneMoves
    <3>. QED  BY <3>1, <3>2, <3>3, <3>4
  <2>. QED  BY <1>1, <2>2, <2>3, <2>4 DEF Together, OneMoves
<1>4. ASSUME NEW q \in Ranks PROVE MayCut(q)'
  BY <1>4 DEF StepInv, MayCut, OneMoves
<1>. QED  BY <1>3, <1>4 DEF StepInv

LEMMA OneReturns ==
    ASSUME StepInv, NEW r \in Ranks, OneMoves(r, "returned"), at[r] = "forwarded", num'[r] = num[r]
    PROVE  StepInv'
<1>1. \A q \in Ranks : Cuts(q)' = Cuts(q) /\ num'[q] = num[q]
  BY DEF OneMoves, Cuts
<1>2. ASSUME NEW p \in Ranks, NEW q \in Ranks PROVE Together(p, q)'
  <2>1. Together(p, q) /\ at'[r] = "returned" /\ Busy' = Busy
    BY DEF StepInv, OneMoves, Busy
  <2>. QED  BY <1>1, <2>1 DEF Together, OneMoves, Busy
<1>3. ASSUME NEW q \in Ranks PROVE MayCut(q)'
  BY <1>3 DEF StepInv, MayCut, OneMoves
<1>. QED  BY <1>2, <1>3 DEF StepInv

LEMMA SameCuts ==
    ASSUME ~ config'.use_dynamic_bsz, NEW T, NEW r, NEW q, todo'[r] \in Seq(Seq(T)), todo'[q] \in Seq(Seq(T)),
           Alike(todo'[r], todo'[q]), todo'[r] # <<>>
    PROVE  Cuts(r)' = Cuts(q)'
<1>1. Len(Head(todo'[r])) = Len(Head(todo'[q]))
  BY AlikeHeads
<1>. QED  BY <1>1 DEF Cuts

LEMMA InitStep == Init => StepInv
<1>. SUFFICES ASSUME Init PROVE StepInv
  OBVIOUS
<1>1. \A r \in Ranks : at[r] = "idle" /\ todo[r] = <<>>
  BY DEF Init
<1>2. Alike(<<>>, <<>>)
  BY DEF Alike
<1>. QED  BY <1>1, <1>2 DEF StepInv, Together, MayCut, Busy

LEMMA DispatchSteps ==
    ASSUME TBInv, StepInv, NEW next, NEW work, Dispatch(work, next),
           work = [r \in Ranks |-> WorkAt(next, batch.rows, r)]
    PROVE  StepInv'
<1>1. UNCHANGED <<num, micro, config>>
  BY DEF Dispatch
<1>2. CASE at' = at /\ todo' = todo
  BY <1>1, <1>2, FrameStep
<1>3. CASE /\ Len(batch.rows) % DPSize = 0 /\ todo' = work
           /\ at' = [r \in Ranks |-> "prepare"]
  <2>1. batch.rows \in Seq(Rows) /\ batch.rows # <<>> /\ Distinct(batch.rows)
    BY DEF TBInv, BatchOK
  <2>. DEFINE rows == batch.rows
  <2>2. \A r \in Ranks : todo'[r] = WorkAt(next, rows, r)
    BY <1>3
  <2>. HIDE DEF rows
  <2>3. ASSUME NEW r \in Ranks PROVE todo'[r] \in Seq(Seq(Rows)) /\ todo'[r] # <<>>
    <3>. DEFINE w == WorkAt(next, rows, r)
                n == CountAt(next, rows)
    <3>1. Worked(Rows, rows, r, w, n)
      BY <1>3, <2>1, WorkIs DEF rows
    <3>. HIDE DEF w, n
    <3>2. w \in Seq(Seq(Rows)) /\ Len(w) \in Nat \ {0}
      BY <3>1 DEF Worked
    <3>. DEFINE S == Seq(Rows)
    <3>3. w \in Seq(S)
      BY <3>2
    <3>. HIDE DEF S
    <3>4. w # <<>>
      BY <3>2, <3>3, EmptyWhen
    <3>. QED  BY <2>2, <3>2, <3>4 DEF w
  <2>4. ASSUME NEW r \in Ranks, NEW q \in Ranks PROVE Alike(todo'[r], todo'[q])
    <3>1. Alike(WorkAt(next, rows, r), WorkAt(next, rows, q))
      BY <1>3, <2>1, WorkAlike DEF rows
    <3>. QED  BY <2>2, <3>1
  <2>5. ASSUME NEW r \in Ranks, NEW q \in Ranks, "prepare" \in Busy' PROVE Cuts(r)' = Cuts(q)'
    <3>1. ~ config'.use_dynamic_bsz
      BY <2>5 DEF Busy
    <3>. QED  BY <2>3, <2>4, <3>1, SameCuts
  <2>6. \A r \in Ranks : at'[r] = "prepare"
    BY <1>3
  <2>. QED  BY <2>4, <2>5, <2>6, AllMove
<1>. QED  BY <1>2, <1>3 DEF Dispatch

LEMMA DriveSteps ==
    ASSUME TBInv, StepInv, Drive
    PROVE  StepInv'
<1>1. CASE Validate \/ CollectValidation \/ EndValidation \/ GenerateSequences \/ Union
  BY <1>1, FrameStep DEF Validate, CollectValidation, EndValidation, GenerateSequences, Union, rankVars
<1>2. CASE Balance \/ Reorder \/ LaunchReward \/ Filter \/ Finish
  BY <1>2, FrameStep DEF Balance, Reorder, LaunchReward, Filter, Finish, rankVars
<1>3. CASE KKStep(Driver) /\ UNCHANGED <<driverVars, rankVars, genVars, config, seqlen, trained>>
  BY <1>3, FrameStep DEF rankVars
<1>4. CASE ComputeLogProb
  <2>. DEFINE work == [r \in Ranks |-> <<ChunkOf(batch.rows, DPSize, r)>>]
  <2>1. Dispatch(work, "computing")
    BY <1>4 DEF ComputeLogProb
  <2>2. work = [r \in Ranks |-> WorkAt("computing", batch.rows, r)]
    BY DEF WorkAt
  <2>. HIDE DEF work
  <2>. QED  BY <2>1, <2>2, DispatchSteps
<1>5. CASE UpdateActor
  <2>. DEFINE work == [r \in Ranks |-> MiniBatches(ChunkOf(batch.rows, DPSize, r))]
  <2>1. Dispatch(work, "updating")
    BY <1>5 DEF UpdateActor
  <2>2. work = [r \in Ranks |-> WorkAt("updating", batch.rows, r)]
    BY DEF WorkAt, Mini
  <2>. HIDE DEF work
  <2>. QED  BY <2>1, <2>2, DispatchSteps
<1>6. CASE Collect
  <2>1. (\A r \in Ranks : at'[r] = "idle") /\ todo' = todo
    BY <1>6 DEF Collect
  <2>2. \A r, q \in Ranks : Alike(todo'[r], todo'[q])
    BY <2>1 DEF StepInv, Together
  <2>3. "idle" \notin Busy'
    BY DEF Busy
  <2>. QED  BY <2>1, <2>2, <2>3, AllMove
<1>. QED  BY <1>1, <1>2, <1>3, <1>4, <1>5, <1>6 DEF Drive

LEMMA CountSteps ==
    ASSUME TBInv, StepInv, NEW r \in Ranks, Count(r), config' = config
    PROVE  StepInv'
<1>. DEFINE h == Head(todo[r])
            c == CeilDiv(Total(h), MaxTokenLen)
            n == Minimum(Len(h), c)
            l == Len(h)
<1>1. /\ at[r] = "prepare" /\ config.use_dynamic_bsz /\ num' = [num EXCEPT ![r] = n]
      /\ at' = [at EXCEPT ![r] = "reduce"] /\ todo' = todo /\ micro' = micro
  BY DEF Count
<1>2. h \in Seq(Rows) /\ seqlen \in [Rows -> Lengths] /\ l \in 1 .. Cardinality(Rows) /\ Cardinality(Rows) \in Nat
  BY <1>1, HeadIs, ConfigIs DEF AtBatch, TBInv
<1>3. RanksTyped
  BY DEF TBInv
<1>4. h # <<>>
  <2>. HIDE DEF h
  <2>. QED  BY <1>2, EmptyWhen
<1>5. Total(h) \in Nat \ {0} /\ MaxTokenLen \in Nat \ {0}
  BY <1>2, <1>4, TotalPositive, TrainingBatchAssumption
<1>6. c \in Nat /\ c >= 1
  <2>. DEFINE t == Total(h)
  <2>1. t \in Nat /\ t > 0
    BY <1>5
  <2>. HIDE DEF t
  <2>2. CeilDiv(t, MaxTokenLen) \in Nat /\ CeilDiv(t, MaxTokenLen) >= 1
    BY <1>5, <2>1, Ceiling
  <2>. QED  BY <2>2 DEF t
<1>. HIDE DEF c, l
<1>7. Minimum(l, c) \in 1 .. l
  BY <1>2, <1>6 DEF Minimum
<1>8. n \in 1 .. Len(Head(todo[r]))
  BY <1>7 DEF l
<1>. HIDE DEF n, h
<1>9. OneMoves(r, "reduce") /\ num'[r] = n
  BY <1>1, <1>3 DEF OneMoves, RanksTyped
<1>. QED  BY <1>1, <1>8, <1>9, OneCounts

LEMMA PartitionSteps ==
    ASSUME TBInv, StepInv, NEW r \in Ranks, Partition(r), config' = config
    PROVE  StepInv'
<1>1. /\ at[r] = "partition" /\ at' = [at EXCEPT ![r] = "balance"] /\ todo' = todo /\ num' = num /\ micro' = micro
  BY DEF Partition
<1>2. RanksTyped /\ RankOK(r)
  BY <1>1, HeadIs DEF TBInv, WorkOK
<1>3. config.use_dynamic_bsz
  BY <1>1, <1>2 DEF RankOK
<1>4. OneMoves(r, "balance")
  BY <1>1, <1>2 DEF OneMoves, RanksTyped
<1>. QED  BY <1>1, <1>3, <1>4, OneCalls

LEMMA MicroBatchesStep ==
    ASSUME TBInv, StepInv, NEW r \in Ranks, MicroBatches(r), config' = config
    PROVE  StepInv'
<1>. DEFINE k == num[r]
            P == partitions[r]
<1>1. at[r] = "balance" /\ at' = [at EXCEPT ![r] = "forward"] /\ todo' = todo /\ num' = num
  BY DEF MicroBatches
<1>2. PICK p \in Bijection(1 .. k, 1 .. k) :
        LET sorted   == [i \in 1 .. k |-> P[p[i]]]
            idx_list == [i \in 1 .. k |-> Ascending(sorted[i])]
        IN  micro' = [micro EXCEPT ![r] = idx_list]
  BY DEF MicroBatches
<1>. DEFINE Q == [i \in 1 .. k |-> P[p[i]]]
            s == [i \in 1 .. k |-> Ascending(Q[i])]
<1>3. micro' = [micro EXCEPT ![r] = s]
  BY <1>2
<1>4. RanksTyped /\ RankOK(r) /\ config \in Configs
  BY <1>1, HeadIs DEF TBInv, WorkOK
<1>5. config.use_dynamic_bsz
  BY <1>1, <1>4 DEF RankOK
<1>6. k \in Nat
  BY <1>4, ConfigIs DEF RanksTyped
<1>. HIDE DEF k
<1>7. Len(s) = k
  BY <1>6
<1>. HIDE DEF s
<1>8. OneMoves(r, "forward") /\ micro'[r] = s
  BY <1>1, <1>3, <1>4 DEF OneMoves, RanksTyped
<1>9. Cuts(r) = k /\ at[r] \in Busy /\ at[r] # "forward" /\ num'[r] = num[r]
  BY <1>1, <1>5 DEF Cuts, Busy, k
<1>. QED  BY <1>7, <1>8, <1>9, OneEnters

LEMMA SliceSteps ==
    ASSUME TBInv, StepInv, NEW r \in Ranks, SliceMicroBatches(r), config' = config
    PROVE  StepInv'
<1>. DEFINE h == Head(todo[r])
            all == [i \in DOMAIN h |-> i]
            m == Split(all, MicroBatchSize)
<1>1. /\ at[r] = "prepare" /\ ~ config.use_dynamic_bsz /\ at' = [at EXCEPT ![r] = "forward"]
      /\ micro' = [micro EXCEPT ![r] = m] /\ todo' = todo /\ num' = num
  BY DEF SliceMicroBatches
<1>2. RanksTyped /\ h \in Seq(Rows) /\ MicroBatchSize \in Nat \ {0}
  BY <1>1, HeadIs, TrainingBatchAssumption DEF TBInv, AtBatch
<1>. HIDE DEF h
<1>3. all \in Seq(Nat) /\ Len(all) = Len(h)
  BY <1>2
<1>. HIDE DEF all
<1>4. Len(m) = CeilDiv(Len(h), MicroBatchSize)
  BY <1>2, <1>3, SplitIs
<1>. HIDE DEF m
<1>5. OneMoves(r, "forward") /\ micro'[r] = m
  BY <1>1, <1>2 DEF OneMoves, RanksTyped
<1>6. Cuts(r) = Len(m) /\ at[r] \in Busy /\ at[r] # "forward" /\ num'[r] = num[r]
  BY <1>1, <1>4 DEF Cuts, Busy, h
<1>. QED  BY <1>5, <1>6, OneEnters

LEMMA RankSteps ==
    ASSUME TBInv, StepInv, NEW r \in Ranks, Rank(r)
    PROVE  StepInv'
<1>1. config' = config
  BY DEF Rank
<1>2. CASE Count(r) \/ Partition(r) \/ MicroBatches(r) \/ SliceMicroBatches(r)
  BY <1>1, <1>2, CountSteps, PartitionSteps, MicroBatchesStep, SliceSteps
<1>3. CASE Restore(r)
  <2>1. OneMoves(r, "returned") /\ at[r] = "forwarded" /\ num' = num
    BY <1>1, <1>3 DEF Restore, OneMoves, TBInv, RanksTyped
  <2>. QED  BY <2>1, OneReturns
<1>4. CASE UNCHANGED rankVars
  BY <1>1, <1>4, FrameStep DEF rankVars
<1>. QED  BY <1>2, <1>3, <1>4 DEF Rank

\* The number that the ranks agree on is that of one of them.
LEMMA AgreedIsSomeones ==
    ASSUME NEW n \in Nat, num \in [Ranks -> 0 .. n], NEW r \in Ranks
    PROVE  \E q \in Ranks : Agreed(r) = num[q]
<1>1. \E m \in Range(num) : \A q \in Ranks : num[q] <= m
  BY LargestExists
<1>2. Agreed(r) \in Range(num)
  BY <1>1 DEF Agreed
<1>. QED  BY <1>2 DEF Range

LEMMA AgreeSteps ==
    ASSUME TBInv, StepInv, AllReduceMax
    PROVE  StepInv'
<1>1. /\ \A r \in Ranks : at[r] = "reduce" /\ at'[r] = "partition" /\ num'[r] = Agreed(r)
      /\ todo' = todo /\ config' = config
  BY DEF AllReduceMax, AllAt
<1>2. \A r, q \in Ranks : Alike(todo'[r], todo'[q])
  BY <1>1 DEF StepInv, Together
<1>3. config.use_dynamic_bsz
  <2>1. RankOK(1)
    BY <1>1, RanksAre, HeadIs DEF TBInv, WorkOK
  <2>. QED  BY <1>1, <2>1, RanksAre DEF RankOK
<1>4. \A r, q \in Ranks : Cuts(r)' = Cuts(q)'
  <2>1. \A r, q \in Ranks : Agreed(r) = Agreed(q)
    BY DEF Agreed
  <2>. QED  BY <1>1, <1>3, <2>1 DEF Cuts
<1>5. ASSUME NEW r \in Ranks PROVE num'[r] \in 1 .. Len(Head(todo'[r]))
  <2>. DEFINE n == Cardinality(Rows)
  <2>1. n \in Nat /\ num \in [Ranks -> 0 .. n]
    BY ConfigIs DEF TBInv, RanksTyped
  <2>. HIDE DEF n
  <2>2. PICK q \in Ranks : Agreed(r) = num[q]
    BY <2>1, AgreedIsSomeones
  <2>3. num[q] \in 1 .. Len(Head(todo[q]))
    BY <1>1 DEF StepInv, MayCut
  <2>4. Len(Head(todo[q])) = Len(Head(todo[r]))
    <3>1. todo[q] \in Seq(Seq(Rows)) /\ todo[r] \in Seq(Seq(Rows)) /\ Alike(todo[q], todo[r])
      BY DEF TBInv, RanksTyped, StepInv, Together
    <3>2. todo[q] # <<>>
      BY <1>1, HeadIs DEF TBInv, WorkOK, RankOK
    <3>. QED  BY <3>1, <3>2, AlikeHeads
  <2>. QED  BY <1>1, <2>2, <2>3, <2>4
<1>. QED  BY <1>1, <1>2, <1>4, <1>5, AllMove

LEMMA ForwardSteps ==
    ASSUME TBInv, StepInv, Forward
    PROVE  StepInv'
<1>1. /\ \A r \in Ranks : at[r] = "forward" /\ micro'[r] = Tail(micro[r])
      /\ at' = [r \in Ranks |-> IF Len(micro[r]) > 1 THEN "forward" ELSE "forwarded"]
      /\ todo' = todo /\ config' = config /\ num' = num
  BY DEF Forward, AllAt
<1>2. \A r, q \in Ranks : Alike(todo'[r], todo'[q])
  BY <1>1 DEF StepInv, Together
<1>3. \A r, q \in Ranks : Cuts(r)' = Cuts(q)'
  BY <1>1 DEF StepInv, Together, Busy, Cuts
<1>4. \A r, q \in Ranks : Len(micro[r]) = Len(micro[q])
  BY <1>1 DEF StepInv, Together
<1>5. ASSUME NEW r \in Ranks PROVE Len(micro'[r]) = Len(micro[r]) - 1
  <2>. DEFINE T == Seq(1 .. Len(Head(todo[r])))
              m == micro[r]
  <2>1. m \in Seq(T) /\ m # <<>>
    BY <1>1, HeadIs DEF TBInv, WorkOK, RankOK
  <2>. HIDE DEF T, m
  <2>2. Len(Tail(m)) = Len(m) - 1
    BY <2>1
  <2>. QED  BY <1>1, <2>2 DEF m
<1>6. \A r, q \in Ranks : Len(micro'[r]) = Len(micro'[q])
  BY <1>4, <1>5
<1>. DEFINE a == IF Len(micro[1]) > 1 THEN "forward" ELSE "forwarded"
<1>7. \A r \in Ranks : at'[r] = a
  BY <1>1, <1>4, RanksAre
<1>8. a \notin {"reduce", "partition"}
  OBVIOUS
<1>. HIDE DEF a
<1>. QED  BY <1>2, <1>3, <1>6, <1>7, <1>8, AllMove

LEMMA OptimizerSteps ==
    ASSUME TBInv, StepInv, OptimizerStep
    PROVE  StepInv'
<1>1. /\ \A r \in Ranks : at[r] = "forwarded" /\ todo'[r] = Tail(todo[r])
      /\ at' = [r \in Ranks |-> IF Len(todo[r]) > 1 THEN "prepare" ELSE "returned"]
      /\ config' = config
  BY DEF OptimizerStep, AllAt
<1>2. ASSUME NEW r \in Ranks PROVE todo[r] \in Seq(Seq(Rows)) /\ todo[r] # <<>>
  BY <1>1, HeadIs DEF TBInv, RanksTyped, WorkOK, RankOK
<1>3. ASSUME NEW r \in Ranks, NEW q \in Ranks
      PROVE  /\ Alike(todo'[r], todo'[q]) /\ Len(todo[r]) = Len(todo[q])
             /\ todo'[r] \in Seq(Seq(Rows)) /\ (Len(todo[r]) > 1 => todo'[r] # <<>>)
  <2>1. Alike(todo[r], todo[q])
    BY DEF StepInv, Together
  <2>2. /\ Alike(Tail(todo[r]), Tail(todo[q])) /\ Tail(todo[r]) \in Seq(Seq(Rows))
        /\ Len(todo[r]) > 1 => Tail(todo[r]) # <<>>
    BY <1>2, <2>1, AlikeHeads
  <2>. QED  BY <1>1, <2>1, <2>2 DEF Alike
<1>. DEFINE a == IF Len(todo[1]) > 1 THEN "prepare" ELSE "returned"
<1>4. \A r \in Ranks : at'[r] = a
  BY <1>1, <1>3, RanksAre
<1>5. ASSUME a \in Busy', NEW r \in Ranks, NEW q \in Ranks PROVE Cuts(r)' = Cuts(q)'
  <2>1. ~ config'.use_dynamic_bsz /\ Len(todo[1]) > 1
    BY <1>5 DEF Busy
  <2>2. todo'[r] # <<>>
    BY <1>3, <2>1, RanksAre
  <2>. QED  BY <1>3, <2>1, <2>2, SameCuts
<1>6. a \notin {"forward", "reduce", "partition"}
  OBVIOUS
<1>. HIDE DEF a
<1>. QED  BY <1>3, <1>4, <1>5, <1>6, AllMove

LEMMA StepInvKeeps == TBInv /\ StepInv /\ [Next]_vars => StepInv'
<1>. SUFFICES ASSUME TBInv, StepInv, [Next]_vars PROVE StepInv'
  OBVIOUS
<1>1. CASE Drive
  BY <1>1, DriveSteps
<1>2. ASSUME NEW r \in Ranks, Rank(r) PROVE StepInv'
  BY <1>2, RankSteps
<1>3. CASE Generate
  BY <1>3, FrameStep DEF Generate, GenerateChunk, rankVars
<1>4. CASE AllReduceMax \/ Forward \/ OptimizerStep
  BY <1>4, AgreeSteps, ForwardSteps, OptimizerSteps
<1>5. CASE UNCHANGED vars
  BY <1>5, FrameStep DEF vars, rankVars
<1>. QED  BY <1>1, <1>2, <1>3, <1>4, <1>5 DEF Next

\* A rank that waits in the all_reduce of rearrange_micro_batches waits for ranks that get there; one that waits in
\* a forward pass waits for ranks that run it with as many micro-batches left; and the number of micro-batches that
\* the ranks agreed on is one that get_seqlen_balanced_partitions accepts for the rows of each of them.
THEOREM RanksStayInStep == Spec => []RanksInStep
<1>1. Init => TBInv /\ StepInv
  BY InitOK, InitStep
<1>2. TBInv /\ StepInv /\ [Next]_vars => (TBInv /\ StepInv)'
  BY TBStepKeeps, StepInvKeeps
<1>3. TBInv /\ StepInv => RanksInStep
  <2>. SUFFICES ASSUME TBInv, StepInv, NEW r \in Ranks, NEW q \in Ranks
                PROVE  /\ at[r] = "reduce" => at[q] \in {"prepare", "reduce"}
                       /\ at[r] = "partition" => MayCall(LengthsOf(Head(todo[r])), num[r], FALSE)
                       /\ at[r] = "forward" =>
                            /\ at[q] \in IF config.use_dynamic_bsz THEN {"partition", "balance", "forward"}
                                         ELSE {"prepare", "forward"}
                            /\ at[q] = "forward" => Len(micro[q]) = Len(micro[r])
    BY DEF RanksInStep
  <2>1. Together(r, q) /\ MayCut(r)
    BY DEF StepInv
  <2>2. ASSUME at[r] = "reduce" PROVE at[q] \in {"prepare", "reduce"}
    <3>1. config.use_dynamic_bsz
      BY <2>2, HeadIs DEF TBInv, WorkOK, RankOK
    <3>. QED  BY <2>1, <2>2, <3>1 DEF Together
  <2>3. ASSUME at[r] = "partition" PROVE MayCall(LengthsOf(Head(todo[r])), num[r], FALSE)
    <3>. DEFINE h == Head(todo[r])
    <3>1. h \in Seq(Rows) /\ seqlen \in [Rows -> Lengths]
      BY <2>3, HeadIs DEF AtBatch
    <3>2. num[r] \in 1 .. Len(h)
      BY <2>1, <2>3 DEF MayCut
    <3>. HIDE DEF h
    <3>3. Len(LengthsOf(h)) = Len(h)
      BY <3>1, LengthsTyped
    <3>. QED  BY <3>2, <3>3 DEF MayCall, h
  <2>. QED  BY <2>1, <2>2, <2>3 DEF Together, Busy
<1>. QED  BY <1>1, <1>2, <1>3, PTL DEF Spec

LEMMA GlobalIdxPermutes ==
    ASSUME TBInv, Reorder
    PROVE  Permutes(GlobalIdx, Len(batch.rows))
<1>. DEFINE rows == batch.rows
            n == Len(rows)
            P == partitions[Driver]
            s == [i \in 1 .. WorldSize |-> Ascending(P[i])]
<1>1. phase = "balancing" /\ P # <<>>
  BY DEF Reorder
<1>2. KKInv /\ config \in Configs /\ BatchOK
  BY DEF TBInv
<1>3. rows \in Seq(Rows) /\ seqlen \in [Rows -> Lengths]
  BY <1>1, <1>2 DEF BatchOK, Early
<1>4. LengthsOf(rows) = call[Driver].seqlen_list /\ call[Driver].k_partitions = WorldSize
  BY <1>1, <1>2 DEF BatchOK
<1>5. DOMAIN LengthsOf(rows) = 1 .. n /\ n \in Nat
  BY <1>3, LengthsTyped
<1>6. Exact(P, LengthsOf(rows), WorldSize, call[Driver].equal_size)
  BY <1>1, <1>2, <1>4, RanksAre DEF KKInv, ReturnedOK
<1>7. /\ P \in [1 .. WorldSize -> SUBSET (1 .. n)]
      /\ \A x \in 1 .. n : \E i \in 1 .. WorldSize : x \in P[i]
      /\ \A i, j \in 1 .. WorldSize : i # j => P[i] \cap P[j] = {}
  BY <1>5, <1>6 DEF Exact
<1>8. WorldSize \in Nat
  BY <1>2, ConfigIs
<1>9. GlobalIdx = FlattenSeq(s)
  BY DEF GlobalIdx
<1>. HIDE DEF s, P, n, rows
<1>10. s = [i \in 1 .. WorldSize |-> Ascending(P[i])]
  BY DEF s
<1>11. Permutes(FlattenSeq(s), n)
  BY <1>5, <1>7, <1>8, <1>10, PartitionPermutes
<1>. QED  BY <1>9, <1>11 DEF n, rows

-----------------------------------------------------------------------------
(* The driver raises over nothing but the sizes it was given *)

\* What is left of d itself and of a smaller number.
LEMMA DividedBySmall ==
    ASSUME NEW d \in Nat \ {0}
    PROVE  d % d = 0 /\ \A m \in 0 .. d - 1 : m % d = m
<1>. DEFINE zero == 0
            one == 1
<1>0. d \in Nat /\ zero \in Nat /\ one \in Nat /\ zero \in 0 .. d - 1 /\ d = one * d + zero
  OBVIOUS
<1>1. ASSUME NEW m \in 0 .. d - 1 PROVE m % d = m
  <2>1. m \in Nat /\ m = zero * d + m
    OBVIOUS
  <2>. HIDE DEF zero
  <2>. QED  BY <1>0, <2>1, Divided
<1>2. d % d = zero
  <2>. HIDE DEF zero, one
  <2>. QED  BY <1>0, Divided
<1>. QED  BY <1>1, <1>2

LEMMA Divides ==
    ASSUME NEW d \in Nat \ {0}, NEW n \in Nat
    PROVE  n % d = 0 <=> \E q \in Nat : n = q * d
<1>1. ASSUME n % d = 0 PROVE \E q \in Nat : n = q * d
  <2>. DEFINE q == n \div d
              r == n % d
  <2>1. q \in Nat /\ n = q * d + r /\ r = 0
    BY <1>1, Quotient
  <2>. HIDE DEF q, r
  <2>2. n = q * d
    <3>. DEFINE x == q * d
    <3>1. x \in Nat
      BY <2>1
    <3>2. n = x + r
      BY <2>1
    <3>. HIDE DEF x
    <3>3. n = x
      BY <2>1, <3>1, <3>2
    <3>. QED  BY <3>3 DEF x
  <2>. QED  BY <2>1, <2>2
<1>2. ASSUME NEW q \in Nat, n = q * d PROVE n % d = 0
  <2>1. n = q * d + 0 /\ 0 \in 0 .. d - 1 /\ 0 \in Nat
    <3>. DEFINE x == q * d
    <3>1. x \in Nat /\ n = x
      BY <1>2
    <3>. HIDE DEF x
    <3>2. n = x + 0
      BY <3>1
    <3>. QED  BY <3>2 DEF x
  <2>. QED  BY <2>1, Divided
<1>. QED  BY <1>1, <1>2

\* What divides into d * s parts divides into d.
LEMMA DividesPart ==
    ASSUME NEW d \in Nat \ {0}, NEW s \in Nat \ {0}, NEW n \in Nat, d * s \in Nat \ {0}, n % (d * s) = 0
    PROVE  n % d = 0
<1>. DEFINE w == d * s
<1>1. \E q \in Nat : n = q * w
  <2>1. w \in Nat \ {0} /\ n % w = 0
    OBVIOUS
  <2>. HIDE DEF w
  <2>. QED  BY <2>1, Divides
<1>2. PICK q \in Nat : n = q * w
  BY <1>1
<1>3. q * w = (q * s) * d /\ q * s \in Nat
  OBVIOUS
<1>. QED  BY <1>2, <1>3, Divides

LEMMA PadDivides ==
    ASSUME NEW rows \in Seq(Nat), Len(rows) # 0, NEW d \in Nat \ {0}
    PROVE  Len(Pad(rows, d)) \in Nat /\ Len(Pad(rows, d)) % d = 0
<1>. DEFINE n == Len(rows)
            r == n % d
            q == n \div d
            m == d - r
            size == PadSize(n, d)
            x == q * d
<1>1. n \in Nat
  OBVIOUS
<1>2. q \in Nat /\ r \in 0 .. d - 1 /\ n = x + r /\ x \in Nat /\ (q + 1) * d = x + d
  <2>1. q \in Nat /\ r \in 0 .. d - 1 /\ n = x + r
    BY <1>1, Quotient
  <2>. HIDE DEF q, r
  <2>2. x \in Nat /\ (q + 1) * d = x + d
    BY <2>1
  <2>. QED  BY <2>1, <2>2
<1>3. size = m % d
  BY DEF PadSize
<1>4. Len(Pad(rows, d)) = n + size
  <2>1. size \in Nat
    BY PadIs
  <2>. HIDE DEF size, n
  <2>2. Pad(rows, d) = [i \in 1 .. n + size |-> rows[((i - 1) % n) + 1]]
    BY DEF Pad, n, size
  <2>3. n + size \in Nat
    BY <1>1, <2>1
  <2>. QED  BY <2>2, <2>3
<1>. HIDE DEF n, size, q, x
<1>5. \E p \in Nat : n + size = p * d
  <2>1. CASE r = 0
    <3>1. m = d
      BY <2>1
    <3>. HIDE DEF m
    <3>2. m % d = 0
      BY <3>1, DividedBySmall
    <3>3. n + size = q * d
      BY <1>2, <1>3, <2>1, <3>2 DEF x
    <3>. QED  BY <1>2, <3>3
  <2>2. CASE r # 0
    <3>. HIDE DEF r
    <3>1. m \in Nat /\ m \in 0 .. d - 1 /\ m + r = d
      BY <1>2, <2>2
    <3>. HIDE DEF m
    <3>2. m % d = m
      BY <3>1, DividedBySmall
    <3>3. n + size = (q + 1) * d
      BY <1>1, <1>2, <1>3, <3>1, <3>2
    <3>4. q + 1 \in Nat
      BY <1>2
    <3>. QED  BY <3>3, <3>4
  <2>. QED  BY <2>1, <2>2
<1>6. size \in Nat
  BY PadIs DEF size, n
<1>7. n + size \in Nat
  BY <1>1, <1>6
<1>. DEFINE t == n + size
<1>8. t \in Nat /\ \E p \in Nat : t = p * d
  BY <1>5, <1>7
<1>. HIDE DEF t
<1>9. t % d = 0
  BY <1>8, Divides
<1>. QED  BY <1>4, <1>7, <1>9 DEF t

\* Engines split the ranks evenly.
LEMMA EnginesDivide ==
    ASSUME config \in Configs
    PROVE  /\ Engines \in Nat \ {0} /\ WorldSize \in Nat \ {0} /\ DPSize \in Nat \ {0}
           /\ \A n \in Nat : n % WorldSize = 0 => n % Engines = 0 /\ n % DPSize = 0
<1>. DEFINE s == config.sp_size
            t == config.tp_size
            w == WorldSize
            e == w \div t
<1>1. s \in Nat \ {0} /\ t \in Nat \ {0} /\ DPSize \in Nat \ {0} /\ (DPSize * s) % t = 0
  BY TrainingBatchAssumption
<1>2. w \in Nat \ {0} /\ Engines \in Nat \ {0} /\ RolloutRanks = 1 .. Engines /\ w = DPSize * s /\ RolloutRanks = 1 .. e
  BY ConfigIs DEF WorldSize, RolloutRanks
<1>. HIDE DEF s, t
<1>3. w % t = 0
  BY <1>1, <1>2
<1>. HIDE DEF w
<1>4. e \in Nat /\ w = e * t
  <2>. DEFINE r == w % t
              x == e * t
  <2>1. e \in Nat /\ w = x + r /\ r = 0
    BY <1>1, <1>2, <1>3, Quotient
  <2>. HIDE DEF r, e
  <2>2. x \in Nat
    BY <1>1, <2>1
  <2>. HIDE DEF x
  <2>3. w = x
    BY <2>1, <2>2
  <2>. QED  BY <2>1, <2>3 DEF x
<1>. HIDE DEF e
<1>5. Engines = e
  BY <1>2, <1>4, IntervalCounts DEF Engines
<1>6. ASSUME NEW n \in Nat, n % w = 0 PROVE n % Engines = 0 /\ n % DPSize = 0
  <2>1. n % e = 0
    <3>1. e \in Nat \ {0} /\ e * t \in Nat \ {0} /\ n % (e * t) = 0
      BY <1>2, <1>4, <1>5, <1>6
    <3>. QED  BY <1>1, <3>1, DividesPart
  <2>2. n % DPSize = 0
    <3>1. DPSize * s \in Nat \ {0} /\ n % (DPSize * s) = 0
      BY <1>2, <1>6
    <3>. QED  BY <1>1, <3>1, DividesPart
  <2>. QED  BY <1>5, <2>1, <2>2
<1>. QED  BY <1>1, <1>2, <1>6 DEF w

\* The groups that filtering keeps are whole.
LEMMA GroupsAreWhole ==
    ASSUME NEW rows, NEW keep, NEW kept, config \in Configs,
           Permutes(rows, Cardinality(Rows)), kept = {i \in DOMAIN rows : Uid(rows[i]) \in keep}
    PROVE  \E k \in Nat : Cardinality(kept) = k * config.rollout_n
<1>. DEFINE a == config.train_batch_size
            n == config.rollout_n
            J == 1 .. n
            E == {e \in 1 .. a : e - 1 \in keep}
            D == E \X J
            K == {row \in Rows : Uid(row) \in keep}
            g == [p \in D |-> Place(p[1], n, p[2])]
            h == [i \in kept |-> rows[i]]
<1>. DEFINE l == a * n
<1>0. a \in Nat /\ n \in Nat \ {0} /\ Rows = 1 .. l /\ \A row : Uid(row) = (row - 1) \div n
  BY ConfigIs DEF Rows, Uid
<1>. HIDE DEF a, n
<1>1. /\ a \in Nat /\ n \in Nat \ {0}
      /\ \A e \in 1 .. a : \A j \in 1 .. n : Place(e, n, j) \in Rows /\ Uid(Place(e, n, j)) = e - 1
      /\ \A row \in Rows : \E e \in 1 .. a : \E j \in 1 .. n : row = Place(e, n, j)
      /\ \A e, f \in 1 .. a : \A i, j \in 1 .. n : Place(e, n, i) = Place(f, n, j) => e = f /\ i = j
  <2>1. /\ \A e \in 1 .. a : \A j \in 1 .. n : Place(e, n, j) \in 1 .. l
        /\ \A row \in 1 .. l : \E e \in 1 .. a : \E j \in 1 .. n : row = Place(e, n, j)
        /\ \A e, f \in 1 .. a : \A i, j \in 1 .. n : Place(e, n, i) = Place(f, n, j) => e = f /\ i = j
    <3>1. a * n = l /\ a \in Nat /\ n \in Nat
      BY <1>0
    <3>. HIDE DEF l
    <3>. QED  BY <3>1, Places
  <2>2. ASSUME NEW e \in 1 .. a, NEW j \in 1 .. n PROVE Uid(Place(e, n, j)) = e - 1
    <3>. DEFINE q == e - 1
                r == j - 1
                x == q * n
                row == Place(e, n, j)
                m == row - 1
    <3>1. q \in Nat /\ r \in 0 .. n - 1 /\ x \in Nat /\ row = x + j /\ n \in Nat \ {0}
      BY <1>0 DEF Place
    <3>2. m \in Nat /\ m = x + r
      <4>. HIDE DEF x, q, row
      <4>. QED  BY <3>1
    <3>. HIDE DEF m, q, r
    <3>3. m = q * n + r /\ m \in Nat /\ q \in Nat /\ r \in 0 .. n - 1 /\ n \in Nat \ {0}
      BY <3>1, <3>2
    <3>. HIDE DEF x
    <3>4. m \div n = q
      BY <3>3, Divided
    <3>5. Uid(row) = m \div n
      BY <1>0 DEF m
    <3>. QED  BY <3>4, <3>5 DEF q
  <2>. QED  BY <1>0, <2>1, <2>2
<1>. HIDE DEF l
<1>2. IsFiniteSet(E) /\ Cardinality(E) \in Nat /\ IsFiniteSet(J) /\ Cardinality(J) = n
  <2>1. IsFiniteSet(1 .. a) /\ IsFiniteSet(J) /\ Cardinality(J) = n
    BY <1>1, IntervalCounts
  <2>2. IsFiniteSet(E)
    <3>1. E \subseteq 1 .. a
      OBVIOUS
    <3>. HIDE DEF E
    <3>. QED  BY <2>1, <3>1, FS_Subset
  <2>. QED  BY <2>1, <2>2, FS_CardinalityType
<1>3. g \in Bijection(D, K)
  <2>1. \A p \in D : p[1] \in 1 .. a /\ p[2] \in 1 .. n /\ p[1] - 1 \in keep /\ p = <<p[1], p[2]>> /\ g[p] = Place(p[1], n, p[2])
    OBVIOUS
  <2>2. \A p \in D : g[p] \in K
    BY <1>1, <2>1
  <2>3. g \in [D -> K]
    BY <2>2
  <2>4. ASSUME NEW p \in D, NEW q \in D, g[p] = g[q] PROVE p = q
    <3>1. Place(p[1], n, p[2]) = Place(q[1], n, q[2])
      BY <2>1, <2>4
    <3>2. p[1] = q[1] /\ p[2] = q[2]
      <4>. HIDE DEF D
      <4>1. p[1] \in 1 .. a /\ q[1] \in 1 .. a /\ p[2] \in 1 .. n /\ q[2] \in 1 .. n
        BY <2>1
      <4>. QED  BY <1>1, <3>1, <4>1
    <3>. QED  BY <2>1, <3>2
  <2>5. ASSUME NEW row \in K PROVE \E p \in D : g[p] = row
    <3>1. PICK e \in 1 .. a, j \in 1 .. n : row = Place(e, n, j)
      BY <1>1
    <3>2. e - 1 \in keep
      BY <1>1, <3>1
    <3>3. <<e, j>> \in D
      BY <3>2
    <3>4. g[<<e, j>>] = row
      BY <3>1, <3>3
    <3>. QED  BY <3>3, <3>4
  <2>. HIDE DEF g, D, K
  <2>. QED  BY <2>3, <2>4, <2>5 DEF Bijection, Injection, Surjection, IsInjective
<1>4. h \in Bijection(kept, K)
  <2>. DEFINE c == Cardinality(Rows)
  <2>1. c \in Nat /\ Rows = 1 .. c
    BY ConfigIs
  <2>2. /\ rows \in Seq(1 .. c) /\ Len(rows) = c /\ \A i, j \in 1 .. Len(rows) : rows[i] = rows[j] => i = j
        /\ \A x \in 1 .. c : \E i \in 1 .. Len(rows) : rows[i] = x
    BY DEF Permutes, Distinct, Has
  <2>. HIDE DEF c
  <2>3. DOMAIN rows = 1 .. c /\ \A i \in 1 .. c : rows[i] \in Rows
    BY <2>1, <2>2
  <2>4. h \in [kept -> K]
    BY <2>3
  <2>5. \A i, j \in kept : h[i] = h[j] => i = j
    BY <2>2, <2>3
  <2>6. ASSUME NEW row \in K PROVE \E i \in kept : h[i] = row
    <3>1. PICK i \in 1 .. c : rows[i] = row
      BY <2>1, <2>2
    <3>2. i \in kept
      BY <2>3, <3>1
    <3>. QED  BY <3>1, <3>2
  <2>. HIDE DEF h, K
  <2>. QED  BY <2>4, <2>5, <2>6 DEF Bijection, Injection, Surjection, IsInjective
<1>5. IsFiniteSet(D) /\ Cardinality(D) = Cardinality(E) * n
  <2>. HIDE DEF E, J
  <2>1. Cardinality(E \X J) = Cardinality(E) * Cardinality(J)
    BY <1>2, FS_Product, Zenon
  <2>2. IsFiniteSet(E \X J)
    BY <1>2, FS_Product, Zenon
  <2>. QED  BY <1>2, <2>1, <2>2
<1>. HIDE DEF D, K, g, h, E
<1>6. Cardinality(K) = Cardinality(D)
  <2>1. ExistsBijection(D, K)
    BY <1>3 DEF ExistsBijection
  <2>. QED  BY <1>5, <2>1, FS_Bijection
<1>7. Cardinality(kept) = Cardinality(K)
  <2>1. ExistsBijection(kept, K)
    BY <1>4 DEF ExistsBijection
  <2>2. IsFiniteSet(kept)
    <3>1. kept \subseteq 1 .. Len(rows) /\ Len(rows) \in Nat
      BY DEF Permutes
    <3>2. IsFiniteSet(1 .. Len(rows))
      BY <3>1, IntervalCounts
    <3>. QED  BY <3>1, <3>2, FS_Subset
  <2>. QED  BY <2>1, <2>2, FS_Bijection
<1>. QED  BY <1>2, <1>5, <1>6, <1>7 DEF n

\* What bounds the sizes the driver may fail over: before filtering the batch is all the rows in some order;
\* what filtering leaves for the update is all of them or whole groups of rollout_n.
Unfiltered == Scoreless \cup {"filter"}
FailInv ==
    /\ phase \in Unfiltered => Permutes(batch.rows, Cardinality(Rows))
    /\ phase = "update" =>
        \/ Len(batch.rows) = Cardinality(Rows)
        \/ config.filter_groups /\ \E k \in Nat : Len(batch.rows) = k * config.rollout_n
    /\ phase = "failed" => MayFail

\* A step that leaves the configuration and the rows alone keeps FailInv.
LEMMA FrameFail ==
    ASSUME FailInv, config' = config, batch'.rows = batch.rows,
           phase' \in Unfiltered => phase \in Unfiltered, phase' = "update" => phase = "update",
           phase' = "failed" => phase = "failed" \/ MayFail
    PROVE  FailInv'
<1>1. Rows' = Rows /\ WorldSize' = WorldSize
  BY SameConfig
<1>2. Unfiltered' = Unfiltered
  BY DEF Unfiltered, Scoreless, Early
<1>. QED  BY <1>1, <1>2 DEF FailInv, MayFail

LEMMA InitFail == Init => FailInv
<1>. SUFFICES ASSUME Init PROVE FailInv
  OBVIOUS
<1>. DEFINE n == Cardinality(Rows)
<1>1. phase = "validate" /\ batch.rows = [i \in Rows |-> i] /\ config \in Configs
  BY DEF Init
<1>2. n \in Nat /\ Rows = 1 .. n
  BY <1>1, ConfigIs
<1>. HIDE DEF n
<1>3. Permutes([i \in 1 .. n |-> i], n)
  BY <1>2, IdentityPermutes
<1>4. Permutes(batch.rows, n)
  BY <1>1, <1>2, <1>3
<1>. QED  BY <1>1, <1>4 DEF FailInv, n

\* The number of rows before filtering
LEMMA BatchSize ==
    ASSUME FailInv, config \in Configs, phase \in Unfiltered
    PROVE  /\ Len(batch.rows) = Cardinality(Rows) /\ Cardinality(Rows) \in Nat
           /\ Cardinality(Rows) % WorldSize = 0 => Len(batch.rows) % DPSize = 0 /\ Len(batch.rows) % WorldSize = 0
<1>. DEFINE n == Cardinality(Rows)
<1>1. Len(batch.rows) = n /\ n \in Nat
  BY ConfigIs DEF FailInv, Permutes
<1>. HIDE DEF n
<1>2. n % WorldSize = 0 => n % DPSize = 0
  BY <1>1, EnginesDivide
<1>. QED  BY <1>1, <1>2 DEF n

\* A validation batch is padded until it divides.
LEMMA ValidateSucceeds ==
    ASSUME TBInv, Validate
    PROVE  phase' = "validating"
<1>1. PICK n \in ValSizes : CallGenerate(Pad([i \in 1 .. n |-> i], WorldSize), "validating")
  BY DEF Validate
<1>. DEFINE rows == [i \in 1 .. n |-> i]
            sent == Pad(rows, WorldSize)
<1>2. n \in Nat \ {0}
  BY TrainingBatchAssumption
<1>3. rows \in Seq(Nat) /\ Len(rows) # 0
  BY <1>2
<1>4. WorldSize \in Nat \ {0} /\ Engines \in Nat \ {0} /\ \A m \in Nat : m % WorldSize = 0 => m % Engines = 0
  BY EnginesDivide DEF TBInv
<1>. HIDE DEF rows
<1>5. Len(sent) \in Nat /\ Len(sent) % WorldSize = 0
  BY <1>3, <1>4, PadDivides
<1>6. CallGenerate(sent, "validating")
  BY <1>1 DEF rows
<1>. HIDE DEF sent
<1>7. Len(sent) % Engines = 0
  BY <1>4, <1>5
<1>. QED  BY <1>6, <1>7 DEF CallGenerate, Engines

\* The engines cannot share the prompts only if the rows do not divide from the start.
LEMMA GenerateMayFail ==
    ASSUME TBInv, GenerateSequences
    PROVE  phase' = "generating" \/ (phase' = "failed" /\ MayFail)
<1>. DEFINE prompts == [i \in 1 .. config.train_batch_size |-> i - 1]
            sent == RepeatInterleave(prompts, config.rollout_n)
            n == Cardinality(Rows)
<1>1. CallGenerate(sent, "generating")
  BY DEF GenerateSequences
<1>2. /\ config.train_batch_size \in Nat \ {0} /\ config.rollout_n \in Nat \ {0} /\ n \in Nat
      /\ n = config.train_batch_size * config.rollout_n
      /\ \A m \in Nat : m % WorldSize = 0 => m % Engines = 0
  BY ConfigIs, EnginesDivide DEF TBInv
<1>3. Len(sent) = n
  <2>1. Len(prompts) = config.train_batch_size
    BY <1>2
  <2>. HIDE DEF prompts
  <2>2. sent = [i \in 1 .. n |-> prompts[(i - 1) \div config.rollout_n + 1]]
    BY <1>2, <2>1 DEF RepeatInterleave
  <2>. HIDE DEF sent, n
  <2>. QED  BY <1>2, <2>2
<1>. HIDE DEF sent
<1>4. CASE Len(sent) % Engines = 0
  BY <1>1, <1>4 DEF CallGenerate, Engines
<1>5. CASE Len(sent) % Engines # 0
  <2>1. phase' = "failed"
    BY <1>1, <1>5 DEF CallGenerate, Engines
  <2>. HIDE DEF n
  <2>2. n % WorldSize # 0
    BY <1>2, <1>3, <1>5
  <2>. QED  BY <2>1, <2>2 DEF MayFail, n
<1>. QED  BY <1>4, <1>5

\* Ranks have equal chunks of what they are sent.
LEMMA UpdateDivides ==
    ASSUME FailInv, config \in Configs, phase = "update", ~ MayFail
    PROVE  Len(batch.rows) % DPSize = 0
<1>. DEFINE n == Cardinality(Rows)
            l == Len(batch.rows)
            g == config.rollout_n
<1>1. n \in Nat /\ g \in Nat /\ n % WorldSize = 0 /\ (config.filter_groups => g % DPSize = 0)
  BY ConfigIs DEF MayFail
<1>2. DPSize \in Nat \ {0} /\ \A m \in Nat : m % WorldSize = 0 => m % DPSize = 0
  BY EnginesDivide
<1>3. CASE l = n
  <2>. HIDE DEF l, n
  <2>. QED  BY <1>1, <1>2, <1>3 DEF l
<1>4. CASE config.filter_groups /\ \E k \in Nat : l = k * g
  <2>1. PICK k \in Nat : l = k * g
    BY <1>4
  <2>. HIDE DEF l, g
  <2>2. PICK q \in Nat : g = q * DPSize
    BY <1>1, <1>2, <1>4, Divides
  <2>3. l = (k * q) * DPSize /\ k * q \in Nat /\ l \in Nat
    BY <1>2, <2>1, <2>2
  <2>4. l % DPSize = 0
    BY <1>2, <2>3, Divides
  <2>. QED  BY <2>4 DEF l
<1>. QED  BY <1>3, <1>4 DEF FailInv

\* The ranks cannot share a batch only for the reasons of MayFail.
LEMMA DispatchMayFail ==
    ASSUME FailInv, config \in Configs, NEW work, NEW next \in {"computing", "updating"}, Dispatch(work, next),
           phase = IF next = "computing" THEN "log_prob" ELSE "update"
    PROVE  FailInv'
<1>1. /\ config' = config /\ batch' = batch
      /\ phase' = next \/ (phase' = "failed" /\ Len(batch.rows) % DPSize # 0)
  BY DEF Dispatch
<1>2. phase' = "failed" => MayFail
  <2>1. CASE phase = "log_prob"
    <3>1. phase \in Unfiltered
      BY <2>1 DEF Unfiltered, Scoreless
    <3>. QED  BY <1>1, <3>1, BatchSize DEF MayFail
  <2>2. CASE phase = "update"
    BY <1>1, <2>2, UpdateDivides
  <2>. QED  BY <2>1, <2>2
<1>3. phase' \in Unfiltered => phase \in Unfiltered
  BY <1>1 DEF Unfiltered, Scoreless, Early
<1>4. phase' # "update"
  BY <1>1
<1>. QED  BY <1>1, <1>2, <1>3, <1>4, FrameFail

\* _balance_batch raises only over rows that do not divide from the start.
LEMMA BalanceMayFail ==
    ASSUME TBInv, FailInv, Balance
    PROVE  FailInv'
<1>1. /\ phase = "balance" /\ config' = config /\ batch' = batch
      /\ phase' \in {"balancing", "reward"} \/ (phase' = "failed" /\ Len(batch.rows) % WorldSize # 0)
  BY DEF Balance
<1>2. phase \in Unfiltered
  BY <1>1 DEF Unfiltered, Scoreless
<1>3. phase' = "failed" => MayFail
  BY <1>1, <1>2, BatchSize DEF MayFail, TBInv
<1>. QED  BY <1>1, <1>2, <1>3, FrameFail

LEMMA ReorderPermutes ==
    ASSUME TBInv, FailInv, Reorder
    PROVE  FailInv'
<1>. DEFINE n == Cardinality(Rows)
            new == Pick(batch.rows, GlobalIdx)
<1>1. phase = "balancing" /\ phase' = "reward" /\ config' = config /\ batch'.rows = new
  BY DEF Reorder, TBInv, BatchOK
<1>2. Permutes(batch.rows, n) /\ n \in Nat
  BY <1>1, ConfigIs DEF FailInv, Unfiltered, Scoreless, TBInv
<1>3. Permutes(GlobalIdx, Len(batch.rows))
  BY GlobalIdxPermutes
<1>. HIDE DEF n
<1>4. batch.rows \in Seq(1 .. n) /\ Len(batch.rows) = n /\ Distinct(batch.rows) /\ \A x \in 1 .. n : Has(batch.rows, x)
  BY <1>2 DEF Permutes
<1>5. /\ new \in Seq(1 .. n) /\ Len(new) = Len(batch.rows) /\ Distinct(new)
      /\ \A x : Has(new, x) <=> Has(batch.rows, x)
  BY <1>3, <1>4, PickPermutation
<1>. HIDE DEF new
<1>6. Permutes(new, n)
  BY <1>4, <1>5 DEF Permutes
<1>7. Cardinality(Rows)' = n
  BY <1>1, SameConfig DEF n
<1>. QED  BY <1>1, <1>6, <1>7 DEF FailInv

\* Filtering leaves all the rows or whole groups.
LEMMA FilterKeepsGroups ==
    ASSUME TBInv, FailInv, Filter
    PROVE  FailInv'
<1>1. /\ phase = "filter" /\ phase' = "update" /\ config' = config
      /\ \/ batch' = batch
         \/ config.filter_groups /\ KeepGroups
  BY DEF Filter
<1>. DEFINE n == Cardinality(Rows)
            rows == batch.rows
<1>2. Permutes(rows, n) /\ n \in Nat /\ config \in Configs /\ Len(rows) = n
  BY <1>1, ConfigIs DEF FailInv, Unfiltered, TBInv, Permutes
<1>3. Cardinality(Rows)' = n
  BY <1>1, SameConfig
<1>4. CASE batch' = batch
  BY <1>1, <1>2, <1>3, <1>4 DEF FailInv, Unfiltered, Scoreless, Early
<1>5. CASE config.filter_groups /\ KeepGroups
  <2>1. PICK keep \in SUBSET {Uid(row) : row \in Rows} :
          LET kept == {i \in DOMAIN batch.rows : Uid(batch.rows[i]) \in keep}
              idx  == Ascending(IF kept = {} THEN DOMAIN batch.rows ELSE kept)
          IN  batch' = [rows          |-> Pick(batch.rows, idx),
                        scores        |-> Pick(batch.scores, idx),
                        old_log_probs |-> Pick(batch.old_log_probs, idx)]
    BY <1>5 DEF KeepGroups
  <2>. DEFINE kept == {i \in DOMAIN rows : Uid(rows[i]) \in keep}
              S == IF kept = {} THEN DOMAIN rows ELSE kept
              idx == Ascending(S)
  <2>2. batch'.rows = Pick(rows, idx)
    BY <2>1
  <2>3. Len(Pick(rows, idx)) = Cardinality(S) /\ (kept = {} => Cardinality(S) = n)
    <3>. HIDE DEF n, rows
    <3>1. rows \in Seq(1 .. n) /\ DOMAIN rows = 1 .. n
      BY <1>2 DEF Permutes
    <3>2. S \in SUBSET (1 .. n) /\ (kept = {} => S = 1 .. n)
      BY <3>1
    <3>. HIDE DEF S
    <3>3. IsFiniteSet(1 .. n) /\ Cardinality(1 .. n) = n /\ 1 .. n \subseteq Nat
      BY <1>2, IntervalCounts
    <3>4. S \in SUBSET Nat /\ IsFiniteSet(S)
      BY <3>2, <3>3, FS_Subset
    <3>5. idx \in Seq(S) /\ Len(idx) = Cardinality(S)
      BY <3>4, AscendingIs
    <3>. HIDE DEF idx
    <3>6. idx \in Seq(1 .. Len(rows))
      <4>. DEFINE I == 1 .. n
      <4>1. S \subseteq I
        BY <3>2
      <4>. HIDE DEF I
      <4>2. idx \in Seq(I)
        BY <3>5, <4>1, SequenceOfSubset
      <4>. QED  BY <1>2, <4>2 DEF I
    <3>7. Len(Pick(rows, idx)) = Len(idx)
      BY <3>1, <3>6, PickIs
    <3>. QED  BY <3>2, <3>3, <3>5, <3>7
  <2>4. \E k \in Nat : Cardinality(S) = k * config.rollout_n
    <3>1. CASE kept = {}
      <4>1. n = config.train_batch_size * config.rollout_n /\ config.train_batch_size \in Nat
        BY <1>2, ConfigIs
      <4>. HIDE DEF n, S
      <4>. QED  BY <2>3, <3>1, <4>1
    <3>2. CASE kept # {}
      <4>1. kept = {i \in DOMAIN rows : Uid(rows[i]) \in keep}
        OBVIOUS
      <4>. HIDE DEF kept, rows
      <4>a. config \in Configs /\ Permutes(rows, Cardinality(Rows))
        BY <1>2
      <4>2. \E k \in Nat : Cardinality(kept) = k * config.rollout_n
        BY <4>a, <4>1, GroupsAreWhole
      <4>3. S = kept
        BY <3>2
      <4>. QED  BY <4>2, <4>3
    <3>. QED  BY <3>1, <3>2
  <2>. HIDE DEF S, idx, kept
  <2>5. \E k \in Nat : Len(batch'.rows) = k * config'.rollout_n
    BY <1>1, <2>2, <2>3, <2>4
  <2>. QED  BY <1>1, <1>5, <2>5 DEF FailInv, Unfiltered, Scoreless, Early
<1>. QED  BY <1>1, <1>4, <1>5

\* The steps of the driver.
LEMMA DriveMayFail ==
    ASSUME TBInv, FailInv, Drive
    PROVE  FailInv'
<1>1. CASE Validate
  <2>1. phase' = "validating"
    BY <1>1, ValidateSucceeds
  <2>2. phase = "validate" /\ config' = config /\ batch' = batch
    BY <1>1 DEF Validate
  <2>. QED  BY <2>1, <2>2, FrameFail DEF Unfiltered, Scoreless, Early
<1>2. CASE CollectValidation \/ EndValidation
  BY <1>2, FrameFail DEF CollectValidation, EndValidation, Unfiltered, Scoreless, Early
<1>3. CASE GenerateSequences
  <2>1. phase' = "generating" \/ (phase' = "failed" /\ MayFail)
    BY <1>3, GenerateMayFail
  <2>2. phase = "generate" /\ config' = config /\ batch' = batch
    BY <1>3 DEF GenerateSequences
  <2>. QED  BY <2>1, <2>2, FrameFail DEF Unfiltered, Scoreless, Early
<1>4. CASE Union
  BY <1>4, FrameFail DEF Union, Unfiltered, Scoreless, Early
<1>5. CASE Balance \/ Reorder \/ Filter
  BY <1>5, BalanceMayFail, ReorderPermutes, FilterKeepsGroups
<1>6. CASE KKStep(Driver) /\ UNCHANGED <<driverVars, rankVars, genVars, config, seqlen, trained>>
  BY <1>6, FrameFail DEF driverVars
<1>7. CASE LaunchReward
  BY <1>7, FrameFail DEF LaunchReward, Unfiltered, Scoreless
<1>8. CASE ComputeLogProb
  BY <1>8, DispatchMayFail DEF ComputeLogProb, TBInv
<1>9. CASE UpdateActor
  BY <1>9, DispatchMayFail DEF UpdateActor, TBInv
<1>10. CASE Collect
  <2>1. batch'.rows = batch.rows /\ config' = config /\ phase = "computing" /\ phase' = "filter"
    BY <1>10 DEF Collect, TBInv, BatchOK
  <2>. QED  BY <2>1, FrameFail DEF Unfiltered, Scoreless
<1>11. CASE Finish
  BY <1>11, FrameFail DEF Finish, Unfiltered, Scoreless, Early
<1>. QED  BY <1>1, <1>2, <1>3, <1>4, <1>5, <1>6, <1>7, <1>8, <1>9, <1>10, <1>11 DEF Drive

LEMMA FailInvKeeps == TBInv /\ FailInv /\ [Next]_vars => FailInv'
<1>. SUFFICES ASSUME TBInv, FailInv, [Next]_vars PROVE FailInv'
  OBVIOUS
<1>1. CASE Drive
  BY <1>1, DriveMayFail
<1>2. CASE UNCHANGED <<driverVars, config>>
  BY <1>2, FrameFail DEF driverVars
<1>3. ASSUME NEW r \in Ranks, Rank(r) PROVE UNCHANGED <<driverVars, config>>
  BY <1>3 DEF Rank
<1>4. CASE Generate
  BY <1>2, <1>4 DEF Generate, GenerateChunk
<1>5. CASE AllReduceMax \/ Forward \/ OptimizerStep
  BY <1>2, <1>5 DEF AllReduceMax, Forward, OptimizerStep
<1>6. CASE UNCHANGED vars
  BY <1>2, <1>6 DEF vars
<1>. QED  BY <1>1, <1>2, <1>3, <1>4, <1>5, <1>6 DEF Next

\* The driver raises for no other reason than those of MayFail: a validation batch is padded until the engines can
\* share it, a batch that the engines, _balance_batch or the ranks cannot share has rows that do not divide from
\* the start, and filtering leaves whole groups, so that one the update cannot share has groups that do not divide.
THEOREM OnlySizesFail == Spec => [](phase = "failed" => MayFail)
<1>1. Init => TBInv /\ FailInv
  BY InitOK, InitFail
<1>2. TBInv /\ FailInv /\ [Next]_vars => (TBInv /\ FailInv)'
  BY TBStepKeeps, FailInvKeeps
<1>3. TBInv /\ FailInv => (phase = "failed" => MayFail)
  BY DEF FailInv
<1>. QED  BY <1>1, <1>2, <1>3, PTL DEF Spec

=============================================================================
