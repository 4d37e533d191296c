---------------------------- MODULE DatabaseProofs ----------------------------
(***************************************************************************)
(* What the queries of Database return, for every content of the tables:   *)
(* the facts about counts, positions and prefixes that the proofs about    *)
(* the handlers share.                                                     *)
(***************************************************************************)
EXTENDS Database, MerkleProofs

(* n positions from 0 are n positions. *)
LEMMA IntervalCount ==
  ASSUME NEW n \in Nat
  PROVE  /\ Cardinality(0..(n - 1)) = n
         /\ IsFiniteSet(0..(n - 1))
BY FS_Interval, n - 1 \in Int, 0 \in Int

(* Each issuer's leaves are at the positions 0, 1, 2, ... *)
RowsContiguous ==
  \A i \in Issuers :
    /\ LeafCount(i) \in Nat
    /\ DOMAIN leafRows[i] = 0..(LeafCount(i) - 1)

(* The number of leaves of each issuer. *)
Counts == [i \in Issuers |-> LeafCount(i)]

(* The trees each issuer has had so far: the non-empty prefixes of its     *)
(* leaves.                                                                 *)
PastTrees ==
  [i \in Issuers |-> {SubSeq(Leaves(i), 1, n) : n \in 1..LeafCount(i)}]

(* The k-th leaf a query returns is the one stored at position k - 1. *)
LeavesSorted ==
  \A i \in Issuers : Leaves(i) = [k \in 1..LeafCount(i) |-> leafRows[i][k - 1]]

(* Without gaps, ORDER BY position returns the leaves so. *)
LEMMA LeavesByPosition == RowsContiguous => LeavesSorted
<1> SUFFICES ASSUME RowsContiguous, NEW i \in Issuers
             PROVE  Leaves(i) = [k \in 1..LeafCount(i) |-> leafRows[i][k - 1]]
  BY DEF LeavesSorted
<1> DEFINE n == LeafCount(i)
           D == DOMAIN leafRows[i]
<1>1. n \in Nat /\ D = 0..(n - 1)
  BY DEF RowsContiguous
<1> HIDE DEF n, D
<1>2. \A p \in D : Rank(i, p) = p
  <2> SUFFICES ASSUME NEW p \in D PROVE Rank(i, p) = p
    OBVIOUS
  <2>1. {q \in D : q < p} = 0..(p - 1)
    BY <1>1
  <2>2. p \in Nat
    BY <1>1
  <2> QED BY <2>1, <2>2, IntervalCount DEF Rank, D
<1>3. ASSUME NEW k \in 1..n
      PROVE  (CHOOSE p \in D : Rank(i, p) = k - 1) = k - 1
  <2>1. k - 1 \in D
    BY <1>1
  <2>2. \A p \in D : Rank(i, p) = k - 1 <=> p = k - 1
    BY <1>2
  <2>3. \E p \in D : Rank(i, p) = k - 1
    BY <2>1, <2>2
  <2> QED BY <2>2, <2>3
<1>4. Leaves(i) = [k \in 1..n |-> leafRows[i][CHOOSE p \in D : Rank(i, p) = k - 1]]
  BY DEF Leaves, n, D
<1> QED BY <1>3, <1>4 DEF n

(* The tree a query returns now is one the issuer has had. *)
LEMMA CurrentTreeIsPast ==
  ASSUME RowsContiguous, NEW i \in Issuers, Leaves(i) # <<>>
  PROVE  Leaves(i) \in PastTrees[i]
<1>1. LeafCount(i) \in Nat
  BY DEF RowsContiguous
<1>2. Leaves(i) = [k \in 1..LeafCount(i) |-> leafRows[i][k - 1]]
  BY LeavesByPosition DEF LeavesSorted
<1>3. LeafCount(i) # 0
  BY <1>2
<1>4. Leaves(i) = SubSeq(Leaves(i), 1, LeafCount(i))
  BY <1>1, <1>2
<1> QED BY <1>1, <1>3, <1>4 DEF PastTrees

(* The same of the next state. *)
LEMMA LeavesByPositionNext == RowsContiguous' => LeavesSorted'
BY LeavesByPosition, PTL

(* A step on which every row stays where it is ... *)
RowsKept ==
  \A i \in Issuers : \A p \in DOMAIN leafRows[i] :
    p \in DOMAIN leafRows'[i] /\ leafRows'[i][p] = leafRows[i][p]

(* ... never lowers a count ... *)
LEMMA CountsGrow ==
  ASSUME RowsContiguous, RowsContiguous', RowsKept
  PROVE  \A i \in Issuers : Counts[i] <= Counts'[i]
<1> SUFFICES ASSUME NEW i \in Issuers
             PROVE  Counts[i] <= Counts'[i]
  OBVIOUS
<1> DEFINE m == LeafCount(i)
           more == LeafCount(i)'
<1>1. m \in Nat /\ DOMAIN leafRows[i] = 0..(m - 1)
  BY DEF RowsContiguous
<1>2. more \in Nat /\ DOMAIN leafRows'[i] = 0..(more - 1)
  BY DEF RowsContiguous
<1>3. Counts[i] = m /\ Counts'[i] = more
  BY DEF Counts
<1> HIDE DEF m, more
<1> SUFFICES ASSUME m > 0 PROVE m <= more
  BY <1>1, <1>2, <1>3
<1>4. m - 1 \in DOMAIN leafRows'[i]
  BY <1>1 DEF RowsKept
<1> QED BY <1>4, <1>1, <1>2

(* ... and keeps every past tree a past tree. *)
LEMMA PastTreesGrow ==
  ASSUME RowsContiguous, RowsContiguous', RowsKept
  PROVE  \A i \in Issuers : PastTrees[i] \subseteq PastTrees'[i]
<1> SUFFICES ASSUME NEW i \in Issuers, NEW n \in 1..LeafCount(i)
             PROVE  SubSeq(Leaves(i), 1, n) \in PastTrees'[i]
  BY DEF PastTrees
<1> DEFINE m == LeafCount(i)
           now == Leaves(i)
           then == Leaves(i)'
           more == LeafCount(i)'
<1>1. now = [k \in 1..m |-> leafRows[i][k - 1]]
  BY LeavesByPosition DEF LeavesSorted
<1>2. then = [k \in 1..more |-> leafRows'[i][k - 1]]
  BY LeavesByPositionNext DEF LeavesSorted
<1>3. m \in Nat /\ DOMAIN leafRows[i] = 0..(m - 1)
  BY DEF RowsContiguous
<1>4. more \in Nat /\ DOMAIN leafRows'[i] = 0..(more - 1)
  BY DEF RowsContiguous
<1>5. m <= more
  BY CountsGrow DEF Counts
<1>6. PastTrees'[i] = {SubSeq(then, 1, k) : k \in 1..more}
  BY DEF PastTrees
<1> HIDE DEF m, now, then, more
<1>7. n \in 1..m
  BY DEF m
<1>8. \A k \in 1..n : then[k] = now[k]
  <2> SUFFICES ASSUME NEW k \in 1..n PROVE then[k] = now[k]
    OBVIOUS
  <2>1. k - 1 \in DOMAIN leafRows[i] /\ k \in 1..m /\ k \in 1..more
    BY <1>3, <1>4, <1>5, <1>7
  <2>2. leafRows'[i][k - 1] = leafRows[i][k - 1]
    BY <2>1 DEF RowsKept
  <2> QED BY <1>1, <1>2, <2>1, <2>2
<1>9. SubSeq(then, 1, n) = SubSeq(now, 1, n)
  <2>1. SubSeq(then, 1, n) = [k \in 1..n |-> then[k]]
    BY <1>2, <1>4, <1>5, <1>7, <1>3
  <2>2. SubSeq(now, 1, n) = [k \in 1..n |-> now[k]]
    BY <1>1, <1>3, <1>7
  <2> QED BY <2>1, <2>2, <1>8
<1>10. n \in 1..more
  BY <1>3, <1>4, <1>5, <1>7
<1> QED BY <1>6, <1>9, <1>10 DEF now
=============================================================================
