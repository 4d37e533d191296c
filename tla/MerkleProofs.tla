---------------------------- MODULE MerkleProofs ----------------------------
(***************************************************************************)
(* What the operators of Merkle and Crypto compute, for every depth and    *)
(* every list of leaves: the witness of a leaf folds to the root, for that *)
(* leaf only; the root determines the padded leaf layer; a member's proof  *)
(* passes the self-check exactly with matching keys.                       *)
(***************************************************************************)
EXTENDS Crypto, TLAPS, FiniteSetTheorems

-----------------------------------------------------------------------------
(* Induction.  A set that has 0 and the successors of its members has all  *)
(* naturals: otherwise, below a number m it misses, k |-> k + 1 would map  *)
(* its members up to m into those but 0, which are fewer.                  *)
LEMMA NatSetInduction ==
  ASSUME NEW S, 0 \in S, \A n \in Nat : n \in S => n + 1 \in S
  PROVE  Nat \subseteq S
<1> SUFFICES ASSUME NEW m \in Nat, m \notin S PROVE FALSE
  OBVIOUS
<1> DEFINE T == {k \in 0..m : k \in S}
           U == T \ {0}
           next == [k \in T |-> k + 1]
<1>1. IsFiniteSet(T)
  <2>1. IsFiniteSet(0..m)
    BY FS_Interval, 0 \in Int, m \in Int
  <2> QED BY <2>1, FS_Subset
<1>2. 0 \in T
  OBVIOUS
<1>3. Cardinality(T) \in Nat /\ Cardinality(U) = Cardinality(T) - 1 /\ IsFiniteSet(U)
  BY <1>1, <1>2, FS_RemoveElement, FS_CardinalityType
<1>4. next \in [T -> U]
  OBVIOUS
<1>5. \A x, y \in T : next[x] = next[y] => x = y
  OBVIOUS
<1> HIDE DEF T, U, next
<1>6. Cardinality(U) < Cardinality(T)
  BY <1>3
<1>7. \E x, y \in T : x # y /\ next[x] = next[y]
  BY <1>1, <1>3, <1>4, <1>6, FS_PigeonHole
<1> QED BY <1>5, <1>7

(* The same up to a bound. *)
LEMMA BoundedInduction ==
  ASSUME NEW n \in Nat, NEW S, 0 \in S, \A h \in 1..n : h - 1 \in S => h \in S
  PROVE  0..n \subseteq S
<1> DEFINE T == {h \in Nat : h \in 0..n => h \in S}
<1>1. 0 \in T
  OBVIOUS
<1>2. ASSUME NEW h \in Nat, h \in T PROVE h + 1 \in T
  <2> SUFFICES ASSUME h + 1 \in 0..n PROVE h + 1 \in S
    OBVIOUS
  <2>1. h \in S /\ h + 1 \in 1..n /\ (h + 1) - 1 = h
    BY <1>2
  <2> QED BY <2>1
<1> HIDE DEF T
<1>3. Nat \subseteq T
  BY <1>1, <1>2, NatSetInduction
<1> QED BY <1>3 DEF T

(* A non-empty set of naturals has a least member. *)
LEMMA LeastMember ==
  ASSUME NEW S \in SUBSET Nat, S # {}
  PROVE  \E n \in S : \A k \in S : n <= k
<1> SUFFICES ASSUME \A n \in S : \E k \in S : k < n
             PROVE  FALSE
  OBVIOUS
<1> DEFINE T == {n \in Nat : \A k \in S : n <= k}
<1>1. 0 \in T
  OBVIOUS
<1>2. ASSUME NEW n \in Nat, n \in T PROVE n + 1 \in T
  BY <1>2
<1>3. Nat \subseteq T
  <2> HIDE DEF T
  <2> QED BY <1>1, <1>2, NatSetInduction
<1>4. PICK n \in S : TRUE
  OBVIOUS
<1>5. n + 1 \in T
  BY <1>3, <1>4
<1> QED BY <1>4, <1>5

-----------------------------------------------------------------------------
(* Powers of two, from the number of subsets. *)

LEMMA PowerType == ASSUME NEW n \in Nat PROVE 2^n \in Nat
<1>1. IsFiniteSet(1..n) /\ Cardinality(1..n) = n
  BY FS_Interval, 1 \in Int, n \in Int
<1>2. IsFiniteSet(SUBSET (1..n)) /\ Cardinality(SUBSET (1..n)) = 2^n
  BY <1>1, FS_SUBSET
<1> QED BY <1>2, FS_CardinalityType

LEMMA PowerStep == ASSUME NEW n \in Nat PROVE 2^(n + 1) = 2 * 2^n
<1> DEFINE A == 1..n
           B == 1..(n + 1)
           old == SUBSET A
           new == {X \cup {n + 1} : X \in old}
           with == [X \in old |-> X \cup {n + 1}]
<1>1. IsFiniteSet(A) /\ Cardinality(A) = n /\ IsFiniteSet(B) /\ Cardinality(B) = n + 1
  BY FS_Interval, 1 \in Int, n \in Int, n + 1 \in Int
<1>2. /\ IsFiniteSet(old) /\ Cardinality(old) = 2^n
      /\ Cardinality(SUBSET B) = 2^(n + 1)
  BY <1>1, FS_SUBSET
<1>3. SUBSET B = old \cup new
  <2>1. B = A \cup {n + 1}
    OBVIOUS
  <2>2. ASSUME NEW Y \in SUBSET B PROVE Y \in old \cup new
    <3>1. CASE n + 1 \in Y
      <4>1. Y \ {n + 1} \in old
        BY <2>1
      <4>2. Y = (Y \ {n + 1}) \cup {n + 1}
        BY <3>1
      <4> QED BY <4>1, <4>2
    <3>2. CASE n + 1 \notin Y
      BY <2>1, <3>2
    <3> QED BY <3>1, <3>2
  <2>3. ASSUME NEW Y \in old \cup new PROVE Y \in SUBSET B
    BY <2>1
  <2> QED BY <2>2, <2>3
<1>4. old \cap new = {}
  <2>1. n + 1 \notin A
    OBVIOUS
  <2> QED BY <2>1
<1>5. with \in Bijection(old, new)
  <2>1. with \in [old -> new]
    OBVIOUS
  <2>2. ASSUME NEW X \in old, NEW Y \in old, with[X] = with[Y] PROVE X = Y
    <3>1. X \cup {n + 1} = Y \cup {n + 1} /\ n + 1 \notin X /\ n + 1 \notin Y
      BY <2>2
    <3> QED BY <3>1
  <2>3. \A Y \in new : \E X \in old : with[X] = Y
    OBVIOUS
  <2> QED BY <2>1, <2>2, <2>3 DEF Bijection, Injection, Surjection, IsInjective
<1> HIDE DEF old, new, with, A, B
<1>6. IsFiniteSet(new) /\ Cardinality(new) = Cardinality(old)
  BY <1>2, <1>5, FS_Bijection DEF ExistsBijection
<1>7. Cardinality(old \cup new) = Cardinality(old) + Cardinality(new) - Cardinality(old \cap new)
  BY <1>2, <1>6, FS_Union
<1>8. Cardinality(old \cap new) = 0
  BY <1>4, FS_EmptySet
<1>9. PICK p \in Nat : p = Cardinality(old)
  BY <1>2, FS_CardinalityType
<1>10. Cardinality(old \cup new) = p + p - 0
  BY <1>6, <1>7, <1>8, <1>9
<1>11. Cardinality(old \cup new) = 2 * p
  BY <1>10
<1> QED BY <1>2, <1>3, <1>9, <1>11

LEMMA PowerPositive == ASSUME NEW n \in Nat PROVE 2^n \in Nat \ {0}
<1> DEFINE S == {k \in Nat : 2^k # 0}
<1>1. 0 \in S
  OBVIOUS
<1>2. ASSUME NEW k \in Nat, k \in S PROVE k + 1 \in S
  <2>1. PICK p \in Nat : p = 2^k
    BY PowerType
  <2>2. p # 0
    BY <1>2, <2>1
  <2>3. 2^(k + 1) = 2 * p
    BY <2>1, PowerStep
  <2> QED BY <2>2, <2>3
<1>3. Nat \subseteq S
  <2> HIDE DEF S
  <2> QED BY <1>1, <1>2, NatSetInduction
<1> QED BY <1>3, PowerType

(* Levels h and n - h split the tree of height n. *)
LEMMA PowerSplit ==
  ASSUME NEW n \in Nat, NEW h \in 0..n
  PROVE  2^h * 2^(n - h) = 2^n
<1> DEFINE S == {k \in 0..n : 2^k * 2^(n - k) = 2^n}
<1>1. 0 \in S
  <2>1. PICK p \in Nat : p = 2^n
    BY PowerType
  <2>2. 2^0 = 1 /\ n - 0 = n
    OBVIOUS
  <2>3. 2^0 * 2^(n - 0) = 1 * p
    BY <2>1, <2>2
  <2> QED BY <2>1, <2>3
<1>2. ASSUME NEW k \in 1..n, k - 1 \in S PROVE k \in S
  <2>1. PICK a \in Nat, b \in Nat : a = 2^(k - 1) /\ b = 2^(n - k)
    BY PowerType, k - 1 \in Nat, n - k \in Nat
  <2>2. 2^k = 2 * a
    <3>1. k = (k - 1) + 1 /\ k - 1 \in Nat
      OBVIOUS
    <3>2. 2^((k - 1) + 1) = 2 * 2^(k - 1)
      BY <3>1, PowerStep
    <3> QED BY <2>1, <3>1, <3>2
  <2>3. 2^(n - (k - 1)) = 2 * b
    <3>1. n - (k - 1) = (n - k) + 1 /\ n - k \in Nat
      OBVIOUS
    <3>2. 2^((n - k) + 1) = 2 * 2^(n - k)
      BY <3>1, PowerStep
    <3> QED BY <2>1, <3>1, <3>2
  <2>4. a * (2 * b) = 2^n
    BY <1>2, <2>1, <2>3
  <2>5. (2 * a) * b = a * (2 * b)
    OBVIOUS
  <2>6. 2^k * 2^(n - k) = 2^n
    BY <2>1, <2>2, <2>4, <2>5
  <2> QED BY <2>6
<1>3. 0..n \subseteq S
  <2> HIDE DEF S
  <2> QED BY <1>1, <1>2, BoundedInduction
<1> QED BY <1>3

(* Capacity is a positive number. *)
LEMMA CapacityType == Capacity \in Nat \ {0}
BY PowerPositive, DepthAssumption DEF Capacity

-----------------------------------------------------------------------------
(* Division: what halving an index h times does. *)

LEMMA DivUnique ==
  ASSUME NEW d \in Nat \ {0}, NEW q \in Nat, NEW r \in Nat, r < d,
         NEW i, i = d * q + r
  PROVE  i \div d = q
OBVIOUS

LEMMA DivRem ==
  ASSUME NEW d \in Nat \ {0}, NEW i \in Nat
  PROVE  \E q \in Nat, r \in Nat : r < d /\ i = d * q + r
<1>1. i \div d \in Nat /\ i % d \in Nat /\ i % d < d
  OBVIOUS
<1>2. i = d * (i \div d) + (i % d)
  OBVIOUS
<1> QED BY <1>1, <1>2

LEMMA DivHalves ==
  ASSUME NEW d \in Nat \ {0}, NEW i \in Nat
  PROVE  i \div (2 * d) = (i \div d) \div 2
<1>1. PICK q \in Nat, r \in Nat : r < d /\ i = d * q + r
  BY DivRem
<1>2. PICK a \in Nat, b \in Nat : b < 2 /\ q = 2 * a + b
  BY DivRem, 2 \in Nat \ {0}
<1>3. i \div d = q /\ q \div 2 = a
  BY <1>1, <1>2, DivUnique
<1>4. PICK e \in Nat : e = 2 * d /\ e # 0
  OBVIOUS
<1>5. PICK s \in Nat : s = d * b + r /\ s < e
  <2>1. b = 0 \/ b = 1
    BY <1>2
  <2> QED BY <2>1, <1>1, <1>4
<1>6. i = e * a + s
  <2>1. i = d * (2 * a + b) + r
    BY <1>1, <1>2
  <2>2. d * (2 * a + b) = (2 * d) * a + d * b
    OBVIOUS
  <2> QED BY <1>4, <1>5, <2>1, <2>2
<1>7. i \div e = a
  BY <1>4, <1>5, <1>6, DivUnique
<1> QED BY <1>3, <1>4, <1>7

LEMMA DivBound ==
  ASSUME NEW d \in Nat \ {0}, NEW c \in Nat, NEW i \in Nat, i < d * c
  PROVE  i \div d \in 0..(c - 1)
<1>1. PICK q \in Nat, r \in Nat : r < d /\ i = d * q + r
  BY DivRem
<1>2. i \div d = q
  BY <1>1, DivUnique
<1>3. q < c
  <2> SUFFICES ASSUME q >= c PROVE FALSE
    BY <1>1
  <2>1. PICK z \in Nat : q = c + z
    BY q - c \in Nat
  <2>2. d * q = d * c + d * z /\ d * z \in Nat /\ d * c \in Nat
    BY <2>1
  <2> QED BY <1>1, <2>2
<1> QED BY <1>2, <1>3

-----------------------------------------------------------------------------
(* The levels of a tree. *)

LEMMA LevelsRecursion ==
  ASSUME NEW leaves
  PROVE  Levels(leaves) =
           [h \in 0..Depth |-> IF h = 0 THEN Padded(leaves)
                               ELSE Parents(Levels(leaves)[h - 1])]
<1> DEFINE step(g, h) == IF h = 0 THEN Padded(leaves) ELSE Parents(g[h - 1])
           S == {n \in 0..Depth : \E g : g = [h \in 0..n |-> step(g, h)]}
<1>1. 0 \in S
  <2> DEFINE g == [h \in 0..0 |-> Padded(leaves)]
  <2>1. g = [h \in 0..0 |-> step(g, h)]
    OBVIOUS
  <2> HIDE DEF g
  <2> QED BY <2>1, DepthAssumption
<1>2. ASSUME NEW n \in 1..Depth, n - 1 \in S PROVE n \in S
  <2>1. PICK g : g = [h \in 0..(n - 1) |-> step(g, h)]
    BY <1>2
  <2> DEFINE f == [h \in 0..n |-> IF h = n THEN Parents(g[n - 1]) ELSE g[h]]
  <2>2. \A h \in 0..n : f[h] = step(f, h)
    <3> TAKE h \in 0..n
    <3>1. CASE h = n
      BY <3>1
    <3>2. CASE h # n
      <4>1. f[h] = g[h] /\ h \in 0..(n - 1) /\ h - 1 # n
        BY <3>2
      <4>2. g[h] = step(g, h)
        BY <2>1, <4>1
      <4>3. h # 0 => f[h - 1] = g[h - 1]
        BY <4>1
      <4> QED BY <4>1, <4>2, <4>3
    <3> QED BY <3>1, <3>2
  <2>3. f = [h \in 0..n |-> step(f, h)]
    BY <2>2
  <2> HIDE DEF f, step
  <2> QED BY <2>3, DepthAssumption
<1>3. Depth \in S
  <2>1. 0..Depth \subseteq S
    <3> HIDE DEF S
    <3> QED BY <1>1, <1>2, BoundedInduction, DepthAssumption
  <2> QED BY <2>1, DepthAssumption
<1>4. \E g : g = [h \in 0..Depth |-> step(g, h)]
  BY <1>3
<1> QED BY <1>4 DEF Levels

LEMMA LevelAt ==
  ASSUME NEW leaves
  PROVE  /\ Levels(leaves)[0] = Padded(leaves)
         /\ \A h \in 1..Depth : Levels(leaves)[h] = Parents(Levels(leaves)[h - 1])
<1> DEFINE L == Levels(leaves)
<1> HIDE DEF L
<1>1. L = [h \in 0..Depth |-> IF h = 0 THEN Padded(leaves) ELSE Parents(L[h - 1])]
  BY LevelsRecursion DEF L
<1>2. 0 \in 0..Depth /\ \A h \in 1..Depth : h \in 0..Depth /\ h # 0
  BY DepthAssumption
<1> QED BY <1>1, <1>2 DEF L

(* Level h has 2^(Depth - h) nodes. *)
LEMMA LevelWidth ==
  ASSUME NEW leaves, NEW h \in 0..Depth
  PROVE  /\ DOMAIN Levels(leaves)[h] = 1..2^(Depth - h)
         /\ Len(Levels(leaves)[h]) = 2^(Depth - h)
<1> DEFINE L == Levels(leaves)
           full(n) == L[n] = [k \in 1..2^(Depth - n) |-> L[n][k]]
           S == {n \in 0..Depth : full(n)}
<1>1. ASSUME NEW n \in 0..Depth, full(n)
      PROVE  DOMAIN L[n] = 1..2^(Depth - n) /\ Len(L[n]) = 2^(Depth - n)
  <2>1. PICK w \in Nat : w = 2^(Depth - n)
    BY PowerType, DepthAssumption, Depth - n \in Nat
  <2>2. PICK f : f = L[n]
    OBVIOUS
  <2>3. f = [k \in 1..w |-> f[k]]
    BY <1>1, <2>1, <2>2
  <2>4. DOMAIN f = 1..w
    BY <2>3
  <2>5. Len(f) = w
    BY <2>3, <2>4
  <2> QED BY <2>1, <2>2, <2>4, <2>5
<1>2. 0 \in S
  <2>1. L[0] = [k \in 1..Capacity |-> L[0][k]]
    BY LevelAt DEF Padded
  <2>2. Capacity = 2^(Depth - 0)
    BY DepthAssumption DEF Capacity
  <2> HIDE DEF L
  <2> QED BY <2>1, <2>2, DepthAssumption
<1>3. ASSUME NEW n \in 1..Depth, n - 1 \in S PROVE n \in S
  <2>1. PICK w \in Nat : w = 2^(Depth - n)
    BY PowerType, DepthAssumption, Depth - n \in Nat
  <2>2. 2^(Depth - (n - 1)) = 2 * w
    <3>1. Depth - (n - 1) = (Depth - n) + 1 /\ Depth - n \in Nat
      BY DepthAssumption
    <3> QED BY <2>1, <3>1, PowerStep
  <2>3. n - 1 \in 0..Depth /\ full(n - 1)
    BY <1>3
  <2>4. Len(L[n - 1]) = 2 * w
    <3> HIDE DEF full
    <3> QED BY <1>1, <2>2, <2>3
  <2>5. Len(L[n - 1]) \div 2 = w
    BY <2>4
  <2>6. L[n] = [k \in 1..w |-> Hash2(L[n - 1][2*k - 1], L[n - 1][2*k])]
    BY <2>5, LevelAt DEF Parents
  <2>7. L[n] = [k \in 1..w |-> L[n][k]]
    <3> HIDE DEF L
    <3> QED BY <2>6
  <2> HIDE DEF L
  <2> QED BY <2>1, <2>7
<1>4. h \in S
  <2> HIDE DEF S
  <2> QED BY <1>2, <1>3, BoundedInduction, DepthAssumption
<1> HIDE DEF L
<1>5. full(h)
  BY <1>4
<1>6. DOMAIN L[h] = 1..2^(Depth - h) /\ Len(L[h]) = 2^(Depth - h)
  <2> HIDE DEF full
  <2> QED BY <1>1, <1>5
<1> QED BY <1>6 DEF L

(* A node is the hash of the two nodes below it; j is its number from 0. *)
LEMMA NodeAt ==
  ASSUME NEW leaves, NEW h \in 1..Depth, NEW j \in 0..(2^(Depth - h) - 1)
  PROVE  Levels(leaves)[h][1 + j] =
           Hash2(Levels(leaves)[h - 1][2*j + 1], Levels(leaves)[h - 1][2*j + 2])
<1> DEFINE L == Levels(leaves)
<1>1. PICK w \in Nat : w = 2^(Depth - h)
  BY PowerType, DepthAssumption, Depth - h \in Nat
<1>2. Len(L[h - 1]) = 2 * w
  <2>1. Depth - (h - 1) = (Depth - h) + 1 /\ Depth - h \in Nat /\ h - 1 \in 0..Depth
    BY DepthAssumption
  <2>2. Len(L[h - 1]) = 2^(Depth - (h - 1))
    BY <2>1, LevelWidth
  <2> QED BY <1>1, <2>1, <2>2, PowerStep
<1>3. Len(L[h - 1]) \div 2 = w
  BY <1>2
<1>4. L[h] = [k \in 1..w |-> Hash2(L[h - 1][2*k - 1], L[h - 1][2*k])]
  BY <1>3, LevelAt DEF Parents
<1>5. PICK k \in 1..w : k = 1 + j /\ 2*k - 1 = 2*j + 1 /\ 2*k = 2*j + 2
  <2>1. j \in 0..(w - 1)
    BY <1>1
  <2>2. 1 + j \in 1..w /\ 2*(1 + j) - 1 = 2*j + 1 /\ 2*(1 + j) = 2*j + 2
    BY <2>1
  <2> QED BY <2>2
<1> HIDE DEF L
<1>6. L[h][k] = Hash2(L[h - 1][2*k - 1], L[h - 1][2*k])
  BY <1>4, <1>5
<1>7. L[h][1 + j] = Hash2(L[h - 1][2*j + 1], L[h - 1][2*j + 2])
  BY <1>5, <1>6
<1> QED BY <1>7 DEF L

(* The nodes on the path of an index: the one on level h + 1 is the parent *)
(* of the one on level h, and both are nodes of their level.               *)
LEMMA PathIndex ==
  ASSUME NEW index \in 0..(Capacity - 1), NEW h \in 0..Depth
  PROVE  /\ index \div 2^h \in 0..(2^(Depth - h) - 1)
         /\ h # 0 => index \div 2^h = (index \div 2^(h - 1)) \div 2
<1>1. PICK d \in Nat \ {0}, c \in Nat \ {0} : d = 2^h /\ c = 2^(Depth - h)
  BY PowerPositive, DepthAssumption, Depth - h \in Nat
<1>2. d * c = Capacity
  BY <1>1, PowerSplit, DepthAssumption DEF Capacity
<1>3. index \div d \in 0..(c - 1)
  <2>1. index \in Nat /\ index < d * c
    BY <1>2, CapacityType
  <2> QED BY <2>1, DivBound
<1>4. ASSUME h # 0 PROVE index \div d = (index \div 2^(h - 1)) \div 2
  <2>1. PICK e \in Nat \ {0} : e = 2^(h - 1)
    BY <1>4, PowerPositive, DepthAssumption, h - 1 \in Nat
  <2>2. d = 2 * e
    <3>1. h = (h - 1) + 1 /\ h - 1 \in Nat
      BY <1>4, DepthAssumption
    <3> QED BY <1>1, <2>1, <3>1, PowerStep
  <2>3. index \in Nat
    BY CapacityType
  <2>4. index \div (2 * e) = (index \div e) \div 2
    BY <2>3, DivHalves
  <2> QED BY <2>1, <2>2, <2>4
<1> QED BY <1>1, <1>3, <1>4

-----------------------------------------------------------------------------
(* The circuit's folding loop. *)

(* One step of it. *)
FoldStep(witness, h, node) ==
  IF witness.path_indices[h] THEN Hash2(witness.path_elements[h], node)
  ELSE Hash2(node, witness.path_elements[h])

LEMMA FoldSteps ==
  ASSUME NEW leaf, NEW witness
  PROVE  \E cur : /\ cur[0] = leaf
                  /\ \A h \in 1..Depth : cur[h] = FoldStep(witness, h, cur[h - 1])
                  /\ Fold(leaf, witness) = cur[Depth]
<1> DEFINE step(g, h) == IF h = 0 THEN leaf
                         ELSE IF witness.path_indices[h]
                              THEN Hash2(witness.path_elements[h], g[h - 1])
                              ELSE Hash2(g[h - 1], witness.path_elements[h])
           S == {n \in 0..Depth : \E g : g = [h \in 0..n |-> step(g, h)]}
<1>1. 0 \in S
  <2> DEFINE g == [h \in 0..0 |-> leaf]
  <2>1. g = [h \in 0..0 |-> step(g, h)]
    OBVIOUS
  <2> HIDE DEF g
  <2> QED BY <2>1, DepthAssumption
<1>2. ASSUME NEW n \in 1..Depth, n - 1 \in S PROVE n \in S
  <2>1. PICK g : g = [h \in 0..(n - 1) |-> step(g, h)]
    BY <1>2
  <2> DEFINE f == [h \in 0..n |-> IF h = n THEN FoldStep(witness, n, g[n - 1]) ELSE g[h]]
  <2>2. \A h \in 0..n : f[h] = step(f, h)
    <3> TAKE h \in 0..n
    <3>1. CASE h = n
      BY <3>1 DEF FoldStep
    <3>2. CASE h # n
      <4>1. f[h] = g[h] /\ h \in 0..(n - 1) /\ h - 1 # n
        BY <3>2
      <4>2. g[h] = step(g, h)
        BY <2>1, <4>1
      <4>3. h # 0 => f[h - 1] = g[h - 1]
        BY <4>1
      <4> QED BY <4>1, <4>2, <4>3
    <3> QED BY <3>1, <3>2
  <2>3. f = [h \in 0..n |-> step(f, h)]
    BY <2>2
  <2> HIDE DEF f, step
  <2> QED BY <2>3, DepthAssumption
<1>3. Depth \in S
  <2>1. 0..Depth \subseteq S
    <3> HIDE DEF S
    <3> QED BY <1>1, <1>2, BoundedInduction, DepthAssumption
  <2> QED BY <2>1, DepthAssumption
<1>4. \E g : g = [h \in 0..Depth |-> step(g, h)]
  BY <1>3
<1>5. PICK cur : /\ cur = [h \in 0..Depth |-> step(cur, h)]
                 /\ Fold(leaf, witness) = cur[Depth]
  BY <1>4 DEF Fold
<1>6. cur[0] = leaf
  BY <1>5, DepthAssumption
<1>7. ASSUME NEW h \in 1..Depth PROVE cur[h] = FoldStep(witness, h, cur[h - 1])
  <2>1. h \in 0..Depth /\ h # 0
    BY DepthAssumption
  <2> QED BY <1>5, <2>1 DEF FoldStep
<1> QED BY <1>5, <1>6, <1>7

(* A witness tells the positions of two leaves apart: with the same        *)
(* witness, different leaves fold to different roots.                      *)
LEMMA FoldInjective ==
  ASSUME NEW leaf, NEW other, NEW witness, Fold(leaf, witness) = Fold(other, witness)
  PROVE  leaf = other
<1> SUFFICES ASSUME leaf # other PROVE FALSE
  OBVIOUS
<1>1. PICK a : /\ a[0] = leaf
               /\ \A h \in 1..Depth : a[h] = FoldStep(witness, h, a[h - 1])
               /\ Fold(leaf, witness) = a[Depth]
  BY FoldSteps
<1>2. PICK b : /\ b[0] = other
               /\ \A h \in 1..Depth : b[h] = FoldStep(witness, h, b[h - 1])
               /\ Fold(other, witness) = b[Depth]
  BY FoldSteps
<1> DEFINE S == {h \in 0..Depth : a[h] # b[h]}
<1>3. 0 \in S
  BY <1>1, <1>2, DepthAssumption
<1>4. ASSUME NEW h \in 1..Depth, h - 1 \in S PROVE h \in S
  <2>1. /\ a[h] = FoldStep(witness, h, a[h - 1])
        /\ b[h] = FoldStep(witness, h, b[h - 1])
    BY <1>1, <1>2
  <2>2. a[h] # b[h]
    BY <1>4, <2>1 DEF FoldStep, Hash2
  <2> QED BY <2>2, DepthAssumption
<1>5. Depth \in S
  <2> HIDE DEF S
  <2> QED BY <1>3, <1>4, BoundedInduction, DepthAssumption
<1> QED BY <1>1, <1>2, <1>5

(* Folding a slot of the padded leaf layer up its witness visits the nodes *)
(* of its path, the last of which is the root.                             *)
LEMMA FoldOfWitness ==
  ASSUME NEW leaves, NEW index \in 0..(Capacity - 1)
  PROVE  Fold(Padded(leaves)[index + 1], Witness(leaves, index)) = Root(leaves)
<1> DEFINE L == Levels(leaves)
           w == Witness(leaves, index)
           leaf == Padded(leaves)[index + 1]
<1>1. PICK cur : /\ cur[0] = leaf
                 /\ \A h \in 1..Depth : cur[h] = FoldStep(w, h, cur[h - 1])
                 /\ Fold(leaf, w) = cur[Depth]
  <2> HIDE DEF w, leaf
  <2> QED BY FoldSteps
<1> DEFINE S == {h \in 0..Depth : cur[h] = L[h][1 + (index \div 2^h)]}
<1>2. 0 \in S
  <2>1. 2^0 = 1 /\ index \div 1 = index /\ 1 + index = index + 1
    BY CapacityType
  <2>2. L[0][1 + (index \div 2^0)] = leaf
    BY <2>1, LevelAt
  <2> HIDE DEF L, leaf
  <2> QED BY <1>1, <2>2, DepthAssumption
<1>3. ASSUME NEW h \in 1..Depth, h - 1 \in S PROVE h \in S
  <2>1. PICK m \in Nat : m = index \div 2^(h - 1)
    <3>1. h - 1 \in 0..Depth /\ Depth - (h - 1) \in Nat
      BY DepthAssumption
    <3> QED BY <3>1, PathIndex, PowerType
  <2>2. PICK j \in 0..(2^(Depth - h) - 1) : j = index \div 2^h
    BY PathIndex, DepthAssumption
  <2>3. j = m \div 2
    BY <2>1, <2>2, PathIndex, DepthAssumption
  <2>4. L[h][1 + j] = Hash2(L[h - 1][2*j + 1], L[h - 1][2*j + 2])
    BY NodeAt
  <2>5. cur[h - 1] = L[h - 1][1 + m]
    BY <1>3, <2>1
  <2>6. /\ w.path_elements[h] = L[h - 1][1 + Sibling(m)]
        /\ w.path_indices[h] = (m % 2 = 1)
    BY <2>1 DEF Witness
  <2>7. cur[h] = FoldStep(w, h, L[h - 1][1 + m])
    <3> HIDE DEF w, L
    <3> QED BY <1>1, <2>5
  <2> HIDE DEF w, L
  <2>8. cur[h] = L[h][1 + j]
    <3>1. CASE m % 2 = 1
      <4>1. 1 + m = 2*j + 2 /\ 1 + Sibling(m) = 2*j + 1
        BY <2>3, <3>1 DEF Sibling
      <4>2. w.path_indices[h]
        BY <2>6, <3>1
      <4>3. cur[h] = Hash2(L[h - 1][1 + Sibling(m)], L[h - 1][1 + m])
        BY <2>6, <2>7, <4>2 DEF FoldStep
      <4> QED BY <2>4, <4>1, <4>3
    <3>2. CASE m % 2 = 0
      <4>1. 1 + m = 2*j + 1 /\ 1 + Sibling(m) = 2*j + 2
        BY <2>3, <3>2 DEF Sibling
      <4>2. ~ w.path_indices[h]
        <5>1. ~ (m % 2 = 1)
          BY <3>2
        <5> QED BY <2>6, <5>1, Zenon
      <4>3. cur[h] = Hash2(L[h - 1][1 + m], L[h - 1][1 + Sibling(m)])
        BY <2>6, <2>7, <4>2 DEF FoldStep
      <4> QED BY <2>4, <4>1, <4>3
    <3> QED BY <3>1, <3>2
  <2> QED BY <2>2, <2>8, DepthAssumption
<1>4. Depth \in S
  <2> HIDE DEF S
  <2> QED BY <1>2, <1>3, BoundedInduction, DepthAssumption
<1>5. index \div 2^Depth = 0
  <2>1. Depth - Depth = 0 /\ 2^0 = 1 /\ Depth \in 0..Depth
    BY DepthAssumption
  <2>2. index \div 2^Depth \in 0..(2^(Depth - Depth) - 1)
    BY <2>1, PathIndex
  <2>3. index \div 2^Depth \in 0..(1 - 1)
    BY <2>1, <2>2
  <2> QED BY <2>3
<1>6. cur[Depth] = L[Depth][1]
  <2> HIDE DEF L
  <2> QED BY <1>4, <1>5
<1> QED BY <1>1, <1>6 DEF Root

(* And there is no other way to the root: whatever path leads there, each  *)
(* node on it is a node of the tree, and what it starts from is a leaf.    *)
LEMMA FoldStartsAtLeaf ==
  ASSUME NEW leaves, NEW leaf, NEW witness, Fold(leaf, witness) = Root(leaves)
  PROVE  \E k \in 1..Capacity : Padded(leaves)[k] = leaf
<1> DEFINE L == Levels(leaves)
<1>1. PICK cur : /\ cur[0] = leaf
                 /\ \A h \in 1..Depth : cur[h] = FoldStep(witness, h, cur[h - 1])
                 /\ Fold(leaf, witness) = cur[Depth]
  BY FoldSteps
<1> DEFINE S == {g \in 0..Depth :
                   \E j \in 0..(2^g - 1) : cur[Depth - g] = L[Depth - g][1 + j]}
<1>2. 0 \in S
  <2>1. Depth - 0 = Depth /\ 2^0 = 1 /\ 1 + 0 = 1 /\ 0 \in 0..(1 - 1)
    BY DepthAssumption
  <2>2. cur[Depth] = L[Depth][1]
    BY <1>1 DEF Root
  <2> HIDE DEF L
  <2>3. 0 \in 0..(2^0 - 1) /\ cur[Depth - 0] = L[Depth - 0][1 + 0]
    BY <2>1, <2>2
  <2> QED BY <2>3, DepthAssumption
<1>3. ASSUME NEW g \in 1..Depth, g - 1 \in S PROVE g \in S
  <2>1. PICK h \in 1..Depth : /\ Depth - (g - 1) = h /\ Depth - g = h - 1
                              /\ Depth - h = g - 1
    <3>1. Depth - (g - 1) \in 1..Depth
      BY DepthAssumption
    <3>2. Depth - g = (Depth - (g - 1)) - 1 /\ Depth - (Depth - (g - 1)) = g - 1
      BY DepthAssumption
    <3> QED BY <3>1, <3>2
  <2>2. PICK w \in Nat : w = 2^(g - 1)
    BY PowerType, g - 1 \in Nat
  <2>3. 2^g = 2 * w
    <3>1. g = (g - 1) + 1 /\ g - 1 \in Nat
      OBVIOUS
    <3> QED BY <2>2, <3>1, PowerStep
  <2>4. PICK j \in 0..(w - 1) : cur[h] = L[h][1 + j]
    <3> HIDE DEF L
    <3> QED BY <1>3, <2>1, <2>2
  <2>5. L[h][1 + j] = Hash2(L[h - 1][2*j + 1], L[h - 1][2*j + 2])
    <3>1. j \in 0..(2^(Depth - h) - 1)
      BY <2>1, <2>2
    <3> HIDE DEF L
    <3>2. PICK i \in 0..(2^(Depth - h) - 1) : i = j
      BY <3>1
    <3> QED BY <3>2, NodeAt DEF L
  <2>6. cur[h] = FoldStep(witness, h, cur[h - 1])
    BY <1>1
  <2> HIDE DEF L
  <2>7. cur[h - 1] = L[h - 1][2*j + 1] \/ cur[h - 1] = L[h - 1][2*j + 2]
    BY <2>4, <2>5, <2>6 DEF FoldStep, Hash2
  <2>8. \E m \in 0..(2*w - 1) : cur[h - 1] = L[h - 1][1 + m]
    <3>1. 2*j \in 0..(2*w - 1) /\ 2*j + 1 \in 0..(2*w - 1)
      BY <2>2
    <3>2. 1 + 2*j = 2*j + 1 /\ 1 + (2*j + 1) = 2*j + 2
      OBVIOUS
    <3> QED BY <2>7, <3>1, <3>2
  <2> QED BY <2>1, <2>3, <2>8, DepthAssumption
<1>4. Depth \in S
  <2> HIDE DEF S
  <2> QED BY <1>2, <1>3, BoundedInduction, DepthAssumption
<1>5. PICK j \in 0..(Capacity - 1) : cur[0] = L[0][1 + j]
  <2>1. Depth - Depth = 0 /\ Capacity = 2^Depth
    BY DepthAssumption DEF Capacity
  <2> HIDE DEF L
  <2> QED BY <1>4, <2>1
<1>6. 1 + j \in 1..Capacity
  BY CapacityType
<1>7. L[0] = Padded(leaves)
  BY LevelAt
<1> HIDE DEF L
<1> QED BY <1>1, <1>5, <1>6, <1>7

-----------------------------------------------------------------------------
(* The root. *)

(* Two trees with the same root have the same padded leaf layer: a         *)
(* difference between nodes of a level makes their parents differ.         *)
LEMMA RootInjective ==
  ASSUME NEW leaves, NEW others, Root(leaves) = Root(others)
  PROVE  Padded(leaves) = Padded(others)
<1> SUFFICES ASSUME Padded(leaves) # Padded(others) PROVE FALSE
  OBVIOUS
<1> DEFINE A == Levels(leaves)
           B == Levels(others)
           S == {h \in 0..Depth :
                   \E j \in 0..(2^(Depth - h) - 1) : A[h][1 + j] # B[h][1 + j]}
<1>1. 0 \in S
  <2>1. PICK k \in 1..Capacity : Padded(leaves)[k] # Padded(others)[k]
    BY DEF Padded
  <2>2. PICK j \in 0..(Capacity - 1) : 1 + j = k
    <3>1. k - 1 \in 0..(Capacity - 1) /\ 1 + (k - 1) = k
      BY CapacityType
    <3> QED BY <3>1
  <2>3. Depth - 0 = Depth /\ Capacity = 2^Depth /\ 0 \in 0..Depth
    BY DepthAssumption DEF Capacity
  <2>4. A[0][1 + j] # B[0][1 + j]
    BY <2>1, <2>2, LevelAt
  <2> HIDE DEF A, B
  <2> QED BY <2>2, <2>3, <2>4
<1>2. ASSUME NEW h \in 1..Depth, h - 1 \in S PROVE h \in S
  <2>1. PICK w \in Nat : w = 2^(Depth - h)
    BY PowerType, DepthAssumption, Depth - h \in Nat
  <2>2. 2^(Depth - (h - 1)) = 2 * w
    <3>1. Depth - (h - 1) = (Depth - h) + 1 /\ Depth - h \in Nat
      BY DepthAssumption
    <3> QED BY <2>1, <3>1, PowerStep
  <2>3. PICK m \in 0..(2 * w - 1) : A[h - 1][1 + m] # B[h - 1][1 + m]
    <3> HIDE DEF A, B
    <3> QED BY <1>2, <2>2
  <2>4. PICK j \in 0..(w - 1) : j = m \div 2
    <3>1. m \div 2 \in 0..(w - 1)
      BY <2>1, <2>3
    <3> QED BY <3>1
  <2>5. 1 + m = 2*j + 1 \/ 1 + m = 2*j + 2
    BY <2>1, <2>3, <2>4
  <2>6. /\ A[h][1 + j] = Hash2(A[h - 1][2*j + 1], A[h - 1][2*j + 2])
        /\ B[h][1 + j] = Hash2(B[h - 1][2*j + 1], B[h - 1][2*j + 2])
    BY <2>1, <2>4, NodeAt
  <2> HIDE DEF A, B
  <2>7. A[h][1 + j] # B[h][1 + j]
    BY <2>3, <2>5, <2>6 DEF Hash2
  <2> QED BY <2>1, <2>4, <2>7, DepthAssumption
<1>3. Depth \in S
  <2> HIDE DEF S
  <2> QED BY <1>1, <1>2, BoundedInduction, DepthAssumption
<1>4. PICK j \in 0..(2^(Depth - Depth) - 1) : A[Depth][1 + j] # B[Depth][1 + j]
  <2> HIDE DEF A, B
  <2> QED BY <1>3
<1>5. j = 0
  <2>1. Depth - Depth = 0 /\ 2^0 = 1
    BY DepthAssumption
  <2>2. j \in 0..(1 - 1)
    BY <1>4, <2>1
  <2> QED BY <2>2
<1>6. A[Depth][1] # B[Depth][1]
  <2> HIDE DEF A, B
  <2> QED BY <1>4, <1>5
<1> QED BY <1>6 DEF Root

-----------------------------------------------------------------------------
(* crypto::prove. *)

(* The position prove takes holds the holder's commitment. *)
LEMMA FirstIndexOfMember ==
  ASSUME NEW leaves, Len(leaves) \in Nat, NEW secret, IsMember(leaves, secret)
  PROVE  /\ FirstIndex(leaves, secret) \in 0..(Len(leaves) - 1)
         /\ leaves[FirstIndex(leaves, secret) + 1] = LeafCommitment(secret)
<1> DEFINE first(k) == /\ leaves[k] = LeafCommitment(secret)
                       /\ \A j \in 1..(k - 1) : leaves[j] # LeafCommitment(secret)
           held == {k \in 1..Len(leaves) : leaves[k] = LeafCommitment(secret)}
<1>1. \E k \in 1..Len(leaves) : first(k)
  <2>1. held # {} /\ held \in SUBSET Nat
    BY DEF IsMember
  <2>2. PICK k \in held : \A j \in held : k <= j
    <3> HIDE DEF held
    <3> QED BY <2>1, LeastMember
  <2>3. k \in 1..Len(leaves) /\ leaves[k] = LeafCommitment(secret)
    OBVIOUS
  <2>4. \A j \in 1..(k - 1) : leaves[j] # LeafCommitment(secret)
    BY <2>2, <2>3
  <2> QED BY <2>3, <2>4
<1>2. PICK c : c = CHOOSE k \in 1..Len(leaves) : first(k)
  OBVIOUS
<1>3. c \in 1..Len(leaves) /\ first(c)
  <2> HIDE DEF first
  <2> QED BY <1>1, <1>2
<1>4. FirstIndex(leaves, secret) = c - 1
  BY <1>2 DEF FirstIndex
<1>5. c - 1 \in 0..(Len(leaves) - 1) /\ (c - 1) + 1 = c
  BY <1>3
<1> QED BY <1>3, <1>4, <1>5

(* A member's witness satisfies the circuit. *)
LEMMA MemberFolds ==
  ASSUME NEW leaves, Len(leaves) \in Nat, Len(leaves) <= Capacity,
         NEW secret, IsMember(leaves, secret)
  PROVE  Fold(LeafCommitment(secret), Witness(leaves, FirstIndex(leaves, secret)))
           = Root(leaves)
<1>1. PICK i : i = FirstIndex(leaves, secret)
  OBVIOUS
<1>2. i \in 0..(Len(leaves) - 1) /\ leaves[i + 1] = LeafCommitment(secret)
  BY <1>1, FirstIndexOfMember
<1>3. i \in 0..(Capacity - 1) /\ i + 1 \in 1..Capacity /\ i + 1 <= Len(leaves)
  BY <1>2, CapacityType
<1>4. Padded(leaves)[i + 1] = leaves[i + 1]
  BY <1>3 DEF Padded
<1>5. Fold(Padded(leaves)[i + 1], Witness(leaves, i)) = Root(leaves)
  BY <1>3, FoldOfWitness
<1> QED BY <1>1, <1>2, <1>4, <1>5

(* Its proof passes the self-check exactly with keys of one setup. *)
LEMMA MemberSelfCheck ==
  ASSUME NEW leaves, Len(leaves) \in Nat, Len(leaves) <= Capacity,
         NEW secret, IsMember(leaves, secret), NEW keys, NEW strkey
  PROVE  SelfCheckPasses(keys, leaves, secret, strkey) <=> keys.pk = keys.vk
<1> DEFINE inputs == PublicInputs(leaves, secret, strkey)
           proof == MembershipProof(keys, leaves, secret, strkey)
<1>1. proof.valid
  BY MemberFolds DEF MembershipProof, Groth16Prove, CircuitSatisfied, PublicInputs
<1>2. proof.setup = keys.pk /\ proof.inputs = inputs
  BY DEF MembershipProof, Groth16Prove
<1> HIDE DEF inputs, proof
<1>3. Groth16Verify(keys.vk, inputs, proof) <=> keys.pk = keys.vk
  BY <1>1, <1>2 DEF Groth16Verify
<1> QED BY <1>3 DEF SelfCheckPasses, inputs, proof
=============================================================================
