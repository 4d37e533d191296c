-------------------------- MODULE MerkleTreeProofs --------------------------
(***************************************************************************)
(* Proofs about MerkleTree, from what MerkleProofs shows of its operators. *)
(***************************************************************************)
EXTENDS MerkleTree, MerkleProofs

LEMMA InitTypeOK == Init => TypeOK
<1> SUFFICES ASSUME Init PROVE TypeOK
  OBVIOUS
<1>1. PICK n \in 0..(Capacity + 1) : leaves \in [1..n -> LeafValues]
  BY DEF Init, FromLeaves, Lists
<1>2. leaves \in Seq(LeafValues)
  BY <1>1, CapacityType
<1> QED BY <1>2 DEF Init, FromLeaves, Fits, TypeOK

LEMMA NextTypeOK == TypeOK /\ [Next]_leaves => TypeOK'
<1> SUFFICES ASSUME TypeOK, [Next]_leaves PROVE TypeOK'
  OBVIOUS
<1>1. ASSUME NEW leaf \in LeafValues, Push(leaf) PROVE TypeOK'
  <2>1. /\ leaves \in Seq(LeafValues) /\ Len(leaves) < Capacity
        /\ leaves' = Append(leaves, leaf)
    BY <1>1 DEF Push, TypeOK
  <2>2. leaves' \in Seq(LeafValues) /\ Len(leaves') = Len(leaves) + 1
    BY <2>1
  <2> QED BY <2>1, <2>2, CapacityType DEF TypeOK
<1>2. CASE PushRefused
  BY <1>2 DEF PushRefused, TypeOK
<1>3. CASE UNCHANGED leaves
  BY <1>3 DEF TypeOK
<1> QED BY <1>1, <1>2, <1>3 DEF Next

(* The leaves of a tree fit its padded layer.                              *)
THEOREM TypeCorrect == Spec => []TypeOK
BY InitTypeOK, NextTypeOK, PTL DEF Spec

(* A leaf of the tree stands in the padded layer, at its own position.     *)
LEMMA PaddedKeepsLeaves ==
  ASSUME TypeOK, NEW index \in 0..(Len(leaves) - 1)
  PROVE  /\ index \in 0..(Capacity - 1)
         /\ Padded(leaves)[index + 1] = leaves[index + 1]
<1>1. Len(leaves) \in Nat /\ Len(leaves) <= Capacity
  BY DEF TypeOK
<1>2. index \in 0..(Capacity - 1) /\ index + 1 \in 1..Capacity /\ index + 1 <= Len(leaves)
  BY <1>1, CapacityType
<1> QED BY <1>2 DEF Padded

(* The circuit's fold of every witness the tree hands out gives the root   *)
(* (merkle.rs witness and root, circuit.rs), for every depth.              *)
THEOREM WitnessesFoldToRoot == Spec => []WitnessFoldsToRoot
<1>1. TypeOK => WitnessFoldsToRoot
  <2> SUFFICES ASSUME TypeOK, NEW index \in 0..(Len(leaves) - 1)
               PROVE  Fold(leaves[index + 1], Witness(leaves, index)) = Root(leaves)
    BY DEF WitnessFoldsToRoot
  <2> QED BY PaddedKeepsLeaves, FoldOfWitness
<1> QED BY <1>1, TypeCorrect, PTL

(* No other leaf folds to the root with that witness.                      *)
THEOREM WitnessesBindLeaf == Spec => []WitnessBindsLeaf
<1>1. TypeOK => WitnessBindsLeaf
  <2> SUFFICES ASSUME TypeOK, NEW index \in 0..(Len(leaves) - 1), NEW v,
                      Fold(v, Witness(leaves, index)) = Root(leaves)
               PROVE  v = leaves[index + 1]
    BY DEF WitnessBindsLeaf
  <2>1. Fold(leaves[index + 1], Witness(leaves, index)) = Root(leaves)
    BY PaddedKeepsLeaves, FoldOfWitness
  <2> QED BY <2>1, FoldInjective
<1> QED BY <1>1, TypeCorrect, PTL

(* Whatever path satisfies the circuit starts at a leaf of the tree, and   *)
(* the nullifier tells whose.                                              *)
THEOREM OnlyMembersProve == Spec => []OnlyMembersSatisfyCircuit
<1>1. TypeOK => OnlyMembersSatisfyCircuit
  <2> SUFFICES ASSUME TypeOK, NEW s, NEW holder, NEW path,
                      CircuitSatisfied([root      |-> Root(leaves),
                                        nullifier |-> Nullifier(holder)], s, path)
               PROVE  \/ IsMember(leaves, holder)
                      \/ Len(leaves) < Capacity /\ LeafCommitment(holder) = EmptyLeaf
    BY DEF OnlyMembersSatisfyCircuit
  <2>1. /\ Fold(LeafCommitment(s), path) = Root(leaves)
        /\ Nullifier(s) = Nullifier(holder)
    BY DEF CircuitSatisfied
  <2>2. LeafCommitment(s) = LeafCommitment(holder)
    BY <2>1 DEF Nullifier, LeafCommitment, Hash2
  <2>3. PICK k \in 1..Capacity : Padded(leaves)[k] = LeafCommitment(holder)
    BY <2>1, <2>2, FoldStartsAtLeaf
  <2>4. Len(leaves) \in Nat /\ Len(leaves) <= Capacity /\ k \in Nat
    BY CapacityType DEF TypeOK
  <2>5. CASE k <= Len(leaves)
    <3>1. k \in 1..Len(leaves) /\ leaves[k] = LeafCommitment(holder)
      BY <2>3, <2>4, <2>5 DEF Padded
    <3> QED BY <3>1 DEF IsMember
  <2>6. CASE ~ (k <= Len(leaves))
    <3>1. Len(leaves) < Capacity
      BY <2>3, <2>4, <2>6, CapacityType
    <3>2. LeafCommitment(holder) = EmptyLeaf
      BY <2>3, <2>6 DEF Padded
    <3> QED BY <3>1, <3>2
  <2> QED BY <2>5, <2>6
<1> QED BY <1>1, TypeCorrect, PTL

(* What the recursion of BalancedHash makes of the leaves of a tree.       *)
HashesHalves(tree, subtree) ==
  /\ \A k \in 0..(Capacity - 1) :
       subtree[0][k] = IF k < Len(tree) THEN tree[k + 1] ELSE EmptyLeaf
  /\ \A h \in 1..Depth, k \in 0..(Capacity - 1) :
       k + 2^h <= Capacity =>
         subtree[h][k] = Hash2(subtree[h - 1][k], subtree[h - 1][k + 2^(h - 1)])

(* It is well defined: each of its levels takes the ones below it.         *)
LEMMA BalancedHashSteps ==
  ASSUME NEW tree
  PROVE  \E subtree : HashesHalves(tree, subtree) /\ BalancedHash(tree) = subtree[Depth][0]
<1> DEFINE step(g, h) ==
             [k \in 0..(Capacity - 1) |->
                IF h = 0
                THEN IF k < Len(tree) THEN tree[k + 1] ELSE EmptyLeaf
                ELSE IF k + 2^h > Capacity
                THEN EmptyLeaf
                ELSE Hash2(g[h - 1][k], g[h - 1][k + 2^(h - 1)])]
           S == {n \in 0..Depth : \E g : g = [h \in 0..n |-> step(g, h)]}
<1>1. 0 \in S
  <2> DEFINE g == [h \in 0..0 |-> step(<<>>, 0)]
  <2>1. g = [h \in 0..0 |-> step(g, h)]
    OBVIOUS
  <2> HIDE DEF g
  <2> QED BY <2>1, DepthAssumption
<1>2. ASSUME NEW n \in 1..Depth, n - 1 \in S PROVE n \in S
  <2>1. PICK g : g = [h \in 0..(n - 1) |-> step(g, h)]
    BY <1>2
  <2> DEFINE f == [h \in 0..n |-> IF h = n THEN step(g, n) ELSE g[h]]
  <2>2. \A h \in 0..n : f[h] = step(f, h)
    <3> TAKE h \in 0..n
    <3>1. CASE h = n
      <4>1. f[h] = step(g, n) /\ f[h - 1] = g[h - 1]
        BY <3>1
      <4> HIDE DEF f
      <4> QED BY <3>1, <4>1
    <3>2. CASE h # n
      <4>1. f[h] = g[h] /\ h \in 0..(n - 1) /\ h - 1 # n
        BY <3>2
      <4>2. g[h] = step(g, h)
        BY <2>1, <4>1
      <4>3. h # 0 => f[h - 1] = g[h - 1]
        BY <4>1
      <4> HIDE DEF f
      <4> QED BY <4>1, <4>2, <4>3
    <3> QED BY <3>1, <3>2
  <2>3. f = [h \in 0..n |-> step(f, h)]
    BY <2>2
  <2> HIDE DEF f, step
  <2> QED BY <2>3, DepthAssumption
<1>3. Depth \in S
  <2>1. 0..Depth \subseteq S
    <3> HIDE DEF S
    <3> QED BY <1>1, <1>2, BoundedInduction, DepthAssumption
  <2> HIDE DEF S
  <2> QED BY <2>1, DepthAssumption
<1>4. \E g : g = [h \in 0..Depth |-> step(g, h)]
  BY <1>3
<1>5. PICK t : /\ t = [h \in 0..Depth |-> step(t, h)]
               /\ BalancedHash(tree) = t[Depth][0]
  BY <1>4 DEF BalancedHash
<1>6. \A h \in 0..Depth : t[h] = step(t, h)
  <2> HIDE DEF step
  <2> QED BY <1>5
<1>7. ASSUME NEW k \in 0..(Capacity - 1)
      PROVE  t[0][k] = IF k < Len(tree) THEN tree[k + 1] ELSE EmptyLeaf
  <2>1. t[0] = step(t, 0)
    <3> HIDE DEF step
    <3> QED BY <1>6, DepthAssumption
  <2> QED BY <2>1
<1>8. ASSUME NEW h \in 1..Depth, NEW k \in 0..(Capacity - 1), k + 2^h <= Capacity
      PROVE  t[h][k] = Hash2(t[h - 1][k], t[h - 1][k + 2^(h - 1)])
  <2>1. h \in 0..Depth /\ h # 0
    BY DepthAssumption
  <2>2. ~ (k + 2^h > Capacity)
    <3>1. PICK p \in Nat : p = 2^h
      BY PowerType
    <3> QED BY <1>8, <3>1, CapacityType
  <2> QED BY <1>6, <2>1, <2>2
<1> QED BY <1>5, <1>7, <1>8 DEF HashesHalves

(* Node j of level h is the reference hash of the 2^h leaves it stands on. *)
LEMMA LevelsAreBalanced ==
  ASSUME NEW tree, Len(tree) \in Nat, NEW subtree, HashesHalves(tree, subtree)
  PROVE  subtree[Depth][0] = Root(tree)
<1> DEFINE L == Levels(tree)
           S == {h \in 0..Depth :
                   \A j \in 0..(2^(Depth - h) - 1) : subtree[h][j * 2^h] = L[h][1 + j]}
<1>1. 0 \in S
  <2>1. ASSUME NEW j \in 0..(Capacity - 1) PROVE subtree[0][j] = L[0][1 + j]
    <3>1. PICK k \in 1..Capacity : k = 1 + j /\ k = j + 1
      BY CapacityType
    <3>2. L[0] = Padded(tree)
      BY LevelAt
    <3>3. Padded(tree)[k] = IF k <= Len(tree) THEN tree[k] ELSE EmptyLeaf
      BY DEF Padded
    <3>4. k <= Len(tree) <=> j < Len(tree)
      BY <3>1
    <3>5. subtree[0][j] = IF j < Len(tree) THEN tree[j + 1] ELSE EmptyLeaf
      BY DEF HashesHalves
    <3> HIDE DEF L
    <3> QED BY <3>1, <3>2, <3>3, <3>4, <3>5
  <2>2. Capacity = 2^(Depth - 0) /\ 2^0 = 1
    BY DepthAssumption DEF Capacity
  <2>3. \A j \in 0..(2^(Depth - 0) - 1) : subtree[0][j * 2^0] = L[0][1 + j]
    <3> SUFFICES ASSUME NEW j \in 0..(2^(Depth - 0) - 1)
                 PROVE  subtree[0][j * 2^0] = L[0][1 + j]
      OBVIOUS
    <3>1. j \in 0..(Capacity - 1) /\ j * 2^0 = j
      BY <2>2, CapacityType
    <3> HIDE DEF L
    <3> QED BY <2>1, <3>1
  <2> HIDE DEF L
  <2> QED BY <2>3, DepthAssumption
<1>2. ASSUME NEW h \in 1..Depth, h - 1 \in S PROVE h \in S
  <2>1. PICK w \in Nat \ {0}, d \in Nat \ {0}, e \in Nat \ {0} :
          w = 2^(Depth - h) /\ d = 2^h /\ e = 2^(h - 1)
    BY PowerPositive, DepthAssumption, Depth - h \in Nat, h \in Nat, h - 1 \in Nat
  <2>2. d = 2 * e
    <3>1. h = (h - 1) + 1 /\ h - 1 \in Nat
      OBVIOUS
    <3> QED BY <2>1, <3>1, PowerStep
  <2>3. 2^(Depth - (h - 1)) = 2 * w
    <3>1. Depth - (h - 1) = (Depth - h) + 1 /\ Depth - h \in Nat
      BY DepthAssumption
    <3> QED BY <2>1, <3>1, PowerStep
  <2>4. d * w = Capacity
    <3>1. h \in 0..Depth
      OBVIOUS
    <3> QED BY <2>1, <3>1, PowerSplit, DepthAssumption DEF Capacity
  <2>5. ASSUME NEW j \in 0..(w - 1) PROVE subtree[h][j * d] = L[h][1 + j]
    <3>1. PICK k \in Nat : k = j * d /\ k + d <= Capacity /\ k \in 0..(Capacity - 1)
      <4>1. PICK z \in Nat : w = (j + 1) + z
        BY w - (j + 1) \in Nat
      <4>2. d * w = j * d + d + d * z /\ d * z \in Nat /\ j * d \in Nat
        BY <4>1
      <4>3. PICK k \in Nat : k = j * d
        BY <4>2
      <4>4. PICK y \in Nat : y = d * z
        BY <4>2
      <4>5. Capacity = k + d + y
        BY <2>4, <4>2, <4>3, <4>4
      <4>6. k + d <= Capacity /\ k \in 0..(Capacity - 1)
        BY <4>5, CapacityType
      <4> QED BY <4>3, <4>6
    <3>2. k = (2 * j) * e /\ k + e = (2 * j + 1) * e
      BY <2>2, <3>1
    <3>3. subtree[h][k] = Hash2(subtree[h - 1][k], subtree[h - 1][k + e])
      BY <2>1, <3>1 DEF HashesHalves
    <3>4. 2 * j \in 0..(2 * w - 1) /\ 2 * j + 1 \in 0..(2 * w - 1)
      BY <2>1
    <3>5. \A m \in 0..(2 * w - 1) : subtree[h - 1][m * e] = L[h - 1][1 + m]
      <4> HIDE DEF L
      <4> QED BY <1>2, <2>1, <2>3
    <3>6. /\ subtree[h - 1][k] = L[h - 1][2 * j + 1]
          /\ subtree[h - 1][k + e] = L[h - 1][2 * j + 2]
      <4>1. 1 + (2 * j) = 2 * j + 1 /\ 1 + (2 * j + 1) = 2 * j + 2
        OBVIOUS
      <4> HIDE DEF L
      <4> QED BY <3>2, <3>4, <3>5, <4>1
    <3>7. L[h][1 + j] = Hash2(L[h - 1][2 * j + 1], L[h - 1][2 * j + 2])
      BY <2>1, NodeAt
    <3> HIDE DEF L
    <3> QED BY <3>1, <3>3, <3>6, <3>7
  <2> HIDE DEF L
  <2> QED BY <2>1, <2>5
<1>3. Depth \in S
  <2> HIDE DEF S
  <2> QED BY <1>1, <1>2, BoundedInduction, DepthAssumption
<1>4. 0 \in 0..(2^(Depth - Depth) - 1) /\ 0 * 2^Depth = 0
  <2>1. Depth - Depth = 0 /\ 2^0 = 1 /\ 2^Depth \in Nat
    BY PowerType, DepthAssumption
  <2>2. 0 \in 0..(2^(Depth - Depth) - 1)
    <3>1. 0 \in 0..(1 - 1)
      OBVIOUS
    <3> QED BY <2>1, <3>1
  <2>3. PICK p \in Nat : p = 2^Depth
    BY <2>1
  <2>4. 0 * p = 0
    OBVIOUS
  <2> QED BY <2>2, <2>3, <2>4
<1>5. subtree[Depth][0] = L[Depth][1 + 0]
  <2> HIDE DEF L
  <2> QED BY <1>3, <1>4
<1> QED BY <1>5 DEF Root

(* The level-by-level loop of MerkleTree::root computes the balanced hash  *)
(* of the padded leaves, for every depth.                                  *)
THEOREM RootsAreBalancedHashes == Spec => []RootIsBalancedHash
<1>1. TypeOK => RootIsBalancedHash
  <2> SUFFICES ASSUME TypeOK PROVE Root(leaves) = BalancedHash(leaves)
    BY DEF RootIsBalancedHash
  <2>1. Len(leaves) \in Nat
    BY DEF TypeOK
  <2> QED BY <2>1, BalancedHashSteps, LevelsAreBalanced
<1> QED BY <1>1, TypeCorrect, PTL

(* crypto::prove succeeds for a member exactly with keys of one setup.     *)
THEOREM MembersProve == Spec => []MemberProvesWithMatchingKeys
<1>1. TypeOK => MemberProvesWithMatchingKeys
  <2> SUFFICES ASSUME TypeOK, NEW s, NEW strkey, NEW keys, IsMember(leaves, s)
               PROVE  SelfCheckPasses(keys, leaves, s, strkey) <=> keys.pk = keys.vk
    BY DEF MemberProvesWithMatchingKeys
  <2>1. Len(leaves) \in Nat /\ Len(leaves) <= Capacity
    BY DEF TypeOK
  <2> QED BY <2>1, MemberSelfCheck
<1> QED BY <1>1, TypeCorrect, PTL

(* Adding a leaf other than the padding value changes the padded layer,    *)
(* and with it the root.                                                   *)
THEOREM RealLeavesChangeRoot == Spec => PushOfRealLeafChangesRoot
<1> DEFINE A == Len(leaves') > Len(leaves) /\ leaves'[Len(leaves')] # EmptyLeaf
                  => Root(leaves') # Root(leaves)
<1>1. TypeOK /\ [Next]_leaves => [A]_leaves
  <2> SUFFICES ASSUME TypeOK, NEW leaf \in LeafValues, Push(leaf), leaf # EmptyLeaf
               PROVE  Root(leaves') # Root(leaves)
    <3>1. ASSUME TypeOK, NEW leaf \in LeafValues, Push(leaf)
          PROVE  leaves'[Len(leaves')] = leaf
      BY <3>1 DEF TypeOK, Push
    <3> QED BY <3>1 DEF Next, PushRefused
  <2>1. PICK n \in Nat : n = Len(leaves) /\ n + 1 \in 1..Capacity
    BY CapacityType DEF TypeOK, Push
  <2>2. leaves' = Append(leaves, leaf)
    BY DEF Push
  <2>3. Len(leaves') = n + 1 /\ leaves'[n + 1] = leaf
    BY <2>1, <2>2 DEF TypeOK
  <2>4. Padded(leaves')[n + 1] = leaf
    BY <2>1, <2>3 DEF Padded
  <2>5. Padded(leaves)[n + 1] = EmptyLeaf
    BY <2>1 DEF Padded
  <2> QED BY <2>4, <2>5, RootInjective
<1> QED BY <1>1, TypeCorrect, PTL DEF Spec, PushOfRealLeafChangesRoot
=============================================================================
