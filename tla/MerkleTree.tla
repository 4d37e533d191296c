----------------------------- MODULE MerkleTree -----------------------------
(***************************************************************************)
(* A MerkleTree of src/merkle.rs as an object: built from stored leaves,   *)
(* grown by push, asked for roots and witnesses, and proved against by     *)
(* crypto::prove.  The properties relate the three places that hash the    *)
(* tree independently of each other: the root, the witness, and the        *)
(* circuit that folds a witness.                                           *)
(***************************************************************************)
EXTENDS Crypto

CONSTANTS
  LeafValues,   \* field elements that are pushed as leaves
  Secrets,      \* holders' secrets
  Addresses,    \* holders' addresses
  PathNodes     \* what a prover may put into the path of a witness

VARIABLE leaves   \* MerkleTree.leaves

(* Lists of leaves, among them some that do not fit: from_leaves relies on *)
(* no caller for that.                                                     *)
Lists == UNION {[1..n -> LeafValues] : n \in 0..(Capacity + 1)}

(* from_leaves (of the empty list, MerkleTree::new). *)
FromLeaves ==
  /\ leaves \in Lists
  /\ Fits(leaves)

(* Mutant: forgets the capacity. *)
PushUnchecked(leaf) == leaves' = Append(leaves, leaf)

(* MerkleTree::push *)
Push(leaf) ==
  /\ Len(leaves) < Capacity
  /\ leaves' = Append(leaves, leaf)

PushRefused ==
  /\ Len(leaves) >= Capacity
  /\ UNCHANGED leaves

Init == FromLeaves

Next ==
  \/ \E leaf \in LeafValues : Push(leaf)
  \/ PushRefused

Spec == Init /\ [][Next]_leaves

-----------------------------------------------------------------------------
(* The tree never holds more leaves than its padded layer has slots:       *)
(* otherwise `resize` in MerkleTree::padded would drop the last ones.      *)
TypeOK ==
  /\ leaves \in Seq(LeafValues)
  /\ Len(leaves) <= Capacity

(* The circuit accepts every witness the tree hands out: folding leaf      *)
(* `index` up its witness, as the circuit's loop does, gives the root.     *)
WitnessFoldsToRoot ==
  \A index \in 0..(Len(leaves) - 1) :
    Fold(leaves[index + 1], Witness(leaves, index)) = Root(leaves)

(* And it accepts it for no other leaf: a holder whose commitment is not   *)
(* at that position cannot prove with that position's witness.             *)
WitnessBindsLeaf ==
  \A index \in 0..(Len(leaves) - 1) :
    \A v \in LeafValues \cup {LeafCommitment(s) : s \in Secrets} :
      Fold(v, Witness(leaves, index)) = Root(leaves) => v = leaves[index + 1]

(* What a prover may give the circuit for a path, be it a witness or not.  *)
Paths == [path_elements : [1..Depth -> PathNodes],
          path_indices  : [1..Depth -> BOOLEAN]]

(* Only members have proofs (circuit.rs:3-6): whatever secret and path     *)
(* somebody satisfies the circuit with, for the root of this tree, the     *)
(* nullifier is that of a holder whose commitment is a leaf.  (The padding *)
(* counts as leaves, were there a secret that opens it.)                   *)
OnlyMembersSatisfyCircuit ==
  LET root == Root(leaves)
  IN  \A s, holder \in Secrets : \A path \in Paths :
        CircuitSatisfied([root |-> root, nullifier |-> Nullifier(holder)], s, path)
          => \/ IsMember(leaves, holder)
             \/ Len(leaves) < Capacity /\ LeafCommitment(holder) = EmptyLeaf

(* A reference definition of the root, from above instead of from below:   *)
(* the subtree of height h whose leftmost leaf is k hashes its two halves. *)
BalancedHash(tree) ==
  LET subtree[h \in 0..Depth] ==
        [k \in 0..(Capacity - 1) |->
           IF h = 0
           THEN IF k < Len(tree) THEN tree[k + 1] ELSE EmptyLeaf
           ELSE IF k + 2^h > Capacity
           THEN EmptyLeaf
           ELSE Hash2(subtree[h - 1][k], subtree[h - 1][k + 2^(h - 1)])]
  IN  subtree[Depth][0]

(* The level-by-level loop computes the balanced tree hash of the leaves   *)
(* in order, padded on the right: the root every other implementation of   *)
(* the scheme (the circuit's author, the issuer) would compute.            *)
RootIsBalancedHash == Root(leaves) = BalancedHash(leaves)

(* crypto::prove succeeds for every member of the tree, wherever its       *)
(* commitment stands and however often, exactly when the proving and the   *)
(* verifying key come from the same setup; with mismatched key files its   *)
(* self-check refuses every proof.                                         *)
MemberProvesWithMatchingKeys ==
  \A s \in Secrets, strkey \in Addresses, keys \in KeyPairs :
    IsMember(leaves, s) =>
      (SelfCheckPasses(keys, leaves, s, strkey) <=> keys.pk = keys.vk)

(* Adding a leaf other than the padding value gives a new root, so prove's *)
(* comparison with the published root notices the change.                  *)
PushOfRealLeafChangesRoot ==
  [][ Len(leaves') > Len(leaves) /\ leaves'[Len(leaves')] # EmptyLeaf
        => Root(leaves') # Root(leaves) ]_leaves

(* What the documentation says of the padding (merkle.rs:22) and of prove  *)
(* (README.md:123): the padding value is "Distinct", and prove refuses     *)
(* when the tree has changed.  Both need every push to change the root.    *)
(* The code does not keep this: the padding value 0 is a commitment an     *)
(* issuer can add like any other.                                          *)
PushChangesRoot ==
  [][ Len(leaves') > Len(leaves) => Root(leaves') # Root(leaves) ]_leaves
=============================================================================
