------------------------------- MODULE Merkle -------------------------------
(***************************************************************************)
(* The fixed-depth Merkle tree of src/merkle.rs as pure operators.  A tree *)
(* is the sequence of its leaf commitments in insertion order; everything  *)
(* else (padding, levels, root, witness) is recomputed from it on each     *)
(* call, as the code does.                                                 *)
(*                                                                         *)
(* Idealisation: the two-input hash is collision-free.  Hash2(l, r) is the *)
(* ordered pair itself, so two hashes are equal exactly when their inputs  *)
(* are.                                                                    *)
(***************************************************************************)
EXTENDS Integers, Sequences

CONSTANTS
  Depth,      \* circuit::DEPTH, the height of the tree (4 in the code)
  EmptyLeaf   \* empty_leaf(), the field element 0 that pads unused slots

ASSUME DepthAssumption == Depth \in Nat \ {0}

(* MerkleTree::CAPACITY. *)
Capacity == 2^Depth

(* mimc::hash2, idealised as injective. *)
Hash2(l, r) == <<l, r>>

(* Mutant: off by one. *)
FitsOneMore(leaves) == Len(leaves) <= Capacity + 1

(* MerkleTree::from_leaves: for a list that does not fit the caller gets   *)
(* Full, and no tree.                                                      *)
Fits(leaves) == Len(leaves) <= Capacity

(* Mutant: pads with the last leaf instead of the empty one. *)
PaddedWithLastLeaf(leaves) ==
  [k \in 1..Capacity |-> IF k <= Len(leaves) THEN leaves[k]
                         ELSE IF leaves = <<>> THEN EmptyLeaf
                         ELSE leaves[Len(leaves)]]

(* MerkleTree::padded: the leaf layer, filled up to Capacity. *)
Padded(leaves) ==
  [k \in 1..Capacity |-> IF k <= Len(leaves) THEN leaves[k] ELSE EmptyLeaf]

(* Mutant: the right neighbour is hashed first. *)
ParentsSwapped(level) ==
  [k \in 1..(Len(level) \div 2) |-> Hash2(level[2*k], level[2*k - 1])]

(* One round of the hashing loop: each pair of neighbours becomes a node.  *)
Parents(level) ==
  [k \in 1..(Len(level) \div 2) |-> Hash2(level[2*k - 1], level[2*k])]

(* All levels, from the padded leaves (0) to the root (Depth). *)
Levels(leaves) ==
  LET level[h \in 0..Depth] ==
        IF h = 0 THEN Padded(leaves) ELSE Parents(level[h - 1])
  IN  level

(* MerkleTree::root. *)
Root(leaves) == Levels(leaves)[Depth][1]

(* idx ^ 1 *)
Sibling(idx) == IF idx % 2 = 0 THEN idx + 1 ELSE idx - 1

(* Mutant: says left where the node is the right child. *)
WitnessFlipped(leaves, index) ==
  LET level == Levels(leaves)
      idx(h) == index \div 2^h
  IN  [path_elements |-> [h \in 1..Depth |-> level[h - 1][1 + Sibling(idx(h - 1))]],
       path_indices  |-> [h \in 1..Depth |-> idx(h - 1) % 2 = 0]]

(* Mutant: the path of the next leaf. *)
WitnessOfNext(leaves, index) ==
  LET level == Levels(leaves)
      idx(h) == (index + 1) \div 2^h
  IN  [path_elements |-> [h \in 1..Depth |-> level[h - 1][1 + Sibling(idx(h - 1))]],
       path_indices  |-> [h \in 1..Depth |-> idx(h - 1) % 2 = 1]]

(* MerkleTree::witness, for an index (from 0) below Len(leaves): on every  *)
(* level the sibling of the node on the path, and whether that node is the *)
(* right child.  For any other index it returns IndexOutOfRange; its one   *)
(* caller, crypto::prove, passes the position of a leaf it has found       *)
(* (MerkleProofs!FirstIndexOfMember).                                      *)
Witness(leaves, index) ==
  LET level == Levels(leaves)
      idx(h) == index \div 2^h
  IN  [path_elements |-> [h \in 1..Depth |-> level[h - 1][1 + Sibling(idx(h - 1))]],
       path_indices  |-> [h \in 1..Depth |-> idx(h - 1) % 2 = 1]]

(* The folding loop of the circuit: hash the leaf up the witness's path.   *)
Fold(leaf, witness) ==
  LET cur[h \in 0..Depth] ==
        IF h = 0 THEN leaf
        ELSE IF witness.path_indices[h]
             THEN Hash2(witness.path_elements[h], cur[h - 1])
             ELSE Hash2(cur[h - 1], witness.path_elements[h])
  IN  cur[Depth]
=============================================================================
