--------------------------- MODULE CredentialTree ---------------------------
(***************************************************************************)
(* What the issuer side of the server promises, without requests,          *)
(* transactions or connections: every issuer has one append-only sequence  *)
(* of leaf commitments, and a published root that is the root of some      *)
(* non-empty prefix of that sequence.                                      *)
(*                                                                         *)
(* The prefix is not always the whole sequence: POST /publish reads the    *)
(* leaves and writes the root in separate statements, so it may write the  *)
(* root of an older prefix, even one older than the root it replaces.      *)
(* IssuerApi implements this specification.                                *)
(***************************************************************************)
EXTENDS Merkle

CONSTANTS
  Issuers,
  Commitments,
  NoRoot

VARIABLES
  known,   \* the issuers that exist
  tree,    \* issuer -> its leaf commitments in insertion order
  root     \* issuer -> its published root, or NoRoot

vars == <<known, tree, root>>

Init ==
  /\ known = {}
  /\ tree = [i \in Issuers |-> <<>>]
  /\ root = [i \in Issuers |-> NoRoot]

(* An issuer comes into being with the first request that names it.        *)
CreateIssuer(i) ==
  /\ i \notin known
  /\ known' = known \cup {i}
  /\ UNCHANGED <<tree, root>>

(* One leaf is appended; rows are never changed or removed. *)
AddLeaf(i, c) ==
  /\ i \in known
  /\ Len(tree[i]) < Capacity
  /\ tree' = [tree EXCEPT ![i] = Append(@, c)]
  /\ UNCHANGED <<known, root>>

(* The root of the first n leaves becomes the published root. *)
Publish(i, n) ==
  /\ i \in known
  /\ root' = [root EXCEPT ![i] = Root(SubSeq(tree[i], 1, n))]
  /\ UNCHANGED <<known, tree>>

Next ==
  \E i \in Issuers :
    \/ CreateIssuer(i)
    \/ \E c \in Commitments : AddLeaf(i, c)
    \/ \E n \in 1..Len(tree[i]) : Publish(i, n)

Spec == Init /\ [][Next]_vars
=============================================================================
