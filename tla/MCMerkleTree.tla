---------------------------- MODULE MCMerkleTree ----------------------------
(***************************************************************************)
(* Small instances of MerkleTree.  Leaves are the commitment of a holder,  *)
(* an unrelated commitment, or the padding value itself; a second holder   *)
(* is never a member.                                                      *)
(***************************************************************************)
EXTENDS MerkleTree

CONSTANTS zero, leafDomain, nullifierDomain, member, outsider, other

MCSecrets == {member, outsider}
MCLeafValues == {zero, other, LeafCommitment(member)}
MCPathNodes ==
  LET none == Hash2(zero, zero)
  IN  {zero, other, none, Hash2(none, none)}
=============================================================================
