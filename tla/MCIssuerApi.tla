----------------------------- MODULE MCIssuerApi -----------------------------
(***************************************************************************)
(* Small instances of IssuerApi.  The zero field element is a commitment a *)
(* client may send, so EmptyLeaf is one of the commitments.                *)
(***************************************************************************)
EXTENDS IssuerApi, TLC

CONSTANTS zero, leafDomain, nullifierDomain, holder, secret

MCCommitments == {zero, holder}
MCNullifiers == {Nullifier(secret)}

AdderSymmetry == Permutations(Adders)
PublisherSymmetry == Permutations(Publishers)
RequestSymmetry == AdderSymmetry \cup PublisherSymmetry
=============================================================================
