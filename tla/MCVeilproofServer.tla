------------------------- MODULE MCVeilproofServer -------------------------
(***************************************************************************)
(* Small instances of the whole server: one request of each kind at a      *)
(* time, one holder whose commitment is the only one added.                *)
(***************************************************************************)
EXTENDS VeilproofServer

CONSTANTS zero, leafDomain, nullifierDomain, holder

MCCommitments == {LeafCommitment(holder)}
MCNullifiers == {Nullifier(holder)}
=============================================================================
