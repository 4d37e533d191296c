---------------------------- MODULE MCIssuerReads ----------------------------
(***************************************************************************)
(* A small instance of IssuerReads: one issuer, one holder.                *)
(***************************************************************************)
EXTENDS IssuerReads

CONSTANTS zero, leafDomain, nullifierDomain, holder, secret

MCNullifiers == {Nullifier(secret)}
=============================================================================
