---------------------------- MODULE MCHolderApi ----------------------------
(***************************************************************************)
(* Small instances of HolderApi: a holder whose commitment issuers add, an *)
(* outsider whose commitment they never do, and the zero field element,    *)
(* which is a commitment like any other.                                   *)
(***************************************************************************)
EXTENDS HolderApi, TLC

CONSTANTS zero, leafDomain, nullifierDomain, holder, outsider

MCSecrets == {holder, outsider}
MCCommitments == {zero, LeafCommitment(holder)}
MCNullifiers == {Nullifier(s) : s \in MCSecrets}

Symmetry == Permutations(Provers) \cup Permutations(Addresses)
=============================================================================
