----------------------------- MODULE MCKeySource -----------------------------
(***************************************************************************)
(* A small instance of KeySource: the development setup and two that       *)
(* keygen draws, one of which is the registered one.                       *)
(***************************************************************************)
EXTENDS KeySource

CONSTANTS zero, leafDomain, nullifierDomain, setup1, setup2
=============================================================================
