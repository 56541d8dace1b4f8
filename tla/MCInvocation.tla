---------------------------- MODULE MCInvocation ----------------------------
(***************************************************************************)
(* Small instances of Invocation for TLC.                                  *)
(***************************************************************************)
EXTENDS Invocation, TLC

Symmetry == Permutations(Requests)
=============================================================================
