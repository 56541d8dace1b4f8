------------------------------ MODULE MCRamPod ------------------------------
(***************************************************************************)
(* Small instances of RamPod for TLC.                                      *)
(***************************************************************************)
EXTENDS RamPod, FiniteSetsExt, TLC

CONSTANT PodMB  \* what the pod may use, above what one request may

MBsDef == {-1, 0, 1, 3}

Symmetry == Permutations(Requests)

(* "`MAX_CONCURRENCY=1` serializes requests, so a request can never         *)
(* OOM-kill the pod" (README of examples/ram): with RAM_MAX_MB and the     *)
(* default below what the pod may use, what all requests hold is below too. *)
NeverOOM == FoldSet(LAMBDA r, n : held[r] + n, 0, Requests) <= PodMB
=============================================================================
