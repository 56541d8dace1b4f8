------------------------------- MODULE MCPod --------------------------------
(***************************************************************************)
(* Small instances of Pod for TLC.                                         *)
(***************************************************************************)
EXTENDS Pod, TLC

Symmetry == Permutations(Requests)

(* A bound: the states left out differ from others in what MCInvocation and *)
(* MCLifecycle explore in full, how a Handler fails and when the metrics    *)
(* server does.                                                             *)
Bound == /\ \A r \in Requests : result[r] \in {"none", "handler", "invalid"}
         /\ mtr # "failed"
=============================================================================
