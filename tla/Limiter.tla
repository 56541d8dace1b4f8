------------------------------ MODULE Limiter -------------------------------
(***************************************************************************)
(* What limitConcurrency promises, without goroutines, channels or HTTP: a *)
(* request is let in while fewer than Capacity are in, turned away at once *)
(* (never queued) when Capacity are, and is out for good once it gets out. *)
(***************************************************************************)
EXTENDS Integers, FiniteSets

CONSTANTS Requests, Capacity

VARIABLE phase  \* phase[r]: before the limiter, inside, out again, or shed

In == {r \in Requests : phase[r] = "in"}

Init == phase = [r \in Requests |-> "before"]

Enter(r) == /\ phase[r] = "before"
            /\ Cardinality(In) < Capacity
            /\ phase' = [phase EXCEPT ![r] = "in"]

TurnAway(r) == /\ phase[r] = "before"
               /\ Cardinality(In) = Capacity
               /\ phase' = [phase EXCEPT ![r] = "shed"]

Exit(r) == /\ phase[r] = "in"
           /\ phase' = [phase EXCEPT ![r] = "out"]

Next == \E r \in Requests : Enter(r) \/ TurnAway(r) \/ Exit(r)

Spec == Init /\ [][Next]_phase
=============================================================================
