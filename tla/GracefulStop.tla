---------------------------- MODULE GracefulStop ----------------------------
(***************************************************************************)
(* What drain promises of a process, without goroutines, signals, polls or *)
(* clocks: it ends cleanly only by way of a drain, in which it takes no    *)
(* work it had not accepted before, and which is over when nothing is left *)
(* in flight; otherwise it is cut, with whatever it had at hand.           *)
(***************************************************************************)
CONSTANT Work  \* the requests, or as many names as there may be at a time

VARIABLES
  stage,  \* "up", "draining", "drained", then "clean" or "cut"
  fresh,  \* accepted, but nothing begun
  busy    \* in flight

vars == <<stage, fresh, busy>>

Init == stage = "up" /\ fresh = {} /\ busy = {}

Accept(x) == /\ stage = "up"
             /\ x \notin fresh \cup busy
             /\ fresh' = fresh \cup {x}
             /\ UNCHANGED <<stage, busy>>

(* What was accepted may begin late; what begins at once is accepted now.   *)
Begin(x) == /\ x \notin busy
            /\ \/ stage = "up"
               \/ stage = "draining" /\ x \in fresh
            /\ busy'  = busy \cup {x}
            /\ fresh' = fresh \ {x}
            /\ UNCHANGED stage

End(x) == /\ stage \in {"up", "draining"}
          /\ x \in busy
          /\ busy' = busy \ {x}
          /\ UNCHANGED <<stage, fresh>>

Drain == /\ stage = "up"
         /\ stage' = "draining"
         /\ UNCHANGED <<fresh, busy>>

(* Nothing that is in flight is given up ...                                *)
GiveUp == /\ stage = "draining"
          /\ fresh' \in SUBSET fresh
          /\ UNCHANGED <<stage, busy>>

(* ... and the drain is over when nothing is.                               *)
Drained == /\ stage = "draining"
           /\ busy = {}
           /\ stage' = "drained"
           /\ fresh' = {}
           /\ UNCHANGED busy

Exit == /\ stage = "drained"
        /\ stage' = "clean"
        /\ UNCHANGED <<fresh, busy>>

(* A server fails, the grace period is over, or the process is killed.      *)
Cut == /\ stage \in {"up", "draining", "drained"}
       /\ stage' = "cut"
       /\ UNCHANGED <<fresh, busy>>

Next == \/ \E x \in Work : Accept(x) \/ Begin(x) \/ End(x)
        \/ Drain \/ GiveUp \/ Drained \/ Exit \/ Cut

Spec == Init /\ [][Next]_vars
=============================================================================
