------------------------------ MODULE Footprint -----------------------------
(***************************************************************************)
(* What a load generator promises about the memory of one request: it      *)
(* grows chunk by chunk up to a cap, is given back in one piece and for    *)
(* good, and once the generator is told to stop (its context is done) no   *)
(* chunk follows the one that may be under way, and the memory is freed.   *)
(***************************************************************************)
EXTENDS Integers

CONSTANT Cap  \* the cap on what one request may allocate

VARIABLES
  held,  \* chunks allocated and not given back
  due,   \* the context was looked at, and a chunk is about to be added
  told,  \* the context is done
  over   \* the memory has been given back

vars == <<held, due, told, over>>

Init == held = 0 /\ ~ due /\ ~ told /\ ~ over

Look == /\ ~ told /\ ~ due /\ ~ over
        /\ due' = TRUE
        /\ UNCHANGED <<held, told, over>>

Grow == /\ due /\ held < Cap
        /\ held' = held + 1
        /\ due' = FALSE
        /\ UNCHANGED <<told, over>>

Free == /\ ~ due /\ ~ over
        /\ held' = 0
        /\ over' = TRUE
        /\ UNCHANGED <<due, told>>

Tell == /\ ~ told
        /\ told' = TRUE
        /\ UNCHANGED <<held, due, over>>

Next == Look \/ Grow \/ Free \/ Tell

Spec == Init /\ [][Next]_vars

(* Who holds memory and is told gives it back, waiting for nothing else.    *)
Fairness == WF_vars(told /\ held > 0 /\ (Grow \/ Free))

FairSpec == Spec /\ Fairness
=============================================================================
