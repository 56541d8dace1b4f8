-------------------------------- MODULE Call --------------------------------
(***************************************************************************)
(* What the chain promises about one request, whatever its Handler does    *)
(* and whenever its client goes away: either the request is refused and    *)
(* its Handler never starts, or its Handler is called once and the one     *)
(* answer there is tells what it returned, or that it was told to stop and *)
(* is no longer waited for.                                                *)
(***************************************************************************)
CONSTANTS
  Results,    \* how a Handler may return
  Refusals,   \* the answers that refuse a request
  MayGiveUp   \* whether a Handler that does not stop is given up on

VARIABLES
  work,    \* "none" before the Handler is called, "running", or its result
  told,    \* the context the Handler was given is done
  answer,  \* "none", then the status of the response
  sent     \* "no", then "yes", or "dropped" with its connection

vars == <<work, told, answer, sent>>

(* Errors and panics are masked.                                            *)
Masked(res) == IF res \in {"error", "panic"} THEN "500" ELSE res

Init == work = "none" /\ ~ told /\ answer = "none" /\ sent = "no"

Refuse == /\ work = "none" /\ answer = "none"
          /\ answer' \in Refusals
          /\ UNCHANGED <<work, told, sent>>

Start == /\ work = "none" /\ answer = "none"
         /\ work' = "running"
         /\ UNCHANGED <<told, answer, sent>>

(* The Handler returns, to nobody if it was given up on; if it runs in the  *)
(* server's own goroutine, the answer is there with it.                     *)
Return == /\ work = "running"
          /\ work' \in Results
          /\ \/ answer' = answer
             \/ answer = "none" /\ answer' = Masked(work')
          /\ UNCHANGED <<told, sent>>

Reply == /\ work \in Results /\ answer = "none"
         /\ answer' = Masked(work)
         /\ UNCHANGED <<work, told, sent>>

(* The context ends, and stays ended.                                       *)
Tell == /\ ~ told
        /\ told' = TRUE
        /\ UNCHANGED <<work, answer, sent>>

(* No later than now was the Handler told to stop.                          *)
GiveUp == /\ MayGiveUp
          /\ work # "none" /\ answer = "none"
          /\ told' = TRUE
          /\ answer' = "504"
          /\ UNCHANGED <<work, sent>>

(* The response is out, unless WriteHeader panicked on its status.          *)
Finish == /\ answer # "none" /\ sent = "no"
          /\ sent' = IF answer = "invalid" THEN "dropped" ELSE "yes"
          /\ UNCHANGED <<work, told, answer>>

Next == Refuse \/ Start \/ Return \/ Reply \/ Tell \/ GiveUp \/ Finish

Spec == Init /\ [][Next]_vars
=============================================================================
