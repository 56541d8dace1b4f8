-------------------------------- MODULE Pod ---------------------------------
(***************************************************************************)
(* A whole pod: the process of Lifecycle, whose function server runs the   *)
(* chain of Invocation on every request it reads.  A request enters the    *)
(* chain when its connection becomes active and the connection is released *)
(* when it leaves; os.Exit, or the return of main, stops every goroutine,  *)
(* the ones that still run a Handler included.                             *)
(***************************************************************************)
EXTENDS Integers, FiniteSets

CONSTANTS Requests, MaxConcurrency, TimeoutOn

ASSUME PodConstants == /\ IsFiniteSet(Requests)
                       /\ MaxConcurrency \in Int
                       /\ TimeoutOn \in BOOLEAN

VARIABLES
  pc, handler, result, ctx, answer, sem, inFlight, requestsTotal, durations, panics,
  main, exitCode, fn, mtr, fnShut, mtrShut, ready, errCh, signalled, graceOver, conn

Chain   == INSTANCE Invocation
Process == INSTANCE Lifecycle

chainVars   == <<pc, handler, result, ctx, answer, sem,
                 inFlight, requestsTotal, durations, panics>>
processVars == <<main, exitCode, fn, mtr, fnShut, mtrShut, ready, errCh,
                 signalled, graceOver, conn>>
vars        == <<chainVars, processVars>>
-----------------------------------------------------------------------------
Init == Chain!Init /\ Process!Init

(* net/http reads a request's header and calls the handler of its server.   *)
Enter(r) == Chain!Arrive(r) /\ Process!BeginRequest(r)

(* The chain returns, or panics: the request no longer occupies the server. *)
Exit(r) == Chain!Leave(r) /\ Process!EndRequest(r)

(* What a request does between the two ...                                  *)
InChain(r) ==
  /\ \/ Chain!Acquire(r) \/ Chain!Shed(r) \/ Chain!ReadFails(r) \/ Chain!Invoke(r)
     \/ Chain!SelectResult(r) \/ Chain!SelectDone(r) \/ Chain!Park(r)
     \/ Chain!WriteHeader(r) \/ Chain!Release(r) \/ Chain!Count(r) \/ Chain!Observe(r)
  /\ UNCHANGED processVars

(* ... and what happens to it from the outside.                             *)
WriteBody(r)  == Chain!WriteBody(r)   /\ UNCHANGED processVars
Handle(r)     == Chain!HandlerStep(r) /\ UNCHANGED processVars
SendResult(r) == Chain!SendResult(r)  /\ UNCHANGED processVars
Deadline(r)   == Chain!Deadline(r)    /\ UNCHANGED processVars
Disconnect(r) == Chain!Disconnect(r)  /\ UNCHANGED processVars

RequestStep(r) == \/ Enter(r) \/ InChain(r) \/ Exit(r) \/ WriteBody(r)
                  \/ Handle(r) \/ SendResult(r) \/ Deadline(r) \/ Disconnect(r)

Next == /\ Process!Alive
        /\ \/ Process!ProcessStep /\ UNCHANGED chainVars
           \/ \E r \in Requests : RequestStep(r)

Spec == Init /\ [][Next]_vars

-----------------------------------------------------------------------------
(* Properties.                                                             *)

(* A request is in the chain exactly while its connection is active: what   *)
(* Shutdown waits for is what the chain still works on.                     *)
ConnectionsAreRequests == Process!Busy = Chain!Inside

(* After a clean exit no request was cut short: all that entered the chain  *)
(* left it, no slot is taken, the gauge is zero, and every answer that was  *)
(* written is in the counters.  A Handler that still runs then, and dies    *)
(* with the process, is one whose request was answered 504 before.          *)
CleanExit ==
  exitCode = 0 =>
    /\ \A r \in Requests : pc[r] = "idle" \/ Chain!Left(r)
    /\ sem = 0 /\ inFlight = 0
    /\ \A r \in Requests : answer[r] \notin {"none", "invalid"} => Chain!Observed(r)
    /\ \A r \in Requests : handler[r] = "running" => answer[r] = "504"

(* What the process has in flight is what its chain has: the requests.      *)
G == INSTANCE GracefulStop WITH Work <- Requests, stage <- Process!Stage,
                                fresh <- Process!New, busy <- Chain!Inside

(* The pod, chain and process together, stops by the contract GracefulStop: *)
(* what a drain waits for, and a clean exit leaves none of, is every        *)
(* request between its entry into the chain and its way out of it, however  *)
(* it gets out (answered, shed, panicked, or given up on).                  *)
ImplementsGracefulStop == G!Spec
=============================================================================
