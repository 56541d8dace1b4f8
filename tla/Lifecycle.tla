----------------------------- MODULE Lifecycle ------------------------------
(***************************************************************************)
(* The life of the process that runtime.Start runs: the main goroutine     *)
(* (run and drain), the goroutines of the function server and the metrics  *)
(* server, the readiness flag, and the connections of the function server, *)
(* as far as http.Server.Shutdown looks at them.  What a request does on   *)
(* its connection is left to Invocation; Pod puts the two together.        *)
(***************************************************************************)
EXTENDS Integers

CONSTANT Requests  \* the requests clients may send, each on a connection of its own

VARIABLES
  main,      \* where the main goroutine is
  exitCode,  \* the status the process exited with, -1 before
  fn, mtr,   \* the goroutines of the function and the metrics server
  fnShut,    \* Shutdown was called on the function server
  mtrShut,   \* ... on the metrics server
  ready,     \* health.ready
  errCh,     \* errors buffered in run's channel, of capacity 1
  signalled, \* SIGINT or SIGTERM was received
  graceOver, \* the timer of drain's context has fired
  conn       \* conn[r]: the connection of r in the function server

procVars == <<main, exitCode, fn, mtr, fnShut, mtrShut, ready, errCh, signalled, graceOver>>
vars     == <<procVars, conn>>
-----------------------------------------------------------------------------
Alive     == main # "exited"
Listening == Alive /\ fn = "serving"
Draining  == main \in {"shutdown", "poll", "asleep", "stopMetrics"}

(* What a kubelet that probes /readyz over a new connection gets.           *)
ProbeAnswer == IF ~ Listening THEN "refused" ELSE IF ready THEN "200" ELSE "503"

Busy == {r \in Requests : conn[r] = "active"}
New  == {r \in Requests : conn[r] = "new"}

Init ==
  /\ main = "select"
  /\ exitCode = -1
  /\ fn = "start" /\ mtr = "start"
  /\ fnShut = FALSE /\ mtrShut = FALSE
  /\ ready = FALSE
  /\ errCh = 0
  /\ signalled = FALSE
  /\ graceOver = FALSE
  /\ conn = [r \in Requests |-> "none"]
-----------------------------------------------------------------------------
(* The goroutine of the function server declares the pod ready, ...         *)
FnReady ==
  /\ fn = "start"
  /\ fn' = "listen"
  /\ ready' = TRUE
  /\ UNCHANGED <<main, exitCode, mtr, fnShut, mtrShut, errCh, signalled, graceOver, conn>>

\* Mutant: the listener is opened on its own, and knows nothing of Shutdown.
FnListenAnyway ==
  /\ fn = "listen"
  /\ fn' \in {"serving", "failed"}
  /\ UNCHANGED <<main, exitCode, mtr, fnShut, mtrShut, ready, errCh, signalled, graceOver, conn>>

(* ... then binds the port, unless Shutdown came first.                     *)
FnListen ==
  /\ fn = "listen"
  /\ fn' \in IF fnShut THEN {"ended"} ELSE {"serving", "failed"}
  /\ UNCHANGED <<main, exitCode, mtr, fnShut, mtrShut, ready, errCh, signalled, graceOver, conn>>

MtrListen ==
  /\ mtr = "start"
  /\ mtr' \in IF mtrShut THEN {"ended"} ELSE {"serving", "failed"}
  /\ UNCHANGED <<main, exitCode, fn, fnShut, mtrShut, ready, errCh, signalled, graceOver, conn>>

(* Accept fails for good.                                                   *)
FnFails ==
  /\ fn = "serving"
  /\ fn' = "failed"
  /\ UNCHANGED <<main, exitCode, mtr, fnShut, mtrShut, ready, errCh, signalled, graceOver, conn>>

MtrFails ==
  /\ mtr = "serving"
  /\ mtr' = "failed"
  /\ UNCHANGED <<main, exitCode, fn, fnShut, mtrShut, ready, errCh, signalled, graceOver, conn>>

\* Mutant: the error is logged and goes no further.
FnReportsNothing ==
  /\ fn = "failed"
  /\ fn' = "ended"
  /\ UNCHANGED <<main, exitCode, mtr, fnShut, mtrShut, ready, errCh, signalled, graceOver, conn>>

(* errCh <- err: the second failure waits for the first to be received.     *)
FnReports ==
  /\ fn = "failed" /\ errCh = 0
  /\ fn' = "ended" /\ errCh' = 1
  /\ UNCHANGED <<main, exitCode, mtr, fnShut, mtrShut, ready, signalled, graceOver, conn>>

MtrReports ==
  /\ mtr = "failed" /\ errCh = 0
  /\ mtr' = "ended" /\ errCh' = 1
  /\ UNCHANGED <<main, exitCode, fn, fnShut, mtrShut, ready, signalled, graceOver, conn>>

(* A second signal changes nothing: NotifyContext has swallowed it.         *)
Signal ==
  /\ ~ signalled
  /\ signalled' = TRUE
  /\ UNCHANGED <<main, exitCode, fn, mtr, fnShut, mtrShut, ready, errCh, graceOver, conn>>
-----------------------------------------------------------------------------
Exit(code) == main' = "exited" /\ exitCode' = code

(* run's select: an error of either server ends the process at once, ...    *)
ReceiveError ==
  /\ main = "select"
  /\ errCh = 1
  /\ errCh' = 0
  /\ Exit(1)
  /\ UNCHANGED <<fn, mtr, fnShut, mtrShut, ready, signalled, graceOver, conn>>

(* ... a signal starts the drain.                                           *)
StartDrain ==
  /\ main = "select"
  /\ signalled
  /\ main' = "drain"
  /\ UNCHANGED <<exitCode, fn, mtr, fnShut, mtrShut, ready, errCh, signalled, graceOver, conn>>

FailReadiness ==
  /\ main = "drain"
  /\ ready' = FALSE
  /\ main' = "shutdown"
  /\ UNCHANGED <<exitCode, fn, mtr, fnShut, mtrShut, errCh, signalled, graceOver, conn>>

(* context.WithTimeout(..., grace) runs from here on.                       *)
GraceExpires ==
  /\ Draining
  /\ ~ graceOver
  /\ graceOver' = TRUE
  /\ UNCHANGED <<main, exitCode, fn, mtr, fnShut, mtrShut, ready, errCh, signalled, conn>>

(* srv.Shutdown closes the listener, which ends Serve, ...                  *)
Shutdown ==
  /\ main = "shutdown"
  /\ fnShut' = TRUE
  /\ fn' = IF fn = "serving" THEN "ended" ELSE fn
  /\ main' = "poll"
  /\ UNCHANGED <<exitCode, mtr, mtrShut, ready, errCh, signalled, graceOver, conn>>

(* ... then polls: it closes the connections on which no request arrived    *)
(* within 5s, and returns once no other connection is left.                 *)
Poll ==
  /\ main = "poll"
  /\ \E stale \in SUBSET New :
       /\ conn' = [r \in Requests |-> IF r \in stale THEN "closed" ELSE conn[r]]
       /\ main' = IF Busy = {} /\ New = stale THEN "stopMetrics" ELSE "asleep"
  /\ UNCHANGED <<exitCode, fn, mtr, fnShut, mtrShut, ready, errCh, signalled, graceOver>>

PollAgain ==
  /\ main = "asleep"
  /\ main' = "poll"
  /\ UNCHANGED <<exitCode, fn, mtr, fnShut, mtrShut, ready, errCh, signalled, graceOver, conn>>

\* Mutant: drain passes Shutdown a context without a deadline.
GraceExceededNever == FALSE /\ UNCHANGED vars

\* Mutant: drain drops the error of Shutdown.
GraceExceededIgnored ==
  /\ main = "asleep"
  /\ graceOver
  /\ main' = "stopMetrics"
  /\ UNCHANGED <<exitCode, fn, mtr, fnShut, mtrShut, ready, errCh, signalled, graceOver, conn>>

(* The context is done first: drain returns the error, os.Exit(1) follows.  *)
GraceExceeded ==
  /\ main = "asleep"
  /\ graceOver
  /\ Exit(1)
  /\ UNCHANGED <<fn, mtr, fnShut, mtrShut, ready, errCh, signalled, graceOver, conn>>

(* metricsSrv.Shutdown, whose error is ignored, is bounded by the same      *)
(* context; then drain, run and Start return.                               *)
StopMetrics ==
  /\ main = "stopMetrics"
  /\ mtrShut' = TRUE
  /\ mtr' = IF mtr = "serving" THEN "ended" ELSE mtr
  /\ Exit(0)
  /\ UNCHANGED <<fn, fnShut, ready, errCh, signalled, graceOver, conn>>
-----------------------------------------------------------------------------
(* A connection is accepted; its request's header is read and its handler   *)
(* called; the handler returns.                                             *)
Connect(r) ==
  /\ Listening
  /\ conn[r] = "none"
  /\ conn' = [conn EXCEPT ![r] = "new"]
  /\ UNCHANGED procVars

BeginRequest(r) ==
  /\ conn[r] = "new"
  /\ conn' = [conn EXCEPT ![r] = "active"]
  /\ UNCHANGED procVars

EndRequest(r) ==
  /\ conn[r] = "active"
  /\ conn' = [conn EXCEPT ![r] = "closed"]
  /\ UNCHANGED procVars
-----------------------------------------------------------------------------
MainStep == \/ ReceiveError \/ StartDrain \/ FailReadiness \/ Shutdown
            \/ Poll \/ PollAgain \/ GraceExceeded \/ StopMetrics

FnStep  == FnReady \/ FnListen \/ FnReports
MtrStep == MtrListen \/ MtrReports

ProcessStep == \/ MainStep \/ FnStep \/ MtrStep \/ GraceExpires
               \/ Signal \/ FnFails \/ MtrFails
               \/ \E r \in Requests : Connect(r)

(* Exiting stops every goroutine.                                           *)
Next == /\ Alive
        /\ \/ ProcessStep
           \/ \E r \in Requests : BeginRequest(r) \/ EndRequest(r)

Spec == Init /\ [][Next]_vars

(* The scheduler runs goroutines that are runnable and the timer fires.     *)
(* Shutdown's select finds a context that is done before its next poll is   *)
(* due (the poll interval doubles up to 500ms), so it does not poll for     *)
(* ever past the deadline.                                                  *)
Fairness == /\ WF_vars(Alive /\ MainStep)
            /\ WF_vars(Alive /\ FnStep)
            /\ WF_vars(Alive /\ MtrStep)
            /\ WF_vars(Alive /\ GraceExpires)
            /\ SF_vars(Alive /\ GraceExceeded)

FairSpec == Spec /\ Fairness
-----------------------------------------------------------------------------
(* Properties.                                                             *)

(* Every variable has its type.                                            *)
TypeOK ==
  /\ main \in {"select", "drain", "shutdown", "poll", "asleep", "stopMetrics", "exited"}
  /\ exitCode \in {-1, 0, 1}
  /\ fn \in {"start", "listen", "serving", "failed", "ended"}
  /\ mtr \in {"start", "serving", "failed", "ended"}
  /\ fnShut \in BOOLEAN /\ mtrShut \in BOOLEAN
  /\ ready \in BOOLEAN /\ signalled \in BOOLEAN /\ graceOver \in BOOLEAN
  /\ errCh \in {0, 1}
  /\ conn \in [Requests -> {"none", "new", "active", "closed"}]

(* A drain that succeeds leaves no request behind: when the metrics server  *)
(* is closed, and when the process exits with 0, every request that reached *)
(* its handler is finished and no connection can be made any more (drain:   *)
(* "waits up to grace for in-flight requests to finish").                   *)
DrainedWhenDone ==
  main = "stopMetrics" \/ exitCode = 0 =>
    ~ Listening /\ \A r \in Requests : conn[r] \in {"none", "closed"}

(* SIGTERM ends the process within the grace period, whatever requests do,  *)
(* and also when it arrives while the servers are still starting.           *)
SignalEndsProcess == signalled ~> ~ Alive

(* A server that cannot listen, or stops, takes the process down: a pod is  *)
(* not left alive that answers on one of its two ports only.                *)
FailureEndsProcess == (fn = "failed" \/ mtr = "failed") ~> ~ Alive
-----------------------------------------------------------------------------
(* The process stops by the contract of GracefulStop.  It is draining from  *)
(* the moment its listener is closed.                                       *)
Stage == CASE main \in {"select", "drain", "shutdown"} -> "up"
           [] main \in {"poll", "asleep"}             -> "draining"
           [] main = "stopMetrics"                    -> "drained"
           [] main = "exited"                         -> IF exitCode = 0 THEN "clean"
                                                                         ELSE "cut"

G == INSTANCE GracefulStop WITH Work <- Requests, stage <- Stage,
                                fresh <- New, busy <- Busy

(* The process exits with 0 only from a drain, which nothing that was not   *)
(* connected before gets into and no request in flight is dropped from      *)
(* (drain: "waits up to grace for in-flight requests to finish before       *)
(* closing the function server").                                           *)
ImplementsGracefulStop == G!Spec
-----------------------------------------------------------------------------
(* What the documentation says of the program, and the program does not do. *)

(* README.md: /readyz flips to 503 while draining, that is, while requests  *)
(* are still being finished.                                                *)
DrainingAnswers503 ==
  main \in {"poll", "asleep"} /\ Busy # {} => ProbeAnswer = "503"

(* health.go: readiness is false from SIGTERM on, before draining.          *)
DrainingIsNotReady == Draining => ProbeAnswer # "200"
=============================================================================
