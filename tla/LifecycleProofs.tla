-------------------------- MODULE LifecycleProofs ---------------------------
(***************************************************************************)
(* Proofs about Lifecycle, for every set of requests.                      *)
(***************************************************************************)
EXTENDS Lifecycle, TLAPS

(* Every variable keeps its type; in particular errCh never exceeds its     *)
(* capacity.                                                                *)
THEOREM TypeCorrect == Spec => []TypeOK
<1>1. Init => TypeOK  BY DEF Init, TypeOK
<1>2. TypeOK /\ [Next]_vars => TypeOK'
  <2>. SUFFICES ASSUME TypeOK, [Next]_vars  PROVE TypeOK'
    OBVIOUS
  <2>. USE DEF TypeOK
  <2>1. CASE MainStep
    <3>1. CASE Poll
      <4>. PICK stale \in SUBSET New :
             /\ conn' = [r \in Requests |-> IF r \in stale THEN "closed" ELSE conn[r]]
             /\ main' \in {"stopMetrics", "asleep"}
        BY <3>1 DEF Poll
      <4>1. conn' \in [Requests -> {"none", "new", "active", "closed"}]
        OBVIOUS
      <4>. QED  BY <3>1, <4>1 DEF Poll
    <3>2. CASE ReceiveError \/ GraceExceeded \/ StopMetrics
      BY <3>2, ZenonT(60) DEF ReceiveError, GraceExceeded, StopMetrics, Exit
    <3>3. CASE PollAgain
      BY <3>3 DEF PollAgain
    <3>4. CASE FailReadiness
      <4>1. ready' = FALSE /\ main' = "shutdown" /\
            UNCHANGED <<exitCode, fn, mtr, fnShut, mtrShut, errCh, signalled,
                        graceOver, conn>>
        BY <3>4 DEF FailReadiness
      <4>2. ready' \in BOOLEAN  BY <4>1, Zenon
      <4>. QED  BY <4>1, <4>2
    <3>5. CASE Shutdown
      <4>1. fn' \in {fn, "ended"} /\ fnShut' = TRUE /\ main' = "poll"
        BY <3>5 DEF Shutdown
      <4>. QED  BY <3>5, <4>1 DEF Shutdown
    <3>6. CASE StartDrain
      <4>1. main' = "drain" /\ UNCHANGED <<exitCode, fn, mtr, fnShut, mtrShut, ready,
                                            errCh, signalled, graceOver, conn>>
        BY <3>6 DEF StartDrain
      <4>2. main' \in {"select", "drain", "shutdown", "poll", "asleep", "stopMetrics", "exited"}
        BY <4>1
      <4>. HIDE DEF TypeOK
      <4>. QED  BY <4>1, <4>2, ZenonT(60) DEF TypeOK
    <3>. QED  BY <2>1, <3>1, <3>2, <3>3, <3>4, <3>5, <3>6 DEF MainStep
  <2>2. CASE FnStep
    BY <2>2, ZenonT(60) DEF FnStep, FnReady, FnListen, FnReports
  <2>3. CASE MtrStep
    BY <2>3 DEF MtrStep, MtrListen, MtrReports
  <2>4. CASE GraceExpires \/ Signal \/ FnFails \/ MtrFails
    <3>1. CASE GraceExpires
      <4>1. graceOver' = TRUE /\ UNCHANGED <<main, exitCode, fn, mtr, fnShut, mtrShut,
                                              ready, errCh, signalled, conn>>
        BY <3>1 DEF GraceExpires
      <4>. QED  BY <4>1
    <3>2. CASE Signal
      <4>1. signalled' = TRUE /\ UNCHANGED <<main, exitCode, fn, mtr, fnShut, mtrShut,
                                              ready, errCh, graceOver, conn>>
        BY <3>2 DEF Signal
      <4>. QED  BY <4>1
    <3>3. CASE FnFails \/ MtrFails
      BY <3>3 DEF FnFails, MtrFails
    <3>. QED  BY <2>4, <3>1, <3>2, <3>3
  <2>5. ASSUME NEW r \in Requests, Connect(r) \/ BeginRequest(r) \/ EndRequest(r)
        PROVE  TypeOK'
    <3>1. conn' \in [Requests -> {"none", "new", "active", "closed"}]
      BY <2>5 DEF Connect, BeginRequest, EndRequest
    <3>2. UNCHANGED procVars
      BY <2>5 DEF Connect, BeginRequest, EndRequest
    <3>. QED  BY <3>1, <3>2 DEF procVars
  <2>6. CASE UNCHANGED vars
    BY <2>6 DEF vars, procVars
  <2>. QED  BY <2>1, <2>2, <2>3, <2>4, <2>5, <2>6 DEF Next, ProcessStep
<1>. QED  BY <1>1, <1>2, PTL DEF Spec

(***************************************************************************)
(* Once the listener is closed it stays closed, so that the poll which     *)
(* found no connection is right from then on: nobody can connect between   *)
(* that poll and the exit.                                                 *)
(***************************************************************************)
ClosedForGood ==
  /\ main \in {"poll", "asleep", "stopMetrics"} \/ exitCode = 0
        => fnShut /\ fn # "serving"
  /\ exitCode = 0 => main = "exited"

DInv == TypeOK /\ ClosedForGood /\ DrainedWhenDone

(* The listener stays closed, and a drain that is over has left nothing.    *)
THEOREM DrainInvariance == Spec => []DInv
<1>1. Init => DInv
  <2>1. Init => exitCode = -1 /\ exitCode # 0  BY DEF Init
  <2>2. Init => TypeOK  BY DEF Init, TypeOK
  <2>. QED  BY <2>1, <2>2 DEF Init, DInv, ClosedForGood, DrainedWhenDone
<1>2. TypeOK' /\ DInv /\ [Next]_vars => DInv'
  <2>. SUFFICES ASSUME TypeOK', DInv, [Next]_vars  PROVE DInv'
    OBVIOUS
  <2>. USE DEF DInv, TypeOK, ClosedForGood, DrainedWhenDone, Listening, Alive
  <2>1. CASE Alive /\ MainStep
    <3>1. CASE Alive /\ Poll
      <4>. PICK stale \in SUBSET New :
             /\ conn' = [r \in Requests |-> IF r \in stale THEN "closed" ELSE conn[r]]
             /\ main' = IF Busy = {} /\ New = stale THEN "stopMetrics" ELSE "asleep"
        BY <3>1 DEF Poll
      <4>1. fnShut' /\ fn' # "serving" /\ exitCode' # 0
        BY <3>1 DEF Poll
      <4>2. main' = "stopMetrics" => \A r \in Requests : conn'[r] \in {"none", "closed"}
        BY DEF Busy, New
      <4>. QED  BY <4>1, <4>2, <3>1 DEF Poll
    <3>2. CASE Alive /\ StopMetrics
      BY <3>2 DEF StopMetrics, Exit
    <3>3. CASE Alive /\ (ReceiveError \/ StartDrain \/ FailReadiness \/ Shutdown
                         \/ PollAgain \/ GraceExceeded)
      BY <3>3 DEF ReceiveError, StartDrain, FailReadiness, Shutdown, PollAgain,
                  GraceExceeded, Exit
    <3>. QED  BY <2>1, <3>1, <3>2, <3>3 DEF MainStep
  <2>2. CASE Alive /\ (FnStep \/ MtrStep)
    BY <2>2 DEF FnStep, FnReady, FnListen, FnReports, MtrStep, MtrListen, MtrReports
  <2>3. CASE Alive /\ (GraceExpires \/ Signal \/ FnFails \/ MtrFails)
    BY <2>3 DEF GraceExpires, Signal, FnFails, MtrFails
  <2>4. ASSUME NEW r \in Requests, Alive,
               Connect(r) \/ BeginRequest(r) \/ EndRequest(r)
        PROVE  DInv'
    BY <2>4 DEF Connect, BeginRequest, EndRequest, procVars
  <2>5. CASE UNCHANGED vars
    BY <2>5 DEF vars, procVars
  <2>. QED  BY <2>1, <2>2, <2>3, <2>4, <2>5 DEF Next, ProcessStep
<1>. QED  BY <1>1, <1>2, TypeCorrect, PTL DEF Spec

(* A drain that succeeds leaves no request behind.                          *)
THEOREM DrainSafe == Spec => []DrainedWhenDone
<1>1. DInv => DrainedWhenDone  BY DEF DInv
<1>. QED  BY <1>1, DrainInvariance, PTL
-----------------------------------------------------------------------------
(* Every step of the process is one of GracefulStop, or nothing to it.      *)
LEMMA StopStep ==
  ASSUME TypeOK, TypeOK', DInv, [Next]_vars
  PROVE  [G!Next]_(G!vars)
<1>. DEFINE Goal == [G!Next]_(G!vars)
<1>. USE DEF TypeOK, G!vars
<1>0. ASSUME UNCHANGED <<main, exitCode, conn>>  PROVE Goal
  BY <1>0 DEF Stage, New, Busy
<1>1. ASSUME Alive, Poll  PROVE Goal
  <2>. PICK stale \in SUBSET New :
         /\ conn' = [r \in Requests |-> IF r \in stale THEN "closed" ELSE conn[r]]
         /\ main' = IF Busy = {} /\ New = stale THEN "stopMetrics" ELSE "asleep"
    BY <1>1 DEF Poll
  <2>1. Busy' = Busy /\ New' = New \ stale  BY DEF Busy, New
  <2>2. CASE Busy = {} /\ New = stale
    <3>1. Stage = "draining" /\ Stage' = "drained"  BY <1>1, <2>2 DEF Poll, Stage
    <3>2. G!Drained  BY <2>1, <2>2, <3>1 DEF G!Drained
    <3>. QED  BY <3>2 DEF G!Next
  <2>3. CASE ~ (Busy = {} /\ New = stale)
    <3>1. Stage = "draining" /\ Stage' = "draining"
      BY <1>1, <2>3 DEF Poll, Stage
    <3>2. G!GiveUp  BY <2>1, <3>1 DEF G!GiveUp
    <3>. QED  BY <3>2 DEF G!Next
  <2>. QED  BY <2>2, <2>3
<1>2. ASSUME Alive, ReceiveError \/ GraceExceeded  PROVE Goal
  <2>1. Stage \in {"up", "draining"} /\ Stage' = "cut"
    BY <1>2 DEF ReceiveError, GraceExceeded, Exit, Stage
  <2>2. G!Cut  BY <1>2, <2>1 DEF ReceiveError, GraceExceeded, New, Busy, G!Cut
  <2>. QED  BY <2>2 DEF G!Next
<1>3. ASSUME Alive, StartDrain \/ FailReadiness \/ PollAgain  PROVE Goal
  BY <1>3 DEF StartDrain, FailReadiness, PollAgain, Stage, New, Busy
<1>4. ASSUME Alive, Shutdown  PROVE Goal
  <2>1. Stage = "up" /\ Stage' = "draining"  BY <1>4 DEF Shutdown, Stage
  <2>2. G!Drain  BY <1>4, <2>1 DEF Shutdown, New, Busy, G!Drain
  <2>. QED  BY <2>2 DEF G!Next
<1>5. ASSUME Alive, StopMetrics  PROVE Goal
  <2>1. Stage = "drained" /\ Stage' = "clean"
    BY <1>5 DEF StopMetrics, Exit, Stage
  <2>2. G!Exit  BY <1>5, <2>1 DEF StopMetrics, New, Busy, G!Exit
  <2>. QED  BY <2>2 DEF G!Next
<1>6. ASSUME \/ FnStep \/ MtrStep
             \/ GraceExpires \/ Signal \/ FnFails \/ MtrFails
      PROVE  Goal
  BY <1>0, <1>6 DEF FnStep, FnReady, FnListen, FnReports, MtrStep, MtrListen,
     MtrReports, GraceExpires, Signal, FnFails, MtrFails
<1>7. ASSUME Alive, NEW r \in Requests, Connect(r)  PROVE Goal
  <2>1. Stage = "up" /\ Stage' = "up"
    BY <1>7 DEF Connect, procVars, Alive, Listening, Stage, DInv, ClosedForGood
  <2>2. r \notin New \cup Busy /\ New' = New \cup {r} /\ Busy' = Busy
    BY <1>7 DEF Connect, New, Busy
  <2>3. G!Accept(r)  BY <2>1, <2>2 DEF G!Accept
  <2>. QED  BY <2>3 DEF G!Next
<1>8. ASSUME Alive, NEW r \in Requests, BeginRequest(r) \/ EndRequest(r)  PROVE Goal
  <2>1. Stage \in {"up", "draining"} /\ Stage' = Stage
    BY <1>8 DEF BeginRequest, EndRequest, procVars, Alive, Stage, DInv, DrainedWhenDone
  <2>2. CASE BeginRequest(r)
    <3>1. r \in New /\ r \notin Busy /\ New' = New \ {r} /\ Busy' = Busy \cup {r}
      BY <2>2 DEF BeginRequest, New, Busy
    <3>2. G!Begin(r)  BY <2>1, <3>1 DEF G!Begin
    <3>. QED  BY <3>2 DEF G!Next
  <2>3. CASE EndRequest(r)
    <3>1. r \in Busy /\ New' = New /\ Busy' = Busy \ {r}
      BY <2>3 DEF EndRequest, New, Busy
    <3>2. G!End(r)  BY <2>1, <3>1 DEF G!End
    <3>. QED  BY <3>2 DEF G!Next
  <2>. QED  BY <1>8, <2>2, <2>3
<1>9. CASE UNCHANGED vars
  BY <1>0, <1>9 DEF vars, procVars
<1>. QED
  BY <1>1, <1>2, <1>3, <1>4, <1>5, <1>6, <1>7, <1>8, <1>9 DEF Next, ProcessStep, MainStep

LEMMA StopInit == Init => G!Init
BY DEF Init, G!Init, Stage, New, Busy

(* A clean exit comes only from a drain that took nothing new and waited    *)
(* for everything in flight.                                                *)
THEOREM GracefulStopImplemented == Spec => ImplementsGracefulStop
<1>1. TypeOK /\ TypeOK' /\ DInv /\ [Next]_vars => [G!Next]_(G!vars)
  BY StopStep
<1>. QED
  BY <1>1, StopInit, TypeCorrect, DrainInvariance, PTL DEF Spec,
     ImplementsGracefulStop, G!Spec
=============================================================================
