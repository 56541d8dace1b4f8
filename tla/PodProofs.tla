------------------------------ MODULE PodProofs -----------------------------
(***************************************************************************)
(* Proofs about Pod: it implements both of its parts, so that what is      *)
(* proved of each carries over, and a clean exit cuts no request short.    *)
(***************************************************************************)
EXTENDS Pod, TLAPS

C == INSTANCE InvocationProofs
P == INSTANCE LifecycleProofs

(* The constants of the chain are what its module assumes them to be.       *)
LEMMA ChainConstants ==
  /\ C!IsFiniteSet(Requests)
  /\ MaxConcurrency \in Int
  /\ TimeoutOn \in BOOLEAN
BY PodConstants DEF IsFiniteSet, C!IsFiniteSet

(* Every step of a pod is one of the process, or leaves it alone.           *)
THEOREM ProcessImplemented == Spec => P!Spec
<1>1. Init => P!Init
  BY DEF Init, Process!Init, P!Init
<1>2. [Next]_vars => [P!Next]_(P!vars)
  <2>1. ASSUME Process!Alive, Process!ProcessStep  PROVE P!Next
    BY <2>1 DEF Process!Alive, P!Alive, P!Next, Process!ProcessStep, P!ProcessStep,
       Process!MainStep, P!MainStep, Process!FnStep, P!FnStep, Process!MtrStep,
       P!MtrStep, Process!ReceiveError, P!ReceiveError, Process!StartDrain,
       P!StartDrain, Process!FailReadiness, P!FailReadiness, Process!Shutdown,
       P!Shutdown, Process!Poll, P!Poll, Process!PollAgain, P!PollAgain,
       Process!GraceExceeded, P!GraceExceeded, Process!StopMetrics, P!StopMetrics,
       Process!Exit, P!Exit, Process!FnReady, P!FnReady, Process!FnListen,
       P!FnListen, Process!FnReports, P!FnReports, Process!MtrListen, P!MtrListen,
       Process!MtrReports, P!MtrReports, Process!GraceExpires, P!GraceExpires,
       Process!Signal, P!Signal, Process!FnFails, P!FnFails, Process!MtrFails,
       P!MtrFails, Process!Connect, P!Connect, Process!Listening, P!Listening,
       Process!New, P!New, Process!Busy, P!Busy, Process!Draining, P!Draining,
       Process!procVars, P!procVars
  <2>2. ASSUME Process!Alive, NEW r \in Requests, RequestStep(r)
        PROVE  P!Next \/ UNCHANGED P!vars
    <3>1. CASE Enter(r)
      BY <2>2, <3>1 DEF Enter, Process!BeginRequest, P!BeginRequest, P!Next, P!Alive,
         Process!Alive, Process!procVars, P!procVars
    <3>2. CASE Exit(r)
      BY <2>2, <3>2 DEF Exit, Process!EndRequest, P!EndRequest, P!Next, P!Alive,
         Process!Alive, Process!procVars, P!procVars
    <3>3. CASE UNCHANGED processVars
      BY <3>3 DEF processVars, P!vars, P!procVars
    <3>. QED
      BY <2>2, <3>1, <3>2, <3>3 DEF RequestStep, InChain, WriteBody, Handle,
         SendResult, Deadline, Disconnect
  <2>3. CASE UNCHANGED vars
    BY <2>3 DEF vars, processVars, P!vars, P!procVars
  <2>. QED  BY <2>1, <2>2, <2>3 DEF Next
<1>. QED  BY <1>1, <1>2, PTL DEF Spec, P!Spec

(* Every step of a pod is one of the chain, or leaves it alone.             *)
THEOREM ChainImplemented == Spec => C!Spec
<1>1. Init => C!Init
  BY DEF Init, Chain!Init, C!Init, Chain!Codes, C!Codes
<1>2. [Next]_vars => [C!Next]_(C!vars)
  <2>1. ASSUME NEW r \in Requests, RequestStep(r)  PROVE C!Step(r)
    <3>. USE DEF Chain!Go, C!Go, Chain!Answer, C!Answer, Chain!metrics, C!metrics,
         Chain!CodeOf, C!CodeOf, Chain!Cancelled, C!Cancelled, Chain!CtxDone,
         C!CtxDone, Chain!Limited, C!Limited, Chain!CloseDone, C!CloseDone,
         Chain!AfterLimiter, C!AfterLimiter, Chain!AfterWrite, C!AfterWrite,
         Chain!HoldsSlot, C!HoldsSlot
    <3>1. Chain!Arrive(r) => C!Arrive(r)  BY DEF Chain!Arrive, C!Arrive
    <3>2. Chain!Leave(r) => C!Leave(r)  BY DEF Chain!Leave, C!Leave
    <3>3. InChain(r) => C!ServerStep(r)
      BY DEF InChain, C!ServerStep, Chain!Acquire, C!Acquire, Chain!Shed, C!Shed,
         Chain!ReadFails, C!ReadFails, Chain!Invoke, C!Invoke, Chain!SelectResult,
         C!SelectResult, Chain!SelectDone, C!SelectDone, Chain!Park, C!Park,
         Chain!WriteHeader, C!WriteHeader, Chain!Release, C!Release, Chain!Count,
         C!Count, Chain!Observe, C!Observe
    <3>4. Chain!WriteBody(r) => C!WriteBody(r)
      BY DEF Chain!WriteBody, C!WriteBody
    <3>5. Chain!HandlerStep(r) => C!HandlerStep(r)
      BY DEF Chain!HandlerStep, C!HandlerStep, Chain!HandlerReturns,
         C!HandlerReturns, Chain!Results, C!Results
    <3>6. Chain!SendResult(r) => C!SendResult(r)
      BY DEF Chain!SendResult, C!SendResult
    <3>7. Chain!Deadline(r) => C!Deadline(r)
      BY DEF Chain!Deadline, C!Deadline
    <3>8. Chain!Disconnect(r) => C!Disconnect(r)
      BY DEF Chain!Disconnect, C!Disconnect
    <3>. QED
      BY <2>1, <3>1, <3>2, <3>3, <3>4, <3>5, <3>6, <3>7, <3>8
         DEF RequestStep, Enter, Exit, WriteBody, Handle, SendResult, Deadline,
         Disconnect, C!Step, C!ServerStep
  <2>2. CASE UNCHANGED chainVars
    BY <2>2 DEF chainVars, C!vars, C!goroutines, C!metrics
  <2>. QED  BY <2>1, <2>2 DEF Next, vars, C!Next
<1>. QED  BY <1>1, <1>2, PTL DEF Spec, C!Spec

(* Whatever the process does, each request is served by the contract of a   *)
(* call, and admission by the contract of the limiter.                      *)
THEOREM CallImplemented == Spec => C!ImplementsCall
BY ChainImplemented, C!CallImplemented, ChainConstants

THEOREM LimiterImplemented ==
  ASSUME C!Limited
  PROVE  Spec => C!ImplementsLimiter
<1>1. C!Spec => C!ImplementsLimiter
  BY C!LimiterImplemented, ChainConstants
<1>. QED  BY <1>1, ChainImplemented
-----------------------------------------------------------------------------
(* Enter and Exit keep the connections and the chain together: the link by  *)
(* which the contract of the drain, proved of connections, is one about the *)
(* requests inside the chain.                                               *)
LEMMA ConnectionsSafe == Spec => []ConnectionsAreRequests
<1>1. Init => ConnectionsAreRequests
  BY DEF Init, Chain!Init, Process!Init, ConnectionsAreRequests, Process!Busy,
         Chain!Inside, Chain!Left
<1>2. C!IInv /\ P!TypeOK /\ ConnectionsAreRequests /\ [Next]_vars
        => ConnectionsAreRequests'
  <2>. SUFFICES ASSUME C!IInv, P!TypeOK, ConnectionsAreRequests, [Next]_vars
                PROVE  ConnectionsAreRequests'
    OBVIOUS
  <2>1. /\ pc \in [Requests -> C!Places] /\ C!Shape
        /\ conn \in [Requests -> {"none", "new", "active", "closed"}]
    BY DEF C!IInv, C!TypeInt, P!TypeOK
  <2>. USE DEF ConnectionsAreRequests, Process!Busy, Chain!Inside, Chain!Left, Chain!Go
  <2>2. ASSUME NEW r \in Requests, Enter(r)  PROVE ConnectionsAreRequests'
    BY <2>1, <2>2 DEF Enter, Chain!Arrive, Process!BeginRequest
  <2>3. ASSUME NEW r \in Requests, Exit(r)  PROVE ConnectionsAreRequests'
    BY <2>1, <2>3 DEF Exit, Chain!Leave, Process!EndRequest
  <2>4. ASSUME NEW r \in Requests,
               InChain(r) \/ WriteBody(r) \/ Handle(r) \/ SendResult(r)
               \/ Deadline(r) \/ Disconnect(r)
        PROVE  ConnectionsAreRequests'
    <3>1. \/ pc' = pc
          \/ \E to \in C!Places \ {"idle", "done", "aborted"} :
               /\ pc' = [pc EXCEPT ![r] = to]
               /\ pc[r] \notin {"idle", "done", "aborted"}
      BY <2>4 DEF InChain, WriteBody, Handle, SendResult, Deadline, Disconnect,
         C!Places, Chain!Acquire, Chain!Shed, Chain!ReadFails, Chain!Invoke,
         Chain!SelectResult, Chain!SelectDone, Chain!Park, Chain!WriteHeader,
         Chain!Release, Chain!Count, Chain!Observe, Chain!WriteBody,
         Chain!HandlerStep, Chain!HandlerReturns, Chain!SendResult,
         Chain!Deadline, Chain!Disconnect, Chain!CloseDone, Chain!Answer,
         Chain!AfterWrite, Chain!AfterLimiter
    <3>2. Chain!Inside' = Chain!Inside
      BY <2>1, <3>1
    <3>. QED
      BY <2>4, <3>2 DEF InChain, WriteBody, Handle, SendResult, Deadline,
         Disconnect, processVars
  <2>5. ASSUME Process!ProcessStep, UNCHANGED chainVars
        PROVE  ConnectionsAreRequests'
    <3>1. Process!Busy' = Process!Busy
      <4>1. CASE Process!Poll
        BY <2>1, <4>1 DEF Process!Poll, Process!New
      <4>2. ASSUME NEW r \in Requests, Process!Connect(r)
            PROVE  Process!Busy' = Process!Busy
        BY <2>1, <4>2 DEF Process!Connect
      <4>3. CASE UNCHANGED conn
        BY <4>3
      <4>. QED
        BY <2>5, <4>1, <4>2, <4>3 DEF Process!ProcessStep, Process!MainStep,
           Process!FnStep, Process!MtrStep, Process!ReceiveError, Process!StartDrain,
           Process!FailReadiness, Process!Shutdown, Process!PollAgain,
           Process!GraceExceeded, Process!StopMetrics, Process!FnReady,
           Process!FnListen, Process!FnReports, Process!MtrListen,
           Process!MtrReports, Process!GraceExpires, Process!Signal,
           Process!FnFails, Process!MtrFails
    <3>. QED  BY <2>5, <3>1 DEF chainVars
  <2>6. CASE UNCHANGED vars
    BY <2>6 DEF vars, chainVars, processVars
  <2>. QED  BY <2>2, <2>3, <2>4, <2>5, <2>6 DEF Next, RequestStep
<1>3. Spec => []C!IInv  BY ChainImplemented, C!Invariance, ChainConstants, PTL
<1>4. Spec => []P!TypeOK  BY ProcessImplemented, P!TypeCorrect, PTL
<1>. QED  BY <1>1, <1>2, <1>3, <1>4, PTL DEF Spec

(* A clean exit cuts no request short: the process has no connection left   *)
(* (DrainSafe), so the chain holds no request, no slot and no gauge.        *)
THEOREM CleanExitSafe == Spec => []CleanExit
<1>1. C!IInv /\ P!DrainedWhenDone /\ ConnectionsAreRequests => CleanExit
  <2>. SUFFICES ASSUME C!IInv, P!DrainedWhenDone, ConnectionsAreRequests, exitCode = 0
                PROVE  CleanExit
    BY DEF CleanExit
  <2>1. Chain!Inside = {}
    BY DEF P!DrainedWhenDone, ConnectionsAreRequests, Process!Busy
  <2>2. C!Inside = {} /\ C!Holders = {}
    BY <2>1 DEF Chain!Inside, C!Inside, Chain!Left, C!Left, C!Holders, C!HoldsSlot
  <2>3. sem = 0 /\ inFlight = 0
    BY <2>2, ChainConstants, C!FS_EmptySet DEF C!IInv, C!SlotsConserved, C!GaugeConserved
  <2>4. ASSUME NEW r \in Requests
        PROVE  /\ pc[r] = "idle" \/ Chain!Left(r)
               /\ answer[r] \notin {"none", "invalid"} => Chain!Observed(r)
               /\ handler[r] = "running" => answer[r] = "504"
    <3>1. pc[r] \in {"idle", "done", "aborted"}
      BY <2>1 DEF Chain!Inside, Chain!Left
    <3>2. C!ShapeOf(r)  BY DEF C!IInv, C!Shape
    <3>. QED
      BY <3>1, <3>2 DEF C!ShapeOf, C!Waiting, Chain!Left, Chain!Observed
  <2>. QED  BY <2>3, <2>4 DEF CleanExit
<1>2. Spec => []C!IInv  BY ChainImplemented, C!Invariance, ChainConstants, PTL
<1>3. Spec => []P!DrainedWhenDone  BY ProcessImplemented, P!DrainSafe, PTL
<1>. QED  BY <1>1, <1>2, <1>3, ConnectionsSafe, PTL

(* The pod stops by the contract of GracefulStop: the process does, for its *)
(* connections, and those are the requests in the chain.                    *)
THEOREM GracefulStopImplemented == Spec => ImplementsGracefulStop
<1>1. Init => G!Init
  BY DEF Init, Chain!Init, Process!Init, G!Init, Process!Stage, Process!New,
         Chain!Inside, Chain!Left
<1>2. /\ P!TypeOK /\ P!TypeOK' /\ P!DInv /\ [P!Next]_(P!vars)
      /\ ConnectionsAreRequests /\ ConnectionsAreRequests'
      => [G!Next]_(G!vars)
  <2>. SUFFICES ASSUME P!TypeOK, P!TypeOK', P!DInv, [P!Next]_(P!vars),
                       ConnectionsAreRequests, ConnectionsAreRequests'
                PROVE  [G!Next]_(G!vars)
    OBVIOUS
  <2>1. [P!G!Next]_(P!G!vars)
    BY P!StopStep
  <2>2. /\ P!Stage = Process!Stage /\ P!Stage' = Process!Stage'
        /\ P!New = Process!New /\ P!New' = Process!New'
        /\ P!Busy = Chain!Inside /\ P!Busy' = Chain!Inside'
    BY DEF P!Stage, Process!Stage, P!New, Process!New, P!Busy, Process!Busy,
       ConnectionsAreRequests
  <2>. QED
    BY <2>1, <2>2 DEF P!G!Next, P!G!vars, P!G!Accept, P!G!Begin, P!G!End, P!G!Drain,
       P!G!GiveUp, P!G!Drained, P!G!Exit, P!G!Cut, G!Next, G!vars, G!Accept, G!Begin,
       G!End, G!Drain, G!GiveUp, G!Drained, G!Exit, G!Cut
<1>3. Spec => []P!TypeOK  BY ProcessImplemented, P!TypeCorrect, PTL
<1>4. Spec => []P!DInv  BY ProcessImplemented, P!DrainInvariance, PTL
<1>5. Spec => [][P!Next]_(P!vars)  BY ProcessImplemented DEF P!Spec
<1>6. Spec => Init  BY DEF Spec
<1>. QED
  BY <1>1, <1>2, <1>3, <1>4, <1>5, <1>6, ConnectionsSafe, PTL
     DEF ImplementsGracefulStop, G!Spec
=============================================================================
