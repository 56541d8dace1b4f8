---------------------------- MODULE RamPodProofs ----------------------------
(***************************************************************************)
(* Proofs about RamPod, for every finite set of requests, every limit,     *)
(* both settings of the timeout and every cap and default of the memory of *)
(* a request.                                                              *)
(***************************************************************************)
EXTENDS RamPod, InvocationProofs

(* The pod implements the chain, so that what is proved of it carries over. *)
THEOREM ChainImplemented == PodSpec => ImplementsChain
<1>1. PodInit => Init
  BY DEF PodInit
<1>2. [PodNext]_podVars => [Next]_vars
  <2>1. ASSUME NEW r \in Requests, ChainStep(r)  PROVE Next
    BY <2>1 DEF ChainStep, Next, Step
  <2>2. ASSUME NEW r \in Requests, LoadReturns(r)  PROVE Next
    BY <2>2 DEF LoadReturns, Next, Step, HandlerStep, Results
  <2>. QED  BY <2>1, <2>2 DEF PodNext, LoadStep, podVars
<1>. QED  BY <1>1, <1>2, PTL DEF PodSpec, ImplementsChain, Spec

(* ... the contract of a call and, if there is a limit, of the limiter: the *)
(* load is one of the Handlers they are proved for.                         *)
THEOREM CallImplementedForRam == PodSpec => ImplementsCall
<1>1. PodSpec => Spec  BY ChainImplemented DEF ImplementsChain
<1>. QED  BY <1>1, CallImplemented

THEOREM LimiterImplementedForRam ==
  ASSUME Limited
  PROVE  PodSpec => ImplementsLimiter
<1>1. PodSpec => Spec  BY ChainImplemented DEF ImplementsChain
<1>. QED  BY <1>1, LimiterImplemented
-----------------------------------------------------------------------------
(* What is known of one request at each stage of its Handler.  A Handler    *)
(* that is at work is one the chain runs; what cut it short is a context    *)
(* that is done, and stays so.                                              *)
Working(r) == ram[r] \in {"check", "grow", "ramp", "hold", "free", "returned"}

LoadShapeOf(r) ==
  /\ Working(r) => handler[r] = "running"
  /\ ram[r] = "over" => handler[r] \in {"returned", "ended"}
  /\ held[r] > 0 => ram[r] \in {"check", "grow", "ramp", "hold", "free"}
  /\ held[r] <= params[r].mb
  /\ ram[r] = "grow" => held[r] < params[r].mb
  /\ ram[r] = "hold" => held[r] = params[r].mb
  /\ ram[r] = "free" => summary[r].canceled \/ held[r] = params[r].mb
  /\ summary[r].canceled => CtxDone(r) /\ ram[r] \in {"free", "returned", "over"}
  /\ ram[r] \in {"returned", "over"} =>
       summary[r].canceled \/ summary[r].allocated = params[r].mb
  /\ ram[r] = "none" => params[r].mb = 0 /\ summary[r].allocated = 0

LoadShape == \A r \in Requests : LoadShapeOf(r)

(* A context that is done stays done, and the chain never stops a Handler.  *)
LEMMA ChainKeeps ==
  ASSUME TypeInt, Shape, NEW r \in Requests, ChainStep(r), NEW q \in Requests
  PROVE  /\ CtxDone(q) => CtxDone(q)'
         /\ handler[q] = "running" => handler'[q] = "running"
         /\ handler[q] \in {"returned", "ended"} => handler'[q] \in {"returned", "ended"}
<1>. USE DEF TypeInt, Answer
<1>1. CASE Invoke(r)
  BY <1>1 DEF Invoke, Shape, ShapeOf, CtxDone
<1>2. CASE SendResult(r)
  BY <1>2 DEF SendResult, Cancelled, CtxDone
<1>3. CASE SelectResult(r)
  BY <1>3 DEF SelectResult, Cancelled, CtxDone
<1>4. CASE Deadline(r) \/ Disconnect(r)
  BY <1>4 DEF Deadline, Disconnect, CloseDone, CtxDone
<1>5. CASE UNCHANGED <<handler, ctx>>
  BY <1>5 DEF CtxDone
<1>. QED
  BY <1>1, <1>2, <1>3, <1>4, <1>5 DEF ChainStep, ServerStep, Arrive, Acquire, Shed,
     ReadFails, SelectDone, Park, WriteHeader, WriteBody, Release, Count, Observe, Leave

(* The most a request may ask for is no less than what parsing may yield.   *)
LEMMA ResolvedBounded ==
  /\ Load!Ceiling \in Nat
  /\ MaxMB <= Load!Ceiling
  /\ Load!Resolved \subseteq 0..Load!Ceiling
<1>. /\ MaxMB \in Nat \ {0} /\ DefaultMB \in Nat \ {0} /\ MBs \subseteq Int
  BY LoadConstants
<1>1. Load!Ceiling \in Nat /\ MaxMB <= Load!Ceiling /\ DefaultMB <= Load!Ceiling
  BY DEF Load!Ceiling
<1>2. ASSUME NEW n \in MBs  PROVE Load!clampInt(n, 0, MaxMB) \in 0..MaxMB
  BY DEF Load!clampInt
<1>3. \A mb \in Load!Resolved : mb \in 0..Load!Ceiling
  BY <1>1, <1>2 DEF Load!Resolved
<1>. QED  BY <1>1, <1>3

(* Every variable of the load keeps its type.                               *)
LEMMA LoadTypeStep ==
  ASSUME LoadTypeOK, LoadShape, [PodNext]_podVars
  PROVE  LoadTypeOK'
<1>. Load!Ceiling \in Nat /\ Load!Resolved \subseteq 0..Load!Ceiling
  BY ResolvedBounded
<1>. USE DEF LoadTypeOK, Load!Go, Load!At, Load!Stages, Load!Summaries
<1>1. CASE UNCHANGED ramVars
  BY <1>1 DEF ramVars
<1>2. ASSUME NEW r \in Requests, Load!Step(r)  PROVE LoadTypeOK'
  <2>1. CASE Load!BadRequest(r)
    BY <2>1 DEF Load!BadRequest
  <2>2. CASE Load!Parse(r)
    <3>1. PICK mb \in Load!Resolved, hold \in BOOLEAN, ramp \in BOOLEAN :
            params' = [params EXCEPT ![r] = [mb |-> mb, hold |-> hold, ramp |-> ramp]]
      BY <2>2 DEF Load!Parse
    <3>2. params' \in [Requests -> Load!Params]
      BY <3>1 DEF Load!Params
    <3>. QED  BY <2>2, <3>2 DEF Load!Parse
  <2>3. CASE Load!Check(r)
    BY <2>3, ZenonT(60) DEF Load!Check, Load!Cut
  <2>4. CASE Load!Grow(r)
    <3>1. /\ held[r] \in 0..Load!Ceiling /\ params[r].mb \in 0..Load!Ceiling
          /\ held[r] < params[r].mb
      BY <2>4 DEF Load!Grow, LoadShape, LoadShapeOf, Load!Params
    <3>. QED  BY <2>4, <3>1 DEF Load!Grow
  <2>5. CASE Load!Free(r)
    BY <2>5 DEF Load!Free
  <2>6. CASE Load!RampCut(r) \/ Load!HoldCut(r)
    <3>1. Load!Cut(r)
      BY <2>6 DEF Load!RampCut, Load!HoldCut
    <3>2. summary' = [summary EXCEPT ![r].canceled = TRUE]
      BY <3>1 DEF Load!Cut
    <3>3. summary' \in [Requests -> Load!Summaries]
      BY <3>2
    <3>. QED  BY <3>1, <3>3 DEF Load!Cut
  <2>7. CASE Load!HoldIsNone(r) \/ Load!RampElapses(r) \/ Load!HoldElapses(r)
    BY <2>7 DEF Load!HoldIsNone, Load!RampElapses, Load!HoldElapses
  <2>. QED
    BY <1>2, <2>1, <2>2, <2>3, <2>4, <2>5, <2>6, <2>7 DEF Load!Step, Load!Compute
<1>3. ASSUME NEW r \in Requests, LoadReturns(r)  PROVE LoadTypeOK'
  BY <1>3 DEF LoadReturns, Load!Return
<1>. QED
  BY <1>1, <1>2, <1>3 DEF PodNext, ChainStep, LoadStep, podVars

(* The shape is kept: by the chain, which leaves the load alone ...         *)
LEMMA LoadShapeChain ==
  ASSUME TypeInt, Shape, LoadTypeOK, LoadShape, NEW r \in Requests, ChainStep(r)
  PROVE  LoadShape'
<1>. SUFFICES ASSUME NEW q \in Requests  PROVE LoadShapeOf(q)'
  BY DEF LoadShape
<1>1. /\ CtxDone(q) => CtxDone(q)'
      /\ handler[q] = "running" => handler'[q] = "running"
      /\ handler[q] \in {"returned", "ended"} => handler'[q] \in {"returned", "ended"}
  BY ChainKeeps
<1>2. LoadShapeOf(q) /\ UNCHANGED ramVars
  BY DEF LoadShape, ChainStep
<1>. QED  BY <1>1, <1>2 DEF LoadShapeOf, Working, ramVars

(* ... and by the Handler.                                                  *)
LEMMA LoadShapeLoad ==
  ASSUME TypeInt, LoadTypeOK, LoadTypeOK', LoadShape, NEW r \in Requests, LoadStep(r)
  PROVE  LoadShape'
<1>. SUFFICES ASSUME NEW q \in Requests  PROVE LoadShapeOf(q)'
  BY DEF LoadShape
<1>. Load!Ceiling \in Nat  BY ResolvedBounded
<1>1. /\ LoadShapeOf(q) /\ LoadShapeOf(r) /\ Load!Step(r) /\ handler[r] = "running"
      /\ handler' = handler /\ ctx' = ctx
  BY DEF LoadShape, LoadStep, vars, goroutines
<1>2. /\ ram \in [Requests -> Load!Stages] /\ held \in [Requests -> 0..Load!Ceiling]
      /\ params \in [Requests -> Load!Params] /\ summary \in [Requests -> Load!Summaries]
  BY DEF LoadTypeOK
<1>3. CASE q # r
  <2>1. UNCHANGED <<ram[q], params[q], held[q], summary[q]>>
    BY <1>1, <1>2, <1>3 DEF Load!Step, Load!Compute, Load!BadRequest, Load!Parse,
       Load!Check, Load!Grow, Load!RampCut, Load!HoldIsNone, Load!HoldCut, Load!Free,
       Load!RampElapses, Load!HoldElapses, Load!Cut, Load!Go
  <2>. QED  BY <1>1, <2>1 DEF LoadShapeOf, Working, CtxDone
<1>4. CASE q = r
  <2>. USE <1>1, <1>2, <1>4 DEF LoadShapeOf, Working, CtxDone, Load!CtxDone, Load!Go,
       Load!At, Load!Cut, Load!Params, Load!Summaries
  <2>1. CASE Load!BadRequest(r)
    BY <2>1 DEF Load!BadRequest
  <2>2. CASE Load!Parse(r)
    <3>1. params'[r].mb \in 0..Load!Ceiling
      BY DEF LoadTypeOK
    <3>. QED  BY <2>2, <3>1 DEF Load!Parse
  <2>3. CASE Load!Check(r)
    BY <2>3 DEF Load!Check
  <2>4. CASE Load!Grow(r)
    BY <2>4 DEF Load!Grow
  <2>5. CASE Load!Free(r)
    BY <2>5 DEF Load!Free
  <2>6. CASE Load!RampCut(r) \/ Load!HoldCut(r)
    BY <2>6 DEF Load!RampCut, Load!HoldCut
  <2>7. CASE Load!HoldIsNone(r) \/ Load!RampElapses(r) \/ Load!HoldElapses(r)
    BY <2>7 DEF Load!HoldIsNone, Load!RampElapses, Load!HoldElapses
  <2>. QED
    BY <2>1, <2>2, <2>3, <2>4, <2>5, <2>6, <2>7 DEF Load!Step, Load!Compute
<1>. QED  BY <1>3, <1>4

(* ... and by its return, after which the goroutine it ran in has ended, or *)
(* is about to.                                                             *)
LEMMA LoadShapeReturns ==
  ASSUME TypeInt, LoadTypeOK, LoadShape, NEW r \in Requests, LoadReturns(r)
  PROVE  LoadShape'
<1>. SUFFICES ASSUME NEW q \in Requests  PROVE LoadShapeOf(q)'
  BY DEF LoadShape
<1>1. /\ ram' = [ram EXCEPT ![r] = "over"] /\ ram[r] = "returned"
      /\ UNCHANGED <<params, held, summary, ctx>>
  BY DEF LoadReturns, Load!Return, Load!At, Load!Go, HandlerReturns
<1>2. /\ handler'[r] \in {"returned", "ended"}
      /\ q # r => handler'[q] = handler[q]
  BY DEF LoadReturns, HandlerReturns, TypeInt
<1>3. LoadShapeOf(q) /\ ram \in [Requests -> Load!Stages]
  BY DEF LoadShape, LoadTypeOK
<1>. QED  BY <1>1, <1>2, <1>3 DEF LoadShapeOf, Working, CtxDone

LoadInv == LoadTypeOK /\ LoadShape

(* The load's types and shape hold in every state of the pod.               *)
THEOREM LoadInvariance == PodSpec => [](IInv /\ LoadInv)
<1>1. PodInit => LoadInv
  <2>. SUFFICES ASSUME PodInit  PROVE LoadInv
    OBVIOUS
  <2>. Load!Ceiling \in Nat  BY ResolvedBounded
  <2>1. LoadTypeOK
    BY DEF PodInit, LoadTypeOK, Load!Init, Load!Stages, Load!Params, Load!Summaries,
       Load!None
  <2>2. LoadShape
    BY DEF PodInit, Init, LoadShape, LoadShapeOf, Working, Load!Init, Load!None
  <2>. QED  BY <2>1, <2>2 DEF LoadInv
<1>2. IInv /\ LoadInv /\ [PodNext]_podVars => LoadInv'
  <2>. SUFFICES ASSUME IInv, LoadInv, [PodNext]_podVars  PROVE LoadInv'
    OBVIOUS
  <2>1. TypeInt /\ Shape /\ LoadTypeOK /\ LoadShape
    BY DEF IInv, LoadInv
  <2>2. LoadTypeOK'
    BY <2>1, LoadTypeStep
  <2>3. LoadShape'
    <3>1. CASE UNCHANGED podVars
      BY <2>1, <3>1 DEF LoadShape, LoadShapeOf, Working, CtxDone, podVars, ramVars,
         vars, goroutines
    <3>2. CASE PodNext
      BY <2>1, <2>2, <3>2, LoadShapeChain, LoadShapeLoad, LoadShapeReturns DEF PodNext
    <3>. QED  BY <3>1, <3>2
  <2>. QED  BY <2>2, <2>3 DEF LoadInv
<1>3. Spec => []IInv
  BY Invariance
<1>4. PodSpec => Spec
  BY ChainImplemented DEF ImplementsChain
<1>. QED  BY <1>1, <1>2, <1>3, <1>4, PTL DEF PodSpec

(* Without a timeout the requests that hold memory are no more than the     *)
(* limit: each of them is one whose Handler runs.                           *)
THEOREM HoldingSafe == PodSpec => []HoldingWithinLimit
<1>1. LoadInv /\ IInv /\ RunningWithinLimit => HoldingWithinLimit
  <2>. SUFFICES ASSUME LoadInv, IInv, RunningWithinLimit, Limited, ~ TimeoutOn
                PROVE  Cardinality(Holding) <= MaxConcurrency
    BY DEF HoldingWithinLimit
  <2>. DEFINE Running == {r \in Requests : handler[r] = "running"}
  <2>1. Holding \subseteq Running
    BY DEF LoadInv, LoadShape, LoadShapeOf, Holding, Working
  <2>2. IsFiniteSet(Running)
    BY FS_Subset, RequestsFinite
  <2>3. /\ Cardinality(Holding) <= Cardinality(Running)
        /\ Cardinality(Holding) \in Nat /\ Cardinality(Running) \in Nat
    BY <2>1, <2>2, FS_Subset, FS_CardinalityType
  <2>4. Cardinality(Running) <= MaxConcurrency
    BY DEF RunningWithinLimit
  <2>. QED  BY <2>3, <2>4, LimitIsInt
<1>2. PodSpec => Spec
  BY ChainImplemented DEF ImplementsChain
<1>3. CASE TimeoutOn
  <2>1. HoldingWithinLimit
    BY <1>3 DEF HoldingWithinLimit
  <2>. QED  BY <2>1, PTL
<1>4. CASE ~ TimeoutOn
  <2>1. Spec => []RunningWithinLimit
    BY <1>4, RunningSafe
  <2>. QED  BY <1>1, <1>2, <2>1, LoadInvariance, PTL
<1>. QED  BY <1>3, <1>4

(* With a timeout or without, requests that hold memory and were not told to*)
(* stop hold a slot each, so that they are no more than the limit.          *)
THEOREM ExcessSafe == PodSpec => []ExcessIsTold
<1>1. LoadInv /\ IInv => ExcessIsTold
  <2>. SUFFICES ASSUME LoadInv, IInv, Limited
                PROVE  Cardinality({r \in Holding : ~ CtxDone(r)}) <= MaxConcurrency
    BY DEF ExcessIsTold
  <2>. DEFINE Live == {r \in Holding : ~ CtxDone(r)}
  <2>1. Live \subseteq Holders
    <3>. SUFFICES ASSUME NEW r \in Requests, held[r] > 0, ~ CtxDone(r)
                  PROVE  HoldsSlot(r)
      BY DEF Holding, Holders
    <3>1. handler[r] = "running"
      BY DEF LoadInv, LoadShape, LoadShapeOf, Working
    <3>2. Waiting(r)
      BY <3>1 DEF IInv, Shape, ShapeOf, CtxDone, Waiting
    <3>. QED  BY <3>2 DEF Waiting, HoldsSlot
  <2>2. IsFiniteSet(Holders)
    BY FS_Subset, RequestsFinite DEF Holders
  <2>3. /\ Cardinality(Live) <= Cardinality(Holders)
        /\ Cardinality(Live) \in Nat /\ Cardinality(Holders) \in Nat
    BY <2>1, <2>2, FS_Subset, FS_CardinalityType
  <2>4. Cardinality(Holders) <= MaxConcurrency
    BY DEF IInv, SlotsConserved
  <2>. QED  BY <2>3, <2>4, LimitIsInt
<1>2. PodSpec => []IInv
  BY ChainImplemented, Invariance, PTL DEF ImplementsChain
<1>. QED  BY <1>1, <1>2, LoadInvariance, PTL

(* What a request reports is what it did, and is reported after the release.*)
THEOREM HonestSafe == PodSpec => []HonestSummary
<1>1. LoadInv => HonestSummary
  <2>. SUFFICES ASSUME LoadInv, NEW r \in Requests, ram[r] \in {"returned", "over"}
                PROVE  /\ held[r] = 0
                       /\ summary[r].canceled => CtxDone(r)
                       /\ ~ summary[r].canceled => summary[r].allocated = params[r].mb
    BY DEF HonestSummary
  <2>1. held[r] \in 0..Load!Ceiling /\ LoadShapeOf(r)
    BY DEF LoadInv, LoadTypeOK, LoadShape
  <2>. QED  BY <2>1, ResolvedBounded DEF LoadShapeOf
<1>. QED  BY <1>1, LoadInvariance, PTL

(* Where the default keeps to RAM_MAX_MB no request, whatever it asks for,  *)
(* holds more than that.                                                    *)
THEOREM HardCeilingSafe ==
  ASSUME DefaultMB <= MaxMB
  PROVE  PodSpec => []HardCeiling
<1>1. LoadInv => HardCeiling
  <2>. SUFFICES ASSUME LoadInv, NEW r \in Requests  PROVE held[r] <= MaxMB
    BY DEF HardCeiling
  <2>1. Load!Ceiling = MaxMB
    BY LoadConstants DEF Load!Ceiling
  <2>2. held[r] \in 0..MaxMB
    BY <2>1 DEF LoadInv, LoadTypeOK
  <2>. QED  BY <2>2, LoadConstants
<1>. QED  BY <1>1, LoadInvariance, PTL

(* One request's memory keeps to the contract of Footprint.                 *)
THEOREM FootprintImplemented == PodSpec => ImplementsFootprint
<1>1. PodInit => \A r \in Requests : F(r)!Init
  BY DEF PodInit, Init, Load!Init, F!Init, CtxDone
<1>2. LoadInv /\ IInv /\ [PodNext]_podVars
        => [\A r \in Requests : [F(r)!Next]_(F(r)!vars)]_podVars
  <2>. SUFFICES ASSUME LoadInv, IInv, PodNext, NEW q \in Requests
                PROVE  [F(q)!Next]_(F(q)!vars)
    OBVIOUS
  <2>. Load!Ceiling \in Nat  BY ResolvedBounded
  <2>. USE DEF F!Next, F!vars, F!Look, F!Grow, F!Free, F!Tell
  <2>0. /\ TypeInt /\ Shape /\ LoadTypeOK /\ LoadShapeOf(q)
        /\ ram \in [Requests -> Load!Stages] /\ held \in [Requests -> 0..Load!Ceiling]
        /\ params[q].mb \in 0..Load!Ceiling
    BY DEF IInv, LoadInv, LoadShape, LoadTypeOK, Load!Params
  <2>1. ASSUME NEW r \in Requests, ChainStep(r)  PROVE [F(q)!Next]_(F(q)!vars)
    <3>1. (CtxDone(q) => CtxDone(q)') /\ UNCHANGED <<held, ram>>
      BY <2>0, <2>1, ChainKeeps DEF ChainStep, ramVars
    <3>. QED  BY <3>1 DEF CtxDone
  <2>2. ASSUME NEW r \in Requests, LoadReturns(r)  PROVE [F(q)!Next]_(F(q)!vars)
    <3>1. /\ UNCHANGED <<held, ctx>> /\ ram[r] = "returned"
          /\ ram' = [ram EXCEPT ![r] = "over"]
      BY <2>2 DEF LoadReturns, Load!Return, Load!At, Load!Go, HandlerReturns
    <3>. QED  BY <2>0, <3>1 DEF CtxDone
  <2>3. ASSUME NEW r \in Requests, LoadStep(r)  PROVE [F(q)!Next]_(F(q)!vars)
    <3>1. Load!Step(r) /\ UNCHANGED ctx
      BY <2>3 DEF LoadStep, vars, goroutines
    <3>2. CASE q # r
      <4>1. UNCHANGED <<ram[q], held[q]>>
        BY <2>0, <3>1, <3>2 DEF Load!Step, Load!Compute, Load!BadRequest, Load!Parse,
           Load!Check, Load!Grow, Load!RampCut, Load!HoldIsNone, Load!HoldCut,
           Load!Free, Load!RampElapses, Load!HoldElapses, Load!Cut, Load!Go
      <4>. QED  BY <3>1, <4>1 DEF CtxDone
    <3>3. CASE q = r
      <4>. USE <2>0, <3>1, <3>3 DEF LoadShapeOf, Working, CtxDone, Load!CtxDone,
           Load!Go, Load!At, Load!Cut
      <4>1. CASE Load!BadRequest(r) \/ Load!Parse(r)
        BY <4>1 DEF Load!BadRequest, Load!Parse
      <4>2. CASE Load!Check(r)
        BY <4>2 DEF Load!Check
      <4>3. CASE Load!Grow(r)
        BY <4>3 DEF Load!Grow
      <4>4. CASE Load!Free(r)
        BY <4>4 DEF Load!Free
      <4>5. CASE \/ Load!RampCut(r) \/ Load!HoldCut(r) \/ Load!HoldIsNone(r)
                 \/ Load!RampElapses(r) \/ Load!HoldElapses(r)
        BY <4>5 DEF Load!RampCut, Load!HoldCut, Load!HoldIsNone, Load!RampElapses,
           Load!HoldElapses
      <4>. QED
        BY <4>1, <4>2, <4>3, <4>4, <4>5 DEF Load!Step, Load!Compute
    <3>. QED  BY <3>2, <3>3
  <2>. QED  BY <2>1, <2>2, <2>3 DEF PodNext
<1>. QED  BY <1>1, <1>2, LoadInvariance, PTL DEF PodSpec, ImplementsFootprint

(* A load that was told to stop is over in at most seven stages, wherever   *)
(* it was and whatever the chain and the other requests do.                 *)
THEOREM UnwindSafe == PodSpec => CanceledUnwinds
<1>. DEFINE Unwinds == \A r \in Requests : CtxDone(r) /\ ram'[r] # ram[r]
                                           => StagesLeft(r)' < StagesLeft(r)
<1>1. LoadInv /\ [PodNext]_podVars => [Unwinds]_podVars
  <2>. SUFFICES ASSUME LoadInv, PodNext, NEW q \in Requests, CtxDone(q),
                       ram'[q] # ram[q]
                PROVE  StagesLeft(q)' < StagesLeft(q)
    OBVIOUS
  <2>0. ram \in [Requests -> Load!Stages] /\ LoadShapeOf(q)
    BY DEF LoadInv, LoadTypeOK, LoadShape
  <2>1. ASSUME NEW r \in Requests, ChainStep(r)  PROVE FALSE
    BY <2>1 DEF ChainStep, ramVars
  <2>2. ASSUME NEW r \in Requests, LoadReturns(r)
        PROVE  StagesLeft(q)' < StagesLeft(q)
    <3>1. ram[q] = "returned" /\ ram'[q] = "over"
      BY <2>0, <2>2 DEF LoadReturns, Load!Return, Load!At, Load!Go
    <3>. QED  BY <3>1 DEF StagesLeft
  <2>3. ASSUME NEW r \in Requests, LoadStep(r)
        PROVE  StagesLeft(q)' < StagesLeft(q)
    <3>1. Load!Step(r)
      BY <2>3 DEF LoadStep
    <3>2. q = r
      BY <2>0, <3>1 DEF Load!Step, Load!Compute, Load!BadRequest, Load!Parse,
         Load!Check, Load!Grow, Load!RampCut, Load!HoldIsNone, Load!HoldCut,
         Load!Free, Load!RampElapses, Load!HoldElapses, Load!Cut, Load!Go
    <3>. USE <2>0, <3>2 DEF Load!At, Load!Go, Load!Cut, Load!CtxDone, CtxDone, StagesLeft
    <3>3. CASE Load!BadRequest(r) \/ Load!Parse(r)
      BY <3>3 DEF Load!BadRequest, Load!Parse
    <3>4. CASE Load!Check(r)
      BY <3>4 DEF Load!Check
    <3>5. CASE Load!Grow(r)
      BY <3>5 DEF Load!Grow
    <3>6. CASE \/ Load!RampCut(r) \/ Load!HoldCut(r) \/ Load!HoldIsNone(r)
               \/ Load!RampElapses(r) \/ Load!HoldElapses(r)
      BY <3>6 DEF Load!RampCut, Load!HoldCut, Load!HoldIsNone, Load!RampElapses,
         Load!HoldElapses
    <3>7. CASE Load!Free(r)
      BY <3>7 DEF Load!Free
    <3>. QED
      BY <3>1, <3>3, <3>4, <3>5, <3>6, <3>7 DEF Load!Step, Load!Compute
  <2>. QED  BY <2>1, <2>2, <2>3 DEF PodNext
<1>. QED  BY <1>1, LoadInvariance, PTL DEF PodSpec, CanceledUnwinds
=============================================================================
