------------------------------- MODULE Mixed --------------------------------
(***************************************************************************)
(* One request at the load generator examples/mixed, in time: memory is    *)
(* grown, ramped or not, then a CPU phase of several workers, a sleep and  *)
(* the hold of the memory run side by side, and when the last has ended    *)
(* the memory is freed and the summary written.  All of them watch the     *)
(* request's context, which ends by INVOKE_TIMEOUT or by the client.       *)
(*                                                                         *)
(* Computing takes no time: the clock advances when every goroutine waits  *)
(* for a timer that is not due.                                            *)
(***************************************************************************)
EXTENDS MixedParams

CONSTANTS
  InvokeTimeout,  \* INVOKE_TIMEOUT; 0 disables it
  Inputs          \* the requests clients may send

ASSUME InvokeTimeoutIsNat == InvokeTimeout \in Nat
ASSUME InputsAreRequests  == Inputs \subseteq Requests

Phases == {"cpu", "sleep", "hold"}

VARIABLES
  stage,    \* where runMixed is
  p,        \* its parameters
  held,     \* megabytes allocated and not given back
  phase,    \* phase[x]: the goroutine of phase x
  until,    \* until[x]: when the timer of x, or of the ramp's step, fires
  burning,  \* workers of cpuPhase at work
  target,   \* what pickSleep drew
  cpuRes,   \* the CPU phase has written its result
  slept,    \* the time slept, as the sleep's goroutine wrote it, or NotRun
  ctx,      \* the request's context: live, or why it is done
  clock,    \* the time since the invocation began
  answer,   \* the status of the Handler's response
  report    \* the summary, as far as it is written

mainVars  == <<stage, p, held, answer, report>>
phaseVars == <<phase, burning, target, cpuRes, slept>>
vars      == <<mainVars, phaseVars, until, ctx, clock>>
-----------------------------------------------------------------------------
Stages == {"parse", "check", "grow", "ramp", "launch", "wait", "free", "report", "done"}
NotRun == -1

CtxDone == ctx # "live"

Init ==
  /\ stage   = "parse"
  /\ p       = [cpu |-> 0, workers |-> 1, load |-> 100, mb |-> 0, hold |-> 0, ramp |-> 0,
                sleep |-> 0, dist |-> "fixed", jitter |-> 25]
  /\ held    = 0
  /\ phase   = [x \in Phases |-> "off"]
  /\ until   = [x \in Phases \cup {"ramp"} |-> 0]
  /\ burning = 0
  /\ target  = 0
  /\ cpuRes  = FALSE
  /\ slept   = NotRun
  /\ ctx     = "live"
  /\ clock   = 0
  /\ answer  = "none"
  /\ report  = [allocated |-> 0, cpu |-> FALSE, slept |-> NotRun, canceled |-> FALSE]

Move(from, to) == stage = from /\ stage' = to

Reject(in) ==
  /\ Move("parse", "done")
  /\ ~ Valid(in)
  /\ answer' = "400"
  /\ UNCHANGED <<p, held, report, phaseVars, until, ctx, clock>>

Parse(in) ==
  /\ stage = "parse"
  /\ Valid(in)
  /\ p' = Parsed(in)
  /\ stage' = IF p'.mb > 0 THEN "check" ELSE "launch"
  /\ UNCHANGED <<held, answer, report, phaseVars, until, ctx, clock>>
-----------------------------------------------------------------------------
\* Mutant: the steps of a ramp are rounded up, and add up to more than the ramp.
RampStepUp == (p.ramp + p.mb - 1) \div p.mb

RampStep == p.ramp \div p.mb

\* Mutant: allocate looks at the context in its ramp only.
CheckLength ==
  /\ stage = "check"
  /\ stage' = IF held = p.mb THEN "launch" ELSE "grow"
  /\ UNCHANGED <<p, held, answer, report, phaseVars, until, ctx, clock>>

(* allocate: an end of the context cuts it short, which runMixed ignores.   *)
Check ==
  /\ stage = "check"
  /\ stage' = IF held = p.mb \/ CtxDone THEN "launch" ELSE "grow"
  /\ UNCHANGED <<p, held, answer, report, phaseVars, until, ctx, clock>>

Grow ==
  /\ Move("grow", IF RampStep > 0 THEN "ramp" ELSE "check")
  /\ held' = held + 1
  /\ until' = [until EXCEPT !["ramp"] = clock + RampStep]
  /\ UNCHANGED <<p, answer, report, phaseVars, ctx, clock>>

RampElapses ==
  /\ Move("ramp", "check")
  /\ clock >= until["ramp"]
  /\ UNCHANGED <<p, held, answer, report, phaseVars, until, ctx, clock>>

RampCut ==
  /\ Move("ramp", "launch")
  /\ CtxDone
  /\ UNCHANGED <<p, held, answer, report, phaseVars, until, ctx, clock>>

Triggered(x) == IF x = "cpu" THEN p.cpu > 0 ELSE IF x = "sleep" THEN p.sleep > 0 ELSE p.mb > 0

(* What is allocated is noted, and a goroutine started for each load.       *)
Launch ==
  /\ Move("launch", "wait")
  /\ report' = [report EXCEPT !.allocated = held]
  /\ phase' = [x \in Phases |-> IF Triggered(x) THEN "ready" ELSE "off"]
  /\ UNCHANGED <<p, held, answer, burning, target, cpuRes, slept, until, ctx, clock>>
-----------------------------------------------------------------------------
Starts(x, length) ==
  /\ phase[x] = "ready"
  /\ phase' = [phase EXCEPT ![x] = "running"]
  /\ until' = [until EXCEPT ![x] = clock + length]

Ends(x) ==
  /\ phase[x] = "running"
  /\ phase' = [phase EXCEPT ![x] = "done"]

\* sleepCtx, and the context of cpuPhase, end at their time or with their parent
Due(x) == clock >= until[x] \/ CtxDone

StartCPU ==
  /\ Starts("cpu", p.cpu)
  /\ burning' = p.workers
  /\ UNCHANGED <<mainVars, target, cpuRes, slept, ctx, clock>>

(* burn: at any load a worker looks at the context again and again.         *)
BurnEnds ==
  /\ burning > 0
  /\ Due("cpu")
  /\ burning' = burning - 1
  /\ UNCHANGED <<mainVars, phase, target, cpuRes, slept, until, ctx, clock>>

EndCPU ==
  /\ Ends("cpu")
  /\ burning = 0
  /\ cpuRes' = TRUE
  /\ UNCHANGED <<mainVars, burning, target, slept, until, ctx, clock>>

StartSleep ==
  /\ \E s \in pickSleep(p) : target' = s /\ Starts("sleep", s)
  /\ UNCHANGED <<mainVars, burning, cpuRes, slept, ctx, clock>>

EndSleep ==
  /\ Ends("sleep")
  /\ Due("sleep")
  /\ slept' = clock - (until["sleep"] - target)
  /\ UNCHANGED <<mainVars, burning, target, cpuRes, until, ctx, clock>>

StartHold ==
  /\ Starts("hold", p.hold)
  /\ UNCHANGED <<mainVars, burning, target, cpuRes, slept, ctx, clock>>

\* Mutant: the memory is freed when its hold is over.
EndHoldFrees ==
  /\ Ends("hold")
  /\ Due("hold")
  /\ held' = 0
  /\ UNCHANGED <<stage, p, answer, report, burning, target, cpuRes, slept, until, ctx, clock>>

\* Mutant: the hold does not watch the context.
EndHoldUncut ==
  /\ Ends("hold")
  /\ clock >= until["hold"]
  /\ UNCHANGED <<mainVars, burning, target, cpuRes, slept, until, ctx, clock>>

(* chunks stays reachable until runMixed drops it.                          *)
EndHold ==
  /\ Ends("hold")
  /\ Due("hold")
  /\ UNCHANGED <<mainVars, burning, target, cpuRes, slept, until, ctx, clock>>
-----------------------------------------------------------------------------
\* Mutant: the sleep is not added to the WaitGroup.
PhasesOverButSleep == \A x \in {"cpu", "hold"} : phase[x] \in {"off", "done"}

PhasesOver == \A x \in Phases : phase[x] \in {"off", "done"}

(* wg.Wait returns; the results the goroutines wrote are read.              *)
Join ==
  /\ Move("wait", "free")
  /\ PhasesOver
  /\ report' = [report EXCEPT !.cpu = cpuRes, !.slept = slept]
  /\ UNCHANGED <<p, held, answer, phaseVars, until, ctx, clock>>

Free ==
  /\ Move("free", "report")
  /\ held' = 0
  /\ UNCHANGED <<p, answer, report, phaseVars, until, ctx, clock>>

\* Mutant: canceled is what allocate returned.
WasCanceledAllocating == report.allocated < p.mb

WasCanceled == CtxDone

(* runtime.JSON fails on a number that is none.                             *)
Respond ==
  /\ Move("report", "done")
  /\ report' = [report EXCEPT !.canceled = WasCanceled]
  /\ answer' = IF report.cpu /\ p.load = NaN THEN "500" ELSE "200"
  /\ UNCHANGED <<p, held, phaseVars, until, ctx, clock>>
-----------------------------------------------------------------------------
Over == stage = "done"

Deadline ==
  /\ ctx = "live" /\ ~ Over
  /\ InvokeTimeout > 0 /\ clock >= InvokeTimeout
  /\ ctx' = "deadline"
  /\ UNCHANGED <<mainVars, phaseVars, until, clock>>

Disconnect ==
  /\ ctx = "live" /\ ~ Over
  /\ ctx' = "disconnect"
  /\ UNCHANGED <<mainVars, phaseVars, until, clock>>

(* Every goroutine waits for a timer that is not due.                       *)
Quiet ==
  /\ ctx = "live"
  /\ InvokeTimeout > 0 => clock < InvokeTimeout
  /\ \/ stage = "ramp" /\ clock < until["ramp"]
     \/ /\ stage = "wait" /\ ~ PhasesOver
        /\ \A x \in Phases : \/ phase[x] \in {"off", "done"}
                             \/ phase[x] = "running" /\ clock < until[x]

Tick ==
  /\ Quiet
  /\ clock' = clock + 1
  /\ UNCHANGED <<mainVars, phaseVars, until, ctx>>

MainStep  == \/ \E in \in Inputs : Reject(in) \/ Parse(in)
             \/ Check \/ Grow \/ RampElapses \/ RampCut \/ Launch
             \/ Join \/ Free \/ Respond
PhaseStep == \/ StartCPU \/ BurnEnds \/ EndCPU \/ StartSleep \/ EndSleep
             \/ StartHold \/ EndHold

Next == MainStep \/ PhaseStep \/ Deadline \/ Disconnect \/ Tick

Spec == Init /\ [][Next]_vars

(* The Go scheduler runs every runnable goroutine; time passes.             *)
FairSpec == Spec /\ WF_vars(MainStep) /\ WF_vars(PhaseStep) /\ WF_vars(Tick)
-----------------------------------------------------------------------------
(* Properties.                                                             *)

(* Every variable has its type; what is parsed is within the caps.          *)
TypeOK ==
  /\ stage \in Stages
  /\ p \in Params
  /\ held \in 0..MaxMB
  /\ phase \in [Phases -> {"off", "ready", "running", "done"}]
  /\ until \in [Phases \cup {"ramp"} -> Nat]
  /\ burning \in 0..MaxWorkers
  /\ target \in 0..MaxSleep
  /\ cpuRes \in BOOLEAN
  /\ slept \in Nat \cup {NotRun}
  /\ ctx \in {"live", "deadline", "disconnect"}
  /\ clock \in Nat
  /\ answer \in {"none", "200", "400", "500"}
  /\ report \in [allocated : 0..MaxMB, cpu : BOOLEAN, slept : Nat \cup {NotRun},
                 canceled : BOOLEAN]

Longest == maxDur(maxDur(p.cpu, p.hold), IF p.dist = "fixed" THEN p.sleep ELSE MaxSleep)

(* A request meets INVOKE_TIMEOUT only if it asked for it: its ramp and its *)
(* longest phase take that long (function.yaml: "Above the longest possible *)
(* single request (ramp + max(cpu, sleep, hold)"): the steps of the ramp do *)
(* not add up to more, nor does a draw from the distribution.               *)
FitsTimeout == ctx = "deadline" => InvokeTimeout <= p.ramp + Longest

(* A summary that does not say canceled is of a load that ran in full: all  *)
(* of the memory, the whole sleep, and the time of the CPU phase.           *)
HonestSummary ==
  answer \in {"200", "500"} /\ ~ report.canceled =>
    /\ report.allocated = p.mb
    /\ p.sleep > 0 => report.slept >= target
    /\ clock >= p.cpu

(* The summary has the loads that ran and no others, although goroutines of *)
(* their own write them ("each goroutine writes its own variable, read back *)
(* only after Wait").                                                       *)
ReportsWhatRan ==
  answer \in {"200", "500"} => /\ report.cpu <=> p.cpu > 0
                               /\ report.slept # NotRun <=> p.sleep > 0

(* "The memory is held for the whole request (it spans the CPU and sleep    *)
(* work)": RSS does not dip while another phase is under way, though the    *)
(* hold may be shorter than a sleep that was drawn.                         *)
MemorySpansWork ==
  (\E x \in {"cpu", "sleep"} : phase[x] \in {"ready", "running"})
    => held = report.allocated

F == INSTANCE Footprint WITH Cap  <- MaxMB,
                             due  <- stage = "grow",
                             told <- CtxDone,
                             over <- stage \in {"report", "done"}

(* "A timeout or disconnect frees the memory": the contract of Footprint.   *)
ImplementsFootprint == F!FairSpec

(* The steps a request may still take once told to stop: a phase to start   *)
(* or to end, a worker to end, a stage to leave.                            *)
StepsOf(x) == IF phase[x] = "ready" THEN 2 ELSE IF phase[x] = "running" THEN 1 ELSE 0

StepsLeft ==
  CASE stage = "parse"  -> 14 + MaxWorkers
    [] stage = "grow"   -> 13 + MaxWorkers
    [] stage = "ramp"   -> 12 + MaxWorkers
    [] stage = "check"  -> 11 + MaxWorkers
    [] stage = "launch" -> 10 + MaxWorkers
    [] stage = "wait"   -> 3 + StepsOf("cpu") + StepsOf("sleep") + StepsOf("hold")
                             + IF phase["cpu"] = "ready" THEN MaxWorkers ELSE burning
    [] stage = "free"   -> 2
    [] stage = "report" -> 1
    [] stage = "done"   -> 0

(* Once its context is done a request only unwinds: every step any of its   *)
(* goroutines takes is one of a few that are left, in whatever order, and   *)
(* none of them leads back to allocating, sleeping or burning.              *)
CanceledUnwinds == [][CtxDone => StepsLeft' < StepsLeft]_vars

(* "... and stops the burn promptly": once its context is done a request    *)
(* ends though the clock stands still.                                      *)
CanceledReturns == CtxDone ~> Over
=============================================================================
