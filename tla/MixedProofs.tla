---------------------------- MODULE MixedProofs -----------------------------
(***************************************************************************)
(* Proofs about Mixed, for all caps, every timeout and every set of        *)
(* requests.                                                               *)
(***************************************************************************)
EXTENDS Mixed, TLAPS

LEMMA Constants ==
  /\ MaxCPU \in Nat \ {0} /\ MaxSleep \in Nat \ {0} /\ MaxHold \in Nat \ {0}
  /\ MaxRamp \in Nat \ {0} /\ MaxMB \in Nat \ {0} /\ MaxWorkers \in Nat \ {0}
  /\ DefaultHold \in Nat \ {0} /\ Tail \in Nat /\ InvokeTimeout \in Nat
BY CapsArePositive, InvokeTimeoutIsNat

(* Whatever a client sends is refused or parsed to a load within the caps.  *)
LEMMA ParsedType ==
  ASSUME NEW in \in Requests, Valid(in)
  PROVE  Parsed(in) \in Params
<1>. USE Constants
<1>. DEFINE get == Get(in)
<1>1. get \in [Keys -> Texts]
  BY DEF Get, Requests
<1>2. \A k \in Keys : get[k].n \in Int /\ get[k] \in Texts
  BY <1>1 DEF Texts
<1>3. ASSUME NEW k \in Keys, NEW max \in Nat
      PROVE  durParam(get[k], 0, max) \in 0..max
  BY <1>2 DEF durParam, clamp
<1>4. ASSUME NEW k \in Keys, NEW lo \in Nat, NEW hi \in Nat, lo <= hi, NEW def \in lo..hi
      PROVE  intParam(get[k], def, lo, hi) \in lo..hi
  BY <1>2 DEF intParam, clamp
<1>5. ASSUME NEW k \in Keys, NEW def \in 0..100  PROVE floatParam(get[k], def) \in NaN..100
  <2>1. NaN \in NaN..100 /\ def \in NaN..100
    BY DEF NaN
  <2>2. ASSUME NEW f \in Int  PROVE clamp(f, 0, 100) \in NaN..100
    BY DEF clamp, NaN
  <2>3. 100 * get[k].n \in Int /\ get[k].n \in Int
    BY <1>2
  <2>. QED  BY <2>1, <2>2, <2>3 DEF floatParam
<1>. DEFINE cpu == durParam(get["cpu"], 0, MaxCPU)
            sleep == durParam(get["sleep"], 0, MaxSleep)
<1>6. cpu \in 0..MaxCPU /\ sleep \in 0..MaxSleep
  BY <1>3 DEF Keys, Durations
<1>7. clamp(Span(cpu, sleep), 0, MaxHold) \in 0..MaxHold
  <2>1. Span(cpu, sleep) \in Int
    <3>. HIDE DEF cpu, sleep
    <3>. QED  BY <1>6 DEF Span, maxDur
  <2>. QED  BY <2>1 DEF clamp
<1>8. durParam(get["hold"], 0, MaxHold) \in 0..MaxHold
  BY <1>3 DEF Keys, Durations
<1>9. durParam(get["ramp"], 0, MaxRamp) \in 0..MaxRamp
  BY <1>3 DEF Keys, Durations
<1>10. /\ intParam(get["workers"], 1, 1, MaxWorkers) \in 1..MaxWorkers
       /\ intParam(get["mb"], 0, 0, MaxMB) \in 0..MaxMB
  BY <1>4 DEF Keys, Ints
<1>11. floatParam(get["load"], 100) \in NaN..100 /\ floatParam(get["jitter"], 25) \in NaN..100
  BY <1>5 DEF Keys, Floats
<1>12. (IF Absent(get["dist"]) THEN "fixed" ELSE get["dist"].kind) \in Dists
  BY DEF Valid, Absent, Is, Dists
<1>. HIDE DEF get, cpu, sleep
<1>. QED
  BY <1>6, <1>7, <1>8, <1>9, <1>10, <1>11, <1>12 DEF Parsed, Params, get, cpu, sleep

(* A sleep that is drawn is within its cap, and a fixed one is its base.    *)
LEMMA PickSleepType ==
  ASSUME p \in Params, NEW s \in pickSleep(p)
  PROVE  s \in 0..MaxSleep /\ (p.dist = "fixed" => s = p.sleep)
<1>. USE Constants
<1>. p.sleep \in 0..MaxSleep /\ p.jitter \in NaN..100
  BY DEF Params
<1>1. PICK d \in Drawn(p) : s = clamp(d, 0, MaxSleep)
  BY DEF pickSleep
<1>2. d \in Int
  BY DEF Drawn, NaN
<1>3. CASE p.dist = "fixed"
  BY <1>1, <1>3 DEF Drawn, clamp
<1>. QED  BY <1>1, <1>2, <1>3 DEF clamp
-----------------------------------------------------------------------------
(* The inductive invariant.  Before its phases are launched runMixed has    *)
(* only grown memory; it has all of it unless its context is done.          *)
Growing == {"parse", "check", "grow", "ramp", "launch"}

MemoryInv ==
  /\ held <= p.mb
  /\ stage = "parse" => held = 0
  /\ stage \in {"check", "grow", "ramp"} => p.mb > 0
  /\ stage = "grow" => held < p.mb
  /\ stage \in {"launch", "wait", "free"} => held = p.mb \/ CtxDone
  /\ stage \in {"wait", "free"} => held = report.allocated
  /\ stage = "report" => report.allocated = p.mb \/ CtxDone

(* The goroutines are at work only while runMixed waits; what one of them   *)
(* has written is there when it is done, and one that is done was at work   *)
(* for its time unless the context is done.                                 *)
PhaseInv ==
  /\ stage # "wait" => \A x \in Phases : phase[x] \in {"off", "done"}
  /\ stage \in Growing => \A x \in Phases : phase[x] = "off"
  /\ stage \in {"wait", "free", "report"} =>
       \A x \in Phases : phase[x] = "off" <=> ~ Triggered(x)
  /\ cpuRes <=> phase["cpu"] = "done"
  /\ slept # NotRun <=> phase["sleep"] = "done"
  /\ burning > 0 => phase["cpu"] = "running"
  /\ phase["cpu"] = "running" =>
       /\ until["cpu"] >= p.cpu
       /\ burning < p.workers => clock >= p.cpu \/ CtxDone
  /\ phase["cpu"] = "done" => clock >= p.cpu \/ CtxDone
  /\ phase["sleep"] = "running" => until["sleep"] - target \in 0..clock
  /\ phase["sleep"] = "done" => slept >= target \/ CtxDone

(* What runMixed has read, and what it has answered.                        *)
ReportInv ==
  /\ stage \in {"free", "report"} => report.cpu = cpuRes /\ report.slept = slept
  /\ stage # "done" => answer = "none"
  /\ HonestSummary
  /\ ReportsWhatRan

WorkInv == MemoryInv /\ PhaseInv /\ ReportInv

(* The step of a ramp is a time as long as there is memory to allocate.     *)
LEMMA RampStepType ==
  ASSUME p \in Params, p.mb > 0
  PROVE  RampStep \in Nat
BY Constants DEF RampStep, Params

LEMMA TypeStep ==
  ASSUME TypeOK, WorkInv, [Next]_vars
  PROVE  TypeOK'
<1>. USE Constants DEF TypeOK, Stages, mainVars, phaseVars
<1>1. CASE UNCHANGED vars
  BY <1>1 DEF vars
<1>2. ASSUME NEW in \in Inputs, Reject(in)  PROVE TypeOK'
  BY <1>2 DEF Reject, Move
<1>3. ASSUME NEW in \in Inputs, Parse(in)  PROVE TypeOK'
  <2>1. p' \in Params /\ stage' \in {"check", "launch"}
    BY <1>3, ParsedType, InputsAreRequests DEF Parse
  <2>. QED  BY <1>3, <2>1 DEF Parse
<1>4. CASE Check
  BY <1>4 DEF Check
<1>5. CASE Grow
  <2>1. held + 1 \in 0..MaxMB /\ p.mb > 0
    BY <1>5 DEF Grow, Move, WorkInv, MemoryInv, Params
  <2>2. RampStep \in Nat
    BY <2>1, RampStepType
  <2>3. clock + RampStep \in Nat
    BY <2>2
  <2>. QED  BY <1>5, <2>1, <2>3 DEF Grow, Move
<1>6. CASE RampElapses \/ RampCut
  BY <1>6 DEF RampElapses, RampCut, Move
<1>7. CASE Launch
  BY <1>7 DEF Launch, Move
<1>8. CASE StartCPU
  <2>1. p.workers \in 0..MaxWorkers /\ clock + p.cpu \in Nat
    BY DEF Params
  <2>2. /\ phase' \in [Phases -> {"off", "ready", "running", "done"}]
        /\ until' \in [Phases \cup {"ramp"} -> Nat]
    BY <1>8, <2>1 DEF StartCPU, Starts
  <2>. QED  BY <1>8, <2>1, <2>2 DEF StartCPU
<1>9. CASE BurnEnds
  BY <1>9 DEF BurnEnds
<1>10. CASE EndCPU
  BY <1>10, ZenonT(60) DEF EndCPU, Ends
<1>11. CASE StartSleep
  <2>1. PICK s \in pickSleep(p) : target' = s /\ Starts("sleep", s)
    BY <1>11 DEF StartSleep
  <2>2. s \in 0..MaxSleep
    BY PickSleepType
  <2>3. clock + s \in Nat
    BY <2>2
  <2>4. /\ phase' \in [Phases -> {"off", "ready", "running", "done"}]
        /\ until' \in [Phases \cup {"ramp"} -> Nat]
    BY <2>1, <2>3 DEF Starts
  <2>. QED  BY <1>11, <2>1, <2>2, <2>4 DEF StartSleep
<1>12. CASE EndSleep
  <2>1. until["sleep"] - target \in 0..clock
    BY <1>12 DEF EndSleep, Ends, WorkInv, PhaseInv
  <2>2. clock - (until["sleep"] - target) \in Nat
    BY <2>1
  <2>. QED  BY <1>12, <2>2, ZenonT(60) DEF EndSleep, Ends
<1>13. CASE StartHold
  <2>1. clock + p.hold \in Nat
    BY DEF Params
  <2>2. /\ phase' \in [Phases -> {"off", "ready", "running", "done"}]
        /\ until' \in [Phases \cup {"ramp"} -> Nat]
    BY <1>13, <2>1 DEF StartHold, Starts
  <2>. QED  BY <1>13, <2>2 DEF StartHold
<1>14. CASE EndHold
  <2>1. phase' \in [Phases -> {"off", "ready", "running", "done"}]
    BY <1>14 DEF EndHold, Ends
  <2>. QED  BY <1>14, <2>1 DEF EndHold
<1>15. CASE Join
  BY <1>15 DEF Join, Move
<1>16. CASE Free
  BY <1>16 DEF Free, Move
<1>17. CASE Respond
  BY <1>17 DEF Respond, Move, WasCanceled, CtxDone
<1>18. CASE Deadline \/ Disconnect
  BY <1>18 DEF Deadline, Disconnect
<1>19. CASE Tick
  BY <1>19 DEF Tick
<1>. QED
  BY <1>1, <1>2, <1>3, <1>4, <1>5, <1>6, <1>7, <1>8, <1>9, <1>10, <1>11, <1>12, <1>13,
     <1>14, <1>15, <1>16, <1>17, <1>18, <1>19 DEF Next, MainStep, PhaseStep

LEMMA MemoryStep ==
  ASSUME TypeOK, WorkInv, [Next]_vars
  PROVE  MemoryInv'
<1>. held \in 0..MaxMB /\ p \in Params /\ p.mb \in 0..MaxMB /\ MaxMB \in Nat
  BY Constants DEF TypeOK, Params
<1>. report.allocated \in 0..MaxMB
  BY DEF TypeOK
<1>. USE DEF WorkInv, MemoryInv, Move, CtxDone
<1>1. CASE UNCHANGED <<stage, p, held, report, ctx>>
  BY <1>1
<1>2. ASSUME NEW in \in Inputs, Reject(in)  PROVE MemoryInv'
  BY <1>2 DEF Reject
<1>3. ASSUME NEW in \in Inputs, Parse(in)  PROVE MemoryInv'
  <2>1. p'.mb \in 0..MaxMB
    BY <1>3, ParsedType, InputsAreRequests DEF Parse, Params
  <2>. QED  BY <1>3, <2>1 DEF Parse
<1>4. CASE Check
  BY <1>4 DEF Check
<1>5. CASE Grow
  BY <1>5 DEF Grow
<1>6. CASE RampElapses \/ RampCut
  BY <1>6 DEF RampElapses, RampCut
<1>7. CASE Launch
  BY <1>7 DEF Launch, TypeOK
<1>8. CASE Join
  BY <1>8 DEF Join, TypeOK
<1>9. CASE Free
  BY <1>9 DEF Free
<1>10. CASE Respond
  BY <1>10 DEF Respond
<1>11. CASE Deadline \/ Disconnect
  BY <1>11 DEF Deadline, Disconnect, mainVars
<1>. QED
  BY <1>1, <1>2, <1>3, <1>4, <1>5, <1>6, <1>7, <1>8, <1>9, <1>10, <1>11
     DEF Next, MainStep, PhaseStep, vars, mainVars, StartCPU, BurnEnds, EndCPU,
     StartSleep, EndSleep, StartHold, EndHold, Tick

LEMMA PhaseInvStep ==
  ASSUME TypeOK, WorkInv, [Next]_vars
  PROVE  PhaseInv'
<1>. /\ phase \in [Phases -> {"off", "ready", "running", "done"}]
     /\ until \in [Phases \cup {"ramp"} -> Nat]
     /\ clock \in Nat /\ burning \in Nat /\ target \in Nat /\ slept \in Nat \cup {NotRun}
     /\ p.cpu \in Nat /\ p.workers \in Nat \ {0} /\ p.sleep \in Nat /\ p.mb \in Nat
  BY Constants DEF TypeOK, Params
<1>. USE DEF WorkInv, PhaseInv, Phases, NotRun, CtxDone, Growing, Triggered
<1>1. CASE UNCHANGED <<stage, p, phaseVars, until, ctx, clock>>
  BY <1>1 DEF phaseVars
<1>2. ASSUME NEW in \in Inputs, Reject(in) \/ Parse(in)  PROVE PhaseInv'
  <2>1. stage = "parse" /\ stage' # "wait" /\ UNCHANGED <<phaseVars, until, ctx, clock>>
    BY <1>2 DEF Reject, Parse, Move
  <2>2. stage' \in {"done", "check", "launch"}
    BY <1>2 DEF Reject, Parse, Move
  <2>. QED  BY <2>1, <2>2 DEF phaseVars
<1>3. CASE Check \/ RampElapses \/ RampCut
  BY <1>3 DEF Check, RampElapses, RampCut, Move, phaseVars
<1>4. CASE Grow
  BY <1>4 DEF Grow, Move, phaseVars
<1>5. CASE Launch
  BY <1>5 DEF Launch, Move
<1>6. CASE StartCPU
  <2>1. stage = "wait" /\ burning = 0
    BY <1>6 DEF StartCPU, Starts
  <2>. QED  BY <1>6, <2>1 DEF StartCPU, Starts, mainVars
<1>7. CASE BurnEnds
  BY <1>7 DEF BurnEnds, Due, mainVars
<1>8. CASE EndCPU
  <2>1. stage = "wait" /\ (clock >= p.cpu \/ CtxDone)
    BY <1>8 DEF EndCPU, Ends
  <2>. QED  BY <1>8, <2>1 DEF EndCPU, Ends, mainVars
<1>9. CASE StartSleep
  <2>1. PICK s \in pickSleep(p) : target' = s /\ Starts("sleep", s)
    BY <1>9 DEF StartSleep
  <2>2. s \in Nat /\ stage = "wait"
    BY <2>1, PickSleepType, Constants DEF TypeOK, Starts
  <2>3. until'["sleep"] - target' = clock
    BY <2>1, <2>2 DEF Starts
  <2>. QED  BY <1>9, <2>1, <2>2, <2>3 DEF StartSleep, Starts, mainVars
<1>10. CASE EndSleep
  <2>1. stage = "wait" /\ until["sleep"] - target \in 0..clock
    BY <1>10 DEF EndSleep, Ends
  <2>2. slept' \in Nat /\ (slept' >= target \/ CtxDone)
    BY <1>10, <2>1 DEF EndSleep, Due
  <2>. QED  BY <1>10, <2>1, <2>2 DEF EndSleep, Ends, mainVars
<1>11. CASE StartHold
  BY <1>11 DEF StartHold, Starts, mainVars
<1>12. CASE EndHold
  BY <1>12 DEF EndHold, Ends, mainVars
<1>13. CASE Join
  BY <1>13 DEF Join, Move, PhasesOver, phaseVars
<1>14. CASE Free \/ Respond
  BY <1>14 DEF Free, Respond, Move, phaseVars
<1>15. CASE Deadline \/ Disconnect
  BY <1>15 DEF Deadline, Disconnect, mainVars, phaseVars
<1>16. CASE Tick
  BY <1>16 DEF Tick, mainVars, phaseVars
<1>. QED
  BY <1>1, <1>2, <1>3, <1>4, <1>5, <1>6, <1>7, <1>8, <1>9, <1>10, <1>11, <1>12, <1>13,
     <1>14, <1>15, <1>16 DEF Next, MainStep, PhaseStep, vars, mainVars

LEMMA ReportStep ==
  ASSUME TypeOK, WorkInv, [Next]_vars
  PROVE  ReportInv'
<1>. USE DEF WorkInv, ReportInv, HonestSummary, ReportsWhatRan
<1>1. CASE UNCHANGED <<stage, p, answer, report, target, cpuRes, slept, clock>>
  BY <1>1
<1>2. CASE answer' = "none" /\ stage' \notin {"free", "report", "done"}
  BY <1>2
<1>3. ASSUME NEW in \in Inputs, Reject(in)  PROVE ReportInv'
  BY <1>3 DEF Reject, Move
<1>4. ASSUME stage = "wait", UNCHANGED mainVars  PROVE ReportInv'
  BY <1>2, <1>4 DEF mainVars
<1>5. CASE StartCPU \/ BurnEnds \/ EndCPU \/ StartSleep \/ EndSleep \/ StartHold \/ EndHold
  <2>1. \E x \in Phases : phase[x] \notin {"off", "done"}
    BY <1>5 DEF StartCPU, BurnEnds, EndCPU, StartSleep, EndSleep, StartHold, EndHold,
       Starts, Ends, Phases, PhaseInv, TypeOK
  <2>. QED
    BY <1>4, <1>5, <2>1 DEF PhaseInv, StartCPU, BurnEnds, EndCPU, StartSleep, EndSleep,
       StartHold, EndHold
<1>6. CASE Join
  BY <1>6 DEF Join, Move, TypeOK, phaseVars
<1>7. CASE Free
  BY <1>7 DEF Free, Move, phaseVars
<1>8. CASE Respond
  <2>1. /\ stage = "report" /\ stage' = "done"
        /\ report' = [report EXCEPT !.canceled = CtxDone]
        /\ UNCHANGED <<p, cpuRes, slept, target, clock, phase>>
    BY <1>8 DEF Respond, Move, WasCanceled, phaseVars
  <2>2. /\ report'.allocated = report.allocated /\ report'.cpu = cpuRes
        /\ report'.slept = slept /\ report'.canceled = CtxDone
    BY <2>1 DEF TypeOK
  <2>3. /\ cpuRes <=> p.cpu > 0
        /\ slept # NotRun <=> p.sleep > 0
        /\ p.cpu > 0 => clock >= p.cpu \/ CtxDone
        /\ p.sleep > 0 => slept >= target \/ CtxDone
    BY <2>1 DEF PhaseInv, Phases, Triggered
  <2>4. report.allocated = p.mb \/ CtxDone
    BY <2>1 DEF MemoryInv
  <2>5. p.cpu \in Nat /\ clock \in Nat
    BY Constants DEF TypeOK, Params
  <2>. QED  BY <2>1, <2>2, <2>3, <2>4, <2>5
<1>9. ASSUME stage # "done", UNCHANGED mainVars, UNCHANGED phaseVars  PROVE ReportInv'
  BY <1>9 DEF mainVars, phaseVars
<1>10. CASE Deadline \/ Disconnect \/ Tick
  BY <1>9, <1>10 DEF Deadline, Disconnect, Over, Tick, Quiet
<1>11. ASSUME NEW in \in Inputs, Parse(in)  PROVE ReportInv'
  BY <1>2, <1>11 DEF Parse
<1>12. CASE Check \/ Grow \/ RampElapses \/ RampCut \/ Launch
  BY <1>2, <1>12 DEF Check, Grow, RampElapses, RampCut, Launch, Move
<1>. QED
  BY <1>1, <1>3, <1>5, <1>6, <1>7, <1>8, <1>10, <1>11, <1>12
     DEF Next, MainStep, PhaseStep, vars, mainVars, phaseVars
-----------------------------------------------------------------------------
(* The clock, at each stage: the ramp has taken its steps so far, and no    *)
(* timer of a phase is set past the end of the longest.                     *)
Bound == p.ramp + Longest

TimeInv ==
  /\ stage = "parse" => clock = 0
  /\ stage \in {"check", "grow"} => clock <= held * RampStep
  /\ stage = "ramp" => clock <= until["ramp"] /\ until["ramp"] <= held * RampStep
  /\ stage = "launch" => clock <= p.ramp
  /\ \A x \in Phases : /\ phase[x] = "ready" => clock <= p.ramp
                       /\ phase[x] = "running" => until[x] <= Bound
  /\ clock <= Bound
  /\ ctx = "deadline" => InvokeTimeout <= clock

(* The steps taken do not add up to more than the ramp.                     *)
LEMMA RampFits ==
  ASSUME p \in Params, p.mb > 0, held \in Nat, held <= p.mb
  PROVE  /\ held * RampStep \in Nat
         /\ held * RampStep <= p.ramp
         /\ (held + 1) * RampStep = held * RampStep + RampStep
<1>1. p.mb \in Nat \ {0} /\ p.ramp \in Nat
  BY Constants DEF Params
<1>2. RampStep \in Nat /\ p.mb * RampStep <= p.ramp
  BY <1>1 DEF RampStep
<1>3. held * RampStep <= p.mb * RampStep
  BY <1>1, <1>2
<1>. QED  BY <1>1, <1>2, <1>3

(* A ramp, and every phase, is within the bound.                            *)
LEMMA BoundType ==
  ASSUME p \in Params
  PROVE  /\ p.ramp \in Nat /\ Longest \in Nat /\ Bound \in Nat /\ Bound = p.ramp + Longest
         /\ p.cpu \in Nat /\ p.hold \in Nat
         /\ p.cpu <= Longest /\ p.hold <= Longest
         /\ \A s \in pickSleep(p) : s \in Nat /\ s <= Longest
<1>1. /\ p.ramp \in Nat /\ p.cpu \in Nat /\ p.hold \in Nat /\ p.sleep \in 0..MaxSleep
      /\ MaxSleep \in Nat
  BY Constants DEF Params
<1>2. /\ Longest \in Nat /\ p.cpu <= Longest /\ p.hold <= Longest
      /\ (IF p.dist = "fixed" THEN p.sleep ELSE MaxSleep) <= Longest
  BY <1>1 DEF Longest, maxDur
<1>3. ASSUME NEW s \in pickSleep(p)  PROVE s \in Nat /\ s <= Longest
  <2>1. s \in 0..MaxSleep /\ (p.dist = "fixed" => s = p.sleep)
    BY PickSleepType
  <2>. QED  BY <1>1, <1>2, <2>1
<1>. QED  BY <1>1, <1>2, <1>3 DEF Bound

LEMMA TimeStep ==
  ASSUME TypeOK, WorkInv, TimeInv, [Next]_vars
  PROVE  TimeInv'
<1>. DEFINE b == Bound
<1>1. /\ clock \in Nat /\ InvokeTimeout \in Nat /\ p \in Params
      /\ held \in Nat /\ held <= p.mb
      /\ phase \in [Phases -> {"off", "ready", "running", "done"}]
      /\ until \in [Phases \cup {"ramp"} -> Nat]
  BY Constants DEF TypeOK, WorkInv, MemoryInv
<1>2. /\ p.ramp \in Nat /\ Longest \in Nat /\ b \in Nat /\ b = p.ramp + Longest
      /\ p.cpu \in Nat /\ p.hold \in Nat /\ p.cpu <= Longest /\ p.hold <= Longest
      /\ \A s \in pickSleep(p) : s \in Nat /\ s <= Longest
  BY <1>1, BoundType
<1>3. stage \in {"check", "grow", "ramp"} =>
        /\ held * RampStep \in Nat /\ RampStep \in Nat
        /\ held * RampStep <= p.ramp
        /\ (held + 1) * RampStep = held * RampStep + RampStep
  BY <1>1, RampFits, RampStepType DEF WorkInv, MemoryInv
<1>4. p' = p => b' = b /\ RampStep' = RampStep
  BY DEF Bound, Longest, RampStep
<1>5. /\ stage # "wait" => \A x \in Phases : phase[x] \in {"off", "done"}
  BY DEF WorkInv, PhaseInv
<1>6. clock <= b
  BY DEF TimeInv
<1>. HIDE DEF b
<1>7. TimeInv' <=>
        /\ stage' = "parse" => clock' = 0
        /\ stage' \in {"check", "grow"} => clock' <= held' * RampStep'
        /\ stage' = "ramp" => clock' <= until'["ramp"] /\ until'["ramp"] <= held' * RampStep'
        /\ stage' = "launch" => clock' <= p'.ramp
        /\ \A x \in Phases : /\ phase'[x] = "ready" => clock' <= p'.ramp
                             /\ phase'[x] = "running" => until'[x] <= b'
        /\ clock' <= b'
        /\ ctx' = "deadline" => InvokeTimeout <= clock'
  BY DEF TimeInv, b
<1>8. \A x \in Phases : phase[x] = "running" => until[x] <= b
  BY DEF TimeInv, b
<1>9. ctx = "deadline" => InvokeTimeout <= clock
  BY DEF TimeInv
<1>10. CASE UNCHANGED <<stage, p, held, phase, until, clock, ctx>>
  BY <1>4, <1>10 DEF TimeInv, b, Bound, Longest, RampStep
<1>11. ASSUME NEW in \in Inputs, Reject(in)  PROVE TimeInv'
  BY <1>4, <1>5, <1>6, <1>7, <1>8, <1>9, <1>11 DEF Reject, Move, phaseVars
<1>12. ASSUME NEW in \in Inputs, Parse(in)  PROVE TimeInv'
  <2>1. p' \in Params /\ clock = 0 /\ held = 0 /\ stage = "parse"
    BY <1>12, ParsedType, InputsAreRequests DEF Parse, TimeInv, WorkInv, MemoryInv
  <2>2. p'.ramp \in Nat /\ b' \in Nat /\ p'.mb \in Nat
    <3>1. p'.ramp \in Nat /\ p'.cpu \in Nat /\ p'.hold \in Nat /\ p'.sleep \in Nat
          /\ MaxSleep \in Nat /\ p'.mb \in Nat
      BY <2>1, Constants DEF Params
    <3>. QED  BY <3>1 DEF b, Bound, Longest, maxDur
  <2>3. stage' = "check" => held' * RampStep' = 0
    <3>1. ASSUME stage' = "check"  PROVE RampStep' \in Nat
      <4>1. p'.mb > 0
        BY <1>12, <2>2, <3>1 DEF Parse
      <4>. QED  BY <2>2, <4>1 DEF RampStep
    <3>. QED  BY <1>12, <2>1, <3>1 DEF Parse
  <2>4. stage' \in {"check", "launch"}
    BY <1>12 DEF Parse
  <2>. QED  BY <1>5, <1>7, <1>9, <1>12, <2>1, <2>2, <2>3, <2>4 DEF Parse, phaseVars
<1>13. CASE Check
  <2>1. /\ stage = "check" /\ stage' \in {"launch", "grow"}
        /\ UNCHANGED <<p, held, phase, until, clock, ctx>>
    BY <1>13 DEF Check, phaseVars
  <2>. DEFINE done == held * RampStep
  <2>2. clock <= done /\ done \in Nat /\ done <= p.ramp
    BY <1>3, <2>1 DEF TimeInv
  <2>3. held' * RampStep' = done
    BY <1>4, <2>1
  <2>. HIDE DEF done
  <2>. QED  BY <1>1, <1>2, <1>4, <1>5, <1>6, <1>7, <1>9, <2>1, <2>2, <2>3
<1>14. CASE Grow
  <2>1. /\ stage = "grow" /\ held' = held + 1 /\ clock' = clock /\ p' = p
        /\ until'["ramp"] = clock + RampStep /\ UNCHANGED <<phase, ctx>>
        /\ stage' \in {"ramp", "check"}
    BY <1>1, <1>14 DEF Grow, Move, phaseVars
  <2>2. clock <= held * RampStep
    BY <2>1 DEF TimeInv
  <2>. DEFINE done == held * RampStep
              next == (held + 1) * RampStep
  <2>3. next = done + RampStep /\ done \in Nat /\ RampStep \in Nat /\ clock <= done
    BY <1>3, <2>1, <2>2
  <2>4. held' * RampStep' = next
    BY <1>4, <2>1
  <2>. HIDE DEF done, next
  <2>. QED  BY <1>1, <1>4, <1>5, <1>6, <1>7, <1>9, <2>1, <2>3, <2>4
<1>15. CASE RampElapses \/ RampCut
  <2>1. /\ stage = "ramp" /\ stage' \in {"check", "launch"}
        /\ UNCHANGED <<p, held, phase, until, clock, ctx>>
    BY <1>15 DEF RampElapses, RampCut, Move, phaseVars
  <2>2. clock <= held * RampStep
    BY <1>1, <1>3, <2>1 DEF TimeInv
  <2>. DEFINE done == held * RampStep
  <2>3. clock <= done /\ done \in Nat /\ done <= p.ramp
    BY <1>3, <2>1, <2>2
  <2>4. held' * RampStep' = done
    BY <1>4, <2>1
  <2>. HIDE DEF done
  <2>. QED  BY <1>1, <1>2, <1>4, <1>5, <1>6, <1>7, <1>9, <2>1, <2>3, <2>4
<1>16. CASE Launch
  <2>1. clock <= p.ramp
    BY <1>16 DEF Launch, Move, TimeInv
  <2>. QED  BY <1>4, <1>6, <1>7, <1>9, <1>16, <2>1 DEF Launch, Move
<1>17. ASSUME NEW x \in Phases, NEW n \in Nat, n <= Longest, Starts(x, n),
              UNCHANGED <<mainVars, ctx, clock>>
       PROVE  TimeInv'
  <2>1. clock <= p.ramp /\ stage = "wait"
    BY <1>5, <1>17 DEF Starts, TimeInv
  <2>2. clock + n <= b
    BY <1>1, <1>2, <1>17, <2>1
  <2>. QED
    BY <1>1, <1>4, <1>6, <1>7, <1>8, <1>9, <1>17, <2>1, <2>2 DEF Starts, mainVars, TimeInv
<1>18. CASE StartCPU \/ StartSleep \/ StartHold
  BY <1>2, <1>17, <1>18 DEF StartCPU, StartSleep, StartHold, Phases
<1>19. ASSUME NEW x \in Phases, Ends(x), UNCHANGED <<mainVars, until, ctx, clock>>
       PROVE  TimeInv'
  <2>1. stage = "wait"
    BY <1>5, <1>19 DEF Ends
  <2>. QED
    BY <1>1, <1>4, <1>6, <1>7, <1>8, <1>9, <1>19, <2>1 DEF Ends, mainVars, TimeInv
<1>20. CASE EndCPU \/ EndSleep \/ EndHold
  BY <1>19, <1>20 DEF EndCPU, EndSleep, EndHold, Phases
<1>21. CASE BurnEnds
  BY <1>10, <1>21 DEF BurnEnds, mainVars
<1>22. CASE Join \/ Free \/ Respond
  <2>1. /\ stage' \in {"free", "report", "done"}
        /\ UNCHANGED <<p, phase, until, clock, ctx>>
    BY <1>22 DEF Join, Free, Respond, Move, phaseVars
  <2>. QED
    BY <1>4, <1>6, <1>7, <1>8, <1>9, <1>22, <2>1 DEF TimeInv, Join, Free, Respond, Move
<1>23. CASE Deadline
  <2>1. /\ InvokeTimeout <= clock /\ ctx' = "deadline"
        /\ UNCHANGED <<stage, p, held, phase, until, clock>>
    BY <1>1, <1>23 DEF Deadline, mainVars, phaseVars
  <2>. QED  BY <1>4, <1>7, <1>8, <2>1 DEF TimeInv, b, Bound, Longest, RampStep
<1>24. CASE Disconnect
  <2>1. ctx' = "disconnect" /\ UNCHANGED <<stage, p, held, phase, until, clock>>
    BY <1>24 DEF Disconnect, mainVars, phaseVars
  <2>. QED  BY <1>4, <1>7, <1>8, <2>1 DEF TimeInv, b, Bound, Longest, RampStep
<1>25. CASE Tick
  <2>1. /\ UNCHANGED <<stage, p, held, phase, until, ctx>> /\ clock' = clock + 1 /\ Quiet
        /\ ctx = "live"
    BY <1>25 DEF Tick, mainVars, phaseVars, Quiet
  <2>2. CASE stage = "ramp" /\ clock < until["ramp"]
    <3>. DEFINE done == held * RampStep
    <3>1. until["ramp"] <= done /\ done \in Nat /\ done <= p.ramp
      BY <1>3, <2>2 DEF TimeInv
    <3>2. held' * RampStep' = done /\ until["ramp"] \in Nat
      BY <1>1, <1>4, <2>1
    <3>. HIDE DEF done
    <3>. QED  BY <1>1, <1>2, <1>4, <1>5, <1>7, <2>1, <2>2, <3>1, <3>2
  <2>3. CASE /\ stage = "wait" /\ ~ PhasesOver
             /\ \A x \in Phases : \/ phase[x] \in {"off", "done"}
                                  \/ phase[x] = "running" /\ clock < until[x]
    <3>1. PICK x \in Phases : phase[x] = "running" /\ clock < until[x]
      BY <2>3 DEF PhasesOver
    <3>2. clock + 1 <= b /\ \A y \in Phases : phase[y] # "ready"
      BY <1>1, <1>2, <1>8, <2>3, <3>1
    <3>. QED  BY <1>4, <1>7, <1>8, <2>1, <2>3, <3>2
  <2>. QED  BY <2>1, <2>2, <2>3 DEF Quiet
<1>. QED
  BY <1>10, <1>11, <1>12, <1>13, <1>14, <1>15, <1>16, <1>18, <1>20, <1>21, <1>22, <1>23,
     <1>24, <1>25 DEF Next, MainStep, PhaseStep, vars, mainVars, phaseVars
-----------------------------------------------------------------------------
IInv == TypeOK /\ WorkInv /\ TimeInv

(* The inductive invariant of Mixed.                                        *)
THEOREM Invariance == Spec => []IInv
<1>1. Init => IInv
  <2>. SUFFICES ASSUME Init  PROVE IInv
    OBVIOUS
  <2>. USE Constants
  <2>1. p \in Params /\ p.mb = 0 /\ p.ramp = 0
    BY DEF Init, Params, Dists, NaN
  <2>2. TypeOK
    <3>1. report \in [allocated : 0..MaxMB, cpu : BOOLEAN, slept : Nat \cup {NotRun},
                      canceled : BOOLEAN]
      BY DEF Init
    <3>2. cpuRes \in BOOLEAN
      BY Zenon DEF Init
    <3>3. slept \in Nat \cup {NotRun} /\ held \in 0..MaxMB
      BY DEF Init
    <3>. QED  BY <2>1, <3>1, <3>2, <3>3 DEF Init, TypeOK, Stages
  <2>3. WorkInv
    BY <2>1 DEF Init, WorkInv, MemoryInv, PhaseInv, ReportInv, HonestSummary,
       ReportsWhatRan, Growing, Phases, NotRun, CtxDone
  <2>4. TimeInv
    <3>1. Bound \in Nat
      BY <2>1, BoundType
    <3>. QED  BY <2>1, <3>1 DEF Init, TimeInv
  <2>. QED  BY <2>2, <2>3, <2>4 DEF IInv
<1>2. IInv /\ [Next]_vars => IInv'
  BY TypeStep, MemoryStep, PhaseInvStep, ReportStep, TimeStep DEF IInv, WorkInv
<1>. QED  BY <1>1, <1>2, PTL DEF Spec

(* Every variable keeps its type; no input is parsed past a cap.            *)
THEOREM TypeCorrect == Spec => []TypeOK
BY Invariance, PTL DEF IInv

(* Only a request that asked for as long as INVOKE_TIMEOUT meets it.        *)
THEOREM FitsSafe == Spec => []FitsTimeout
<1>1. IInv => FitsTimeout
  <2>. SUFFICES ASSUME IInv, ctx = "deadline"  PROVE InvokeTimeout <= p.ramp + Longest
    BY DEF FitsTimeout
  <2>1. InvokeTimeout <= clock /\ clock <= Bound
    BY DEF IInv, TimeInv
  <2>2. InvokeTimeout \in Nat /\ clock \in Nat /\ Bound \in Nat /\ Bound = p.ramp + Longest
    BY Constants, BoundType DEF IInv, TypeOK
  <2>. QED  BY <2>1, <2>2
<1>. QED  BY <1>1, Invariance, PTL

(* A timeout above the caps is met by no request (function.yaml: "Above the *)
(* longest possible single request").                                       *)
THEOREM CapsFit ==
  ASSUME \A d \in {MaxCPU, MaxSleep, MaxHold} : MaxRamp + d < InvokeTimeout
  PROVE  Spec => [](ctx # "deadline")
<1>1. TypeOK /\ FitsTimeout => ctx # "deadline"
  <2>. SUFFICES ASSUME TypeOK, InvokeTimeout <= p.ramp + Longest  PROVE FALSE
    BY DEF FitsTimeout
  <2>1. /\ p.ramp \in 0..MaxRamp /\ p.cpu \in 0..MaxCPU /\ p.hold \in 0..MaxHold
        /\ p.sleep \in 0..MaxSleep
    BY DEF TypeOK, Params
  <2>. QED  BY <2>1, Constants DEF Longest, maxDur
<1>. QED  BY <1>1, TypeCorrect, FitsSafe, PTL

(* A summary that does not say canceled is of a load that ran in full.      *)
THEOREM HonestSafe == Spec => []HonestSummary
BY Invariance, PTL DEF IInv, WorkInv, ReportInv

(* The summary has the loads that ran and no others.                        *)
THEOREM ReportsSafe == Spec => []ReportsWhatRan
BY Invariance, PTL DEF IInv, WorkInv, ReportInv

(* Memory does not dip while another phase is under way.                    *)
THEOREM MemorySafe == Spec => []MemorySpansWork
<1>1. IInv => MemorySpansWork
  BY DEF IInv, WorkInv, MemoryInv, PhaseInv, Phases, MemorySpansWork
<1>. QED  BY <1>1, Invariance, PTL

(* The memory of the request keeps to the contract of Footprint.            *)
THEOREM FootprintImplemented == Spec => F!Spec
<1>1. Init => F!Init
  BY DEF Init, F!Init, CtxDone
<1>2. IInv /\ [Next]_vars => [F!Next]_(F!vars)
  <2>. SUFFICES ASSUME IInv, Next  PROVE [F!Next]_(F!vars)
    BY DEF F!vars, vars, mainVars, CtxDone
  <2>. USE DEF F!Next, F!vars, F!Look, F!Grow, F!Free, F!Tell, CtxDone, Move
  <2>1. ASSUME NEW in \in Inputs, Reject(in) \/ Parse(in)  PROVE [F!Next]_(F!vars)
    BY <2>1 DEF Reject, Parse, IInv, WorkInv, MemoryInv
  <2>2. CASE Check
    BY <2>2 DEF Check
  <2>3. CASE Grow
    <3>1. held < MaxMB
      BY <2>3, Constants DEF Grow, IInv, TypeOK, Params, WorkInv, MemoryInv
    <3>. QED  BY <2>3, <3>1 DEF Grow
  <2>4. CASE RampElapses \/ RampCut \/ Launch \/ Join
    BY <2>4 DEF RampElapses, RampCut, Launch, Join
  <2>5. CASE Free
    BY <2>5 DEF Free
  <2>6. CASE Respond
    BY <2>6 DEF Respond
  <2>7. CASE Deadline \/ Disconnect
    BY <2>7 DEF Deadline, Disconnect, mainVars
  <2>8. CASE PhaseStep \/ Tick
    BY <2>8 DEF PhaseStep, StartCPU, BurnEnds, EndCPU, StartSleep, EndSleep, StartHold,
       EndHold, Tick, mainVars
  <2>. QED
    BY <2>1, <2>2, <2>3, <2>4, <2>5, <2>6, <2>7, <2>8 DEF Next, MainStep
<1>. QED  BY <1>1, <1>2, Invariance, PTL DEF Spec, F!Spec

(* A request that was told to stop only unwinds: at most 14 + MaxWorkers    *)
(* steps of its goroutines are left, whichever way they interleave.         *)
THEOREM UnwindSafe == Spec => CanceledUnwinds
<1>1. IInv /\ [Next]_vars => [CtxDone => StepsLeft' < StepsLeft]_vars
  <2>. SUFFICES ASSUME IInv, Next, CtxDone  PROVE StepsLeft' < StepsLeft
    OBVIOUS
  <2>1. /\ phase \in [Phases -> {"off", "ready", "running", "done"}]
        /\ burning \in Nat /\ MaxWorkers \in Nat
        /\ p.workers \in Nat /\ p.workers <= MaxWorkers
        /\ burning > 0 => phase["cpu"] = "running"
        /\ stage # "wait" => \A x \in Phases : phase[x] \in {"off", "done"}
        /\ stage \in Growing => \A x \in Phases : phase[x] = "off"
    BY Constants DEF IInv, TypeOK, Params, WorkInv, PhaseInv
  <2>2. "cpu" \in Phases /\ "sleep" \in Phases /\ "hold" \in Phases
    BY DEF Phases
  <2>3. \A x \in Phases : StepsOf(x) \in 0..2
    BY DEF StepsOf
  <2>. USE <2>1, <2>2 DEF StepsLeft
  <2>4. ASSUME NEW in \in Inputs, Reject(in) \/ Parse(in)
        PROVE  StepsLeft' < StepsLeft
    BY <2>4 DEF Reject, Parse, Move
  <2>5. CASE Check
    BY <2>5 DEF Check
  <2>6. CASE Grow
    <3>1. stage = "grow" /\ stage' \in {"ramp", "check"}
      BY <2>6 DEF Grow, Move
    <3>. QED  BY <3>1
  <2>7. CASE RampElapses \/ RampCut
    BY <2>7 DEF RampElapses, RampCut, Move
  <2>8. CASE Launch
    <3>1. stage = "launch" /\ stage' = "wait" /\ burning = 0 /\ burning' = 0
      BY <2>8 DEF Launch, Move, Growing
    <3>2. phase' \in [Phases -> {"ready", "off"}]
      BY <2>8 DEF Launch
    <3>3. StepsOf("cpu")' \in 0..2 /\ StepsOf("sleep")' \in 0..2 /\ StepsOf("hold")' \in 0..2
      BY <3>2 DEF StepsOf
    <3>. QED  BY <3>1, <3>3
  <2>9. CASE Join
    BY <2>3, <2>9 DEF Join, Move
  <2>10. CASE Free \/ Respond
    BY <2>10 DEF Free, Respond, Move
  <2>11. ASSUME PhaseStep  PROVE stage = "wait" /\ stage' = "wait"
    BY <2>11 DEF PhaseStep, StartCPU, BurnEnds, EndCPU, StartSleep, EndSleep, StartHold,
       EndHold, Starts, Ends, mainVars
  <2>12. CASE StartCPU
    <3>1. /\ StepsOf("cpu")' = StepsOf("cpu") - 1 /\ StepsOf("cpu") = 2
          /\ StepsOf("sleep")' = StepsOf("sleep") /\ StepsOf("hold")' = StepsOf("hold")
          /\ phase["cpu"] = "ready" /\ phase'["cpu"] = "running" /\ burning' = p.workers
      BY <2>12 DEF StartCPU, Starts, StepsOf
    <3>. QED  BY <2>3, <2>11, <2>12, <3>1 DEF PhaseStep
  <2>13. CASE BurnEnds
    <3>1. phase' = phase /\ burning' = burning - 1 /\ phase["cpu"] = "running"
      BY <2>13 DEF BurnEnds
    <3>2. \A x \in Phases : StepsOf(x)' = StepsOf(x)
      BY <3>1 DEF StepsOf
    <3>. QED  BY <2>3, <2>11, <2>13, <3>1, <3>2 DEF PhaseStep
  <2>14. ASSUME NEW x \in Phases, x # "cpu" \/ (burning = 0 /\ Ends(x)),
                PhaseStep, burning' = burning,
                \/ phase[x] = "ready" /\ phase' = [phase EXCEPT ![x] = "running"]
                \/ phase[x] = "running" /\ phase' = [phase EXCEPT ![x] = "done"]
         PROVE  StepsLeft' < StepsLeft
    <3>1. /\ StepsOf(x)' = StepsOf(x) - 1
          /\ \A y \in Phases \ {x} : StepsOf(y)' = StepsOf(y)
      BY <2>14 DEF StepsOf
    <3>2. phase'["cpu"] = "ready" <=> phase["cpu"] = "ready"
      BY <2>14 DEF Ends
    <3>. QED  BY <2>3, <2>11, <2>14, <3>1, <3>2 DEF Phases
  <2>15. CASE EndCPU
    BY <2>14, <2>15 DEF EndCPU, Ends, PhaseStep
  <2>16. CASE StartSleep \/ StartHold
    <3>1. burning' = burning
      BY <2>16 DEF StartSleep, StartHold
    <3>2. CASE StartSleep
      <4>1. phase["sleep"] = "ready" /\ phase' = [phase EXCEPT !["sleep"] = "running"]
        BY <3>2 DEF StartSleep, Starts
      <4>. QED  BY <2>14, <3>1, <3>2, <4>1 DEF PhaseStep
    <3>3. CASE StartHold
      <4>1. phase["hold"] = "ready" /\ phase' = [phase EXCEPT !["hold"] = "running"]
        BY <3>3 DEF StartHold, Starts
      <4>. QED  BY <2>14, <3>1, <3>3, <4>1 DEF PhaseStep
    <3>. QED  BY <2>16, <3>2, <3>3
  <2>17. CASE EndSleep \/ EndHold
    BY <2>14, <2>17 DEF EndSleep, EndHold, Ends, PhaseStep
  <2>18. ~ (Deadline \/ Disconnect \/ Tick)
    BY DEF Deadline, Disconnect, Tick, Quiet, CtxDone
  <2>. QED
    BY <2>4, <2>5, <2>6, <2>7, <2>8, <2>9, <2>10, <2>12, <2>13, <2>15, <2>16, <2>17,
       <2>18 DEF Next, MainStep, PhaseStep
<1>. QED  BY <1>1, Invariance, PTL DEF Spec, CanceledUnwinds
=============================================================================
