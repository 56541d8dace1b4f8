-------------------------------- MODULE Ram ---------------------------------
(***************************************************************************)
(* The load generator examples/ram as the Handler of a pod: on each        *)
(* request it allocates megabytes one by one, possibly ramped, holds them, *)
(* and frees them, watching the context it was given (ctx[r]) throughout.  *)
(* Several requests may be at it in one process.                           *)
(***************************************************************************)
EXTENDS Integers

CONSTANTS
  Requests,   \* the requests of the pod
  MaxMB,      \* RAM_MAX_MB, which envInt takes only if it is positive
  DefaultMB,  \* RAM_DEFAULT_MB, likewise
  MBs         \* the integers clients ask for

VARIABLES
  ctx,       \* of Invocation: ctx[r] is the context runRAM is given
  ram,       \* ram[r]: where the Handler of r is
  params,    \* params[r]: the validated request
  held,      \* held[r]: megabytes allocated and not given back
  summary    \* summary[r]: the fields of ramResult that are not measurements

ramVars == <<ram, params, held, summary>>
-----------------------------------------------------------------------------
Stages == {"none", "check", "grow", "ramp", "hold", "free", "returned", "over"}

CtxDone(r) == ctx[r] \in {"deadline", "disconnect"}

clampInt(n, lo, hi) == IF n < lo THEN lo ELSE IF n > hi THEN hi ELSE n

(* The most one request may come to allocate.                               *)
Ceiling == IF DefaultMB > MaxMB THEN DefaultMB ELSE MaxMB

(* Of a duration only matters whether it is positive; of the ramp, whether  *)
(* its step, ramp / mb in whole nanoseconds, is.                            *)
Params    == [mb : 0..Ceiling, hold : BOOLEAN, ramp : BOOLEAN]
Summaries == [allocated : 0..Ceiling, canceled : BOOLEAN]

None == [allocated |-> 0, canceled |-> FALSE]

Init ==
  /\ ram     = [r \in Requests |-> "none"]
  /\ params  = [r \in Requests |-> [mb |-> 0, hold |-> FALSE, ramp |-> FALSE]]
  /\ held    = [r \in Requests |-> 0]
  /\ summary = [r \in Requests |-> None]

At(r, stage) == ram[r] = stage
Go(r, stage) == ram' = [ram EXCEPT ![r] = stage]

(* parseParams: a negative number, or a text that is no number or duration, *)
(* is a 400 (an *HTTPError, which the chain passes on).  An mb that was     *)
(* given is clamped, and the default of one that was not is taken as it is. *)
BadRequest(r) ==
  /\ At(r, "none")
  /\ Go(r, "returned")
  /\ UNCHANGED <<params, held, summary>>

Resolved == {DefaultMB} \cup {clampInt(n, 0, MaxMB) : n \in {m \in MBs : m >= 0}}

Parse(r) ==
  /\ At(r, "none")
  /\ \E mb \in Resolved, hold, ramp \in BOOLEAN :
       params' = [params EXCEPT ![r] = [mb |-> mb, hold |-> hold, ramp |-> ramp]]
  /\ Go(r, "check")
  /\ UNCHANGED <<held, summary>>
-----------------------------------------------------------------------------
\* Mutant: the hold is slept, and canceled set, without looking at canceled first.
CutUnguarded(r) ==
  /\ Go(r, "free")
  /\ summary' = [summary EXCEPT ![r].canceled = params[r].hold]
  /\ UNCHANGED <<params, held>>

(* A loop or a sleep is cut short, and what follows it up to the release is *)
(* skipped: an allocation that was cut short is not held.                   *)
Cut(r) ==
  /\ Go(r, "free")
  /\ summary' = [summary EXCEPT ![r].canceled = TRUE]
  /\ UNCHANGED <<params, held>>

\* Mutant: the context is looked at once, before the loop.
CheckOnce(r) ==
  /\ At(r, "check")
  /\ Go(r, IF held[r] = params[r].mb THEN "hold" ELSE "grow")
  /\ UNCHANGED <<params, held, summary>>

(* allocate, before each chunk: the loop is over, or the context is looked  *)
(* at and the loop cut short, or the next chunk follows.                    *)
Check(r) ==
  /\ At(r, "check")
  /\ \/ /\ held[r] = params[r].mb
        /\ Go(r, "hold")
        /\ UNCHANGED <<params, held, summary>>
     \/ /\ held[r] < params[r].mb
        /\ CtxDone(r)
        /\ Cut(r)
     \/ /\ held[r] < params[r].mb
        /\ ~ CtxDone(r)
        /\ Go(r, "grow")
        /\ UNCHANGED <<params, held, summary>>

Grow(r) ==
  /\ At(r, "grow")
  /\ held' = [held EXCEPT ![r] = @ + 1]
  /\ Go(r, IF params[r].ramp THEN "ramp" ELSE "check")
  /\ UNCHANGED <<params, summary>>

(* sleepCtx between two chunks.                                             *)
RampElapses(r) ==
  /\ At(r, "ramp")
  /\ Go(r, "check")
  /\ UNCHANGED <<params, held, summary>>

RampCut(r) ==
  /\ At(r, "ramp")
  /\ CtxDone(r)
  /\ Cut(r)

(* sleepCtx for the hold; one that is not positive ignores the context.     *)
HoldElapses(r) ==
  /\ At(r, "hold")
  /\ params[r].hold
  /\ Go(r, "free")
  /\ UNCHANGED <<params, held, summary>>

HoldIsNone(r) ==
  /\ At(r, "hold")
  /\ ~ params[r].hold
  /\ Go(r, "free")
  /\ UNCHANGED <<params, held, summary>>

\* Mutant: the hold is a time.Sleep, which no context interrupts.
HoldCutNever(r) == FALSE /\ UNCHANGED ramVars

HoldCut(r) ==
  /\ At(r, "hold")
  /\ params[r].hold
  /\ CtxDone(r)
  /\ Cut(r)

(* chunks = nil, debug.FreeOSMemory().                                      *)
Free(r) ==
  /\ At(r, "free")
  /\ held' = [held EXCEPT ![r] = 0]
  /\ summary' = [summary EXCEPT ![r].allocated = held[r]]
  /\ Go(r, "returned")
  /\ UNCHANGED params

(* The Handler returns to withRecover.                                      *)
Return(r) ==
  /\ At(r, "returned")
  /\ Go(r, "over")
  /\ UNCHANGED <<params, held, summary>>

(* What the goroutine does without waiting for a timer.                     *)
Compute(r) == \/ Check(r) \/ Grow(r) \/ RampCut(r) \/ HoldIsNone(r) \/ HoldCut(r)
              \/ Free(r)

Step(r) == BadRequest(r) \/ Parse(r) \/ Compute(r) \/ RampElapses(r) \/ HoldElapses(r)
=============================================================================
