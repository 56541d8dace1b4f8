------------------------------- MODULE RamPod -------------------------------
(***************************************************************************)
(* A pod of examples/ram: the chain of Invocation with the load generator  *)
(* of Ram as its Handler.  What the chain says of a Handler (it may return *)
(* at any time, in any way) becomes what this one does, and the context it *)
(* watches is the one the chain gives it and, on a deadline or when the    *)
(* client goes away, ends.                                                 *)
(***************************************************************************)
EXTENDS Invocation

CONSTANTS
  MaxMB,      \* RAM_MAX_MB
  DefaultMB,  \* RAM_DEFAULT_MB
  MBs         \* the values of mb clients ask for

ASSUME LoadConstants == /\ MaxMB \in Nat \ {0}
                        /\ DefaultMB \in Nat \ {0}
                        /\ MBs \subseteq Int

VARIABLES ram, params, held, summary

Load == INSTANCE Ram

ramVars == <<ram, params, held, summary>>
podVars == <<vars, ramVars>>
-----------------------------------------------------------------------------
PodInit == Init /\ Load!Init

(* What the chain does by itself.                                           *)
ChainStep(r) ==
  /\ \/ Arrive(r) \/ ServerStep(r) \/ WriteBody(r) \/ SendResult(r)
     \/ Deadline(r) \/ Disconnect(r)
  /\ UNCHANGED ramVars

(* What the Handler does while it runs ...                                  *)
LoadStep(r) == /\ handler[r] = "running"
               /\ Load!Step(r)
               /\ UNCHANGED vars

(* ... and its return: a summary, or the 400 of an *HTTPError.  Either is a *)
(* status net/http accepts, and nothing in it panics.                       *)
LoadReturns(r) == Load!Return(r) /\ HandlerReturns(r, "handler")

PodNext == \E r \in Requests : ChainStep(r) \/ LoadStep(r) \/ LoadReturns(r)

PodSpec == PodInit /\ [][PodNext]_podVars

(* The Go scheduler runs the Handler; timers need not be fair for what is   *)
(* checked, which the context's end alone brings about.                     *)
LoadFairness == \A r \in Requests : WF_podVars(Load!Compute(r) /\ UNCHANGED vars)

FairPodSpec == PodSpec /\ LoadFairness
-----------------------------------------------------------------------------
(* Properties.                                                             *)

(* Every variable of the load has its type.                                *)
LoadTypeOK == /\ ram     \in [Requests -> Load!Stages]
              /\ params  \in [Requests -> Load!Params]
              /\ held    \in [Requests -> 0..Load!Ceiling]
              /\ summary \in [Requests -> Load!Summaries]

Holding == {r \in Requests : held[r] > 0}

(* Without INVOKE_TIMEOUT the requests that hold memory at one time are no  *)
(* more than MAX_CONCURRENCY: a client that goes away does not free the slot*)
(* before its memory is freed (README of examples/ram: "`MAX_CONCURRENCY=1` *)
(* serializes requests").                                                   *)
HoldingWithinLimit ==
  Limited /\ ~ TimeoutOn => Cardinality(Holding) <= MaxConcurrency

(* With INVOKE_TIMEOUT too, what holds memory beyond the limit has been told*)
(* to stop: those whose context is still live are no more than the limit,   *)
(* whatever was answered 504 before them.                                   *)
ExcessIsTold ==
  Limited => Cardinality({r \in Holding : ~ CtxDone(r)}) <= MaxConcurrency

(* "Honest summary": what a request reports as not canceled was allocated   *)
(* in full, canceled is reported only if its context is done, and memory is *)
(* reported after it was freed.                                             *)
HonestSummary ==
  \A r \in Requests : ram[r] \in {"returned", "over"} =>
     /\ held[r] = 0
     /\ summary[r].canceled => CtxDone(r)
     /\ ~ summary[r].canceled => summary[r].allocated = params[r].mb

(* "RAM_MAX_MB is a hard ceiling kept below the pod's memory limit" (load.go*)
(* of examples/ram; its README: "Hard ceiling on a single allocation"): no  *)
(* request holds more.  The code keeps to it only if RAM_DEFAULT_MB is below*)
(* the ceiling too.                                                         *)
HardCeiling == \A r \in Requests : held[r] <= MaxMB

F(r) == INSTANCE Footprint WITH Cap  <- Load!Ceiling,
                                held <- held[r],
                                due  <- ram[r] = "grow",
                                told <- CtxDone(r),
                                over <- ram[r] \in {"returned", "over"}

(* "It honors ctx throughout" (load.go): one request's memory keeps to the  *)
(* contract of Footprint, up to the most it may ask for; once its context is*)
(* done no chunk follows but the one under way, and what is freed stays so. *)
ImplementsFootprint ==
  /\ \A r \in Requests : F(r)!Init
  /\ [][\A r \in Requests : [F(r)!Next]_(F(r)!vars)]_podVars

(* "... so INVOKE_TIMEOUT or a client disconnect frees the memory promptly":*)
(* who holds memory when its context is done frees it, though no timer of   *)
(* the Handler ever fires.                                                  *)
CanceledFrees == \A r \in Requests : F(r)!Fairness

(* The stages of runRAM a request may still go through once told to stop.   *)
StagesLeft(r) ==
  CASE ram[r] = "none"     -> 7 [] ram[r] = "grow" -> 6 [] ram[r] = "ramp" -> 5
    [] ram[r] = "check"    -> 4 [] ram[r] = "hold" -> 3 [] ram[r] = "free" -> 2
    [] ram[r] = "returned" -> 1 [] ram[r] = "over" -> 0

(* "... promptly": once its context is done a load only unwinds.  Wherever  *)
(* it was, and however much it was to allocate, it is over in a few steps,  *)
(* none of which takes it back into the loop of allocate.                   *)
CanceledUnwinds ==
  [][\A r \in Requests : CtxDone(r) /\ ram'[r] # ram[r]
                           => StagesLeft(r)' < StagesLeft(r)]_podVars

(* The pod's chain is the chain, with one Handler out of all it allows.     *)
ImplementsChain == Spec
=============================================================================
