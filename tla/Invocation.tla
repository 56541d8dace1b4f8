----------------------------- MODULE Invocation -----------------------------
(***************************************************************************)
(* The path of a request through the function port of a kfn pod: the       *)
(* middleware chain newMux builds around the user's Handler (request id,   *)
(* logging, metrics, concurrency limit, invoke, timeout, recover).         *)
(*                                                                         *)
(* Every request has a server goroutine, whose position is pc[r].  With an *)
(* invocation timeout the Handler runs in a goroutine of its own, whose    *)
(* position is handler[r], and which may outlive the request.  Two         *)
(* goroutines meet in the select of withTimeout; all of them share the     *)
(* semaphore of limitConcurrency and the Prometheus instruments.           *)
(***************************************************************************)
EXTENDS Integers, FiniteSets

CONSTANTS
  Requests,        \* the requests clients may send, each of them once
  MaxConcurrency,  \* MAX_CONCURRENCY; n <= 0 leaves the pod unlimited
  TimeoutOn        \* INVOKE_TIMEOUT > 0

ASSUME RequestsFinite == IsFiniteSet(Requests)
ASSUME LimitIsInt     == MaxConcurrency \in Int
ASSUME TimeoutIsBool  == TimeoutOn \in BOOLEAN

VARIABLES
  pc,             \* pc[r]: where r's server goroutine is
  handler,        \* handler[r]: what the goroutine running the Handler does
  result,         \* result[r]: how the Handler returned
  ctx,            \* ctx[r]: the context the Handler was given, or why it is done
  answer,         \* answer[r]: the status the chain decided to write
  sem,            \* tokens in limitConcurrency's channel
  inFlight,       \* gauge kfn_in_flight_requests
  requestsTotal,  \* requestsTotal[code]: counter kfn_requests_total{code}
  durations,      \* observations in kfn_request_duration_seconds
  panics          \* counter kfn_panics_total

goroutines == <<pc, handler, result, ctx, answer>>
metrics    == <<inFlight, requestsTotal, durations, panics>>
vars       == <<goroutines, sem, metrics>>
-----------------------------------------------------------------------------
Limited == MaxConcurrency > 0

(* How a Handler may return: a Response or *HTTPError whose status          *)
(* net/http accepts, one whose status it rejects (below 100, above 999), a  *)
(* plain error, or a panic that withRecover turns into a plain error.       *)
Results == {"handler", "invalid", "error", "panic"}

(* Statuses as far as the chain tells them apart.  "handler" is whatever    *)
(* valid status the Handler chose, "invalid" one WriteHeader panics on.     *)
Codes == {"handler", "invalid", "500", "504", "413", "429"}

\* Mutant: the deferred recover forgets to set err, so a panic is a nil Response.
CodeOfPanicNil(res) == IF res = "error" THEN "500"
                       ELSE IF res = "panic" THEN "handler" ELSE res

CodeOf(res) == IF res \in {"error", "panic"} THEN "500" ELSE res

Places == {"idle", "limit", "read", "select", "parked", "inline", "header",
           "body", "release", "count", "observe", "leave", "done", "aborted"}

Waiting(r)  == pc[r] \in {"select", "parked", "inline"}
Left(r)     == pc[r] \in {"done", "aborted"}
CtxDone(r)  == ctx[r] \in {"deadline", "disconnect"}
HoldsSlot(r) == /\ Limited
                /\ \/ pc[r] \in {"read", "select", "parked", "inline"}
                   \/ pc[r] \in {"header", "body", "release"} /\ answer[r] # "429"

Go(r, to) == pc' = [pc EXCEPT ![r] = to]

(* The chain has its answer; withTimeout's deferred cancel() has run.       *)
Answer(r, code) == /\ Go(r, "header")
                   /\ answer' = [answer EXCEPT ![r] = code]

Cancelled(r) == IF CtxDone(r) THEN ctx ELSE [ctx EXCEPT ![r] = "cancelled"]
-----------------------------------------------------------------------------
Init ==
  /\ pc      = [r \in Requests |-> "idle"]
  /\ handler = [r \in Requests |-> "none"]
  /\ result  = [r \in Requests |-> "none"]
  /\ ctx     = [r \in Requests |-> "live"]
  /\ answer  = [r \in Requests |-> "none"]
  /\ sem = 0
  /\ inFlight = 0
  /\ requestsTotal = [c \in Codes |-> 0]
  /\ durations = 0
  /\ panics = 0

(* withRequestID, logging's start, then the in-flight gauge, which is the   *)
(* outermost metric.  An unlimited pod has no limiter in the chain.         *)
Arrive(r) ==
  /\ pc[r] = "idle"
  /\ Go(r, IF Limited THEN "limit" ELSE "read")
  /\ inFlight' = inFlight + 1
  /\ UNCHANGED <<handler, result, ctx, answer, sem, requestsTotal, durations, panics>>

\* Mutant: one slot too many.
AcquireOneMore(r) ==
  /\ pc[r] = "limit"
  /\ sem <= MaxConcurrency
  /\ sem' = sem + 1
  /\ Go(r, "read")
  /\ UNCHANGED <<handler, result, ctx, answer, metrics>>

(* The non-blocking send that takes a slot ...                              *)
Acquire(r) ==
  /\ pc[r] = "limit"
  /\ sem < MaxConcurrency
  /\ sem' = sem + 1
  /\ Go(r, "read")
  /\ UNCHANGED <<handler, result, ctx, answer, metrics>>

(* ... or, on a full channel, the default case.                             *)
Shed(r) ==
  /\ pc[r] = "limit"
  /\ sem >= MaxConcurrency
  /\ Answer(r, "429")
  /\ UNCHANGED <<handler, result, ctx, sem, metrics>>

(* Any error reading the body (too large, truncated, ReadTimeout) is a 413. *)
ReadFails(r) ==
  /\ pc[r] = "read"
  /\ Answer(r, "413")
  /\ UNCHANGED <<handler, result, ctx, sem, metrics>>

(* The body is read and the Handler called: in a goroutine that withTimeout *)
(* spawns, or in the server goroutine when the timeout is disabled.         *)
Invoke(r) ==
  /\ pc[r] = "read"
  /\ Go(r, IF TimeoutOn THEN "select" ELSE "inline")
  /\ handler' = [handler EXCEPT ![r] = "running"]
  /\ UNCHANGED <<result, ctx, answer, sem, metrics>>

(* The Handler returns or panics; withRecover has counted a panic by then.  *)
HandlerReturns(r, res) ==
  /\ handler[r] = "running"
  /\ result' = [result EXCEPT ![r] = res]
  /\ panics' = IF res = "panic" THEN panics + 1 ELSE panics
  /\ IF pc[r] = "inline"
     THEN /\ handler' = [handler EXCEPT ![r] = "ended"]
          /\ Answer(r, CodeOf(res))
     ELSE /\ handler' = [handler EXCEPT ![r] = "returned"]
          /\ UNCHANGED <<pc, answer>>
  /\ UNCHANGED <<ctx, sem, inFlight, requestsTotal, durations>>

\* Mutant: an unbuffered channel, on which only a waiting receiver lets one send.
SendResultUnbuffered(r) ==
  /\ handler[r] = "returned"
  /\ pc[r] \in {"select", "parked"}
  /\ handler' = [handler EXCEPT ![r] = "ended"]
  /\ IF pc[r] = "parked"
     THEN Answer(r, CodeOf(result[r])) /\ ctx' = Cancelled(r)
     ELSE UNCHANGED <<pc, answer, ctx>>
  /\ UNCHANGED <<result, sem, metrics>>

\* Mutant: the Handler's goroutine writes the answer itself, late or not.
SendResultLate(r) ==
  /\ handler[r] = "returned"
  /\ handler' = [handler EXCEPT ![r] = "ended"]
  /\ IF pc[r] \in {"parked", "header"}
     THEN Answer(r, CodeOf(result[r])) /\ ctx' = Cancelled(r)
     ELSE UNCHANGED <<pc, answer, ctx>>
  /\ UNCHANGED <<result, sem, metrics>>

(* The send on the buffered channel never blocks.  A server goroutine       *)
(* parked in the select receives the value there and then.                  *)
SendResult(r) ==
  /\ handler[r] = "returned"
  /\ handler' = [handler EXCEPT ![r] = "ended"]
  /\ IF pc[r] = "parked"
     THEN Answer(r, CodeOf(result[r])) /\ ctx' = Cancelled(r)
     ELSE UNCHANGED <<pc, answer, ctx>>
  /\ UNCHANGED <<result, sem, metrics>>
-----------------------------------------------------------------------------
(* The select is entered with a result in the channel, with a context that  *)
(* is done, with both (Go picks either), or with neither (it parks).        *)
SelectResult(r) ==
  /\ pc[r] = "select"
  /\ handler[r] = "ended"
  /\ Answer(r, CodeOf(result[r]))
  /\ ctx' = Cancelled(r)
  /\ UNCHANGED <<handler, result, sem, metrics>>

SelectDone(r) ==
  /\ pc[r] = "select"
  /\ CtxDone(r)
  /\ Answer(r, "504")
  /\ UNCHANGED <<handler, result, ctx, sem, metrics>>

\* Mutant: parked without looking at Done, whose close may be past.
ParkBlind(r) ==
  /\ pc[r] = "select"
  /\ handler[r] # "ended"
  /\ Go(r, "parked")
  /\ UNCHANGED <<handler, result, ctx, answer, sem, metrics>>

Park(r) ==
  /\ pc[r] = "select"
  /\ handler[r] # "ended"
  /\ ~ CtxDone(r)
  /\ Go(r, "parked")
  /\ UNCHANGED <<handler, result, ctx, answer, sem, metrics>>

\* Mutant: the select watches a timer of its own and leaves the context live.
CloseDoneTimerOnly(r, why) ==
  /\ ctx[r] = "live"
  /\ ctx' = IF pc[r] = "parked" THEN ctx ELSE [ctx EXCEPT ![r] = why]
  /\ IF pc[r] = "parked" THEN Answer(r, "504") ELSE UNCHANGED <<pc, answer>>
  /\ UNCHANGED <<handler, result, sem, metrics>>

\* Mutant: withTimeout waits for the result only.
CloseDoneUnwatched(r, why) ==
  /\ ctx[r] = "live"
  /\ ctx' = [ctx EXCEPT ![r] = why]
  /\ UNCHANGED <<pc, answer, handler, result, sem, metrics>>

\* Mutant: a request ends with its context, its Handler abandoned, timeout or none.
CloseDoneInline(r, why) ==
  /\ ctx[r] = "live"
  /\ ctx' = [ctx EXCEPT ![r] = why]
  /\ IF pc[r] \in {"parked", "inline"} THEN Answer(r, "504") ELSE UNCHANGED <<pc, answer>>
  /\ UNCHANGED <<handler, result, sem, metrics>>

(* Closing the context's Done channel wakes a parked select.                *)
CloseDone(r, why) ==
  /\ ctx[r] = "live"
  /\ ctx' = [ctx EXCEPT ![r] = why]
  /\ IF pc[r] = "parked" THEN Answer(r, "504") ELSE UNCHANGED <<pc, answer>>
  /\ UNCHANGED <<handler, result, sem, metrics>>

(* The timer of context.WithTimeout fires.                                  *)
Deadline(r) ==
  /\ pc[r] \in {"select", "parked"}
  /\ CloseDone(r, "deadline")

(* net/http notices that the client went away and cancels r.Context(), the  *)
(* parent of the invocation's context.                                      *)
Disconnect(r) ==
  /\ pc[r] \in {"limit", "read", "select", "parked", "inline"}
  /\ CloseDone(r, "disconnect")
-----------------------------------------------------------------------------
\* Mutant: the gauge is decremented after next.ServeHTTP, not deferred.
AfterLimiterGaugeLeaks(r) == IF answer[r] = "invalid" THEN "aborted" ELSE "count"

\* Mutant: the counter is updated in a defer, the status taken as written.
AfterLimiterCountsAll(r) == "count"

\* Mutant: the latency is observed by a deferred call, on an abort too.
AfterLimiterDeferred(r) == IF answer[r] = "invalid" THEN "observe" ELSE "count"

(* What runs after the limiter's deferred release.  A panic out of          *)
(* WriteHeader unwinds past the counter and the histogram, whose updates    *)
(* follow next.ServeHTTP, down to the deferred decrement of the gauge.      *)
AfterLimiter(r) == IF answer[r] = "invalid" THEN "leave" ELSE "count"

\* Mutant: the slot is released after next.ServeHTTP, not deferred.
AfterWriteSlotLeaks(r) ==
  IF HoldsSlot(r) /\ answer[r] # "invalid" THEN "release" ELSE AfterLimiter(r)

\* Mutant: the release is deferred before the slot is taken.
AfterWriteAlwaysReleases(r) == IF Limited THEN "release" ELSE AfterLimiter(r)

AfterWrite(r) == IF HoldsSlot(r) THEN "release" ELSE AfterLimiter(r)

(* WriteHeader panics on an invalid status.  The runtime's own texts fit    *)
(* the connection's buffer; a Handler's body is written to the client.      *)
WriteHeader(r) ==
  /\ pc[r] = "header"
  /\ Go(r, IF answer[r] = "handler" THEN "body" ELSE AfterWrite(r))
  /\ UNCHANGED <<handler, result, ctx, answer, sem, metrics>>

WriteBody(r) ==
  /\ pc[r] = "body"
  /\ Go(r, AfterWrite(r))
  /\ UNCHANGED <<handler, result, ctx, answer, sem, metrics>>

Release(r) ==
  /\ pc[r] = "release"
  /\ sem' = sem - 1
  /\ Go(r, AfterLimiter(r))
  /\ UNCHANGED <<handler, result, ctx, answer, metrics>>

Count(r) ==
  /\ pc[r] = "count"
  /\ requestsTotal' = [requestsTotal EXCEPT ![answer[r]] = @ + 1]
  /\ Go(r, "observe")
  /\ UNCHANGED <<handler, result, ctx, answer, sem, inFlight, durations, panics>>

Observe(r) ==
  /\ pc[r] = "observe"
  /\ durations' = durations + 1
  /\ Go(r, "leave")
  /\ UNCHANGED <<handler, result, ctx, answer, sem, inFlight, requestsTotal, panics>>

(* The deferred decrement; then the access log, or net/http's recover,      *)
(* which drops the connection.                                              *)
Leave(r) ==
  /\ pc[r] = "leave"
  /\ inFlight' = inFlight - 1
  /\ Go(r, IF answer[r] = "invalid" THEN "aborted" ELSE "done")
  /\ UNCHANGED <<handler, result, ctx, answer, sem, requestsTotal, durations, panics>>
-----------------------------------------------------------------------------
(* The steps a server goroutine takes by itself, up to the point where it   *)
(* waits for the Handler, the timer or the client.                          *)
ServerStep(r) ==
  \/ Acquire(r) \/ Shed(r) \/ ReadFails(r) \/ Invoke(r)
  \/ SelectResult(r) \/ SelectDone(r) \/ Park(r)
  \/ WriteHeader(r) \/ Release(r) \/ Count(r) \/ Observe(r) \/ Leave(r)

HandlerStep(r) == \E res \in Results : HandlerReturns(r, res)

Step(r) == \/ Arrive(r) \/ ServerStep(r) \/ WriteBody(r)
           \/ HandlerStep(r) \/ SendResult(r)
           \/ Deadline(r) \/ Disconnect(r)

Next == \E r \in Requests : Step(r)

Spec == Init /\ [][Next]_vars

(* The Go scheduler runs every runnable goroutine, a timer fires, and       *)
(* ReadTimeout ends the reading of a body.  Nothing makes a Handler return, *)
(* nor a client read the body it is sent (WriteTimeout is unset).           *)
RuntimeFairness ==
  \A r \in Requests : /\ WF_vars(ServerStep(r))
                      /\ WF_vars(SendResult(r))
                      /\ WF_vars(Deadline(r))

(* Clients read what they are sent.                                         *)
ClientFairness == \A r \in Requests : WF_vars(WriteBody(r))

SlowClientSpec == Spec /\ RuntimeFairness
FairSpec       == Spec /\ RuntimeFairness /\ ClientFairness
-----------------------------------------------------------------------------
(* Properties.                                                             *)

(* Every variable has its type.                                            *)
TypeOK ==
  /\ pc      \in [Requests -> Places]
  /\ handler \in [Requests -> {"none", "running", "returned", "ended"}]
  /\ result  \in [Requests -> Results \cup {"none"}]
  /\ ctx     \in [Requests -> {"live", "deadline", "disconnect", "cancelled"}]
  /\ answer  \in [Requests -> Codes \cup {"none"}]
  /\ sem \in Nat
  /\ inFlight \in Nat
  /\ requestsTotal \in [Codes -> Nat]
  /\ durations \in Nat
  /\ panics \in Nat

Holders == {r \in Requests : HoldsSlot(r)}
Inside  == {r \in Requests : pc[r] # "idle" /\ ~ Left(r)}

(* limitConcurrency leaks no slot and returns none twice, whichever way a   *)
(* request ends (shed, 413, 504 with its Handler still running, a panic out *)
(* of WriteHeader): the channel holds one token for each request between    *)
(* its admission and its deferred release, and never more than the limit.   *)
SlotsConserved ==
  /\ sem = Cardinality(Holders)
  /\ sem <= IF Limited THEN MaxConcurrency ELSE 0

(* The in-flight gauge is the number of requests inside the chain, on every *)
(* path out of it, the panicking one included: an autoscaler that divides   *)
(* by it never sees a pod that looks busy for ever.                         *)
GaugeConserved == inFlight = Cardinality(Inside)

Counted(r)  == pc[r] \in {"observe", "leave", "done"} /\ answer[r] # "invalid"
Observed(r) == pc[r] \in {"leave", "done"} /\ answer[r] # "invalid"

CountedAs(c) == {r \in Requests : Counted(r) /\ answer[r] = c}
AllObserved  == {r \in Requests : Observed(r)}

(* Every answer that was written is counted under its own code, once, and   *)
(* observed once, after it was counted (promhttp's counter is innermost).   *)
CountedOnce ==
  /\ \A c \in Codes : requestsTotal[c] = Cardinality(CountedAs(c))
  /\ durations = Cardinality(AllObserved)

Total == requestsTotal["handler"] + requestsTotal["invalid"] + requestsTotal["500"]
         + requestsTotal["504"] + requestsTotal["413"] + requestsTotal["429"]

(* At any one moment the instruments add up: no latency without its request,*)
(* and a request that was counted and not yet observed is still in flight.  *)
(* No scrape sees one moment (see Scrape).                                  *)
InstrumentsAddUp == durations <= Total /\ Total <= durations + inFlight

(* The limiter bounds the Handlers that run, not only the requests waiting  *)
(* for one.  It does so with the timeout disabled; docs (config.go and      *)
(* examples/ram, which counts on it to bound memory) promise it always.     *)
RunningWithinLimit ==
  Limited => Cardinality({r \in Requests : handler[r] = "running"}) <= MaxConcurrency

Panicked == {r \in Requests : result[r] = "panic"}

(* What the client is told is what the Handler did: an answer that is not   *)
(* the runtime's own is the Handler's result, a panic is a masked 500, and  *)
(* panics are counted even when nobody waits for the Handler any more.      *)
AnswerIsResult ==
  /\ \A r \in Requests :
        /\ answer[r] \in {"handler", "invalid"} => result[r] = answer[r]
        /\ answer[r] = "500" => result[r] \in {"error", "panic"}
  /\ panics = Cardinality(Panicked)

(* A Handler that runs on after its request was answered has been told to   *)
(* stop: its context is done (middleware.go: "the handler's context is      *)
(* cancelled to signal cooperative handlers to stop"), and the answer was   *)
(* the 504, never one that claims the Handler's work was refused or done.   *)
AbandonedIsCancelled ==
  \A r \in Requests : handler[r] = "running" /\ ~ Waiting(r)
                        => CtxDone(r) /\ answer[r] = "504"

(* Nobody waits for what will not come: a server goroutine parked in the    *)
(* select has a Handler still at work or about to send, and a context whose *)
(* end will wake it; one that runs the Handler itself has one that runs;    *)
(* and one that takes its slot back finds a token in the channel.           *)
NobodyWaitsInVain ==
  \A r \in Requests :
    /\ pc[r] = "parked" => handler[r] \in {"running", "returned"} /\ ctx[r] = "live"
    /\ pc[r] = "inline" => handler[r] = "running"
    /\ pc[r] = "release" => sem > 0

(* With a timeout every request leaves the chain, whatever its Handler does *)
(* (writing-functions.md: "the client gets its 504 immediately").           *)
EveryRequestLeaves == \A r \in Requests : pc[r] # "idle" ~> Left(r)

(* No goroutine leaks: when a Handler returns, however late, the goroutine  *)
(* withTimeout ran it in ends too, though nobody receives its result.       *)
NoGoroutineLeak ==
  \A r \in Requests : handler[r] = "returned" ~> handler[r] = "ended"
-----------------------------------------------------------------------------
(* The chain implements the abstract limiter: a request is inside from the  *)
(* token it puts in the channel to the token it takes out.                  *)
PhaseOf(r) ==
  IF pc[r] \in {"idle", "limit"} THEN "before"
  ELSE IF HoldsSlot(r)           THEN "in"
  ELSE IF answer[r] = "429"      THEN "shed" ELSE "out"

L == INSTANCE Limiter WITH Capacity <- MaxConcurrency,
                           phase    <- [r \in Requests |-> PhaseOf(r)]

(* limitConcurrency sheds only when the pod is at the limit, lets in only   *)
(* below it, and never lets a request in twice.                             *)
ImplementsLimiter == L!Spec

(* The chain implements, for each request, the contract of a call: a body   *)
(* that cannot be read is refused without the Handler, and so is a request  *)
(* too many, if there is a limit.                                           *)
Of(r) == INSTANCE Call WITH
  Refusals  <- {"413"} \cup (IF Limited THEN {"429"} ELSE {}),
  MayGiveUp <- TimeoutOn,
  work      <- IF handler[r] \in {"none", "running"} THEN handler[r] ELSE result[r],
  told      <- CtxDone(r),
  answer    <- answer[r],
  sent      <- IF pc[r] = "aborted" THEN "dropped" ELSE IF Left(r) THEN "yes" ELSE "no"

(* The Handler of a request runs at most once and never for one that is     *)
(* refused; what it returned is the answer, or else, with a timeout only,   *)
(* it was told to stop before the 504; nothing is answered twice            *)
(* (writing-functions.md: "`504 function timed out`; `ctx` cancelled").     *)
ImplementsCall ==
  /\ \A r \in Requests : Of(r)!Init
  /\ [][\A r \in Requests : [Of(r)!Next]_(Of(r)!vars)]_vars
=============================================================================
