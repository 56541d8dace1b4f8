# kfn in TLA+

kfn is a small function runtime for Kubernetes: a Go package (`src/pkg/runtime`) that turns
one `Handler` into a pod (HTTP server, concurrency limit, timeout, metrics, drain), a manifest
generator (`src/internal/manifest`), a CLI (`src/cmd/kfn`) and example functions that generate
load (`src/examples`). This directory holds its specification: TLA+ modules translated from the source, TLC runs on small instances, and
proofs checked by TLAPS. `PROJECT.json` maps every definition to the lines it stands for.

Run a check with `tlc -config <run>.cfg <MC module>`, a proof with `tlapm <module>`.

## 1. Inventory

| Component | State it keeps | Operations | Hard behaviour |
|---|---|---|---|
| Invocation chain: `runtime.go` `newMux`, `invoke`; `middleware.go` | position of the server goroutine and of the Handler's goroutine, the invocation's context, the result channel | withRequestID, logging, metrics, limitConcurrency, invoke, withTimeout, withRecover, writeResponse / writeError | select between a result and a context; a Handler that outlives its request; panics inside and outside `withRecover`; slow clients |
| Limiter: `limitConcurrency` | tokens in a channel of capacity `MAX_CONCURRENCY` | take a slot, shed with 429, deferred release | a slot lost or returned twice on one of the paths out |
| Metrics: `metrics.go` | in-flight gauge, requests by code, durations, panics | Inc/Dec, count, observe, scrape | three updates that are not atomic, and a scrape that reads them one by one; an abort skips some of them |
| Lifecycle: `runtime.go` `Start`, `run`, `drain`; `health.go` | main goroutine, two server goroutines, error channel (capacity 1), readiness, signal, grace timer, connections | start, fail, report, signal, drain, Shutdown | a signal during startup; two failures and one buffer; Shutdown's polling against its deadline; requests that never end |
| Pod | all of the above | | what of a request survives the exit of the process |
| Log and request id: `logging.go`, `requestid.go` | none | | none |
| Environment: `config.go` | none | parse or fall back to the default | values that are zero, negative or malformed |
| Manifest: `manifest.go`, templates | none | Load (defaults, validate), Render | limits derived from a value that is not the one the runtime uses |
| Termination: kubelet, objects and runtime | the applied file, the objects, what the runtime read, the clock since SIGTERM | apply or reject, start, serve, drain, kill | one number computed in two programs; two Shutdowns under one deadline |
| CLI: `cmd/kfn` apply | the call a run has come to; the cluster's namespaces and objects | load, get or create the namespace, apply object by object | two runs at once; a call that fails; an interrupt; what exit 0 promises |
| CLI: render, build, push | none | | none |
| Load generator `examples/ram` | megabytes held per request | parse, allocate, ramp, hold, free | memory of requests whose slot is free already; the end of the context between any two steps |
| Load generator `examples/mixed` | megabytes, three phases with timers, results | parse and clamp, allocate, burn, sleep, hold, join, free | goroutines that write results; a phase longer than another; odd numbers |
| Load generators `examples/cpu`, `examples/sleep` | as the phases of mixed | | as there |
| Dashboards, Dockerfile | none | none | none |

How they interact: the function server calls the chain once per request, on a goroutine of its
own; the chain calls the Handler (a load generator, say), in the same goroutine or (with a timeout) in a second one;
all requests share the semaphore and the Prometheus instruments. The main goroutine reaches the
servers through `Shutdown`, and they reach it through the error channel. `net/http` tells the
chain that a client went away by cancelling `r.Context()`. The manifest hands the runtime its
configuration through environment variables and the kubelet a grace period computed from it.

What makes each part correct:

* chain: every request gets one answer, which is what its Handler did or says why not; it
  gets it within the timeout; what was abandoned has been told to stop;
* limiter: never more than the limit inside, shed only at the limit, no slot lost;
* metrics: gauge and counters balance on every path out; from one scrape to the next the series
  account for each other;
* lifecycle: exit 0 only when nothing was cut short; a signal or a failed server always ends
  the process; readiness is withdrawn before work is;
* apply: it may be repeated; a run of a valid file fails only for a cause, and exit 0 means
  that all of the file is in the cluster; nothing gets there that no valid file asked for;
* load generators: what is parsed is within the caps; once its context is done a load stops
  growing and frees its memory; the summary says what ran;
* manifest: the limits at the edge and in the kubelet agree with those in the runtime; a file
  that loads gives a pod that starts, on the ports of its objects, if its node lets it.

The hazards behind these, each at its line, are listed in `PROJECT.json`.

## 2. Modules

| Module | What it is |
|---|---|
| `Limiter` | abstract: admission control with a capacity, nobody queues |
| `Call` | abstract: one request and its Handler, without the chain between them |
| `GracefulStop` | abstract: how a process with work in flight may end |
| `Invocation` | the chain, one request per server goroutine; implements `Limiter` and, per request, `Call` |
| `Scrape` | `Invocation` while /metrics is gathered, one series after the other |
| `Lifecycle` | the process: main, two servers, readiness, connections as Shutdown sees them; implements `GracefulStop` |
| `Pod` | `Lifecycle` and `Invocation` composed: a connection is active while its request is in the chain; implements `GracefulStop` |
| `Config` | operators: what the runtime reads from its environment |
| `Manifest` | operators: `Load` and `Render`, over `Config` |
| `Termination` | timed: a file, its objects, the pod they start, SIGTERM and SIGKILL; implements `GracefulStop` |
| `Footprint` | abstract: the memory of one request of a load generator |
| `Ram` | the load generator ram, several requests in a process; each implements `Footprint` |
| `RamPod` | `Invocation` with `Ram` as its Handler |
| `MixedParams` | operators: the request parameters of the load generator mixed |
| `Mixed` | timed: one request of mixed, over `MixedParams`; implements `Footprint` |
| `Apply` | runs of kfn apply against one cluster |
| `MC...` | symmetry, bounds, files and requests, and what only TLC checks |
| `InvocationProofs`, `ScrapeProofs`, `LifecycleProofs`, `PodProofs`, `TerminationProofs`, `RamPodProofs`, `MixedProofs`, `ApplyProofs` | theorems |

**Invocation.** `pc[r]` is where the server goroutine of request `r` is, named for the code
about to run (`limit`, `read`, `select`, `header`, `body`, `release`, `count`, `observe`,
`leave`). `parked` is the select with neither channel ready, `inline` a Handler called without
a timeout. `handler[r]` is the goroutine `withTimeout` spawns, whose send on the buffered
channel is `SendResult`; entering the select (`SelectResult`, `SelectDone`, `Park`) is separate
from being woken in it (`SendResult`, `CloseDone`), so the choice Go makes with both channels
ready is there. Answers are classes: `handler` (a valid status the Handler chose), `invalid`
(one on which `WriteHeader` panics, outside `withRecover`), and the runtime's own 500, 504,
413 and 429. A Handler may itself choose 429 or 504; that is a `handler` answer, so the
properties speak of why the runtime answered, never of how a scrape would label it.
Deferred code runs on every path, code after `next.ServeHTTP` does not (`AfterLimiter`).

**Scrape.** promhttp serves what `Registry.Gather` collects from the instruments, in no fixed
order and without a lock that the chain would take, so a scrape is no state of the chain:
`BeginScrape`, `ReadCode` for each code and `ReadDurations` are steps between which the chain
goes on. One scrape need not add up, in either direction: the counter may be read before the
histogram or after it, with requests counted in between. `ScrapesAddUp` is what two scrapes in a
row can rely on. Requests of one HTTP method are looked at, and the statuses a Handler chooses
are one series. `before` is history: the instruments when the scrape began.

**Call, GracefulStop.** What a user of the runtime may rely on, without its mechanisms. In `Call`
a request is refused, or its Handler is called once; the answer is what the Handler returned,
errors and panics masked, or 504, and then the Handler's context is done no later than the
answer is there. `MayGiveUp` is the timeout: without it a called Handler is always waited for.
`GracefulStop` is a process that is up, draining, drained, and then ended cleanly or cut: nothing
is accepted once it drains, what is in flight is never dropped by a drain, and it ends cleanly
only with nothing in flight. Three modules implement it, so it is what `Lifecycle`, `Pod` (whose
work in flight is what is inside the chain) and `Termination` (in time, with a kubelet that
kills) have in common. The readiness flag, the two servers, polls, clocks and who caused a cut
are not in it. A process is draining, for this purpose, once its listener is closed.

**Lifecycle.** One variable per goroutine (`main`, `fn`, `mtr`), the readiness flag, the error
channel, the grace timer, and `conn[r]` as `http.Server` tracks it (new, active, closed). The
server goroutine sets readiness (`FnReady`) before it listens (`FnListen`), as the code does.
`Shutdown` closes the listener, `Poll` is one round of `closeIdleConns` (new connections older
than 5 s are closed), `GraceExceeded` the branch of its select on the context. A connection
carries one request; idle keep-alive connections, which Shutdown closes at once, are not
modelled. A scrape that is running when the metrics server is shut down can delay `StopMetrics`
until the same deadline, whose error the code ignores: it is one step here.

**Pod.** `Enter` joins `Arrive` to the connection becoming active, `Exit` joins `Leave` to its
release; all other steps belong to one side. Exiting stops everything. `/healthz` and `/readyz`
are served by the function server too, outside the chain: their connections, which `Lifecycle`
has (its requests are any), are not in `Pod`, where every connection is an invocation.

**Config, Manifest.** A text is what the parsers make of it: empty, a duration, a number, or a
word neither accepts. A duration counts units of which `Second` make a second, so that rounding
up (`Ceil`) is real. `ContainerEnv` is the env list of the Deployment's template: the runtime's
own entries, then the user's. `port`, `replicas` and `monitoring.port` are decoded into an int,
so that a 0 that was written is an absent field (`Defaulted`). `FUNCTION_NAME` and the variables
that play no part here are `OTHER`. Of several entries of one name Kubernetes gives the
container the last; `kfn` itself takes the first `INVOKE_TIMEOUT` that parses.
`invokeTimeoutSeconds`, like the code, has its own idea of a bad value; `Valid` is `validate`, a
conjunct for each error it returns that can still be returned after the defaults. `Ingress` has
only the fields that reach nginx's timeout.

**Termination.** `Apply` or `Reject` is decided by `Valid`; `Start` reads the environment that
`Render` wrote. The container runs as uid 65532 with all capabilities dropped, and whether it
may bind a port below 1024 is the node's to say (`ip_unprivileged_port_start`): for such a port
(`Privileged`) `Start` may succeed or fail. From SIGTERM on time passes, one `Tick` at a time,
only while a Shutdown waits: for requests (`draining`), then for a scrape (`stopping`), both
under one deadline. `Lag` bounds how late drain may return after that deadline (a poll of
net/http, scheduling); the theorems ask that it is shorter than the 5 s of margin the manifest
gives. When the deadline has passed and the last request ended between two polls, Shutdown may
return either way, so `Drained` and `DrainFails` are both possible; this includes a grace of
zero, where the code's first poll would succeed. Steps of the drain that `Lifecycle` tells apart
are joined here.

**Ram, RamPod.** `ram[r]` is where the Handler of `r` is: before a chunk (`check`), adding it
(`grow`), in the ramp's sleep, in the hold, at the release. `allocate` looks at the context
before each chunk and in each sleep, never during a chunk, so `Check` and `Grow` are two steps.
`ctx` is a variable of `Invocation`: `Ram` reads what the chain writes. `RamPod` replaces the
Handler of the chain, which may return anything at any time, by the steps of `Ram`: the only
actions of `Invocation` it constrains are the Handler's. Durations count only as zero or not.
`Parse` clamps an `mb` that was given and takes the default as it is, as `parseParams` does, so
the most one request may hold (`Ceiling`) is the larger of `RAM_MAX_MB` and `RAM_DEFAULT_MB`.

**MixedParams, Mixed.** A text is what the parsers make of it, as in `Config`, for a query
string or a JSON body; fractions are whole percents, and `NaN`, which survives the clamping, is
a value of its own. `Mixed` has a clock, timers in `until`, one `phase` per goroutine and the
number of `burning` workers. Computing takes no time: `Tick` needs every goroutine to wait for
a timer that is not due. So `clock` bounds what the sleeps and deadlines add up to, and not what
a loaded machine adds; `FitsTimeout` says no more than that. `pickSleep` is the set of what may
be drawn; the exponential distribution, which has no bound, is cut at `Tail` times its base
before it is clamped.

**Apply.** A run is at one call of the code or of kubectl (`at[c]`), and any number of runs
interleave. A file is whether it validates, its namespace, which optional objects it renders,
and its content. kubectl is external: `apply` gets each object, then creates or patches it, and
goes on after one that fails. `met[c]` is history: whether another run, a failed call or a
deletion came in the way of `c`'s run.

## 3. Runs

| Run | Instance | Question |
|---|---|---|
| `limited` | 3 requests, limit 2, timeout | slots, gauge, counters and answers on every path; what a scrape reports the next accounts for |
| `no_timeout` | ram: 2 requests, limit 1, no timeout, cap 1 MB, default 2 MB, fair | the limit bounds running Handlers and requests that hold memory; chain and load keep to `Limiter` and `Footprint`; a load that is told unwinds and frees |
| `every_request_leaves` | 2 requests, limit 1, timeout, fair | requests leave, slots return, goroutines end, whatever Handlers do; nobody waits in vain; each request keeps to `Call` |
| `drain` | 3 requests, fair | a clean drain is clean and takes on nothing new (`GracefulStop`); signals and failures end the process |
| `pod` | 2 requests, limit 1, timeout | the chain's requests and the server's connections agree (`GracefulStop` with what is inside the chain as its work); a clean exit |
| `mixed` | 127 requests, timeout 6, caps of 2 to 5 | caps, time, summary, memory; a request that is told unwinds and ends |
| `apply` | 2 clients, 4 commands, 2 namespaces | exit codes, and what may be in the cluster |
| `ram_over_limit` | ram: 2 requests, limit 1, timeout, cap 2 MB, default 1 MB, pod 3 MB | violated: see findings |
| `slow_client` | 2 requests, limit 1, timeout, clients not fair | violated |
| `probe_while_draining` | 2 requests | violated |
| `ready_while_draining` | 2 requests | violated |
| `termination` | 180 files, half-second units, lag 4.5 s | kubelet and nginx outlast the runtime; the pod listens on the ports of its objects, or they are privileged |

**Bounds.** Requests are sent once each, so runs end: `CHECK_DEADLOCK FALSE` (a
pod that is scraped never does). Two slots and
three requests are enough for a full pod that sheds, a released slot that is taken again, and a
Handler abandoned while two others hold slots; one slot and two requests show contention in the
liveness run, where symmetry is not used. `Bound` in `MCPod` leaves out plain errors and panics
of the Handler and a failure of the metrics server, which `limited` and `drain` explore.
`MCFiles` gives `shutdownGrace` and `INVOKE_TIMEOUT` in every form (absent, malformed, a bare
number, negative, zero, whole and half seconds, repeated), ports absent, 0, at and beyond their
bounds, privileged, equal and repeated, and replicas absent, negative, 0 and 2; two requests and
two scrapes make each Shutdown wait for more than the first that ends (`MaxOpen`), and a lag of
4.5 s is the longest the margin admits. In `no_timeout` and `ram_over_limit` two megabytes let
an end of the context come before, between and after chunks, and requests ask for less, as much
and more than the cap, or for nothing and get the default, which is above the cap in one run and
below it in the other. In `limited` the whole chain is explored on a pod that nobody scrapes; on
one that is scraped, again and again, `Bound` sends two of the three requests, lets no context
end early and reads the codes in one order, with the histogram anywhere among them.
`ScrapesSafe` is without these bounds. `InputsDef` in `MCMixed` gives every kind of text to
every parameter, makes each phase the longest of some request, and has values on both sides of
each cap; a timeout of 6 is met by some requests and not by others. The four commands of
`MCApply` are two versions of a function of which one has an object more, one with an override
of its namespace, and one that does not validate; two clients that run again and again are
enough for every pair of overlapping runs, and for a run after an interrupted one. What the
bounds leave open for the safety properties the theorems close: they hold for every finite set
of requests, every limit (0 and negative mean no limiter) and both timeout settings, and for
every file, time unit and lag below five seconds, every load, cap and timeout, and every set of
clients, files and namespaces.

**Fairness.** `RuntimeFairness`: the Go scheduler runs runnable goroutines, timers fire, and
`ReadTimeout` ends the reading of a body, which the server sets. `ClientFairness`: a client
reads the body it is sent; nothing in the code ensures it (`WriteTimeout` is unset), and
`slow_client` is the run without it. No fairness is assumed of Handlers: they may run for ever.
In `Lifecycle` every goroutine and the grace timer are weakly fair; `GraceExceeded` is strongly
fair because Shutdown's select waits on the context and on a poll timer of at most 500 ms, and
a done context is found within one interval. Requests and clients have no fairness there.
`LoadFairness` is weak fairness of what a Handler of ram does without waiting for a timer: the
end of the context alone wakes it, and nothing is assumed of its timers. `Mixed` is weakly fair
in its main goroutine, in its phases and in time. `Apply` states no fairness and no liveness: a
run may stay where it is, as kubectl may.

## 4. Proofs

All in TLAPS, for every value of the constants, from `RequestsFinite`, `LimitIsInt` and
`TimeoutIsBool` (`PodConstants` in `Pod`) and, in `Termination`, `SecondPositive`,
`FilesAreYamls`, `MaxOpenIsNat` and `LagIsShort`, `LoadConstants` in `RamPod`,
`CapsArePositive`, `InvokeTimeoutIsNat` and `InputsAreRequests` in `Mixed`, and
`CommandsAreCommands` in `Apply`, alone; some theorems have a hypothesis of their own, and state it.

* `InvocationProofs`: `IInv` is inductive: `TypeInt /\ Shape /\ SlotsConserved /\
  GaugeConserved /\ CountedOnce /\ PanicsCounted`. `TypeOK` says `sem`, `inFlight` are naturals,
  which a decrement does not preserve by itself; `TypeInt` says integers, and the naturals come
  back from the conservation laws, each an equality with the cardinality of a set of requests.
  `Shape` ties each `pc` to what `handler`, `result`, `ctx` and `answer` may be there. From it:
  `TypeCorrect`, `SlotsSafe`, `GaugeSafe`, `CountsSafe`, `AnswersSafe`, `AbandonedSafe`,
  `RunningSafe` (assuming no timeout, which is the finding), and
  `LimiterImplemented` (assuming a limit): each step of the chain is a step of `Limiter` or
  none; that `Shed` is allowed only at the limit is where `SlotsConserved` is needed.
  `InstrumentsSafe` rests on two of the conservation laws and no more. `TotalIsCounted` says that the
  six counters add up to the requests that were counted (their sets, one per code, are disjoint:
  `CardinalityUnion`), and those lie, as a set, between the requests observed and the requests
  observed or in flight. It is about the instruments in one state, and what `ScrapesSafe` starts
  from. `NobodyWaitsSafe` follows from `Shape` and `SlotsConserved`.
  `CallImplemented` maps each request to `Call`: one step of the chain is a step of one call and
  leaves the others alone (`OthersUntouched`), and no invariant but `Shape` is needed. It has in
  it that an answer is final.
* `ScrapeProofs`: a scrape is bracketed (`Bracketed`). What it has read of the counter, with what
  the series it has yet to read hold now (`Rest`), is no less than the counter was when the scrape
  began, and no more than the counter is now: a series that is read moves from one term to
  the other, and one that counts up while it is unread moves both bounds the right way. The scrape
  before it was no newer than that beginning, at which the instruments added up
  (`InstrumentsSafe`); when nothing is left to read, `ScrapesSafe` follows by arithmetic.
  `ChainImplemented`: a pod that is scraped is still the chain.
* `LifecycleProofs`: `TypeCorrect` and `DrainSafe`. The invariant is strengthened with: once
  Shutdown was called the listener stays closed and no connection becomes new again
  (`DrainInvariance`). `GracefulStopImplemented` uses it where `FnListen` runs late: after
  Shutdown that server does not come up, so nothing is accepted while draining.
* `PodProofs`: every step of the pod is one of each part or leaves it alone
  (`ProcessImplemented`, `ChainImplemented`), so what was proved of the parts holds of the pod, and
  from it `CleanExitSafe`. The lemma `ConnectionsSafe` is the link between the two halves that
  `Enter` and `Exit` make by moving both. The refinements come with them:
  `CallImplemented`, `LimiterImplemented`, and `GracefulStopImplemented`, which is that of
  `Lifecycle` with `ConnectionsSafe` replacing the server's busy connections by the requests
  inside the chain.
* `TerminationProofs`: the invariant is `TypeOK`, `Derived` (the objects are `Render` of the
  file, the configuration is `loadConfig` of the objects, and only a server that could not
  listen, or had a privileged port, failed) and `InTime` (the clock is at most `Lag` beyond the deadline; a killed pod's
  clock has reached the kubelet's). Lemmas say what is read back from the rendered environment:
  the runtime's own entry unless the user repeats it (`OwnEntry`), else the user's
  (`UserEntry`), which rests on the last of a finite set of positions; and that `Ceil` covers.
  Then `NotKilled` is arithmetic: grace + lag < ceil(grace) + 5 s. `EdgeOutlasts` and `Starts`
  follow from the same lemmas and from `Valid`. No case distinction over texts was
  left out: the theorems hold for malformed values too. `GracefulStopImplemented` needs only
  `TypeOK`: `DrainFails` and `Kill` are cuts at any stage, `Drained` needs nothing open. It has no
  run of its own: on the instance of `termination` TLC confirms it.

* `RamPodProofs`: every step of the pod is a step of the chain (`ChainImplemented`), so `IInv`
  and all that follows from it hold of the pod. The load's invariant ties the two: a Handler is
  at work only while `handler[r]` is running, and holds memory only then; without a timeout
  such a request holds a slot, whence `HoldingSafe`; with one, it holds a slot unless it was told
  to stop, whence `ExcessSafe` (no run of its own: TLC confirms it on the instance of
  `ram_over_limit`). `FootprintImplemented` maps each request, with `Ceiling` as its cap.
  `HardCeilingSafe` assumes that the default is no more than `RAM_MAX_MB`, and shows that then nothing
  gets past the ceiling.
  `CallImplementedForRam` and `LimiterImplementedForRam` are inherited. `UnwindSafe`: with its
  context done a load goes through the stages of `StagesLeft` in order.
* `MixedProofs`: the invariant bounds every timer by what was asked and every start of a phase
  by the ramp (`held` steps of `ramp \div mb` are no more than the ramp); in `wait` a phase
  that is over and was not cut has seen its time. `CapsFit` is the statement an operator uses:
  a timeout above the caps is never met. `UnwindSafe`: with the context done every step, of
  whichever goroutine, lowers `StepsLeft`, which `MaxWorkers` bounds; time does not move.
* `ApplyProofs`: `Smooth` says that what a run nothing came in the way of saw last still holds,
  `BehindApplied` that the objects it has passed are applied. `OwnPartSuffices` is the argument
  for all steps: the other runs under way are marked as overlapped (`Together`), so only the
  part of the run that moves is to be shown. `SuccessSafe` then needs only that `ApplyEnds` is
  reached with no object left.

Only model-checked: what needs fairness, which is out of the prover's reach, as is ENABLED:
`EveryRequestLeaves`, `NoGoroutineLeak`, `SignalEndsProcess`, `FailureEndsProcess`,
`CanceledFrees`, `CanceledReturns`, and the fairness of `Footprint` in `Mixed`. The half of
three of them that is safety is proved: `NobodyWaitsInVain` (a request that waits has something
left to wait for) stands under `EveryRequestLeaves`, and `CanceledUnwinds` (what is told to stop
can take only so many steps) under `CanceledFrees` and `CanceledReturns`; what is left to TLC is
that the scheduler does take them. Every safety invariant and action property of the passing
runs is proved. Proved, and in no run, are what others rest on: `TypeOK` of `Lifecycle`, and
`ConnectionsAreRequests` of `Pod`. `HardCeiling` is proved under its hypothesis and is in no
run. `NeverOOM` and the other three violated properties are false.

## 5. Findings

* **The memory of a pod of `examples/ram` is not bounded by serializing.** A 504, or a client
  that goes away, releases the slot while the Handler still runs and holds its memory, and the
  next request allocates beside it. The README of the example promises the opposite. Without a
  timeout the slot is kept until the Handler returns, and `HoldingWithinLimit` and
  `RunningWithinLimit` are proved. With it, what holds more than the limit was told
  to stop (`ExcessIsTold`, from `AbandonedIsCancelled`), and a load that was told only unwinds
  (`CanceledUnwinds`, `ImplementsFootprint`): the excess is short, and is there.
* **A response is not bounded by `INVOKE_TIMEOUT`.** Its body is written after `withTimeout`
  has returned; a client that does not read holds request and slot.
* **`/readyz` never answers 503 while requests are drained**: the listener is closed first.
* **A signal during startup**: the late `setReady(true)` overrides the drain's `setReady(false)`.

Behaviours the model has and no run refutes: a file whose `env` gives `SHUTDOWN_GRACE` again
sets the drain and not `terminationGracePeriodSeconds`, so that the kubelet kills a draining pod
(`NeverKilledByDerivation` leaves such files out); of two runs of apply that find no namespace
one fails, and of two that create the same object both may, `idempotent` though each is; a
server that fails while the other drains is reported to a channel nobody reads any more, and the
process may exit with 0 (`FailureEndsProcess` asks that it ends, not how); `RAM_MAX_MB` is
documented as a hard ceiling on a single allocation, but `parseParams` clamps only an `mb` in
the query, so with `RAM_DEFAULT_MB` above it every plain request allocates the default (as
delivered, 64 and 160, the default is below, and `HardCeilingSafe` says that this is all it
takes); `replicas: 0`, which the docs and `validate` allow, cannot be told from an absent field
and becomes 1; `load=NaN` passes the clamping of mixed and ends in a 500 after the load ran;
nginx's timeout comes from the first positive `INVOKE_TIMEOUT`, or the default, and the
runtime's from the last, 0 included (`EdgeOutlastsRuntime` leaves such files out); a file that
writes `port: 0` gets 8080, though function-yaml.md has a port outside 1-65535 rejected; a port
below 1024 validates, and may be one the pod's user cannot bind; one scrape, taken by itself,
may show more latencies than requests, or a request that is neither observed nor in flight; the
in-flight gauge counts requests about to be shed, so it may exceed `kfn_max_concurrency` for a
moment; a client that goes away is answered, and counted, 504; a request aborted by an invalid
status is in no counter (`CountedOnce` leaves aborted requests out on purpose, `GaugeConserved`
does not).

## 6. Plan

Done, in order of importance: `Invocation`, `Limiter`, `Call`, `Lifecycle`, `GracefulStop`, `Pod`,
`Config`, `Manifest`, `Termination`, `Footprint`, `Ram`, `RamPod`, `MixedParams`, `Mixed`,
`Apply`, `Scrape`, and their proofs.

Left:

1. A rollout: the file changes while pods of the old one run, so that for a while the Ingress
   and the pods come from different files; objects that are no longer rendered stay behind.
2. `Termination` and `Lifecycle` implement the same `GracefulStop`. A `Lifecycle` whose steps are
   timed would show that the coarse drain of `Termination` is a refinement of it.
3. The rest of `config.go` (`envInt`, `envFloats`) and what a negative or malformed
   `MAX_CONCURRENCY` does to the chain.
4. `Mixed` as the Handler of a pod, as `Ram` is.
5. Proofs: what one run of apply promises as an abstract specification that `Apply` implements;
   and lemmas on `Manifest` (defaults applied twice change nothing, a file that was rendered loads
   again).

## 7. Not modelled

Header and body contents, wording of logs and errors, histogram buckets and labels, TLS,
net/http's own state machine beyond what Shutdown observes, kubectl beyond its calls (all marked
external in `PROJECT.json`), connections of probes in `Pod` (`Lifecycle` has them as requests
like any other), namespaces that are being terminated and a kubectl that outlives its run in
`Apply`, readings of RSS and durations in summaries, the parameter parsing of `examples/cpu` and
`examples/sleep` (their phases are those of mixed), `render` beyond its loading, `build` and
`push` (they start a container engine), dashboards.
