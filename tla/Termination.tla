---------------------------- MODULE Termination -----------------------------
(***************************************************************************)
(* From a function.yaml to the end of its pod, in time: kfn renders the    *)
(* objects or rejects the file, the container starts with the environment  *)
(* they give it, and one day the kubelet stops it: SIGTERM at clock 0, and *)
(* SIGKILL when terminationGracePeriodSeconds have passed.  In between the *)
(* runtime drains, as Lifecycle describes; here its steps are coarser, and *)
(* their durations count.                                                  *)
(***************************************************************************)
EXTENDS Manifest

CONSTANTS
  Files,    \* the function.yamls somebody may apply
  MaxOpen,  \* a bound on the requests in flight
  Lag       \* how long after the deadline of its context drain may return

ASSUME FilesAreYamls == Files \subseteq Yamls
ASSUME MaxOpenIsNat  == MaxOpen \in Nat
ASSUME LagIsShort    == Lag \in Nat /\ Lag < 5 * Second

VARIABLES
  yaml,      \* the file that is applied
  object,    \* the objects in the cluster
  config,    \* what the runtime has read from its environment
  pod,       \* what became of it
  clock,     \* the time since SIGTERM
  open,      \* requests in flight in the function server
  scraping,  \* a scrape is in flight in the metrics server
  exitCode   \* -1 until the process exits by itself

vars == <<yaml, object, config, pod, clock, open, scraping, exitCode>>
-----------------------------------------------------------------------------
NoObject == [env |-> <<>>, httpPort |-> 0, replicas |-> 0, killAfter |-> 0,
             proxy |-> Empty, scraped |-> FALSE]

Init ==
  /\ yaml \in Files
  /\ object = NoObject
  /\ config = loadConfig(<<>>)
  /\ pod = "none"
  /\ clock = 0
  /\ open = 0
  /\ scraping = FALSE
  /\ exitCode = -1

(* kfn apply: Load returns an error and nothing is rendered, ...            *)
Reject ==
  /\ pod = "none"
  /\ ~ Valid(Defaulted(yaml))
  /\ pod' = "rejected"
  /\ UNCHANGED <<yaml, object, config, clock, open, scraping, exitCode>>

(* ... or the objects reach the cluster, which creates the pod.             *)
Apply ==
  /\ pod = "none"
  /\ Valid(Defaulted(yaml))
  /\ pod' = "created"
  /\ object' = Render(Defaulted(yaml))
  /\ UNCHANGED <<yaml, config, clock, open, scraping, exitCode>>

Port(t) == t.kind = "number" /\ t.n \in 0..MaxPort

(* Both servers may listen (on a free port where 0 is asked for) ...        *)
CanListen(c) == /\ Port(c.Port) /\ Port(c.MetricsPort)
                /\ c.Port = c.MetricsPort => c.Port.n = 0

(* ... unless the node keeps a port from a user who is not root and has no  *)
(* capability, as it may do with those below 1024.                          *)
Privileged(c) == \E port \in {c.Port, c.MetricsPort} : port.n \in 1..1023

(* Start reads the environment; a server that cannot listen ends it.        *)
Start ==
  /\ pod = "created"
  /\ config' = loadConfig(object.env)
  /\ \/ /\ CanListen(config')
        /\ pod' = "serving"
        /\ UNCHANGED exitCode
     \/ /\ ~ CanListen(config') \/ Privileged(config')
        /\ pod' = "failed"
        /\ exitCode' = 1
  /\ UNCHANGED <<yaml, object, clock, open, scraping>>

BeginRequest ==
  /\ pod = "serving"
  /\ open < MaxOpen
  /\ open' = open + 1
  /\ UNCHANGED <<yaml, object, config, pod, clock, scraping, exitCode>>

EndRequest ==
  /\ pod \in {"serving", "draining"}
  /\ open > 0
  /\ open' = open - 1
  /\ UNCHANGED <<yaml, object, config, pod, clock, scraping, exitCode>>

(* Prometheus finds the pod when a ServiceMonitor was rendered.             *)
BeginScrape ==
  /\ object.scraped
  /\ pod \in {"serving", "draining"}
  /\ ~ scraping
  /\ scraping' = TRUE
  /\ UNCHANGED <<yaml, object, config, pod, clock, open, exitCode>>

EndScrape ==
  /\ pod \in {"serving", "draining", "stopping"}
  /\ scraping
  /\ scraping' = FALSE
  /\ UNCHANGED <<yaml, object, config, pod, clock, open, exitCode>>
-----------------------------------------------------------------------------
\* Mutant: each of the two Shutdowns has a timeout of its own.
DrainDeadlineEach ==
  IF config.ShutdownGrace > 0
  THEN (IF pod = "stopping" THEN 2 ELSE 1) * config.ShutdownGrace ELSE 0

(* One context bounds both Shutdowns.                                       *)
DrainDeadline == IF config.ShutdownGrace > 0 THEN config.ShutdownGrace ELSE 0

Terminate ==
  /\ pod = "serving"
  /\ pod' = "draining"
  /\ UNCHANGED <<yaml, object, config, clock, open, scraping, exitCode>>

(* srv.Shutdown returns nil ...                                             *)
Drained ==
  /\ pod = "draining"
  /\ open = 0
  /\ pod' = "stopping"
  /\ UNCHANGED <<yaml, object, config, clock, open, scraping, exitCode>>

(* ... or finds its context done first, possibly between two polls, when    *)
(* the last request has already ended.                                      *)
DrainFails ==
  /\ pod = "draining"
  /\ clock >= DrainDeadline
  /\ pod' = "exited"
  /\ exitCode' = 1
  /\ UNCHANGED <<yaml, object, config, clock, open, scraping>>

(* metricsSrv.Shutdown returns, with or without an error.                   *)
MetricsStopped ==
  /\ pod = "stopping"
  /\ ~ scraping \/ clock >= DrainDeadline
  /\ pod' = "exited"
  /\ exitCode' = 0
  /\ UNCHANGED <<yaml, object, config, clock, open, scraping>>

Terminating == pod \in {"draining", "stopping"}

KillAt == object.killAfter * Second

(* Time passes while a Shutdown waits (its polls are at most half a second  *)
(* apart, and not modelled), and not further than Lag beyond the deadline.  *)
Tick ==
  /\ \/ pod = "draining" /\ open > 0
     \/ pod = "stopping" /\ scraping
  /\ clock < DrainDeadline + Lag
  /\ clock < KillAt
  /\ clock' = clock + 1
  /\ UNCHANGED <<yaml, object, config, pod, open, scraping, exitCode>>

Kill ==
  /\ Terminating
  /\ clock >= KillAt
  /\ pod' = "killed"
  /\ UNCHANGED <<yaml, object, config, clock, open, scraping, exitCode>>
-----------------------------------------------------------------------------
Next == \/ Reject \/ Apply \/ Start
        \/ BeginRequest \/ EndRequest \/ BeginScrape \/ EndScrape
        \/ Terminate \/ Drained \/ DrainFails \/ MetricsStopped \/ Tick \/ Kill

Spec == Init /\ [][Next]_vars
-----------------------------------------------------------------------------
(* Properties.                                                             *)

Applied == pod \notin {"none", "rejected"}

(* Every variable has its type; what is applied has been validated.         *)
TypeOK ==
  /\ yaml \in Files
  /\ config \in [Port : Texts, MetricsPort : Texts, ShutdownGrace : Int, InvokeTimeout : Int]
  /\ pod \in {"none", "rejected", "created", "serving", "draining", "stopping",
              "exited", "failed", "killed"}
  /\ clock \in Nat
  /\ open \in 0..MaxOpen
  /\ scraping \in BOOLEAN
  /\ exitCode \in {-1, 0, 1}
  /\ object.killAfter \in Int
  /\ Applied => object.httpPort \in 1..MaxPort /\ object.replicas \in Nat

Repeats(key) == Entries(yaml.env, key) # {}

(* The kubelet's period and the runtime's drain are computed in two         *)
(* programs from one text, by way of an environment variable: whatever the  *)
(* text (absent, malformed, a fraction of a second), the kubelet waits long *)
(* enough (manifest.go: "a draining pod is never SIGKILLed mid-flight"),    *)
(* unless the file repeats the variable or asks for a negative time.        *)
NeverKilledByDerivation ==
  pod = "killed" => Repeats("SHUTDOWN_GRACE") \/ Grace(yaml.shutdownGrace) < 0

(* nginx waits longer than the runtime, so that a slow invocation ends in   *)
(* the runtime's 504 (manifest.go: "before nginx severs the connection"),   *)
(* for every text of INVOKE_TIMEOUT, unless the file repeats it, switches   *)
(* the timeout off or sets the annotation itself.                           *)
EdgeOutlastsRuntime ==
  /\ pod = "serving" /\ yaml.ingress /\ yaml.proxyTimeout.kind = "empty"
  /\ config.InvokeTimeout > 0
  /\ \A i, j \in Entries(yaml.env, "INVOKE_TIMEOUT") : i = j
  => object.proxy.n * Second > config.InvokeTimeout

(* Unless it repeats the ports, a file that loads gives a pod that listens  *)
(* where its probes and its Service look for it, and that fails to start    *)
(* for one reason only: a port that its user, who is not root, may not have *)
(* (function-yaml.md has the metrics port checked "even when                *)
(* `monitoring.enabled: false`, since the runtime always serves `/metrics`  *)
(* on it").                                                                 *)
StartsOnItsPort ==
  Applied /\ ~ Repeats("PORT") /\ ~ Repeats("METRICS_PORT") =>
    /\ pod = "failed" => Privileged(config)
    /\ pod # "created" => config.Port = Number(object.httpPort)
-----------------------------------------------------------------------------
(* In time, and with its kubelet, the pod stops by the same contract as the *)
(* process of Lifecycle.                                                    *)
Stage == CASE pod \in {"none", "rejected", "created", "serving"} -> "up"
           [] pod = "draining"                                 -> "draining"
           [] pod = "stopping"                                 -> "drained"
           [] pod = "exited" /\ exitCode = 0                   -> "clean"
           [] OTHER                                            -> "cut"

G == INSTANCE GracefulStop WITH Work <- 1..MaxOpen, stage <- Stage,
                                fresh <- {}, busy <- 1..open

(* What Lifecycle says of the drain holds of this coarser one: it takes no  *)
(* new request, waits for all it has, and nothing else ends in a clean exit.*)
ImplementsGracefulStop == G!Spec
=============================================================================
