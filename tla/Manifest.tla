------------------------------ MODULE Manifest ------------------------------
(***************************************************************************)
(* What kfn makes of a function.yaml (internal/manifest): Load applies the *)
(* defaults and validates, Render writes the objects.  A function.yaml is  *)
(* a record of Yamls, in which Empty and "unset" are absent fields; an     *)
(* object is reduced to the fields the running pod depends on.             *)
(***************************************************************************)
EXTENDS Config

(* An integer of the file, or none: either is decoded into an int, which is *)
(* 0 if the field is absent, as Empty.n is.                                 *)
Ints == {Empty} \cup [kind : {"number"}, n : Int]

Yamls ==
  [name : {"unset", "valid", "invalid"}, image : {"unset", "set"},
   port : Ints, replicas : Ints, shutdownGrace : Texts, env : Envs,
   ingress : BOOLEAN, host : {"unset", "valid", "invalid"}, proxyTimeout : Texts,
   monitoring : {"unset", "true", "false"}, metricsPort : Ints]

(* math.Ceil(d.Seconds()) *)
Ceil(d) == (d + Second - 1) \div Second
-----------------------------------------------------------------------------
(* applyDefaults.  A malformed shutdownGrace stays in the spec, for the     *)
(* runtime to reject, and the kubelet's period is that of the default.      *)
Grace(text) == IF text.kind = "duration" THEN text.n ELSE 15 * Second

TerminationGracePeriodSeconds(text) == Ceil(Grace(text)) + 5

PositiveTimeouts(env) ==
  {i \in Entries(env, "INVOKE_TIMEOUT") :
      env[i].value.kind = "duration" /\ env[i].value.n > 0}

\* Mutant: a malformed INVOKE_TIMEOUT counts as no timeout.
invokeTimeoutSecondsNoDefault(env) ==
  LET at == PositiveTimeouts(env)
  IN IF at = {} THEN 0 ELSE Ceil(env[CHOOSE i \in at : \A j \in at : i <= j].value.n)

(* The first entry that parses to a positive duration, rounded up.          *)
invokeTimeoutSeconds(env) ==
  LET at == PositiveTimeouts(env)
  IN IF at = {} THEN 30 ELSE Ceil(env[CHOOSE i \in at : \A j \in at : i <= j].value.n)

(* The user's annotation is copied over the derived one.                    *)
ProxyTimeout(y) == IF y.proxyTimeout.kind = "empty"
                   THEN Number(invokeTimeoutSeconds(y.env) + 30)
                   ELSE y.proxyTimeout

(* Where the file says 0 it is as if it said nothing.                       *)
Defaulted(y) ==
  [y EXCEPT !.port          = IF @.n = 0 THEN 8080 ELSE @.n,
            !.replicas      = IF @.n = 0 THEN 1 ELSE @.n,
            !.shutdownGrace = IF @.kind = "empty" THEN Duration(15 * Second) ELSE @,
            !.host          = IF y.ingress /\ @ = "unset" THEN y.name ELSE @,
            !.metricsPort   = IF @.n = 0 THEN 9090 ELSE @.n]

MaxPort == 65535

\* Mutant: the metrics port is looked at only when it is exposed.
ValidMonitored(s) ==
  /\ s.name = "valid" /\ s.image = "set"
  /\ s.port \in 1..MaxPort
  /\ s.replicas >= 0
  /\ s.ingress => s.host = "valid"
  /\ s.monitoring # "false" => s.metricsPort \in 1..MaxPort /\ s.metricsPort # s.port

\* Mutant: only the upper end of the port range is checked.
ValidUpperOnly(s) ==
  /\ s.name = "valid" /\ s.image = "set"
  /\ s.port <= MaxPort
  /\ s.replicas >= 0
  /\ s.ingress => s.host = "valid"
  /\ s.metricsPort <= MaxPort
  /\ s.metricsPort # s.port

Valid(s) ==
  /\ s.name = "valid" /\ s.image = "set"
  /\ s.port \in 1..MaxPort
  /\ s.replicas >= 0
  /\ s.ingress => s.host = "valid"
  /\ s.metricsPort \in 1..MaxPort
  /\ s.metricsPort # s.port
-----------------------------------------------------------------------------
(* Render, from the defaulted spec s.  The user's env follows the runtime's *)
(* own entries, which it may repeat.                                        *)
ContainerEnv(s) ==
  << [name |-> "PORT",           value |-> Number(s.port)],
     [name |-> "METRICS_PORT",   value |-> Number(s.metricsPort)],
     [name |-> "SHUTDOWN_GRACE", value |-> s.shutdownGrace] >> \o s.env

Render(s) ==
  [env       |-> ContainerEnv(s),
   httpPort  |-> s.port,
   replicas  |-> s.replicas,
   killAfter |-> TerminationGracePeriodSeconds(s.shutdownGrace),
   proxy     |-> IF s.ingress THEN ProxyTimeout(s) ELSE Empty,
   scraped   |-> s.monitoring # "false"]
=============================================================================
