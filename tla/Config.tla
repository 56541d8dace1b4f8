------------------------------- MODULE Config -------------------------------
(***************************************************************************)
(* How the runtime reads its configuration from the environment (config.go *)
(* of pkg/runtime): each variable is parsed, and one that is unset or      *)
(* malformed falls back to its default.                                    *)
(*                                                                         *)
(* A text is what the parsers make of a string: nothing, a duration, a     *)
(* number, or a word none of them accepts.  Durations are in units of      *)
(* which Second make a second.                                             *)
(***************************************************************************)
EXTENDS Integers, Sequences

CONSTANT Second

ASSUME SecondPositive == Second \in Nat \ {0}

Texts == [kind : {"empty", "word", "duration", "number"}, n : Int]

Empty       == [kind |-> "empty",    n |-> 0]
Word        == [kind |-> "word",     n |-> 0]
Duration(n) == [kind |-> "duration", n |-> n]
Number(n)   == [kind |-> "number",   n |-> n]

Names == {"PORT", "METRICS_PORT", "SHUTDOWN_GRACE", "INVOKE_TIMEOUT", "OTHER"}

Envs == Seq([name : Names, value : Texts])

Entries(env, key) == {i \in DOMAIN env : env[i].name = key}

(* Kubernetes gives the container the last of several entries of one name.  *)
Getenv(env, key) ==
  IF Entries(env, key) = {} THEN Empty
  ELSE env[CHOOSE i \in Entries(env, key) : \A j \in Entries(env, key) : j <= i].value

envString(env, key, def) ==
  IF Getenv(env, key).kind = "empty" THEN def ELSE Getenv(env, key)

envDuration(env, key, def) ==
  IF Getenv(env, key).kind = "duration" THEN Getenv(env, key).n ELSE def

loadConfig(env) ==
  [Port          |-> envString(env, "PORT", Number(8080)),
   MetricsPort   |-> envString(env, "METRICS_PORT", Number(9090)),
   ShutdownGrace |-> envDuration(env, "SHUTDOWN_GRACE", 15 * Second),
   InvokeTimeout |-> envDuration(env, "INVOKE_TIMEOUT", 30 * Second)]
=============================================================================
