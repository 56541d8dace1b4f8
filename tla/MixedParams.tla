---------------------------- MODULE MixedParams -----------------------------
(***************************************************************************)
(* parseParams of examples/mixed: from the texts of a query string or of a *)
(* JSON body to a load within the operator's caps, or to a 400.  Durations *)
(* are whole units of time, fractions whole percents.                      *)
(***************************************************************************)
EXTENDS Integers

CONSTANTS MaxCPU, MaxSleep, MaxHold, MaxRamp, MaxMB, MaxWorkers, DefaultHold,
          Tail  \* a bound: an exponential sleep is drawn up to Tail times its base

(* envInt and envDuration take what is positive, or a positive default.     *)
ASSUME CapsArePositive ==
  /\ {MaxCPU, MaxSleep, MaxHold, MaxRamp, MaxMB, MaxWorkers, DefaultHold}
       \subseteq Nat \ {0}
  /\ Tail \in Nat

Durations == {"cpu", "hold", "ramp", "sleep"}
Ints      == {"workers", "mb"}
Floats    == {"load", "jitter"}
Dists     == {"fixed", "uniform", "exp"}
Keys      == Durations \cup Ints \cup Floats \cup {"dist"}

(* What get(key) finds: nothing (an empty text and a JSON null included), a *)
(* Go duration, a whole number, a fraction, "NaN", the name of a            *)
(* distribution, or any other word (a JSON true, or an array, among them).  *)
Texts == [kind : {"absent", "duration", "number", "percent", "NaN", "word"} \cup Dists,
          n : Int]

(* A request, of whose body matters whether it is a JSON object.            *)
Requests == [body : {"none", "malformed", "object"}, query : [Keys -> Texts],
             json : [Keys -> Texts]]

Is(t, kinds) == t.kind \in kinds
Absent(t)    == Is(t, {"absent"})

\* time.ParseDuration wants a unit, but for "0"
IsDuration(t) == Is(t, {"duration"}) \/ (Is(t, {"number"}) /\ t.n = 0)

(* A body, if there is one, hides the query string.                         *)
Get(in) == IF in.body = "object" THEN in.json ELSE in.query

Valid(in) ==
  LET get == Get(in) IN
  /\ in.body # "malformed"
  /\ \A k \in Durations : Absent(get[k]) \/ (IsDuration(get[k]) /\ get[k].n >= 0)
  /\ \A k \in Ints      : Absent(get[k]) \/ (Is(get[k], {"number"}) /\ get[k].n >= 0)
  /\ \A k \in Floats    : Is(get[k], {"absent", "number", "percent", "NaN"})
  /\ Is(get["dist"], Dists \cup {"absent"})

clamp(n, lo, hi) == IF n < lo THEN lo ELSE IF n > hi THEN hi ELSE n

durParam(t, def, max)    == IF Absent(t) THEN def ELSE clamp(t.n, 0, max)
intParam(t, def, lo, hi) == IF Absent(t) THEN def ELSE clamp(t.n, lo, hi)

NaN == -1  \* a number of its own, which math.Min and math.Max pass on

floatParam(t, def) ==
  IF Absent(t) THEN def
  ELSE IF Is(t, {"NaN"}) THEN NaN
  ELSE clamp(IF Is(t, {"number"}) THEN 100 * t.n ELSE t.n, 0, 100)

maxDur(a, b) == IF a > b THEN a ELSE b

(* Memory without a hold is held for as long as the longer of the CPU work  *)
(* and the base of the sleep, or for the default if there is neither.       *)
Span(cpu, sleep) == IF maxDur(cpu, sleep) = 0 THEN DefaultHold ELSE maxDur(cpu, sleep)

Parsed(in) ==
  LET get   == Get(in)
      cpu   == durParam(get["cpu"], 0, MaxCPU)
      sleep == durParam(get["sleep"], 0, MaxSleep)
      mb    == intParam(get["mb"], 0, 0, MaxMB)
  IN  [cpu     |-> cpu,
       workers |-> intParam(get["workers"], 1, 1, MaxWorkers),
       load    |-> floatParam(get["load"], 100),
       mb      |-> mb,
       hold    |-> IF mb > 0 /\ Absent(get["hold"])
                   THEN clamp(Span(cpu, sleep), 0, MaxHold)
                   ELSE durParam(get["hold"], 0, MaxHold),
       ramp    |-> durParam(get["ramp"], 0, MaxRamp),
       sleep   |-> sleep,
       dist    |-> IF Absent(get["dist"]) THEN "fixed" ELSE get["dist"].kind,
       jitter  |-> floatParam(get["jitter"], 25)]

Params == [cpu : 0..MaxCPU, workers : 1..MaxWorkers, load : NaN..100, mb : 0..MaxMB,
           hold : 0..MaxHold, ramp : 0..MaxRamp, sleep : 0..MaxSleep, dist : Dists,
           jitter : NaN..100]
-----------------------------------------------------------------------------
(* What pickSleep draws from, before it is clamped.  A jitter that is no    *)
(* number makes a sleep that is none either, which converts to one below 0. *)
Drawn(p) ==
  IF p.dist = "fixed" THEN {p.sleep}
  ELSE IF p.dist = "exp" THEN 0 .. Tail * p.sleep
  ELSE IF p.jitter = NaN THEN {-1}
  ELSE (p.sleep * (100 - p.jitter)) \div 100 .. (p.sleep * (100 + p.jitter)) \div 100

\* Mutant: the draw is taken as it is.
pickSleepUnclamped(p) == Drawn(p)

pickSleep(p) == {clamp(s, 0, MaxSleep) : s \in Drawn(p)}
=============================================================================
