------------------------------ MODULE MCMixed -------------------------------
(***************************************************************************)
(* A small instance of Mixed for TLC.  Requests are chosen so that every   *)
(* phase is the longest of some request, that values lie on both sides of  *)
(* their caps, and that every kind of text meets every kind of parameter.  *)
(***************************************************************************)
EXTENDS Mixed, TLC

Text(kind, n) == [kind |-> kind, n |-> n]

Given(f) == f @@ [k \in Keys |-> Text("absent", 0)]
Query(f) == [body |-> "none", query |-> Given(f), json |-> Given(<<>>)]
Json(f)  == [body |-> "object", query |-> Given([cpu |-> Text("duration", 9)]),
             json |-> Given(f)]

Dur(n) == Text("duration", n)
Num(n) == Text("number", n)
Probes == {Dur(1), Dur(-1), Num(1), Num(-1), Num(0), Text("percent", 50),
           Text("NaN", 0), Text("exp", 0), Text("word", 0)}

OneParameter == {Query(k :> t) : k \in Keys, t \in Probes}

Sleeps == {Query([sleep |-> Dur(2), mb |-> Num(1), dist |-> Text(d, 0), jitter |-> j]) :
             d \in Dists, j \in {Text("percent", 50), Text("NaN", 0)}}

Loads == {Query([cpu |-> Dur(c), mb |-> Num(m), ramp |-> Dur(r), sleep |-> Dur(s)]) :
            c \in {0, 2, 9}, m \in {1, 9}, r \in {0, 3, 9}, s \in {0, 1}}

InputsDef ==
  OneParameter \cup Sleeps \cup Loads \cup
  {Json([cpu |-> Dur(1), workers |-> Num(9), load |-> Text("NaN", 0)]),
   Json([mb |-> Num(1), hold |-> Dur(9), sleep |-> Num(0)]),
   Json([mb |-> Num(2), hold |-> Dur(1), cpu |-> Dur(3), sleep |-> Dur(2)]),
   [body |-> "malformed", query |-> Given(<<>>), json |-> Given(<<>>)]}
=============================================================================
