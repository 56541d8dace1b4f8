--------------------------- MODULE MCTermination ----------------------------
(***************************************************************************)
(* Small instances of Termination for TLC: a second is two units of time.  *)
(***************************************************************************)
EXTENDS Termination

Hello == [name |-> "valid", image |-> "set", port |-> Empty, replicas |-> Empty,
          shutdownGrace |-> Empty, env |-> <<>>,
          ingress |-> FALSE, host |-> "unset", proxyTimeout |-> Empty,
          monitoring |-> "unset", metricsPort |-> Empty]

Var(key, value) == [name |-> key, value |-> value]

Numbers(S) == {Empty} \cup {Number(n) : n \in S}

DurationTexts == {Empty, Word, Number(15)} \cup {Duration(n) : n \in {-11, -1, 0, 1, 3, 4}}

(* shutdownGrace in every form, given again in env or not.                  *)
GraceFiles ==
  {[Hello EXCEPT !.shutdownGrace = t, !.env = e] :
     t \in DurationTexts,
     e \in {<<>>, <<Var("OTHER", Word)>>, <<Var("SHUTDOWN_GRACE", Duration(40))>>}}

(* INVOKE_TIMEOUT absent, in every form, and twice, behind an Ingress.      *)
TimeoutFiles ==
  {[Hello EXCEPT !.ingress = TRUE, !.proxyTimeout = p, !.env = e] :
     p \in {Empty, Number(5)},
     e \in {<<>>} \cup {<<Var("INVOKE_TIMEOUT", t)>> : t \in DurationTexts}
             \cup {<<Var("INVOKE_TIMEOUT", Duration(3)), Var("INVOKE_TIMEOUT", Duration(200))>>}}

(* Ports that are absent, at and beyond their bounds, privileged, equal, and*)
(* given again; replicas; files with other mistakes.                        *)
PortFiles ==
  {[Hello EXCEPT !.port = p, !.metricsPort = q, !.monitoring = m, !.env = e] :
     p \in Numbers({-1, 0, 80, 9090, 65535, 65536}), q \in Numbers({8080, 65535}),
     m \in {"unset", "false"},
     e \in {<<>>, <<Var("PORT", Number(9090))>>, <<Var("METRICS_PORT", Duration(1))>>}}

ReplicaFiles == {[Hello EXCEPT !.replicas = t] : t \in Numbers({-1, 0, 2})}

BadFiles ==
  {[Hello EXCEPT !.name = "unset"], [Hello EXCEPT !.image = "unset"],
   [Hello EXCEPT !.ingress = TRUE, !.host = "invalid"]}

MCFiles == GraceFiles \cup TimeoutFiles \cup PortFiles \cup ReplicaFiles
           \cup BadFiles
=============================================================================
