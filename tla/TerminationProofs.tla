------------------------- MODULE TerminationProofs -------------------------
(***************************************************************************)
(* Proofs about Termination: what the manifest derives agrees with what    *)
(* the runtime reads, for every file and every length of a second.         *)
(***************************************************************************)
EXTENDS Termination, TLAPS, SequenceTheorems, WellFoundedInduction

(* The user's entries follow the runtime's three.                           *)
LEMMA ContainerEnvShape ==
  ASSUME NEW s, s.env \in Envs, s.port \in Int, s.metricsPort \in Int,
         s.shutdownGrace \in Texts
  PROVE  LET c == ContainerEnv(s)
         IN /\ DOMAIN c = 1..(Len(s.env) + 3)
            /\ c[1] = [name |-> "PORT", value |-> Number(s.port)]
            /\ c[2] = [name |-> "METRICS_PORT", value |-> Number(s.metricsPort)]
            /\ c[3] = [name |-> "SHUTDOWN_GRACE", value |-> s.shutdownGrace]
            /\ \A i \in 4..(Len(s.env) + 3) : c[i] = s.env[i - 3]
<1> DEFINE own == << [name |-> "PORT",           value |-> Number(s.port)],
                     [name |-> "METRICS_PORT",   value |-> Number(s.metricsPort)],
                     [name |-> "SHUTDOWN_GRACE", value |-> s.shutdownGrace] >>
           Var == [name : Names, value : Texts]
<1>1. own \in Seq(Var) /\ Len(own) = 3
  <2>1. /\ [name |-> "PORT", value |-> Number(s.port)] \in Var
        /\ [name |-> "METRICS_PORT", value |-> Number(s.metricsPort)] \in Var
        /\ [name |-> "SHUTDOWN_GRACE", value |-> s.shutdownGrace] \in Var
    BY DEF Names, Texts, Number
  <2>. HIDE DEF Var
  <2>. QED  BY <2>1
<1>2. s.env \in Seq(Var)
  BY DEF Envs
<1>3. ContainerEnv(s) = own \o s.env
  BY DEF ContainerEnv
<1>7. /\ own[1] = [name |-> "PORT", value |-> Number(s.port)]
      /\ own[2] = [name |-> "METRICS_PORT", value |-> Number(s.metricsPort)]
      /\ own[3] = [name |-> "SHUTDOWN_GRACE", value |-> s.shutdownGrace]
  OBVIOUS
<1>. HIDE DEF own, Var
<1>4. /\ own \o s.env \in Seq(Var)
      /\ Len(own \o s.env) = 3 + Len(s.env)
      /\ \A i \in 1..(3 + Len(s.env)) :
            (own \o s.env)[i] = IF i <= 3 THEN own[i] ELSE s.env[i - 3]
  BY <1>1, <1>2, ConcatProperties
<1>5. Len(s.env) \in Nat
  BY <1>2
<1>6. DOMAIN (own \o s.env) = 1..(Len(s.env) + 3)
  BY <1>4, <1>5
<1>. QED  BY <1>3, <1>4, <1>5, <1>6, <1>7

(* A variable of the runtime's own that the user does not repeat has the    *)
(* value kfn gave it.                                                       *)
LEMMA OwnEntry ==
  ASSUME NEW s, s.env \in Envs, s.port \in Int, s.metricsPort \in Int,
         s.shutdownGrace \in Texts
  PROVE  /\ Entries(s.env, "PORT") = {}
            => Getenv(ContainerEnv(s), "PORT") = Number(s.port)
         /\ Entries(s.env, "METRICS_PORT") = {}
            => Getenv(ContainerEnv(s), "METRICS_PORT") = Number(s.metricsPort)
         /\ Entries(s.env, "SHUTDOWN_GRACE") = {}
            => Getenv(ContainerEnv(s), "SHUTDOWN_GRACE") = s.shutdownGrace
<1> DEFINE c == ContainerEnv(s)
<1>0. Len(s.env) \in Nat /\ DOMAIN s.env = 1..Len(s.env)
  BY DEF Envs
<1>1. /\ DOMAIN c = 1..(Len(s.env) + 3)
      /\ c[1] = [name |-> "PORT", value |-> Number(s.port)]
      /\ c[2] = [name |-> "METRICS_PORT", value |-> Number(s.metricsPort)]
      /\ c[3] = [name |-> "SHUTDOWN_GRACE", value |-> s.shutdownGrace]
      /\ \A i \in 4..(Len(s.env) + 3) : c[i] = s.env[i - 3]
  BY ContainerEnvShape
<1>. HIDE DEF c
<1>2. ASSUME NEW key, NEW k \in 1..3, c[k].name = key, Entries(s.env, key) = {},
             \A i \in 1..3 : c[i].name = key => i = k
      PROVE  Getenv(c, key) = c[k].value
  <2>1. \A i \in 4..(Len(s.env) + 3) : c[i].name # key
    <3>1. ASSUME NEW i \in 4..(Len(s.env) + 3)  PROVE i - 3 \in DOMAIN s.env
      BY <1>0
    <3>. QED  BY <3>1, <1>1, <1>2 DEF Entries
  <2>2. Entries(c, key) = {k}
    BY <1>0, <1>1, <1>2, <2>1 DEF Entries
  <2>3. (CHOOSE i \in Entries(c, key) : \A j \in Entries(c, key) : j <= i) = k
    BY <2>2
  <2>. QED  BY <2>2, <2>3 DEF Getenv
<1>3. Entries(s.env, "PORT") = {} => Getenv(c, "PORT") = Number(s.port)
  BY <1>1, <1>2
<1>4. Entries(s.env, "METRICS_PORT") = {} => Getenv(c, "METRICS_PORT") = Number(s.metricsPort)
  BY <1>1, <1>2
<1>5. Entries(s.env, "SHUTDOWN_GRACE") = {} => Getenv(c, "SHUTDOWN_GRACE") = s.shutdownGrace
  BY <1>1, <1>2
<1>. QED  BY <1>3, <1>4, <1>5 DEF c

(* Another variable has the value the user gave it, if any.                 *)
LEMMA UserEntry ==
  ASSUME NEW s, s.env \in Envs, s.port \in Int, s.metricsPort \in Int,
         s.shutdownGrace \in Texts,
         \A i, j \in Entries(s.env, "INVOKE_TIMEOUT") : i = j
  PROVE  Getenv(ContainerEnv(s), "INVOKE_TIMEOUT") = Getenv(s.env, "INVOKE_TIMEOUT")
<1> DEFINE c == ContainerEnv(s)
           user == Entries(s.env, "INVOKE_TIMEOUT")
<1>0. Len(s.env) \in Nat /\ DOMAIN s.env = 1..Len(s.env)
  BY DEF Envs
<1>1. /\ DOMAIN c = 1..(Len(s.env) + 3)
      /\ c[1].name = "PORT" /\ c[2].name = "METRICS_PORT" /\ c[3].name = "SHUTDOWN_GRACE"
      /\ \A i \in 4..(Len(s.env) + 3) : c[i] = s.env[i - 3]
  <2>1. /\ DOMAIN c = 1..(Len(s.env) + 3)
        /\ c[1] = [name |-> "PORT", value |-> Number(s.port)]
        /\ c[2] = [name |-> "METRICS_PORT", value |-> Number(s.metricsPort)]
        /\ c[3] = [name |-> "SHUTDOWN_GRACE", value |-> s.shutdownGrace]
        /\ \A i \in 4..(Len(s.env) + 3) : c[i] = s.env[i - 3]
    BY ContainerEnvShape
  <2>. HIDE DEF c
  <2>. QED  BY <2>1
<1>. HIDE DEF c
<1>2. Entries(c, "INVOKE_TIMEOUT") = {i + 3 : i \in user}
  <2>1. ASSUME NEW i \in Entries(c, "INVOKE_TIMEOUT")
        PROVE  i - 3 \in user /\ i = (i - 3) + 3
    BY <1>0, <1>1, <2>1 DEF Entries
  <2>2. ASSUME NEW i \in user  PROVE i + 3 \in Entries(c, "INVOKE_TIMEOUT")
    BY <1>0, <1>1, <2>2 DEF Entries
  <2>. HIDE DEF user
  <2>. QED  BY <2>1, <2>2
<1>3. CASE user = {}
  BY <1>2, <1>3 DEF Getenv, c
<1>4. CASE user # {}
  <2>1. PICK k \in user : TRUE
    BY <1>4
  <2>2. user = {k} /\ k \in 1..Len(s.env)
    BY <1>0, <2>1 DEF Entries
  <2>3. Entries(c, "INVOKE_TIMEOUT") = {k + 3}
    BY <1>2, <2>2
  <2>4. Getenv(c, "INVOKE_TIMEOUT") = c[k + 3].value
    <3>1. (CHOOSE i \in {k + 3} : \A j \in {k + 3} : j <= i) = k + 3
      BY <2>2
    <3>. QED  BY <2>3, <3>1 DEF Getenv
  <2>5. Getenv(s.env, "INVOKE_TIMEOUT") = s.env[k].value
    <3>1. (CHOOSE i \in {k} : \A j \in {k} : j <= i) = k
      BY <2>2
    <3>. QED  BY <2>2, <3>1 DEF Getenv
  <2>6. c[k + 3] = s.env[k]
    BY <1>0, <1>1, <2>2
  <2>. QED  BY <2>4, <2>5, <2>6 DEF c
<1>. QED  BY <1>3, <1>4

(* Rounding up to seconds loses no time.                                    *)
LEMMA CeilCovers ==
  ASSUME NEW d \in Int
  PROVE  Ceil(d) \in Int /\ d <= Ceil(d) * Second
<1> DEFINE q == (d + Second - 1) \div Second
           m == (d + Second - 1) % Second
<1>1. q \in Int /\ m \in 0..(Second - 1) /\ d + Second - 1 = Second * q + m
  BY SecondPositive
<1>2. Second * q = q * Second
  BY <1>1, SecondPositive
<1>3. Second * q \in Int
  BY <1>1, SecondPositive
<1>. HIDE DEF q, m
<1>4. d <= Second * q
  BY <1>1, <1>3, SecondPositive
<1>. QED  BY <1>1, <1>2, <1>4 DEF Ceil, q
(* The last entry of a name exists, so that what Getenv returns is a text.  *)
LEMMA GetenvText ==
  ASSUME NEW env \in Envs, NEW key
  PROVE  Getenv(env, key) \in Texts
<1> DEFINE at == Entries(env, key)
           n  == Len(env)
           distances == {n - i : i \in at}
<1>1. n \in Nat /\ at \subseteq 1..n /\ \A i \in at : env[i].value \in Texts
  <2>1. n \in Nat /\ at \subseteq 1..n
    BY DEF Envs, Entries
  <2>2. ASSUME NEW i \in 1..n  PROVE env[i].value \in Texts
    <3> DEFINE Var == [name : Names, value : Texts]
    <3>1. env \in Seq(Var)
      BY DEF Envs
    <3>. HIDE DEF Var
    <3>2. env[i] \in Var
      BY <3>1
    <3>. QED  BY <3>2 DEF Var
  <2>. QED  BY <2>1, <2>2
<1>2. CASE at = {}
  BY <1>2 DEF Getenv, Empty, Texts
<1>3. CASE at # {}
  <2>. HIDE DEF n, at
  <2>1. distances \subseteq Nat /\ distances # {}
    BY <1>1, <1>3
  <2>2. PICK d \in distances : \A e \in distances : d <= e
    <3>. HIDE DEF distances
    <3>1. PICK d \in distances : \A e \in distances : <<e, d>> \notin OpToRel(<, Nat)
      BY <2>1, WFMin, NatLessThanWellFounded, Zenon
    <3>2. \A e \in distances : ~ (e < d)
      BY <2>1, <3>1, Zenon DEF OpToRel
    <3>3. ASSUME NEW e \in distances  PROVE d <= e
      <4>1. d \in Nat /\ e \in Nat
        BY <2>1, <3>1, <3>3
      <4>. QED  BY <3>2, <3>3, <4>1
    <3>. QED  BY <3>1, <3>3, Zenon
  <2>3. PICK k \in at : d = n - k
    BY <2>2
  <2>4. ASSUME NEW j \in at  PROVE j <= k
    <3>1. n - j \in distances
      OBVIOUS
    <3>2. n - k <= n - j
      BY <2>2, <2>3, <3>1
    <3>. QED  BY <1>1, <2>3, <3>2
  <2>5. (CHOOSE i \in at : \A j \in at : j <= i) \in at
    BY <2>3, <2>4
  <2>. QED  BY <1>1, <1>3, <2>5 DEF Getenv, at
<1>. QED  BY <1>2, <1>3

(* So what loadConfig returns has its type.                                 *)
LEMMA ConfigType ==
  ASSUME NEW env \in Envs
  PROVE  loadConfig(env) \in
           [Port : Texts, MetricsPort : Texts, ShutdownGrace : Int, InvokeTimeout : Int]
<1>1. \A key : Getenv(env, key) \in Texts
  BY GetenvText
<1>2. \A key, d : d \in Texts => envString(env, key, d) \in Texts
  BY <1>1 DEF envString
<1>3. \A key, d : d \in Int => envDuration(env, key, d) \in Int
  BY <1>1 DEF envDuration, Texts
<1>4. Number(8080) \in Texts /\ Number(9090) \in Texts
  BY DEF Number, Texts
<1>5. 15 * Second \in Int /\ 30 * Second \in Int
  BY SecondPositive
<1>. QED  BY <1>2, <1>3, <1>4, <1>5 DEF loadConfig

(* What Load makes of a file, and the environment Render gives it.          *)
LEMMA DefaultedType ==
  ASSUME NEW y \in Yamls
  PROVE  LET s == Defaulted(y)
         IN /\ s.env = y.env /\ s.env \in Envs
            /\ s.port \in Int /\ s.metricsPort \in Int /\ s.replicas \in Int
            /\ s.shutdownGrace =
                 IF y.shutdownGrace.kind = "empty" THEN Duration(15 * Second)
                                                   ELSE y.shutdownGrace
            /\ s.shutdownGrace \in Texts
            /\ Grace(s.shutdownGrace) = Grace(y.shutdownGrace)
            /\ Grace(y.shutdownGrace) \in Int
            /\ s.ingress = y.ingress /\ s.proxyTimeout = y.proxyTimeout
<1>1. 15 * Second \in Int
  BY SecondPositive
<1>. QED  BY <1>1 DEF Defaulted, Yamls, Ints, Empty, Grace, Texts, Duration

LEMMA ContainerEnvType ==
  ASSUME NEW s, s.env \in Envs, s.port \in Int, s.metricsPort \in Int,
         s.shutdownGrace \in Texts
  PROVE  ContainerEnv(s) \in Envs
<1> DEFINE Var == [name : Names, value : Texts]
<1>1. /\ [name |-> "PORT", value |-> Number(s.port)] \in Var
      /\ [name |-> "METRICS_PORT", value |-> Number(s.metricsPort)] \in Var
      /\ [name |-> "SHUTDOWN_GRACE", value |-> s.shutdownGrace] \in Var
  BY DEF Names, Texts, Number
<1>2. s.env \in Seq(Var)
  BY DEF Envs
<1>. HIDE DEF Var
<1>3. << [name |-> "PORT", value |-> Number(s.port)],
         [name |-> "METRICS_PORT", value |-> Number(s.metricsPort)],
         [name |-> "SHUTDOWN_GRACE", value |-> s.shutdownGrace] >> \in Seq(Var)
  BY <1>1
<1>. QED  BY <1>2, <1>3, ConcatProperties DEF ContainerEnv, Envs, Var
-----------------------------------------------------------------------------
(* The objects are those of the file, the configuration is what the runtime *)
(* reads from them, and a drain does not outlive its deadline by more than  *)
(* Lag.                                                                     *)
Derived ==
  /\ pod \in {"none", "rejected"} => object = NoObject
  /\ Applied => Valid(Defaulted(yaml)) /\ object = Render(Defaulted(yaml))
  /\ pod \notin {"none", "rejected", "created"} => config = loadConfig(object.env)
  /\ pod = "failed" => ~ CanListen(config) \/ Privileged(config)

InTime ==
  /\ pod \in {"none", "rejected", "created", "serving"} => clock = 0
  /\ clock <= DrainDeadline + Lag
  /\ pod = "killed" => clock >= KillAt

IInv == TypeOK /\ Derived /\ InTime

Configs == [Port : Texts, MetricsPort : Texts, ShutdownGrace : Int, InvokeTimeout : Int]

LEMMA InitIInv == Init => IInv
<1>. SUFFICES ASSUME Init  PROVE IInv
  OBVIOUS
<1>1. <<>> \in Envs
  BY DEF Envs
<1>2. TypeOK
  <2>1. config \in Configs
    <3>1. loadConfig(<<>>) \in Configs
      BY <1>1, ConfigType, Zenon DEF Configs
    <3>2. config = loadConfig(<<>>)
      BY DEF Init
    <3>. QED  BY <3>1, <3>2, Zenon
  <2>2. /\ yaml \in Files /\ pod = "none" /\ ~ Applied
        /\ clock \in Nat /\ open \in 0..MaxOpen /\ scraping \in BOOLEAN
        /\ exitCode \in {-1, 0, 1}
    <3>1. yaml \in Files /\ pod = "none" /\ exitCode = -1 /\ scraping = FALSE
      BY Zenon DEF Init
    <3>2. clock = 0 /\ open = 0
      BY Zenon DEF Init
    <3>3. clock \in Nat /\ open \in 0..MaxOpen
      BY <3>2, MaxOpenIsNat
    <3>. QED  BY <3>1, <3>3 DEF Applied
  <2>3. object.killAfter \in Int
    BY DEF Init, NoObject
  <2>4. pod \in {"none", "rejected", "created", "serving", "draining", "stopping",
                "exited", "failed", "killed"}
    BY <2>2
  <2>. QED  BY <2>1, <2>2, <2>3, <2>4, Zenon DEF TypeOK, Configs
<1>3. Derived
  BY DEF Init, Derived, Applied
<1>4. InTime
  <2>1. config.ShutdownGrace \in Int
    BY <1>2 DEF TypeOK
  <2>2. DrainDeadline >= 0
    BY <2>1 DEF DrainDeadline
  <2>. QED  BY <2>1, <2>2, LagIsShort DEF Init, InTime, DrainDeadline
<1>. QED  BY <1>2, <1>3, <1>4 DEF IInv

(* The objects of a file that is applied.                                   *)
LEMMA RenderType ==
  ASSUME yaml \in Files, Valid(Defaulted(yaml))
  PROVE  LET o == Render(Defaulted(yaml))
         IN /\ o.env \in Envs
            /\ o.killAfter = Ceil(Grace(yaml.shutdownGrace)) + 5
            /\ o.killAfter \in Int
            /\ o.httpPort \in 1..MaxPort /\ o.replicas \in Nat
<1> DEFINE s == Defaulted(yaml)
<1>1. yaml \in Yamls
  BY FilesAreYamls
<1>2. /\ s.env \in Envs /\ s.port \in Int /\ s.metricsPort \in Int
      /\ s.replicas \in Int /\ s.shutdownGrace \in Texts
      /\ Grace(s.shutdownGrace) = Grace(yaml.shutdownGrace)
      /\ Grace(yaml.shutdownGrace) \in Int
  BY <1>1, DefaultedType
<1>3. ContainerEnv(s) \in Envs
  <2>. HIDE DEF s
  <2>. QED  BY <1>2, ContainerEnvType
<1>4. Ceil(Grace(yaml.shutdownGrace)) \in Int
  BY <1>2, CeilCovers
<1>5. s.port \in 1..MaxPort /\ s.replicas >= 0
  BY DEF Valid
<1>. HIDE DEF s
<1>6. Render(s).killAfter = Ceil(Grace(yaml.shutdownGrace)) + 5
  BY <1>2 DEF Render, TerminationGracePeriodSeconds
<1>7. /\ Render(s).env = ContainerEnv(s)
      /\ Render(s).httpPort = s.port
      /\ Render(s).replicas = s.replicas
  BY DEF Render
<1>. QED  BY <1>2, <1>3, <1>4, <1>5, <1>6, <1>7 DEF s

(* What the steps of a pod that has started have in common.                 *)
Running == {"serving", "draining", "stopping", "exited", "killed"}

(* The parts of TypeOK.                                                     *)
LEMMA TypeParts ==
  ASSUME TypeOK
  PROVE  /\ yaml \in Files /\ yaml \in Yamls
         /\ config \in Configs /\ config.ShutdownGrace \in Int
         /\ clock \in Nat /\ open \in 0..MaxOpen /\ scraping \in BOOLEAN
         /\ exitCode \in {-1, 0, 1}
         /\ object.killAfter \in Int
         /\ DrainDeadline \in Nat
<1>1. /\ yaml \in Files /\ config \in Configs
      /\ clock \in Nat /\ open \in 0..MaxOpen /\ scraping \in BOOLEAN
      /\ exitCode \in {-1, 0, 1}
      /\ object.killAfter \in Int
  BY Zenon DEF TypeOK, Configs
<1>2. config.ShutdownGrace \in Int
  BY <1>1 DEF Configs
<1>3. DrainDeadline \in Nat
  BY <1>2 DEF DrainDeadline
<1>4. yaml \in Yamls
  BY <1>1, FilesAreYamls
<1>. QED  BY <1>1, <1>2, <1>3, <1>4

LEMMA RunningStep ==
  ASSUME TypeOK, Derived, UNCHANGED <<yaml, object, config>>,
         pod \in Running, pod' \in Running, clock' \in Nat, open' \in 0..MaxOpen,
         scraping' \in BOOLEAN, exitCode' \in {-1, 0, 1}
  PROVE  /\ TypeOK' /\ Derived'
         /\ DrainDeadline' = DrainDeadline
         /\ KillAt' = KillAt
<1>1. Applied /\ Applied'
  BY DEF Applied, Running
<1>2. TypeOK'
  <2>1. /\ yaml' = yaml /\ object' = object /\ config' = config
    OBVIOUS
  <2>2. pod' \in {"none", "rejected", "created", "serving", "draining", "stopping",
                  "exited", "failed", "killed"}
    BY DEF Running
  <2>3. /\ yaml \in Files /\ config \in Configs /\ object.killAfter \in Int
        /\ object.httpPort \in 1..MaxPort /\ object.replicas \in Nat
    BY <1>1, Zenon DEF TypeOK, Configs
  <2>4. /\ yaml' \in Files /\ config' \in Configs /\ object'.killAfter \in Int
        /\ object'.httpPort \in 1..MaxPort /\ object'.replicas \in Nat
    BY <2>1, <2>3
  <2>. QED  BY <2>2, <2>4, Zenon DEF TypeOK, Configs
<1>3. Derived'
  <2>1. /\ pod \notin {"none", "rejected", "created", "failed"}
        /\ pod' \notin {"none", "rejected", "created", "failed"}
    BY DEF Running
  <2>2. /\ Valid(Defaulted(yaml)) /\ object = Render(Defaulted(yaml))
        /\ config = loadConfig(object.env)
    BY <1>1, <2>1 DEF Derived
  <2>3. /\ Valid(Defaulted(yaml')) /\ object' = Render(Defaulted(yaml'))
        /\ config' = loadConfig(object'.env)
    BY <2>2
  <2>. QED  BY <2>1, <2>3 DEF Derived
<1>4. DrainDeadline' = DrainDeadline /\ KillAt' = KillAt
  BY DEF DrainDeadline, KillAt
<1>. QED  BY <1>2, <1>3, <1>4

LEMMA NextIInv == IInv /\ [Next]_vars => IInv'
<1>. SUFFICES ASSUME IInv, [Next]_vars  PROVE IInv'
  OBVIOUS
<1>0. TypeOK /\ Derived /\ InTime
  BY DEF IInv
<1>. SUFFICES TypeOK' /\ Derived' /\ InTime'
  BY DEF IInv
<1>a. /\ clock \in Nat /\ open \in 0..MaxOpen /\ config.ShutdownGrace \in Int
      /\ scraping \in BOOLEAN /\ exitCode \in {-1, 0, 1}
      /\ DrainDeadline \in Nat /\ Lag \in Nat /\ MaxOpen \in Nat
      /\ clock <= DrainDeadline + Lag
  BY <1>0, TypeParts, LagIsShort, MaxOpenIsNat DEF InTime
<1>1. CASE Reject
  <2>1. /\ pod = "none" /\ pod' = "rejected"
        /\ UNCHANGED <<yaml, object, config, clock, open, scraping, exitCode>>
    BY <1>1 DEF Reject
  <2>2. TypeOK'
    BY <1>0, <2>1 DEF TypeOK, Applied
  <2>3. Derived'
    BY <1>0, <2>1 DEF Derived, Applied
  <2>4. InTime'
    BY <1>0, <2>1 DEF InTime, DrainDeadline
  <2>. QED  BY <2>2, <2>3, <2>4
<1>2. CASE Apply
  <2>1. /\ object' = Render(Defaulted(yaml)) /\ Valid(Defaulted(yaml)) /\ pod' = "created"
        /\ UNCHANGED <<yaml, config, clock, open, scraping, exitCode>> /\ pod = "none"
    BY <1>2 DEF Apply
  <2>2. /\ object'.killAfter \in Int
        /\ object'.httpPort \in 1..MaxPort /\ object'.replicas \in Nat
    BY <1>0, <2>1, RenderType, TypeParts
  <2>3. TypeOK'
    <3>1. /\ yaml' \in Files /\ config' \in Configs /\ clock' \in Nat
          /\ open' \in 0..MaxOpen /\ scraping' \in BOOLEAN /\ exitCode' \in {-1, 0, 1}
      BY <1>0, <2>1, TypeParts
    <3>2. pod' \in {"none", "rejected", "created", "serving", "draining", "stopping",
                    "exited", "failed", "killed"}
      BY <2>1
    <3>. QED  BY <2>2, <3>1, <3>2, Zenon DEF TypeOK, Configs
  <2>4. Derived'
    BY <2>1 DEF Derived, Applied
  <2>5. InTime'
    BY <1>0, <2>1 DEF InTime, DrainDeadline
  <2>. QED  BY <2>3, <2>4, <2>5
<1>3. CASE Start
  <2>1. /\ config' = loadConfig(object.env) /\ pod = "created"
        /\ UNCHANGED <<yaml, object, clock, open, scraping>>
        /\ \/ pod' = "serving" /\ exitCode' = exitCode
           \/ /\ pod' = "failed" /\ exitCode' = 1
              /\ ~ CanListen(config') \/ Privileged(config')
    BY <1>3 DEF Start
  <2>2. object.env \in Envs
    BY <1>0, <2>1, RenderType, TypeParts DEF Derived, Applied
  <2>3. config' \in [Port : Texts, MetricsPort : Texts, ShutdownGrace : Int, InvokeTimeout : Int]
    BY <2>1, <2>2, ConfigType
  <2>4. TypeOK'
    <3>1. Applied
      BY <2>1 DEF Applied
    <3>2. /\ object.httpPort \in 1..MaxPort /\ object.replicas \in Nat
      BY <1>0, <3>1, Zenon DEF TypeOK
    <3>3. /\ yaml' \in Files /\ clock' \in Nat /\ open' \in 0..MaxOpen
          /\ scraping' \in BOOLEAN /\ object'.killAfter \in Int
          /\ object'.httpPort \in 1..MaxPort /\ object'.replicas \in Nat
      BY <1>0, <2>1, <3>2, TypeParts
    <3>4. exitCode' \in {-1, 0, 1}
      BY <1>0, <2>1, TypeParts
    <3>5. pod' \in {"none", "rejected", "created", "serving", "draining", "stopping",
                    "exited", "failed", "killed"}
      BY <2>1
    <3>. QED  BY <2>3, <3>3, <3>4, <3>5, Zenon DEF TypeOK
  <2>5. Derived'
    BY <1>0, <2>1 DEF Derived, Applied
  <2>6. InTime'
    <3>1. clock' = 0 /\ pod' # "killed"
      BY <1>0, <2>1 DEF InTime
    <3>2. config'.ShutdownGrace \in Int
      BY <2>3
    <3>. QED  BY <1>a, <3>1, <3>2 DEF InTime, DrainDeadline
  <2>. QED  BY <2>4, <2>5, <2>6
<1>4. CASE BeginRequest
  <2>1. /\ pod = "serving" /\ open' \in 0..MaxOpen
        /\ UNCHANGED <<yaml, object, config, pod, clock, scraping, exitCode>>
    BY <1>4, <1>a DEF BeginRequest
  <2>2. TypeOK' /\ Derived' /\ DrainDeadline' = DrainDeadline /\ KillAt' = KillAt
    BY <1>0, <1>a, <2>1, RunningStep DEF Running
  <2>3. InTime'
    BY <1>0, <1>a, <2>1, <2>2 DEF InTime
  <2>. QED  BY <2>2, <2>3
<1>5. CASE EndRequest
  <2>1. /\ pod \in {"serving", "draining"} /\ open' \in 0..MaxOpen
        /\ UNCHANGED <<yaml, object, config, pod, clock, scraping, exitCode>>
    BY <1>5, <1>a DEF EndRequest
  <2>2. TypeOK' /\ Derived' /\ DrainDeadline' = DrainDeadline /\ KillAt' = KillAt
    BY <1>0, <1>a, <2>1, RunningStep DEF Running
  <2>3. InTime'
    BY <1>0, <1>a, <2>1, <2>2 DEF InTime
  <2>. QED  BY <2>2, <2>3
<1>6. CASE BeginScrape
  <2>1. /\ pod \in {"serving", "draining"} /\ scraping' \in BOOLEAN
        /\ UNCHANGED <<yaml, object, config, pod, clock, open, exitCode>>
    BY <1>6, <1>a DEF BeginScrape
  <2>2. TypeOK' /\ Derived' /\ DrainDeadline' = DrainDeadline /\ KillAt' = KillAt
    BY <1>0, <1>a, <2>1, RunningStep DEF Running
  <2>3. InTime'
    BY <1>0, <1>a, <2>1, <2>2 DEF InTime
  <2>. QED  BY <2>2, <2>3
<1>7. CASE EndScrape
  <2>1. /\ pod \in {"serving", "draining", "stopping"} /\ scraping' \in BOOLEAN
        /\ UNCHANGED <<yaml, object, config, pod, clock, open, exitCode>>
    BY <1>7, <1>a DEF EndScrape
  <2>2. TypeOK' /\ Derived' /\ DrainDeadline' = DrainDeadline /\ KillAt' = KillAt
    BY <1>0, <1>a, <2>1, RunningStep DEF Running
  <2>3. InTime'
    BY <1>0, <1>a, <2>1, <2>2 DEF InTime
  <2>. QED  BY <2>2, <2>3
<1>8. CASE Terminate
  <2>1. /\ pod = "serving" /\ pod' = "draining"
        /\ UNCHANGED <<yaml, object, config, clock, open, scraping, exitCode>>
    BY <1>8, <1>a DEF Terminate
  <2>2. TypeOK' /\ Derived' /\ DrainDeadline' = DrainDeadline /\ KillAt' = KillAt
    BY <1>0, <1>a, <2>1, RunningStep DEF Running
  <2>3. InTime'
    BY <1>0, <1>a, <2>1, <2>2 DEF InTime
  <2>. QED  BY <2>2, <2>3
<1>9. CASE Drained
  <2>1. /\ pod = "draining" /\ pod' = "stopping"
        /\ UNCHANGED <<yaml, object, config, clock, open, scraping, exitCode>>
    BY <1>9, <1>a DEF Drained
  <2>2. TypeOK' /\ Derived' /\ DrainDeadline' = DrainDeadline /\ KillAt' = KillAt
    BY <1>0, <1>a, <2>1, RunningStep DEF Running
  <2>3. InTime'
    BY <1>0, <1>a, <2>1, <2>2 DEF InTime
  <2>. QED  BY <2>2, <2>3
<1>10. CASE DrainFails
  <2>1. /\ pod = "draining" /\ pod' = "exited" /\ exitCode' = 1
        /\ UNCHANGED <<yaml, object, config, clock, open, scraping>>
    BY <1>10, <1>a DEF DrainFails
  <2>2. TypeOK' /\ Derived' /\ DrainDeadline' = DrainDeadline /\ KillAt' = KillAt
    BY <1>0, <1>a, <2>1, RunningStep DEF Running
  <2>3. InTime'
    BY <1>0, <1>a, <2>1, <2>2 DEF InTime
  <2>. QED  BY <2>2, <2>3
<1>11. CASE MetricsStopped
  <2>1. /\ pod = "stopping" /\ pod' = "exited" /\ exitCode' = 0
        /\ UNCHANGED <<yaml, object, config, clock, open, scraping>>
    BY <1>11, <1>a DEF MetricsStopped
  <2>2. TypeOK' /\ Derived' /\ DrainDeadline' = DrainDeadline /\ KillAt' = KillAt
    BY <1>0, <1>a, <2>1, RunningStep DEF Running
  <2>3. InTime'
    BY <1>0, <1>a, <2>1, <2>2 DEF InTime
  <2>. QED  BY <2>2, <2>3
<1>12. CASE Tick
  <2>1. /\ pod \in {"draining", "stopping"} /\ clock' = clock + 1
        /\ clock' <= DrainDeadline + Lag
        /\ UNCHANGED <<yaml, object, config, pod, open, scraping, exitCode>>
    BY <1>12, <1>a DEF Tick
  <2>2. TypeOK' /\ Derived' /\ DrainDeadline' = DrainDeadline /\ KillAt' = KillAt
    BY <1>0, <1>a, <2>1, RunningStep DEF Running
  <2>3. InTime'
    BY <1>0, <1>a, <2>1, <2>2 DEF InTime
  <2>. QED  BY <2>2, <2>3
<1>13. CASE Kill
  <2>1. /\ pod \in {"draining", "stopping"} /\ pod' = "killed" /\ clock >= KillAt
        /\ UNCHANGED <<yaml, object, config, clock, open, scraping, exitCode>>
    BY <1>13, <1>a DEF Kill, Terminating
  <2>2. TypeOK' /\ Derived' /\ DrainDeadline' = DrainDeadline /\ KillAt' = KillAt
    BY <1>0, <1>a, <2>1, RunningStep DEF Running
  <2>3. InTime'
    BY <1>0, <1>a, <2>1, <2>2 DEF InTime
  <2>. QED  BY <2>2, <2>3
<1>14. CASE UNCHANGED vars
  <2>1. UNCHANGED <<yaml, object, config, pod, clock, open, scraping, exitCode>>
    BY <1>14 DEF vars
  <2>2. TypeOK'
    BY <1>0, <2>1 DEF TypeOK, Applied
  <2>3. Derived'
    BY <1>0, <2>1 DEF Derived, Applied
  <2>4. InTime'
    BY <1>0, <2>1 DEF InTime, DrainDeadline, KillAt
  <2>. QED  BY <2>2, <2>3, <2>4
<1>. QED
  BY <1>1, <1>2, <1>3, <1>4, <1>5, <1>6, <1>7, <1>8, <1>9, <1>10, <1>11, <1>12, <1>13,
     <1>14 DEF Next

(* The invariant holds for every set of files.                              *)
THEOREM Invariance == Spec => []IInv
BY InitIInv, NextIInv, PTL DEF Spec

(* Types are kept, and only validated files reach the cluster.              *)
THEOREM TypeCorrect == Spec => []TypeOK
<1>1. IInv => TypeOK
  BY DEF IInv
<1>. QED  BY <1>1, Invariance, PTL

(* The kubelet never kills a pod that drains by the grace it was given.     *)
THEOREM NotKilled == Spec => []NeverKilledByDerivation
<1>1. IInv => NeverKilledByDerivation
  <2>. SUFFICES ASSUME IInv, pod = "killed", Entries(yaml.env, "SHUTDOWN_GRACE") = {},
                       ~ (Grace(yaml.shutdownGrace) < 0)
                PROVE  FALSE
    BY DEF NeverKilledByDerivation, Repeats
  <2> DEFINE s == Defaulted(yaml)
             g == Grace(yaml.shutdownGrace)
  <2>1. /\ yaml \in Files /\ yaml \in Yamls
        /\ Valid(s) /\ object = Render(s) /\ config = loadConfig(object.env)
        /\ clock >= KillAt /\ clock <= DrainDeadline + Lag /\ clock \in Nat
    BY TypeParts DEF IInv, Derived, InTime, Applied
  <2>2. /\ s.env = yaml.env /\ s.env \in Envs /\ s.port \in Int /\ s.metricsPort \in Int
        /\ s.shutdownGrace \in Texts /\ s.shutdownGrace.kind # "empty"
        /\ Grace(s.shutdownGrace) = g /\ g \in Int
    BY <2>1, DefaultedType DEF Duration
  <2>3. object.killAfter = Ceil(g) + 5 /\ object.env = ContainerEnv(s)
    BY <2>1, RenderType DEF Render
  <2>. HIDE DEF s, g
  <2>4. Getenv(object.env, "SHUTDOWN_GRACE") = s.shutdownGrace
    BY <2>2, <2>3, OwnEntry
  <2>5. config.ShutdownGrace = g
    BY <2>1, <2>2, <2>4 DEF loadConfig, envDuration, Grace
  <2>6. DrainDeadline = g
    BY <2>2, <2>5 DEF DrainDeadline, g
  <2>7. Ceil(g) \in Int /\ g <= Ceil(g) * Second
    BY <2>2, CeilCovers
  <2>8. KillAt = Ceil(g) * Second + 5 * Second
    BY <2>3, <2>7, SecondPositive DEF KillAt
  <2>9. Ceil(g) * Second \in Int
    BY <2>7, SecondPositive
  <2>. QED  BY <2>1, <2>2, <2>6, <2>7, <2>8, <2>9, LagIsShort, SecondPositive
<1>. QED  BY <1>1, Invariance, PTL
(* nginx outlasts the runtime, for every text of INVOKE_TIMEOUT.            *)
THEOREM EdgeOutlasts == Spec => []EdgeOutlastsRuntime
<1>1. IInv => EdgeOutlastsRuntime
  <2>. SUFFICES ASSUME IInv, pod = "serving", yaml.ingress,
                       yaml.proxyTimeout.kind = "empty", config.InvokeTimeout > 0,
                       \A i, j \in Entries(yaml.env, "INVOKE_TIMEOUT") : i = j
                PROVE  object.proxy.n * Second > config.InvokeTimeout
    BY DEF EdgeOutlastsRuntime
  <2> DEFINE s == Defaulted(yaml)
             at == Entries(yaml.env, "INVOKE_TIMEOUT")
             t == Getenv(yaml.env, "INVOKE_TIMEOUT")
  <2>1. /\ yaml \in Files /\ yaml \in Yamls
        /\ Valid(s) /\ object = Render(s) /\ config = loadConfig(object.env)
    BY TypeParts DEF IInv, Derived, Applied
  <2>2. /\ s.env = yaml.env /\ s.env \in Envs /\ s.port \in Int /\ s.metricsPort \in Int
        /\ s.shutdownGrace \in Texts
        /\ s.ingress = yaml.ingress /\ s.proxyTimeout = yaml.proxyTimeout
    BY <2>1, DefaultedType
  <2>3. t \in Texts
    BY <2>2, GetenvText
  <2>. HIDE DEF s
  <2>4. object.env = ContainerEnv(s) /\ object.proxy = Number(invokeTimeoutSeconds(yaml.env) + 30)
    BY <2>1, <2>2 DEF Render, ProxyTimeout
  <2>5. Getenv(object.env, "INVOKE_TIMEOUT") = t
    BY <2>2, <2>4, UserEntry
  <2>6. config.InvokeTimeout = IF t.kind = "duration" THEN t.n ELSE 30 * Second
    <3>. HIDE DEF t
    <3>. QED  BY <2>1, <2>5 DEF loadConfig, envDuration
  <2>7. ASSUME t.kind = "duration", t.n > 0
        PROVE  invokeTimeoutSeconds(yaml.env) = Ceil(t.n)
    <3>1. at # {}
      BY <2>7 DEF Getenv, Empty
    <3>2. PICK k \in at : TRUE
      BY <3>1
    <3>3. at = {k} /\ k \in Nat
      BY <2>2, <3>2 DEF Entries, Envs
    <3>4. t = yaml.env[k].value
      <4>1. (CHOOSE i \in {k} : \A j \in {k} : j <= i) = k
        BY <3>3
      <4>. QED  BY <3>1, <3>3, <4>1 DEF Getenv
    <3>5. PositiveTimeouts(yaml.env) = {k}
      BY <2>7, <3>3, <3>4 DEF PositiveTimeouts
    <3>6. (CHOOSE i \in {k} : \A j \in {k} : i <= j) = k
      BY <3>3
    <3>. QED  BY <3>4, <3>5, <3>6 DEF invokeTimeoutSeconds
  <2>8. ASSUME t.kind # "duration"  PROVE invokeTimeoutSeconds(yaml.env) = 30
    <3>1. ASSUME NEW k \in PositiveTimeouts(yaml.env)  PROVE FALSE
      <4>1. k \in at /\ yaml.env[k].value.kind = "duration"
        BY DEF PositiveTimeouts
      <4>2. at = {k} /\ k \in Nat
        BY <2>2, <4>1 DEF Entries, Envs
      <4>3. (CHOOSE i \in {k} : \A j \in {k} : j <= i) = k
        BY <4>2
      <4>4. t = yaml.env[k].value
        BY <4>2, <4>3 DEF Getenv
      <4>. QED  BY <2>8, <4>1, <4>4
    <3>. QED  BY <3>1 DEF invokeTimeoutSeconds
  <2>. HIDE DEF t, at
  <2>9. CASE t.kind = "duration"
    <3>1. t.n \in Int /\ config.InvokeTimeout = t.n /\ t.n > 0
      BY <2>3, <2>6, <2>9 DEF Texts
    <3>2. Ceil(t.n) \in Int /\ t.n <= Ceil(t.n) * Second
      BY <3>1, CeilCovers
    <3>3. object.proxy.n = Ceil(t.n) + 30
      BY <2>4, <2>7, <2>9, <3>1 DEF Number
    <3>4. object.proxy.n * Second = Ceil(t.n) * Second + 30 * Second
      BY <3>2, <3>3, SecondPositive
    <3>5. Ceil(t.n) * Second \in Int
      BY <3>2, SecondPositive
    <3>. QED  BY <3>1, <3>2, <3>4, <3>5, SecondPositive
  <2>10. CASE t.kind # "duration"
    BY <2>4, <2>6, <2>8, <2>10, SecondPositive DEF Number
  <2>. QED  BY <2>9, <2>10
<1>. QED  BY <1>1, Invariance, PTL

(* A file that loads gives a pod that starts, on its port, but for ports    *)
(* that its user may not have.                                              *)
THEOREM Starts == Spec => []StartsOnItsPort
<1>1. IInv => StartsOnItsPort
  <2>. SUFFICES ASSUME IInv, Applied, Entries(yaml.env, "PORT") = {},
                       Entries(yaml.env, "METRICS_PORT") = {}, pod # "created"
                PROVE  /\ pod = "failed" => Privileged(config)
                       /\ config.Port = Number(object.httpPort)
    BY DEF StartsOnItsPort, Repeats
  <2> DEFINE s == Defaulted(yaml)
  <2>1. /\ yaml \in Files /\ yaml \in Yamls
        /\ Valid(s) /\ object = Render(s) /\ config = loadConfig(object.env)
        /\ pod = "failed" => ~ CanListen(config) \/ Privileged(config)
    BY TypeParts DEF IInv, Derived, Applied
  <2>2. /\ s.env = yaml.env /\ s.env \in Envs /\ s.port \in Int /\ s.metricsPort \in Int
        /\ s.shutdownGrace \in Texts
    BY <2>1, DefaultedType
  <2>. HIDE DEF s
  <2>3. object.env = ContainerEnv(s) /\ object.httpPort = s.port
    BY <2>1 DEF Render
  <2>4. /\ Getenv(object.env, "PORT") = Number(s.port)
        /\ Getenv(object.env, "METRICS_PORT") = Number(s.metricsPort)
    BY <2>2, <2>3, OwnEntry
  <2>5. config.Port = Number(s.port) /\ config.MetricsPort = Number(s.metricsPort)
    BY <2>1, <2>4 DEF loadConfig, envString, Number
  <2>6. CanListen(config)
    <3>1. s.port \in 1..MaxPort /\ s.metricsPort \in 1..MaxPort /\ s.metricsPort # s.port
      BY <2>1 DEF Valid
    <3>2. MaxPort \in Nat
      BY SMT DEF MaxPort
    <3>. QED  BY <2>2, <2>5, <3>1, <3>2 DEF CanListen, Port, Number
  <2>. QED  BY <2>1, <2>3, <2>5, <2>6
<1>. QED  BY <1>1, Invariance, PTL
-----------------------------------------------------------------------------
(* In time, too, a clean exit comes only from a drain that waited for every *)
(* request and took no new one.                                             *)
THEOREM GracefulStopImplemented == Spec => ImplementsGracefulStop
<1>1. Init => G!Init
  <2>. SUFFICES ASSUME Init  PROVE G!Init
    OBVIOUS
  <2>1. pod = "none" /\ open = 0
    BY DEF Init
  <2>2. 1..open = {}
    BY <2>1
  <2>. QED  BY <2>1, <2>2 DEF G!Init, Stage
<1>2. IInv /\ [Next]_vars => [G!Next]_(G!vars)
  <2>. SUFFICES ASSUME IInv, [Next]_vars  PROVE [G!Next]_(G!vars)
    OBVIOUS
  <2>. DEFINE Goal == [G!Next]_(G!vars)
  <2>0. open \in 0..MaxOpen /\ MaxOpen \in Nat
    BY TypeParts, MaxOpenIsNat DEF IInv
  <2>1. ASSUME UNCHANGED <<open, Stage>>  PROVE Goal
    BY <2>1 DEF G!vars
  <2>2. CASE Reject
    BY <2>1, <2>2 DEF Reject, Stage
  <2>3. CASE Apply
    BY <2>1, <2>3 DEF Apply, Stage
  <2>4. CASE Start
    <3>1. Stage = "up" /\ open' = open
      BY <2>4 DEF Start, Stage
    <3>2. CASE pod' = "serving"
      BY <2>1, <3>1, <3>2 DEF Stage
    <3>3. CASE pod' = "failed"
      <4>1. G!Cut  BY <3>1, <3>3 DEF Stage, G!Cut
      <4>. QED  BY <4>1 DEF G!Next
    <3>. QED  BY <2>4, <3>2, <3>3 DEF Start
  <2>5. CASE BeginRequest
    <3>1. Stage = "up" /\ Stage' = Stage /\ open' = open + 1 /\ open < MaxOpen
      BY <2>5 DEF BeginRequest, Stage
    <3>2. /\ open + 1 \in 1..MaxOpen /\ open + 1 \notin 1..open
          /\ 1..open' = (1..open) \cup {open + 1}
      BY <2>0, <3>1
    <3>3. G!Begin(open + 1)  BY <3>1, <3>2 DEF G!Begin
    <3>. QED  BY <3>2, <3>3 DEF G!Next
  <2>6. CASE EndRequest
    <3>1. /\ Stage \in {"up", "draining"} /\ Stage' = Stage
          /\ open' = open - 1 /\ open > 0
      BY <2>6 DEF EndRequest, Stage
    <3>2. open \in 1..MaxOpen /\ open \in 1..open /\ 1..open' = (1..open) \ {open}
      BY <2>0, <3>1
    <3>3. G!End(open)  BY <3>1, <3>2 DEF G!End
    <3>. QED  BY <3>2, <3>3 DEF G!Next
  <2>7. CASE BeginScrape \/ EndScrape \/ Tick
    BY <2>1, <2>7 DEF BeginScrape, EndScrape, Tick, Stage
  <2>8. CASE Terminate
    <3>1. G!Drain  BY <2>8 DEF Terminate, Stage, G!Drain
    <3>. QED  BY <3>1 DEF G!Next
  <2>9. CASE Drained
    <3>1. Stage = "draining" /\ Stage' = "drained" /\ open = 0 /\ open' = 0
      BY <2>9 DEF Drained, Stage
    <3>2. 1..open = {}  BY <3>1
    <3>3. G!Drained  BY <3>1, <3>2 DEF G!Drained
    <3>. QED  BY <3>3 DEF G!Next
  <2>10. CASE DrainFails
    <3>1. G!Cut  BY <2>10 DEF DrainFails, Stage, G!Cut
    <3>. QED  BY <3>1 DEF G!Next
  <2>11. CASE MetricsStopped
    <3>1. G!Exit  BY <2>11 DEF MetricsStopped, Stage, G!Exit
    <3>. QED  BY <3>1 DEF G!Next
  <2>12. CASE Kill
    <3>1. G!Cut  BY <2>12 DEF Kill, Terminating, Stage, G!Cut
    <3>. QED  BY <3>1 DEF G!Next
  <2>13. CASE UNCHANGED vars
    BY <2>1, <2>13 DEF vars, Stage
  <2>. QED
    BY <2>2, <2>3, <2>4, <2>5, <2>6, <2>7, <2>8, <2>9, <2>10, <2>11, <2>12, <2>13
       DEF Next
<1>. QED  BY <1>1, <1>2, Invariance, PTL DEF Spec, ImplementsGracefulStop, G!Spec
=============================================================================
