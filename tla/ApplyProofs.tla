---------------------------- MODULE ApplyProofs -----------------------------
(***************************************************************************)
(* What holds of kfn apply however many run it, on whatever files and      *)
(* namespaces.                                                             *)
(***************************************************************************)
EXTENDS Apply, SequenceTheorems, TLAPS

Handing(c) == at[c] \in {"apply", "post", "patch"}

(* Of a run nothing came in the way of, what it saw last still holds.       *)
Smooth(c) ==
  Active(c) /\ met[c] = {} =>
    /\ ~ failed[c]
    /\ at[c] = "create" => Wanted(c) \notin namespaces
    /\ Handing(c) => Wanted(c) \in namespaces
    /\ at[c] = "post"  => objects[Place(c)][Kind(c)] = "none"
    /\ at[c] = "patch" => objects[Place(c)][Kind(c)] # "none"

(* If no other changed the cluster and no object failed, what lies behind   *)
(* the place kubectl has come to is applied.                                *)
BehindApplied(c) ==
  Handing(c) /\ met[c] \subseteq {"fault"} /\ ~ failed[c] =>
    /\ Wanted(c) \in namespaces
    /\ \A i \in 1..Len(Objects(c)) :
         i < pos[c] => objects[Wanted(c)][Objects(c)[i]] = command[c].file.content

(* The bookkeeping of runs: those under way at once know of each other, one *)
(* past its first step has a valid file, kubectl apply begins at the first  *)
(* object, and between a look and a write there is an object to write.      *)
Together == \A c, d \in Clients : c # d /\ Active(c) /\ Active(d) => "run" \in met[c]

Underway(c) ==
  /\ Active(c) => exit[c] = "none"
  /\ at[c] \notin {"idle", "load"} => command[c].file.valid
  /\ ~ Handing(c) => pos[c] = 1 /\ ~ failed[c]
  /\ at[c] \in {"post", "patch"} => More(c)

ApplyInv ==
  /\ TypeOK
  /\ Together
  /\ \A c \in Clients : Underway(c) /\ Smooth(c) /\ BehindApplied(c)
  /\ NothingUnasked
  /\ FailureHasACause
-----------------------------------------------------------------------------
(* The objects of a file are two to four, each of a kind kfn renders.       *)
LEMMA RenderedShape ==
  ASSUME NEW file \in Files
  PROVE  Rendered(file) \in Seq(Kinds) /\ Len(Rendered(file)) <= 4
<1>1. CASE file.ingress /\ file.monitoring
  BY <1>1 DEF Rendered, Kinds
<1>2. CASE file.ingress /\ ~ file.monitoring
  BY <1>2 DEF Rendered, Kinds
<1>3. CASE ~ file.ingress /\ file.monitoring
  BY <1>3 DEF Rendered, Kinds
<1>4. CASE ~ file.ingress /\ ~ file.monitoring
  BY <1>4 DEF Rendered, Kinds
<1> QED
  BY <1>1, <1>2, <1>3, <1>4

(* A run aims at a namespace, and what it has come to is an object of its   *)
(* file.                                                                    *)
LEMMA RunShape ==
  ASSUME TypeOK, NEW c \in Clients
  PROVE  /\ command[c] \in Commands /\ command[c].file \in Files
         /\ Wanted(c) \in Namespaces /\ Place(c) = Wanted(c)
         /\ command[c].file.content \in Contents
         /\ Objects(c) \in Seq(Kinds) /\ Len(Objects(c)) \in 0..4
         /\ pos[c] \in 1..5
         /\ More(c) => pos[c] \in 1..4 /\ Kind(c) \in Kinds
<1>1. command[c] \in Commands /\ pos[c] \in 1..5
  BY DEF TypeOK
<1>2. command[c] \in [file : Files, n : Namespaces \cup {""}]
  BY <1>1, CommandsAreCommands
<1>3. command[c].file \in Files /\ command[c].n \in Namespaces \cup {""}
  BY <1>2
<1>4. command[c].file.namespace \in Namespaces /\ command[c].file.content \in Contents
  BY <1>3 DEF Files
<1>5. Wanted(c) \in Namespaces /\ Place(c) = Wanted(c)
  BY <1>3, <1>4 DEF Wanted, Place, RenderedIn, Target
<1>6. Objects(c) \in Seq(Kinds) /\ Len(Objects(c)) \in 0..4
  <2>1. Rendered(command[c].file) \in Seq(Kinds) /\ Len(Rendered(command[c].file)) <= 4
    BY <1>3, RenderedShape
  <2>2. Len(Rendered(command[c].file)) \in Nat
    BY <2>1, LenProperties
  <2>3. \A n \in Nat : n <= 4 => n \in 0..4
    OBVIOUS
  <2> QED
    BY <2>1, <2>2, <2>3, Zenon DEF Objects
<1>7. More(c) => pos[c] \in 1..4 /\ Kind(c) \in Kinds
  <2>1. SUFFICES ASSUME pos[c] <= Len(Objects(c))
                 PROVE  pos[c] \in 1..4 /\ Objects(c)[pos[c]] \in Kinds
    BY DEF More, Kind
  <2>2. \A l \in 0..4, n \in 1..5 : n <= l => n \in 1..l /\ n \in 1..4
    OBVIOUS
  <2>3. pos[c] \in 1..Len(Objects(c)) /\ pos[c] \in 1..4
    BY <1>1, <1>6, <2>1, <2>2, Zenon
  <2> QED
    BY <1>6, <2>3, ElementOfSeq, Zenon
<1> QED
  BY <1>1, <1>3, <1>4, <1>5, <1>6, <1>7

LEMMA InitEstablishes == Init => ApplyInv
BY DEF Init, ApplyInv, TypeOK, Together, Underway, Smooth, BehindApplied, NothingUnasked,
       FailureHasACause, Active, Handing, NoObjects, Kinds
-----------------------------------------------------------------------------
(* What a step does to its own run decides whether the invariant is kept:   *)
(* the others are marked as overlapped, or are not under way.               *)
OwnPart(c) == /\ Underway(c) /\ Smooth(c) /\ BehindApplied(c)
              /\ exit[c] = "1" => ~ command[c].file.valid \/ met[c] # {}

LeavesOthers(c) ==
  \A d \in Clients \ {c} :
    /\ at'[d] = at[d] /\ command'[d] = command[d] /\ pos'[d] = pos[d]
    /\ failed'[d] = failed[d] /\ exit'[d] = exit[d] /\ met'[d] = met[d]

LEMMA OwnPartSuffices ==
  ASSUME ApplyInv, NEW c \in Clients, Active(c), LeavesOthers(c), met[c] \subseteq met'[c],
         TypeOK', NothingUnasked', OwnPart(c)'
  PROVE  ApplyInv'
<1>1. Together'
  BY DEF ApplyInv, Together, Active, LeavesOthers
<1>2. ASSUME NEW d \in Clients \ {c}
      PROVE  /\ (Underway(d) /\ Smooth(d) /\ BehindApplied(d))'
             /\ exit'[d] = "1" => ~ command'[d].file.valid \/ met'[d] # {}
  <2>1. Underway(d)'
    BY <1>2 DEF ApplyInv, LeavesOthers, Underway, Active, Handing, More, Objects
  <2>2. Active(d)' => "run" \in met'[d]
    BY <1>2 DEF ApplyInv, LeavesOthers, Together, Active
  <2>3. Smooth(d)' /\ BehindApplied(d)'
    BY <2>2 DEF Smooth, BehindApplied, Handing, Active
  <2>4. exit'[d] = "1" => ~ command'[d].file.valid \/ met'[d] # {}
    BY <1>2 DEF ApplyInv, LeavesOthers, FailureHasACause
  <2> QED
    BY <2>1, <2>3, <2>4
<1>3. \A d \in Clients : (Underway(d) /\ Smooth(d) /\ BehindApplied(d))'
  BY <1>2 DEF OwnPart
<1>4. FailureHasACause'
  BY <1>2 DEF OwnPart, FailureHasACause
<1> QED
  BY <1>1, <1>3, <1>4 DEF ApplyInv

(* A step that changes nothing in the cluster keeps what holds of it.       *)
LEMMA ClusterKept ==
  ASSUME NothingUnasked, UNCHANGED clusterVars
  PROVE  NothingUnasked'
BY DEF NothingUnasked, clusterVars
-----------------------------------------------------------------------------
(* A run starts, among others or alone.                                     *)
LEMMA StartPreserves ==
  ASSUME ApplyInv, NEW c \in Clients, Start(c)
  PROVE  ApplyInv'
<1> USE DEF ApplyInv
<1>1. PICK cmd \in Commands : command' = [command EXCEPT ![c] = cmd]
  BY DEF Start
<1>2. TypeOK'
  BY <1>1 DEF Start, TypeOK, Go, clusterVars
<1>3. NothingUnasked'
  BY ClusterKept DEF Start
<1>4. \A d \in Clients \ {c} :
        /\ at'[d] = at[d] /\ command'[d] = command[d] /\ pos'[d] = pos[d]
        /\ failed'[d] = failed[d] /\ exit'[d] = exit[d] /\ met[d] \subseteq met'[d]
        /\ Active(d) => "run" \in met'[d]
  BY <1>1 DEF Start, TypeOK, Go
<1>5. at'[c] = "load" /\ exit'[c] = "none"
  BY DEF Start, TypeOK, Go
<1>6. (\E d \in Clients \ {c} : Active(d)) => "run" \in met'[c]
  BY DEF Start, TypeOK
<1>7. Together'
  BY <1>4, <1>5, <1>6 DEF Together, Active
<1>8. OwnPart(c)'
  <2>1. ~ failed'[c] /\ pos'[c] = 1
    BY DEF Start, Underway, Active, Handing
  <2> QED
    BY <1>5, <2>1 DEF OwnPart, Underway, Smooth, BehindApplied, Handing, Active
<1>9. ASSUME NEW d \in Clients \ {c}  PROVE OwnPart(d)'
  <2>1. Underway(d)'
    BY <1>4, <1>9 DEF Underway, Active, Handing, More, Objects
  <2>2. Smooth(d)' /\ BehindApplied(d)'
    BY <1>4, <1>9 DEF Smooth, BehindApplied, Handing, Active
  <2> QED
    BY <1>4, <1>9, <2>1, <2>2 DEF OwnPart, FailureHasACause
<1> QED
  BY <1>2, <1>3, <1>7, <1>8, <1>9 DEF OwnPart, FailureHasACause

-----------------------------------------------------------------------------
(* What the pieces of a step do to the runs, their own and the others.      *)
Calls == {"idle", "load", "get", "create", "apply", "post", "patch"}
Codes == {"none", "0", "1", "interrupted"}

RunTypes == /\ at \in [Clients -> Calls] /\ command \in [Clients -> Commands]
            /\ pos \in [Clients -> 1..5] /\ failed \in [Clients -> BOOLEAN]
            /\ exit \in [Clients -> Codes]

MetType == met \in [Clients -> SUBSET {"run", "fault", "deletion"}]

ClusterTypes == /\ namespaces \subseteq Namespaces
                /\ objects \in [Namespaces -> [Kinds -> Contents \cup {"none"}]]

LEMMA TypeParts ==
  /\ TypeOK => RunTypes /\ MetType /\ ClusterTypes
  /\ RunTypes' /\ MetType' /\ ClusterTypes' => TypeOK'
BY DEF TypeOK, RunTypes, MetType, ClusterTypes, Calls, Codes

LeavesRuns(c) ==
  \A d \in Clients \ {c} :
    /\ at'[d] = at[d] /\ command'[d] = command[d] /\ pos'[d] = pos[d]
    /\ failed'[d] = failed[d] /\ exit'[d] = exit[d]

LEMMA OnContinue ==
  ASSUME RunTypes, NEW c \in Clients, NEW to \in Calls, Continue(c, to)
  PROVE  /\ RunTypes' /\ LeavesRuns(c)
         /\ at'[c] = to /\ command' = command
         /\ pos' = pos /\ failed' = failed /\ exit' = exit
BY DEF RunTypes, LeavesRuns, Continue, Go

LEMMA OnExit ==
  ASSUME RunTypes, NEW c \in Clients, NEW code \in Codes, Exit(c, code)
  PROVE  /\ RunTypes' /\ LeavesRuns(c)
         /\ at'[c] = "idle" /\ command' = command
         /\ pos'[c] = 1 /\ ~ failed'[c] /\ exit'[c] = code
<1>1. /\ at' \in [Clients -> Calls] /\ pos' \in [Clients -> 1..5]
      /\ command' = command
  BY DEF RunTypes, Exit, Go, Calls
<1>2. failed' \in [Clients -> BOOLEAN] /\ exit' \in [Clients -> Codes]
  BY DEF RunTypes, Exit
<1>3. LeavesRuns(c)
  BY DEF RunTypes, LeavesRuns, Exit, Go
<1> QED
  BY <1>1, <1>2, <1>3 DEF RunTypes, Exit, Go

LEMMA OnProceed ==
  ASSUME RunTypes, NEW c \in Clients, NEW fails \in BOOLEAN, pos[c] \in 1..4,
         Proceed(c, fails)
  PROVE  /\ RunTypes' /\ LeavesRuns(c)
         /\ at'[c] = "apply" /\ command' = command /\ exit' = exit
         /\ pos'[c] = pos[c] + 1 /\ failed'[c] = (failed[c] \/ fails)
<1>1. /\ at' \in [Clients -> Calls] /\ pos' \in [Clients -> 1..5]
      /\ command' = command /\ exit' = exit
  BY DEF RunTypes, Proceed, Go, Calls
<1>2. failed' \in [Clients -> BOOLEAN] /\ failed'[c] = (failed[c] \/ fails)
  BY Zenon DEF RunTypes, Proceed
<1>3. LeavesRuns(c)
  BY DEF RunTypes, LeavesRuns, Proceed, Go
<1> QED
  BY <1>1, <1>2, <1>3 DEF RunTypes, Proceed, Go

LEMMA OnFault ==
  ASSUME MetType, NEW c \in Clients, Fault(c)
  PROVE  MetType' /\ met'[c] = met[c] \cup {"fault"}
         /\ \A d \in Clients \ {c} : met'[d] = met[d]
BY DEF MetType, Fault

LEMMA Leaving ==
  ASSUME NEW c \in Clients, LeavesRuns(c), \A d \in Clients \ {c} : met'[d] = met[d]
  PROVE  LeavesOthers(c)
BY DEF LeavesRuns, LeavesOthers

LEMMA ClusterTypesKept ==
  ASSUME ClusterTypes, UNCHANGED clusterVars
  PROVE  ClusterTypes'
BY DEF ClusterTypes, clusterVars
-----------------------------------------------------------------------------
(* Loading the file, which ends the run if it is not valid.                 *)
LEMMA LoadPreserves ==
  ASSUME ApplyInv, NEW c \in Clients, Load(c)
  PROVE  ApplyInv'
<1>1. RunTypes /\ MetType /\ ClusterTypes /\ Underway(c) /\ at[c] = "load"
  BY TypeParts DEF ApplyInv, Load
<1>2. exit[c] = "none" /\ pos[c] = 1 /\ ~ failed[c] /\ Active(c)
  BY <1>1 DEF Underway, Active, Handing
<1>3. met' = met /\ ClusterTypes' /\ NothingUnasked'
  BY <1>1, ClusterTypesKept, ClusterKept DEF Load, ApplyInv
<1>4. /\ RunTypes' /\ LeavesRuns(c) /\ command' = command
      /\ pos'[c] = 1 /\ ~ failed'[c]
      /\ \/ at'[c] = "get" /\ command[c].file.valid /\ exit'[c] = "none"
         \/ at'[c] = "idle" /\ ~ command[c].file.valid
  <2>1. CASE command[c].file.valid
    BY <2>1, <1>1, <1>2, OnContinue DEF Load, Calls
  <2>2. CASE ~ command[c].file.valid
    BY <2>2, <1>1, <1>2, OnExit DEF Load, Codes
  <2> QED
    BY <2>1, <2>2
<1>5. OwnPart(c)'
  BY <1>4 DEF OwnPart, Underway, Smooth, BehindApplied, Handing, Active
<1>6. TypeOK'
  BY <1>1, <1>3, <1>4, TypeParts DEF MetType
<1>7. LeavesOthers(c)
  BY <1>3, <1>4, Leaving
<1> QED
  BY <1>2, <1>3, <1>5, <1>6, <1>7, OwnPartSuffices

(* kubectl get: what it says is true as long as nothing came in the way.    *)
LEMMA GetNamespacePreserves ==
  ASSUME ApplyInv, NEW c \in Clients, GetNamespace(c)
  PROVE  ApplyInv'
<1>1. RunTypes /\ MetType /\ ClusterTypes /\ Underway(c) /\ at[c] = "get"
  BY TypeParts DEF ApplyInv, GetNamespace
<1>2. exit[c] = "none" /\ pos[c] = 1 /\ ~ failed[c] /\ command[c].file.valid /\ Active(c)
  BY <1>1 DEF Underway, Active, Handing
<1>3. ClusterTypes' /\ NothingUnasked' /\ namespaces' = namespaces
  BY <1>1, ClusterTypesKept, ClusterKept DEF GetNamespace, ApplyInv, clusterVars
<1>4. /\ RunTypes' /\ LeavesRuns(c) /\ command' = command
      /\ pos' = pos /\ failed' = failed /\ exit' = exit
      /\ MetType' /\ met[c] \subseteq met'[c] /\ \A d \in Clients \ {c} : met'[d] = met[d]
      /\ \/ at'[c] = "apply" /\ Wanted(c) \in namespaces
         \/ at'[c] = "create" /\ (Wanted(c) \notin namespaces \/ met'[c] # {})
  <2>1. CASE Continue(c, "create") /\ Fault(c)
    BY <2>1, <1>1, OnContinue, OnFault DEF Calls
  <2>2. CASE Wanted(c) \in namespaces /\ Continue(c, "apply") /\ UNCHANGED met
    BY <2>2, <1>1, OnContinue DEF Calls, MetType
  <2>3. CASE Wanted(c) \notin namespaces /\ Continue(c, "create") /\ UNCHANGED met
    BY <2>3, <1>1, OnContinue DEF Calls, MetType
  <2> QED
    BY <2>1, <2>2, <2>3 DEF GetNamespace
<1>5. Wanted(c)' = Wanted(c) /\ Objects(c)' = Objects(c)
  BY <1>4 DEF Wanted, Objects
<1>6. \A i \in 1..Len(Objects(c)) : ~ (i < 1)
  OBVIOUS
<1>7. OwnPart(c)'
  BY <1>2, <1>3, <1>4, <1>5, <1>6
     DEF OwnPart, Underway, Smooth, BehindApplied, Handing, Active
<1>8. TypeOK' /\ LeavesOthers(c)
  BY <1>3, <1>4, TypeParts, Leaving
<1> QED
  BY <1>2, <1>3, <1>4, <1>7, <1>8, OwnPartSuffices

(* kubectl create, of a namespace that is not there or has come meanwhile.  *)
LEMMA CreateNamespacePreserves ==
  ASSUME ApplyInv, NEW c \in Clients, CreateNamespace(c)
  PROVE  ApplyInv'
<1>1. /\ RunTypes /\ MetType /\ ClusterTypes /\ Underway(c) /\ Smooth(c)
      /\ at[c] = "create" /\ Wanted(c) \in Namespaces
  BY TypeParts, RunShape DEF ApplyInv, CreateNamespace
<1>2. exit[c] = "none" /\ pos[c] = 1 /\ ~ failed[c] /\ command[c].file.valid /\ Active(c)
  BY <1>1 DEF Underway, Active, Handing
<1>3. Wanted(c) \in namespaces => met[c] # {}
  BY <1>1, <1>2 DEF Smooth
<1>4. ClusterTypes' /\ NothingUnasked'
  BY <1>1 DEF CreateNamespace, ApplyInv, ClusterTypes, NothingUnasked
<1>5. /\ RunTypes' /\ LeavesRuns(c) /\ command' = command
      /\ pos'[c] = 1 /\ ~ failed'[c]
      /\ MetType' /\ met[c] \subseteq met'[c] /\ \A d \in Clients \ {c} : met'[d] = met[d]
      /\ \/ at'[c] = "apply" /\ Wanted(c) \in namespaces' /\ exit'[c] = "none"
         \/ at'[c] = "idle" /\ met'[c] # {}
  <2>1. CASE Continue(c, "apply") /\ UNCHANGED met /\ namespaces' = namespaces \cup {Wanted(c)}
    BY <2>1, <1>1, <1>2, OnContinue DEF Calls, MetType
  <2>2. CASE Wanted(c) \in namespaces /\ Exit(c, "1") /\ UNCHANGED met
    BY <2>2, <1>1, <1>3, OnExit DEF Codes, MetType
  <2>3. CASE Exit(c, "1") /\ Fault(c)
    BY <2>3, <1>1, OnExit, OnFault DEF Codes
  <2> QED
    BY <2>1, <2>2, <2>3 DEF CreateNamespace
<1>6. Wanted(c)' = Wanted(c) /\ Objects(c)' = Objects(c)
  BY <1>5 DEF Wanted, Objects
<1>7. \A i \in 1..Len(Objects(c)) : ~ (i < 1)
  OBVIOUS
<1>8. OwnPart(c)'
  BY <1>2, <1>5, <1>6, <1>7 DEF OwnPart, Underway, Smooth, BehindApplied, Handing, Active
<1>9. TypeOK' /\ LeavesOthers(c)
  BY <1>4, <1>5, TypeParts, Leaving
<1> QED
  BY <1>2, <1>4, <1>5, <1>8, <1>9, OwnPartSuffices
-----------------------------------------------------------------------------
(* kubectl looks whether the object exists.                                 *)
LEMMA GetObjectPreserves ==
  ASSUME ApplyInv, NEW c \in Clients, GetObject(c)
  PROVE  ApplyInv'
<1>1. /\ RunTypes /\ MetType /\ ClusterTypes
      /\ Underway(c) /\ Smooth(c) /\ BehindApplied(c) /\ at[c] = "apply" /\ More(c)
  BY TypeParts DEF ApplyInv, GetObject
<1>2. exit[c] = "none" /\ command[c].file.valid /\ Active(c) /\ Handing(c)
  BY <1>1 DEF Underway, Active, Handing
<1>3. ClusterTypes' /\ NothingUnasked' /\ namespaces' = namespaces /\ objects' = objects
      /\ met' = met
  BY <1>1, ClusterTypesKept, ClusterKept DEF GetObject, ApplyInv, clusterVars
<1>4. /\ RunTypes' /\ LeavesRuns(c) /\ command' = command
      /\ pos' = pos /\ failed' = failed /\ exit' = exit
      /\ \/ at'[c] = "post"  /\ objects[Place(c)][Kind(c)] = "none"
         \/ at'[c] = "patch" /\ objects[Place(c)][Kind(c)] # "none"
  <2>1. CASE objects[Place(c)][Kind(c)] = "none" /\ Continue(c, "post")
    BY <2>1, <1>1, OnContinue DEF Calls
  <2>2. CASE objects[Place(c)][Kind(c)] # "none" /\ Continue(c, "patch")
    BY <2>2, <1>1, OnContinue DEF Calls
  <2> QED
    BY <2>1, <2>2 DEF GetObject
<1>5. /\ Wanted(c)' = Wanted(c) /\ Objects(c)' = Objects(c)
      /\ Place(c)' = Place(c) /\ Kind(c)' = Kind(c) /\ More(c)'
  BY <1>1, <1>4 DEF Wanted, Objects, Place, Kind, More
<1>6. OwnPart(c)'
  BY <1>1, <1>2, <1>3, <1>4, <1>5
     DEF OwnPart, Underway, Smooth, BehindApplied, Handing, Active
<1>7. TypeOK' /\ LeavesOthers(c)
  BY <1>1, <1>3, <1>4, TypeParts, Leaving DEF MetType
<1> QED
  BY <1>2, <1>3, <1>6, <1>7, OwnPartSuffices

(* What a write leaves: the object as the file has it, and nothing that was *)
(* not asked for.                                                           *)
LEMMA OnWrite ==
  ASSUME ApplyInv, NEW c \in Clients, More(c), command[c].file.valid,
         Wanted(c) \in namespaces, Write(c), UNCHANGED namespaces
  PROVE  /\ ClusterTypes' /\ NothingUnasked'
         /\ objects'[Wanted(c)][Kind(c)] = command[c].file.content
         /\ \A k \in Kinds : \/ objects'[Wanted(c)][k] = objects[Wanted(c)][k]
                             \/ objects'[Wanted(c)][k] = command[c].file.content
<1>1. /\ ClusterTypes /\ NothingUnasked /\ command[c] \in Commands
      /\ Wanted(c) \in Namespaces /\ Place(c) = Wanted(c) /\ Kind(c) \in Kinds
      /\ command[c].file.content \in Contents
  BY TypeParts, RunShape DEF ApplyInv
<1>2. objects' = [objects EXCEPT ![Wanted(c)][Kind(c)] = command[c].file.content]
  BY <1>1 DEF Write
<1>3. /\ objects[Wanted(c)] \in [Kinds -> Contents \cup {"none"}]
      /\ objects'[Wanted(c)] = [objects[Wanted(c)] EXCEPT ![Kind(c)] = command[c].file.content]
      /\ \A n \in Namespaces \ {Wanted(c)} : objects'[n] = objects[n]
  BY <1>1, <1>2 DEF ClusterTypes
<1>4. /\ objects'[Wanted(c)][Kind(c)] = command[c].file.content
      /\ \A k \in Kinds : \/ objects'[Wanted(c)][k] = objects[Wanted(c)][k]
                          \/ objects'[Wanted(c)][k] = command[c].file.content
  BY <1>1, <1>3
<1>5. ClusterTypes'
  BY <1>1, <1>2, <1>3 DEF ClusterTypes
<1>6. NothingUnasked'
  <2>1. SUFFICES ASSUME NEW n \in Namespaces, NEW k \in Kinds, objects'[n][k] # "none"
                 PROVE  /\ n \in namespaces
                        /\ \E cmd \in Commands : /\ cmd.file.valid /\ Target(cmd) = n
                                                 /\ cmd.file.content = objects'[n][k]
    BY DEF NothingUnasked
  <2>2. CASE objects'[n][k] = objects[n][k]
    BY <2>1, <2>2, <1>1 DEF NothingUnasked
  <2>3. CASE n = Wanted(c) /\ objects'[n][k] = command[c].file.content
    BY <2>3, <1>1 DEF Wanted
  <2> QED
    BY <2>1, <2>2, <2>3, <1>3, <1>4
<1> QED
  BY <1>4, <1>5, <1>6

(* After an object was written, or was not, kubectl goes on to the next.    *)
LEMMA ProceedPreserves ==
  ASSUME ApplyInv, NEW c \in Clients, NEW fails \in BOOLEAN, More(c), Handing(c),
         Proceed(c, fails), UNCHANGED namespaces, ClusterTypes', NothingUnasked',
         MetType', met[c] \subseteq met'[c], \A d \in Clients \ {c} : met'[d] = met[d],
         fails => met'[c] # {},
         ~ fails => /\ objects'[Wanted(c)][Kind(c)] = command[c].file.content
                    /\ \A k \in Kinds :
                         \/ objects'[Wanted(c)][k] = objects[Wanted(c)][k]
                         \/ objects'[Wanted(c)][k] = command[c].file.content
  PROVE  ApplyInv'
<1>1. /\ RunTypes /\ MetType /\ Underway(c) /\ Smooth(c) /\ BehindApplied(c)
      /\ pos[c] \in 1..4 /\ Objects(c) \in Seq(Kinds) /\ Len(Objects(c)) \in 0..4
  BY TypeParts, RunShape DEF ApplyInv
<1>2. exit[c] = "none" /\ command[c].file.valid /\ Active(c)
  BY <1>1 DEF Underway, Active, Handing
<1>3. /\ RunTypes' /\ LeavesRuns(c)
      /\ at'[c] = "apply" /\ command' = command /\ exit' = exit
      /\ pos'[c] = pos[c] + 1 /\ failed'[c] = (failed[c] \/ fails)
  BY <1>1, OnProceed
<1>4. Wanted(c)' = Wanted(c) /\ Objects(c)' = Objects(c)
  BY <1>3 DEF Wanted, Objects
<1>5. Underway(c)'
  BY <1>2, <1>3 DEF Underway, Active, Handing
<1>6. Smooth(c)'
  BY <1>1, <1>2, <1>3, <1>4 DEF Smooth, Active, Handing
<1>7. BehindApplied(c)'
  <2>1. SUFFICES ASSUME met'[c] \subseteq {"fault"}, ~ failed'[c]
                 PROVE  /\ Wanted(c) \in namespaces
                        /\ \A i \in 1..Len(Objects(c)) :
                             i < pos[c] + 1 =>
                               objects'[Wanted(c)][Objects(c)[i]] = command[c].file.content
    BY <1>3, <1>4 DEF BehindApplied
  <2>2. ~ fails /\ ~ failed[c] /\ met[c] \subseteq {"fault"}
    BY <1>3, <2>1
  <2>3. /\ Wanted(c) \in namespaces
        /\ \A i \in 1..Len(Objects(c)) :
             i < pos[c] => objects[Wanted(c)][Objects(c)[i]] = command[c].file.content
    BY <1>1, <2>2 DEF BehindApplied
  <2>4. ASSUME NEW i \in 1..Len(Objects(c)), i < pos[c] + 1
        PROVE  objects'[Wanted(c)][Objects(c)[i]] = command[c].file.content
    <3>1. Objects(c)[i] \in Kinds
      BY <1>1, ElementOfSeq
    <3>2. i < pos[c] \/ i = pos[c]
      BY <1>1, <2>4
    <3>3. CASE i < pos[c]
      BY <3>1, <3>3, <2>2, <2>3
    <3>4. CASE i = pos[c]
      BY <3>4, <2>2 DEF Kind
    <3> QED
      BY <3>2, <3>3, <3>4
  <2> QED
    BY <2>3, <2>4
<1>8. OwnPart(c)'
  BY <1>2, <1>3, <1>5, <1>6, <1>7 DEF OwnPart
<1>9. TypeOK' /\ LeavesOthers(c)
  BY <1>3, TypeParts, Leaving
<1> QED
  BY <1>2, <1>8, <1>9, OwnPartSuffices

(* Creating an object, which fails if it has come meanwhile, or if the      *)
(* namespace has gone.                                                      *)
LEMMA PostObjectPreserves ==
  ASSUME ApplyInv, NEW c \in Clients, PostObject(c)
  PROVE  ApplyInv'
<1>1. /\ MetType /\ ClusterTypes /\ NothingUnasked /\ Underway(c) /\ Smooth(c)
      /\ at[c] = "post" /\ Place(c) = Wanted(c)
  BY TypeParts, RunShape DEF ApplyInv, PostObject
<1>2. Handing(c) /\ Active(c) /\ More(c) /\ command[c].file.valid
  BY <1>1 DEF Underway, Handing, Active
<1>3. met' = met /\ namespaces' = namespaces /\ MetType'
  BY <1>1 DEF PostObject, MetType
<1>4. CASE Place(c) \in namespaces /\ Write(c) /\ Proceed(c, FALSE)
  <2>1. /\ ClusterTypes' /\ NothingUnasked'
        /\ objects'[Wanted(c)][Kind(c)] = command[c].file.content
        /\ \A k \in Kinds : \/ objects'[Wanted(c)][k] = objects[Wanted(c)][k]
                            \/ objects'[Wanted(c)][k] = command[c].file.content
    BY <1>1, <1>2, <1>3, <1>4, OnWrite
  <2> QED
    BY <1>2, <1>3, <1>4, <2>1, ProceedPreserves
<1>5. CASE /\ Place(c) \notin namespaces \/ objects[Place(c)][Kind(c)] # "none"
           /\ objects' = objects /\ Proceed(c, TRUE)
  <2>1. met'[c] # {}
    BY <1>1, <1>2, <1>3, <1>5 DEF Smooth, Handing
  <2>2. ClusterTypes' /\ NothingUnasked'
    BY <1>1, <1>3, <1>5, ClusterTypesKept, ClusterKept DEF clusterVars
  <2> QED
    BY <1>2, <1>3, <1>5, <2>1, <2>2, ProceedPreserves
<1> QED
  BY <1>4, <1>5 DEF PostObject

(* Patching an object, which fails if it has gone.                          *)
LEMMA PatchObjectPreserves ==
  ASSUME ApplyInv, NEW c \in Clients, PatchObject(c)
  PROVE  ApplyInv'
<1>1. /\ MetType /\ ClusterTypes /\ NothingUnasked /\ Underway(c) /\ Smooth(c)
      /\ at[c] = "patch" /\ Place(c) = Wanted(c) /\ Wanted(c) \in Namespaces
  BY TypeParts, RunShape DEF ApplyInv, PatchObject
<1>2. /\ Handing(c) /\ Active(c) /\ More(c) /\ command[c].file.valid /\ Kind(c) \in Kinds
  BY <1>1, RunShape DEF Underway, Handing, Active, ApplyInv
<1>3. met' = met /\ namespaces' = namespaces /\ MetType'
  BY <1>1 DEF PatchObject, MetType
<1>4. CASE objects[Place(c)][Kind(c)] # "none" /\ Write(c) /\ Proceed(c, FALSE)
  <2>1. Wanted(c) \in namespaces
    BY <1>1, <1>2, <1>4 DEF NothingUnasked
  <2>2. /\ ClusterTypes' /\ NothingUnasked'
        /\ objects'[Wanted(c)][Kind(c)] = command[c].file.content
        /\ \A k \in Kinds : \/ objects'[Wanted(c)][k] = objects[Wanted(c)][k]
                            \/ objects'[Wanted(c)][k] = command[c].file.content
    BY <1>2, <1>3, <1>4, <2>1, OnWrite
  <2> QED
    BY <1>2, <1>3, <1>4, <2>2, ProceedPreserves
<1>5. CASE /\ objects[Place(c)][Kind(c)] = "none"
           /\ objects' = objects /\ Proceed(c, TRUE)
  <2>1. met'[c] # {}
    BY <1>1, <1>2, <1>3, <1>5 DEF Smooth
  <2>2. ClusterTypes' /\ NothingUnasked'
    BY <1>1, <1>3, <1>5, ClusterTypesKept, ClusterKept DEF clusterVars
  <2> QED
    BY <1>2, <1>3, <1>5, <2>1, <2>2, ProceedPreserves
<1> QED
  BY <1>4, <1>5 DEF PatchObject

(* A call of kubectl fails, and it goes on to the next object.              *)
LEMMA CallFailsPreserves ==
  ASSUME ApplyInv, NEW c \in Clients, CallFails(c)
  PROVE  ApplyInv'
<1>1. MetType /\ ClusterTypes /\ NothingUnasked /\ Underway(c)
  BY TypeParts DEF ApplyInv
<1>2. Handing(c) /\ More(c)
  BY <1>1 DEF CallFails, Underway, Handing
<1>3. /\ MetType' /\ met'[c] = met[c] \cup {"fault"}
      /\ \A d \in Clients \ {c} : met'[d] = met[d]
  BY <1>1, OnFault DEF CallFails
<1>4. ClusterTypes' /\ NothingUnasked' /\ namespaces' = namespaces
  BY <1>1, ClusterTypesKept, ClusterKept DEF CallFails, clusterVars
<1> QED
  BY <1>2, <1>3, <1>4, ProceedPreserves DEF CallFails

(* kubectl apply ends, and with it the run.                                 *)
LEMMA ApplyEndsPreserves ==
  ASSUME ApplyInv, NEW c \in Clients, ApplyEnds(c)
  PROVE  ApplyInv'
<1>1. /\ RunTypes /\ MetType /\ ClusterTypes /\ Smooth(c) /\ at[c] = "apply"
  BY TypeParts DEF ApplyInv, ApplyEnds
<1>2. Active(c) /\ (failed[c] => met[c] # {})
  BY <1>1 DEF Smooth, Active
<1>3. met' = met /\ MetType' /\ ClusterTypes' /\ NothingUnasked'
  BY <1>1, ClusterTypesKept, ClusterKept DEF ApplyEnds, ApplyInv, MetType
<1>4. /\ RunTypes' /\ LeavesRuns(c) /\ command' = command
      /\ at'[c] = "idle" /\ pos'[c] = 1 /\ ~ failed'[c]
      /\ exit'[c] = "1" => failed[c]
  <2>1. CASE failed[c] /\ Exit(c, "1")
    BY <2>1, <1>1, OnExit DEF Codes
  <2>2. CASE ~ failed[c] /\ Exit(c, "0")
    BY <2>2, <1>1, OnExit DEF Codes
  <2> QED
    BY <2>1, <2>2 DEF ApplyEnds
<1>5. OwnPart(c)'
  BY <1>2, <1>3, <1>4 DEF OwnPart, Underway, Smooth, BehindApplied, Handing, Active
<1>6. TypeOK' /\ LeavesOthers(c)
  BY <1>3, <1>4, TypeParts, Leaving
<1> QED
  BY <1>2, <1>3, <1>5, <1>6, OwnPartSuffices

(* An interrupt ends the run wherever it is.                                *)
LEMMA InterruptPreserves ==
  ASSUME ApplyInv, NEW c \in Clients, Interrupt(c)
  PROVE  ApplyInv'
<1>1. /\ RunTypes /\ MetType /\ ClusterTypes /\ Active(c) /\ Exit(c, "interrupted")
  BY TypeParts DEF ApplyInv, Interrupt
<1>2. met' = met /\ MetType' /\ ClusterTypes' /\ NothingUnasked'
  BY <1>1, ClusterTypesKept, ClusterKept DEF Interrupt, ApplyInv, MetType
<1>3. /\ RunTypes' /\ LeavesRuns(c) /\ command' = command
      /\ at'[c] = "idle" /\ pos'[c] = 1 /\ ~ failed'[c] /\ exit'[c] = "interrupted"
  BY <1>1, OnExit DEF Codes
<1>4. OwnPart(c)'
  BY <1>3 DEF OwnPart, Underway, Smooth, BehindApplied, Handing, Active
<1>5. TypeOK' /\ LeavesOthers(c)
  BY <1>2, <1>3, TypeParts, Leaving
<1> QED
  BY <1>1, <1>2, <1>4, <1>5, OwnPartSuffices

(* A namespace goes, and every run under way has met it.                    *)
LEMMA DeletePreserves ==
  ASSUME ApplyInv, NEW n \in Namespaces, DeleteNamespace(n)
  PROVE  ApplyInv'
<1>1. RunTypes /\ MetType /\ ClusterTypes /\ NothingUnasked
  BY TypeParts DEF ApplyInv
<1>2. /\ RunTypes' /\ at' = at /\ command' = command /\ pos' = pos
      /\ failed' = failed /\ exit' = exit
  BY <1>1 DEF DeleteNamespace, runVars, RunTypes
<1>3. /\ MetType'
      /\ \A c \in Clients : met[c] \subseteq met'[c] /\ (Active(c) => "deletion" \in met'[c])
  BY <1>1 DEF DeleteNamespace, MetType
<1>4. NoObjects \in [Kinds -> Contents \cup {"none"}] /\ \A k \in Kinds : NoObjects[k] = "none"
  BY DEF NoObjects
<1>5. /\ objects'[n] = NoObjects
      /\ \A m \in Namespaces \ {n} : objects'[m] = objects[m] /\ (m \in namespaces => m \in namespaces')
  BY <1>1 DEF DeleteNamespace, ClusterTypes
<1>6. ClusterTypes'
  BY <1>1, <1>4 DEF DeleteNamespace, ClusterTypes
<1>7. NothingUnasked'
  BY <1>1, <1>4, <1>5 DEF NothingUnasked
<1>8. Together'
  BY <1>2, <1>3 DEF ApplyInv, Together, Active
<1>9. ASSUME NEW c \in Clients
      PROVE  /\ (Underway(c) /\ Smooth(c) /\ BehindApplied(c))'
             /\ exit'[c] = "1" => ~ command'[c].file.valid \/ met'[c] # {}
  <2>1. Underway(c)'
    BY <1>2 DEF ApplyInv, Underway, Active, Handing, More, Objects
  <2>2. Smooth(c)' /\ BehindApplied(c)'
    BY <1>2, <1>3 DEF Smooth, BehindApplied, Active, Handing
  <2>3. exit'[c] = "1" => ~ command'[c].file.valid \/ met'[c] # {}
    BY <1>2, <1>3 DEF ApplyInv, FailureHasACause
  <2> QED
    BY <2>1, <2>2, <2>3
<1> QED
  BY <1>1, <1>2, <1>3, <1>6, <1>7, <1>8, <1>9, TypeParts DEF ApplyInv, FailureHasACause
-----------------------------------------------------------------------------
LEMMA NextPreserves ==
  ASSUME ApplyInv, [Next]_vars
  PROVE  ApplyInv'
<1>1. ASSUME NEW c \in Clients, RunStep(c)  PROVE ApplyInv'
  BY <1>1, StartPreserves, LoadPreserves, GetNamespacePreserves, CreateNamespacePreserves,
     GetObjectPreserves, PostObjectPreserves, PatchObjectPreserves, CallFailsPreserves,
     ApplyEndsPreserves, InterruptPreserves DEF RunStep
<1>2. CASE UNCHANGED vars
  <2>1. /\ at' = at /\ command' = command /\ pos' = pos /\ failed' = failed /\ exit' = exit
        /\ namespaces' = namespaces /\ objects' = objects /\ met' = met
    BY <1>2 DEF vars, runVars, clusterVars
  <2> QED
    BY <2>1 DEF ApplyInv, TypeOK, Together, Underway, Smooth, BehindApplied, NothingUnasked,
       FailureHasACause, Active, Handing, More, Objects, Wanted, Place, Kind
<1> QED
  BY <1>1, <1>2, DeletePreserves DEF Next

THEOREM Invariance == Spec => []ApplyInv
<1>1. Init => ApplyInv
  BY InitEstablishes
<1>2. ApplyInv /\ [Next]_vars => ApplyInv'
  BY NextPreserves
<1> QED
  BY <1>1, <1>2, PTL DEF Spec

(* Whoever runs kfn apply on whatever files, every variable has its type.   *)
THEOREM TypeCorrect == Spec => []TypeOK
<1>1. ApplyInv => TypeOK
  BY DEF ApplyInv
<1> QED
  BY <1>1, Invariance, PTL

(* apply may be repeated: among any number of runs, one of a valid file     *)
(* fails only if another run, a failed call or a deletion came in its way.  *)
THEOREM FailureCaused == Spec => []FailureHasACause
<1>1. ApplyInv => FailureHasACause
  BY DEF ApplyInv
<1> QED
  BY <1>1, Invariance, PTL

(* Whatever is in the cluster a valid file asked for, in that namespace.    *)
THEOREM NothingUnaskedSafe == Spec => []NothingUnasked
<1>1. ApplyInv => NothingUnasked
  BY DEF ApplyInv
<1> QED
  BY <1>1, Invariance, PTL

(* A run that ends with 0, and no other run or deletion came in its way,    *)
(* has left the cluster as its file says, whatever calls had failed.        *)
THEOREM SuccessSafe == Spec => SuccessMeansApplied
<1> DEFINE Ends(c) == /\ exit[c] = "none" /\ exit'[c] = "0"
                      /\ met'[c] \subseteq {"fault"}
                      => Applied(c)'
<1>1. ASSUME ApplyInv, [Next]_vars, NEW c \in Clients,
             exit[c] = "none", exit'[c] = "0", met'[c] \subseteq {"fault"}
      PROVE  Applied(c)'
  <2>1. /\ RunTypes /\ BehindApplied(c) /\ pos[c] \in 1..5
        /\ Objects(c) \in Seq(Kinds) /\ Len(Objects(c)) \in 0..4
    BY <1>1, TypeParts, RunShape DEF ApplyInv, RunTypes
  <2>2. ApplyEnds(c) /\ ~ failed[c]
    <3>1. exit'[c] # exit[c]
      BY <1>1
    <3>2. PICK d \in Clients : RunStep(d)
      BY <1>1, <3>1 DEF Next, vars, runVars, DeleteNamespace
    <3>3. CASE d = c
      BY <1>1, <2>1, <3>2, <3>3
         DEF RunStep, Start, Load, GetNamespace, CreateNamespace, GetObject, PostObject,
             PatchObject, CallFails, ApplyEnds, Interrupt, Exit, Continue, Proceed, RunTypes
    <3>4. CASE d # c
      BY <1>1, <2>1, <3>1, <3>2, <3>4
         DEF RunStep, Start, Load, GetNamespace, CreateNamespace, GetObject, PostObject,
             PatchObject, CallFails, ApplyEnds, Interrupt, Exit, Continue, Proceed, RunTypes
    <3> QED
      BY <3>3, <3>4
  <2>3. /\ met' = met /\ namespaces' = namespaces /\ objects' = objects /\ command' = command
    BY <2>2 DEF ApplyEnds, Exit, clusterVars
  <2>4. /\ Wanted(c) \in namespaces
        /\ \A i \in 1..Len(Objects(c)) :
             i < pos[c] => objects[Wanted(c)][Objects(c)[i]] = command[c].file.content
    BY <1>1, <2>1, <2>2, <2>3 DEF BehindApplied, Handing, ApplyEnds
  <2>5. \A i \in 1..Len(Objects(c)) : i < pos[c]
    BY <2>1, <2>2 DEF ApplyEnds, More
  <2>6. Wanted(c)' = Wanted(c) /\ Objects(c)' = Objects(c)
    BY <2>3 DEF Wanted, Objects
  <2> QED
    BY <2>3, <2>4, <2>5, <2>6 DEF Applied
<1>2. ApplyInv /\ [Next]_vars => [\A c \in Clients : Ends(c)]_vars
  BY <1>1
<1> QED
  BY <1>2, Invariance, PTL DEF Spec, SuccessMeansApplied, Ends

(* A namespace is created only for a run of a valid file that wants it.     *)
THEOREM OnlyValidCreates == Spec => OnlyValidCreate
<1>1. ApplyInv /\ [Next]_vars =>
        \A n \in namespaces' \ namespaces :
          \E c \in Clients : command[c].file.valid /\ Wanted(c) = n
  <2>1. SUFFICES ASSUME ApplyInv, [Next]_vars, NEW n \in namespaces' \ namespaces
                 PROVE  \E c \in Clients : command[c].file.valid /\ Wanted(c) = n
    OBVIOUS
  <2>2. \A m \in Namespaces : ~ DeleteNamespace(m)
    BY <2>1 DEF DeleteNamespace
  <2>3. PICK c \in Clients : RunStep(c)
    BY <2>1, <2>2 DEF Next, vars, clusterVars
  <2>4. CreateNamespace(c)
    BY <2>1, <2>3 DEF RunStep, Start, Load, GetNamespace, GetObject, PostObject,
       PatchObject, CallFails, ApplyEnds, Interrupt, clusterVars
  <2>5. command[c].file.valid
    BY <2>1, <2>4 DEF ApplyInv, Underway, CreateNamespace
  <2> QED
    BY <2>1, <2>4, <2>5 DEF CreateNamespace
<1> QED
  BY <1>1, Invariance, PTL DEF Spec, OnlyValidCreate
=============================================================================
