------------------------------- MODULE Apply --------------------------------
(***************************************************************************)
(* Runs of kfn apply, by several people or pipelines, against one cluster. *)
(* A run loads its file, makes sure of the namespace with two calls of     *)
(* kubectl, get and create, and hands the rendered objects to a third,     *)
(* which goes through them one by one.  Anything may come between two      *)
(* calls: another run, a call that fails, an interrupt, or somebody who    *)
(* deletes the namespace.                                                  *)
(***************************************************************************)
EXTENDS Integers, Sequences

CONSTANTS
  Clients,     \* those who run kfn apply, one run after the other
  Namespaces,
  Contents,    \* what files say of their objects, as far as it differs
  Commands     \* the runs there may be: a file, and the value of -n

Kinds == {"Deployment", "Service", "Ingress", "ServiceMonitor"}

(* -n is a namespace, or "" if it is not given.                             *)
Files == [valid : BOOLEAN, namespace : Namespaces, ingress : BOOLEAN,
          monitoring : BOOLEAN, content : Contents]

ASSUME CommandsAreCommands == Commands \subseteq [file : Files, n : Namespaces \cup {""}]
ASSUME NoNameIsEmpty       == "" \notin Namespaces

VARIABLES
  at,          \* at[c]: the call client c's run has come to
  command,     \* command[c]: its file and flag
  pos,         \* pos[c]: the object kubectl apply has come to
  failed,      \* failed[c]: kubectl apply could not apply one of them
  exit,        \* exit[c]: how the last run of c ended
  namespaces,  \* those in the cluster
  objects,     \* objects[n][k]: the content of the object of kind k, or "none"
  met          \* history, met[c]: what came in the way of c's run

runVars     == <<at, command, pos, failed, exit>>
clusterVars == <<namespaces, objects>>
vars        == <<runVars, clusterVars, met>>
-----------------------------------------------------------------------------
Active(c) == at[c] # "idle"

(* loadSpec: the flag overrides the namespace of the file.                  *)
Target(cmd) == IF cmd.n # "" THEN cmd.n ELSE cmd.file.namespace

\* Mutant: the flag is used for the namespace alone, and not for the objects.
RenderedInFile(cmd) == cmd.file.namespace

RenderedIn(cmd) == Target(cmd)

Rendered(file) == <<"Deployment", "Service">>
                  \o (IF file.ingress THEN <<"Ingress">> ELSE <<>>)
                  \o (IF file.monitoring THEN <<"ServiceMonitor">> ELSE <<>>)

NoObjects == [k \in Kinds |-> "none"]

Init ==
  /\ at      = [c \in Clients |-> "idle"]
  /\ command \in [Clients -> Commands]
  /\ pos     = [c \in Clients |-> 1]
  /\ failed  = [c \in Clients |-> FALSE]
  /\ exit    = [c \in Clients |-> "none"]
  /\ namespaces \in SUBSET Namespaces
  /\ objects    = [n \in Namespaces |-> NoObjects]
  /\ met        = [c \in Clients |-> {}]

Go(c, to) == at' = [at EXCEPT ![c] = to]

Start(c) ==
  /\ ~ Active(c)
  /\ Go(c, "load")
  /\ \E cmd \in Commands : command' = [command EXCEPT ![c] = cmd]
  /\ exit' = [exit EXCEPT ![c] = "none"]
  /\ LET others == {d \in Clients \ {c} : Active(d)}
     IN  met' = [d \in Clients |->
                   IF d = c THEN IF others = {} THEN {} ELSE {"run"}
                   ELSE IF d \in others THEN met[d] \cup {"run"} ELSE met[d]]
  /\ UNCHANGED <<pos, failed, clusterVars>>

(* main ends the process with 1 for whatever error a command returns; what  *)
(* kubectl had come to is gone with it.                                     *)
Exit(c, code) == /\ Go(c, "idle")
                 /\ exit' = [exit EXCEPT ![c] = code]
                 /\ pos'    = [pos EXCEPT ![c] = 1]
                 /\ failed' = [failed EXCEPT ![c] = FALSE]
                 /\ UNCHANGED command

Continue(c, to) == /\ Go(c, to)
                   /\ UNCHANGED <<command, pos, failed, exit>>

Fault(c) == met' = [met EXCEPT ![c] = @ \cup {"fault"}]

\* Mutant: the file is validated when it is rendered.
LoadUnvalidated(c) ==
  /\ at[c] = "load"
  /\ Continue(c, "get")
  /\ UNCHANGED <<clusterVars, met>>

(* A file that cannot be read, parsed or validated ends the run here.       *)
Load(c) ==
  /\ at[c] = "load"
  /\ IF command[c].file.valid THEN Continue(c, "get") ELSE Exit(c, "1")
  /\ UNCHANGED <<clusterVars, met>>

Wanted(c) == Target(command[c])

\* Mutant: the namespace is created without a look.
GetNamespaceNever(c) ==
  /\ at[c] = "get"
  /\ Continue(c, "create")
  /\ UNCHANGED <<clusterVars, met>>

(* kubectl get: any failure is taken for a namespace that does not exist.   *)
GetNamespace(c) ==
  /\ at[c] = "get"
  /\ \/ /\ Continue(c, IF Wanted(c) \in namespaces THEN "apply" ELSE "create")
        /\ UNCHANGED met
     \/ Continue(c, "create") /\ Fault(c)
  /\ UNCHANGED clusterVars

(* kubectl create, which a namespace that exists by now makes fail.         *)
CreateNamespace(c) ==
  /\ at[c] = "create"
  /\ \/ /\ Wanted(c) \notin namespaces
        /\ namespaces' = namespaces \cup {Wanted(c)}
        /\ Continue(c, "apply")
        /\ UNCHANGED met
     \/ /\ Wanted(c) \in namespaces
        /\ Exit(c, "1")
        /\ UNCHANGED <<namespaces, met>>
     \/ /\ Exit(c, "1")
        /\ Fault(c)
        /\ UNCHANGED namespaces
  /\ UNCHANGED objects
-----------------------------------------------------------------------------
(* kubectl apply: of each object in the stream it asks whether it exists,   *)
(* and then patches or creates it; it goes on after one that fails.         *)
Objects(c) == Rendered(command[c].file)
More(c)    == pos[c] <= Len(Objects(c))
Place(c)   == RenderedIn(command[c])
Kind(c)    == Objects(c)[pos[c]]

Proceed(c, fails) ==
  /\ Go(c, "apply")
  /\ pos' = [pos EXCEPT ![c] = @ + 1]
  /\ failed' = [failed EXCEPT ![c] = @ \/ fails]
  /\ UNCHANGED <<command, exit>>

Write(c) == objects' = [objects EXCEPT ![Place(c)][Kind(c)] = command[c].file.content]

GetObject(c) ==
  /\ at[c] = "apply" /\ More(c)
  /\ Continue(c, IF objects[Place(c)][Kind(c)] = "none" THEN "post" ELSE "patch")
  /\ UNCHANGED <<clusterVars, met>>

PostObject(c) ==
  /\ at[c] = "post"
  /\ IF Place(c) \in namespaces /\ objects[Place(c)][Kind(c)] = "none"
     THEN Write(c) /\ Proceed(c, FALSE)
     ELSE UNCHANGED objects /\ Proceed(c, TRUE)
  /\ UNCHANGED <<namespaces, met>>

PatchObject(c) ==
  /\ at[c] = "patch"
  /\ IF objects[Place(c)][Kind(c)] # "none"
     THEN Write(c) /\ Proceed(c, FALSE)
     ELSE UNCHANGED objects /\ Proceed(c, TRUE)
  /\ UNCHANGED <<namespaces, met>>

(* A call is refused, cannot be made, or the cluster has no such kind.      *)
CallFails(c) ==
  /\ at[c] \in {"post", "patch"} \/ (at[c] = "apply" /\ More(c))
  /\ Proceed(c, TRUE)
  /\ Fault(c)
  /\ UNCHANGED clusterVars

\* Mutant: what kubectl apply returns is not looked at.
ApplyEndsWell(c) ==
  /\ at[c] = "apply" /\ ~ More(c)
  /\ Exit(c, "0")
  /\ UNCHANGED <<clusterVars, met>>

ApplyEnds(c) ==
  /\ at[c] = "apply" /\ ~ More(c)
  /\ Exit(c, IF failed[c] THEN "1" ELSE "0")
  /\ UNCHANGED <<clusterVars, met>>

(* An interrupt reaches kfn and the kubectl it runs.                        *)
Interrupt(c) ==
  /\ Active(c)
  /\ Exit(c, "interrupted")
  /\ UNCHANGED <<clusterVars, met>>

(* Somebody deletes a namespace, and all there is in it.                    *)
DeleteNamespace(n) ==
  /\ n \in namespaces
  /\ namespaces' = namespaces \ {n}
  /\ objects' = [objects EXCEPT ![n] = NoObjects]
  /\ met' = [c \in Clients |->
               IF Active(c) THEN met[c] \cup {"deletion"} ELSE met[c]]
  /\ UNCHANGED runVars

RunStep(c) == \/ Start(c) \/ Load(c) \/ GetNamespace(c) \/ CreateNamespace(c)
              \/ GetObject(c) \/ PostObject(c) \/ PatchObject(c) \/ CallFails(c)
              \/ ApplyEnds(c) \/ Interrupt(c)

Next == (\E c \in Clients : RunStep(c)) \/ (\E n \in Namespaces : DeleteNamespace(n))

Spec == Init /\ [][Next]_vars
-----------------------------------------------------------------------------
(* Properties.                                                             *)

(* Every variable has its type.                                            *)
TypeOK ==
  /\ at \in [Clients -> {"idle", "load", "get", "create", "apply", "post", "patch"}]
  /\ command \in [Clients -> Commands]
  /\ pos \in [Clients -> 1..5]
  /\ failed \in [Clients -> BOOLEAN]
  /\ exit \in [Clients -> {"none", "0", "1", "interrupted"}]
  /\ namespaces \subseteq Namespaces
  /\ objects \in [Namespaces -> [Kinds -> Contents \cup {"none"}]]
  /\ met \in [Clients -> SUBSET {"run", "fault", "deletion"}]

(* apply may be repeated ("idempotent", cli.md and apply.go): whatever      *)
(* earlier runs left, the interrupted and the failed ones included, a run   *)
(* of a valid file fails only if another run or a fault came between its    *)
(* calls.                                                                   *)
FailureHasACause ==
  \A c \in Clients :
    exit[c] = "1" => ~ command[c].file.valid \/ met[c] # {}

Applied(c) == /\ Wanted(c) \in namespaces
              /\ \A i \in 1..Len(Objects(c)) :
                   objects[Wanted(c)][Objects(c)[i]] = command[c].file.content

(* Exit 0 means that what the file says is what the cluster has, all of it  *)
(* and in the namespace asked for, whatever calls failed on the way, unless *)
(* others changed the cluster meanwhile.                                    *)
SuccessMeansApplied ==
  [][\A c \in Clients :
       /\ exit[c] = "none" /\ exit'[c] = "0"
       /\ met'[c] \subseteq {"fault"}
       => Applied(c)']_vars

(* No object is in the cluster but what a valid file asked for, in the      *)
(* namespace that is the file's or, if there is a flag, the flag's.         *)
NothingUnasked ==
  \A n \in Namespaces, k \in Kinds :
    objects[n][k] # "none" =>
      /\ n \in namespaces
      /\ \E cmd \in Commands : /\ cmd.file.valid /\ Target(cmd) = n
                               /\ cmd.file.content = objects[n][k]

(* A namespace comes into being only where a run of a valid file wants it:  *)
(* a file is rejected before anything is created for it.                    *)
OnlyValidCreate ==
  [][\A n \in namespaces' \ namespaces :
       \E c \in Clients : command[c].file.valid /\ Wanted(c) = n]_vars
=============================================================================
