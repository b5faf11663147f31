---------------------------- MODULE DockerApply -----------------------------
(***************************************************************************)
(* deploy.Apply of one service (internal/deploy/reconcile.go), with the    *)
(* calls it makes to Docker (internal/dockerx): pull, compare, remove,     *)
(* create, start.  Each call may fail, before or after it has had its      *)
(* effect, and the agent may crash at it; containers end or are removed by *)
(* hand between any two.                                                   *)
(*                                                                         *)
(* Each spec has an image reference of its own; a digest is a position in  *)
(* the history of that reference in the registry.  A method of dockerx     *)
(* that looks a container up by name and then acts on its id is one step:  *)
(* if the container goes in between, Docker answers with an error, which   *)
(* Fault covers.  A container that Docker restarts has not ended here.     *)
(***************************************************************************)
EXTENDS Naturals

CONSTANTS
    Specs,        \* container specs, as far as their hash tells them apart
    Absent,       \* stands for "no container" and "no Apply under way"
    MaxDigest,    \* bound: how far an image reference moves
    Limit         \* bound: how often each kind of event happens

(* broken: a pull that fails after Docker has answered; fault: any other   *)
(* failing call, or a crash; forced: a Recreate.                           *)
Events == {"broken", "fault", "forced", "change", "exit", "removal"}

Boxes == [spec : Specs, digest : 1 .. MaxDigest, up : BOOLEAN]

ASSUME ApplyAssumption ==
    /\ Absent \notin Specs /\ Absent \notin Boxes
    /\ MaxDigest \in Nat \ {0}
    /\ Limit \in [Events -> Nat]

VARIABLES
    tag,          \* the registry: spec -> digest of its image reference
    local,        \* the host: spec -> digest its reference resolves to, 0 if none
    box,          \* the container of the service's name, or Absent
    desired,      \* the spec of the latest desired-state
    pc, want, force,    \* Apply: the next call, and its arguments
    answer,       \* what the last Apply returned: "ok", "error"; "none" before that
    asked,        \* history: the digest of the image when the Apply began
    disturbed,    \* history: another hand stopped the container since
    spent         \* bounds used up

history == <<asked, disturbed>>
vars == <<tag, local, box, desired, pc, want, force, answer, history, spent>>

Spend(e) == spent[e] < Limit[e] /\ spent' = [spent EXCEPT ![e] = @ + 1]

Running == IF box # Absent /\ box.up THEN box.spec ELSE Absent

Init ==
    /\ tag = [s \in Specs |-> 1] /\ local = [s \in Specs |-> 0]
    /\ box = Absent /\ desired \in Specs
    /\ pc = "idle" /\ want = Absent /\ force = FALSE /\ answer = "none"
    /\ asked = 0 /\ disturbed = FALSE
    /\ spent = [e \in Events |-> 0]

-----------------------------------------------------------------------------
(***************************************************************************)
(* Apply.                                                                  *)
(***************************************************************************)
Return(a) == pc' = "idle" /\ want' = Absent /\ force' = FALSE /\ answer' = a

Goto(next) == pc' = next /\ UNCHANGED <<want, force, answer>>

(* A reconcile reaches the service. *)
Begin ==
    /\ pc = "idle" /\ pc' = "pull" /\ want' = desired /\ answer' = "none"
    /\ \/ force' = FALSE /\ UNCHANGED spent
       \/ force' = TRUE /\ Spend("forced")
    /\ asked' = tag[desired] /\ disturbed' = FALSE
    /\ UNCHANGED <<tag, local, box, desired>>

Pulled == Goto(IF force THEN "remove" ELSE "compare")

(* Mutant of Pull: a forced Apply trusts the image at hand. *)
MutForcedKeepsImage ==
    /\ pc = "pull" /\ Pulled
    /\ local' = IF force /\ local[want] # 0 THEN local
                ELSE [local EXCEPT ![want] = tag[want]]
    /\ UNCHANGED <<tag, box, desired, history, spent>>

Pull ==
    /\ pc = "pull" /\ Pulled
    /\ local' = [local EXCEPT ![want] = tag[want]]
    /\ UNCHANGED <<tag, box, desired, history, spent>>

(* The progress stream is drained unread: an error in it is not noticed. *)
PullBroken ==
    /\ pc = "pull" /\ Pulled /\ Spend("broken")
    /\ UNCHANGED <<tag, local, box, desired, history>>

(* Mutant of Compare: a container of the spec is taken to be running. *)
MutExistsIsRunning ==
    /\ pc = "compare"
    /\ IF box # Absent /\ box.spec = want THEN Return("ok") ELSE Goto("remove")
    /\ UNCHANGED <<tag, local, box, desired, history, spent>>

Compare ==
    /\ pc = "compare"
    /\ Goto(IF box # Absent /\ box.spec = want THEN "ensure" ELSE "remove")
    /\ UNCHANGED <<tag, local, box, desired, history, spent>>

(* What the call at hand does to the container. *)
Effect ==
    CASE pc = "remove" -> Absent
      [] pc = "create" /\ local[want] # 0 ->
           [spec |-> want, digest |-> local[want], up |-> FALSE]
      [] pc \in {"ensure", "start"} /\ box # Absent -> [box EXCEPT !.up = TRUE]
      [] OTHER -> box

RemoveOld ==
    /\ pc = "remove" /\ Goto("create") /\ box' = Effect
    /\ UNCHANGED <<tag, local, desired, history, spent>>

(* Docker does not create a container of an image it does not have. *)
Create ==
    /\ pc = "create" /\ box' = Effect
    /\ IF local[want] # 0 THEN Goto("start") ELSE Return("error")
    /\ UNCHANGED <<tag, local, desired, history, spent>>

(* ContainerStart: of Run, or of EnsureStarted when the spec is unchanged. *)
(* A container that is gone is an error to the former only.                *)
StartBox ==
    /\ pc \in {"ensure", "start"} /\ box' = Effect
    /\ Return(IF pc = "start" /\ box = Absent THEN "error" ELSE "ok")
    /\ UNCHANGED <<tag, local, desired, history, spent>>

(* Mutant of Fault: a failing pull is logged, and Apply goes on. *)
MutPullErrorIgnored ==
    /\ pc # "idle" /\ Spend("fault") /\ box' \in {box, Effect}
    /\ IF pc = "pull" THEN Pulled ELSE Return("error")
    /\ UNCHANGED <<tag, local, desired, history>>

Fault ==
    /\ pc # "idle" /\ Spend("fault") /\ Return("error") /\ box' \in {box, Effect}
    /\ UNCHANGED <<tag, local, desired, history>>

-----------------------------------------------------------------------------
(***************************************************************************)
(* The rest of the world.                                                  *)
(***************************************************************************)
Change ==
    /\ Spend("change") /\ desired' \in Specs
    /\ UNCHANGED <<tag, local, box, pc, want, force, answer, history>>

MoveTag ==
    /\ \E s \in Specs : tag[s] < MaxDigest /\ tag' = [tag EXCEPT ![s] = @ + 1]
    /\ UNCHANGED <<local, box, desired, pc, want, force, answer, history, spent>>

Interfere(after) ==
    /\ box # Absent /\ box' = after /\ disturbed' = TRUE
    /\ UNCHANGED <<tag, local, desired, pc, want, force, answer, asked>>

Exit == Spend("exit") /\ Interfere([box EXCEPT !.up = FALSE])

RemovedByHand == Spend("removal") /\ Interfere(Absent)

Apply == Begin \/ Pull \/ Compare \/ RemoveOld \/ Create \/ StartBox

Next ==
    \/ Apply \/ PullBroken \/ Fault
    \/ Change \/ MoveTag \/ Exit \/ RemovedByHand

Spec == Init /\ [][Next]_vars

(* The agent reconciles again and again, and its calls return. *)
FairSpec == Spec /\ WF_vars(Apply)

-----------------------------------------------------------------------------
TypeOK ==
    /\ tag \in [Specs -> 1 .. MaxDigest] /\ local \in [Specs -> 0 .. MaxDigest]
    /\ box \in Boxes \cup {Absent} /\ desired \in Specs
    /\ pc \in {"idle", "pull", "compare", "ensure", "remove", "create", "start"}
    /\ want \in Specs \cup {Absent} /\ force \in BOOLEAN
    /\ answer \in {"none", "ok", "error"}
    /\ asked \in 0 .. MaxDigest
    /\ disturbed \in BOOLEAN /\ spent \in [Events -> Nat]

(* What an Apply promises, whatever fails: it takes a running container    *)
(* down only to replace it, it succeeds only with the asked spec running.  *)
(* So it leaves the old container, none, or the new one, as the Applied    *)
(* and NotApplied of AgentLoop say.                                        *)
Service == INSTANCE ServiceApply WITH
    running <- Running,
    force <- force /\ pc \in {"pull", "compare", "remove"}

PromiseIsKept == Service!Spec

(* A Recreate that succeeds runs an image no older than the registry's     *)
(* when it began, if the pull did not break unnoticed.                     *)
RecreateIsFresh ==
    [][want # Absent /\ answer' = "ok" /\ force /\ spent.broken = 0
         => box'.digest >= asked]_vars

(* The old container is removed only once the image of the new one is      *)
(* there, if the pull did not break unnoticed: a registry that is down     *)
(* does not take a service down.                                           *)
OldOutlivesPull ==
    [][pc = "remove" /\ Running # Absent /\ pc' # "remove" /\ Running' = Absent
       /\ spent.broken = 0 => local[want] # 0]_vars

(* After whatever failed, ended or was removed, the service runs the spec  *)
(* of the latest desired-state.                                            *)
EventuallyUp == <>[](Running = desired)
=============================================================================
