---------------------------- MODULE Dockerx_proof ----------------------------
(***************************************************************************)
(* Proofs about the Docker Engine client.  DockerApply, for any specs, any *)
(* number of failures and any movement of the registry: its types, that it *)
(* implements ServiceApply, that a Recreate is fresh, and that a registry  *)
(* that is down takes no service down.  FollowLogs, for every capacity of  *)
(* the channel and every number of frames: its types, and that it          *)
(* implements LogFeed, whether or not Docker opens the logs, whatever it   *)
(* sends, however long the lines, and whether or not it returns.           *)
(***************************************************************************)
EXTENDS DockerApply, FollowLogs, TLAPS

(* What each place in Apply knows of the container.                        *)
Places ==
    /\ pc = "idle" <=> want = Absent
    /\ pc # "idle" => answer = "none"
    /\ pc \in {"compare", "ensure"} => ~force
    /\ pc = "ensure" => IF box = Absent THEN disturbed ELSE box.spec = want
    /\ pc = "remove" /\ ~force => box = Absent \/ box.spec # want
    /\ pc = "create" => box = Absent
    /\ pc = "start" => box = Absent \/ (box.spec = want /\ ~box.up)

(* A forced Apply has pulled what the registry had, or the pull broke.     *)
Freshness ==
    /\ pc = "idle" => ~force
    /\ pc # "idle" => asked <= tag[want]
    /\ force /\ pc \in {"remove", "create"} /\ spent.broken = 0 => local[want] >= asked
    /\ force /\ pc = "start" /\ spent.broken = 0 => box = Absent \/ box.digest >= asked

ApplyInv == TypeOK /\ Places /\ Freshness

(* A container is a record, and Absent is not one. *)
LEMMA BoxType ==
    ASSUME TypeOK, box # Absent
    PROVE  box \in Boxes /\ box.spec \in Specs /\ box.digest \in 1 .. MaxDigest
           /\ box.up \in BOOLEAN
BY DEF TypeOK, Boxes

(* A spent event counts up. *)
LEMMA SpendType ==
    ASSUME TypeOK, NEW e \in Events, Spend(e)
    PROVE  spent' \in [Events -> Nat] /\ (spent'.broken = 0 => spent.broken = 0)
           /\ (e = "broken" => spent'.broken # 0)
BY DEF TypeOK, Spend, Events

(* What a call does to the container is a container again. *)
LEMMA EffectType ==
    ASSUME TypeOK, want \in Specs
    PROVE  Effect \in Boxes \cup {Absent}
<1>1. CASE pc = "remove"
  BY <1>1 DEF Effect
<1>2. CASE pc = "create"
  BY <1>2 DEF Effect, TypeOK, Boxes
<1>3. CASE pc \in {"ensure", "start"}
  BY <1>3 DEF Effect, TypeOK, Boxes
<1>4. CASE pc \notin {"remove", "create", "ensure", "start"}
  BY <1>4 DEF Effect, TypeOK
<1> QED
  BY <1>1, <1>2, <1>3, <1>4

(* Nothing has happened yet. *)
LEMMA ApplyInit == Init => ApplyInv
<1> SUFFICES ASSUME Init PROVE ApplyInv
  OBVIOUS
<1>a. 1 \in 1 .. MaxDigest /\ 0 \in 0 .. MaxDigest
  BY ApplyAssumption
<1>b. /\ tag \in [Specs -> 1 .. MaxDigest] /\ local \in [Specs -> 0 .. MaxDigest]
      /\ asked \in 0 .. MaxDigest /\ spent \in [Events -> Nat]
  BY <1>a DEF Init
<1>1. TypeOK
  BY <1>b DEF Init, TypeOK
<1>2. Places /\ Freshness
  BY DEF Init, Places, Freshness
<1> QED
  BY <1>1, <1>2 DEF ApplyInv

(* Every step keeps the invariant. *)
LEMMA ApplyStep == ApplyInv /\ [Next]_vars => ApplyInv'
<1> SUFFICES ASSUME ApplyInv, [Next]_vars PROVE ApplyInv'
  OBVIOUS
<1> USE DEF ApplyInv
<1>0. /\ Absent \notin Specs /\ Absent \notin Boxes /\ MaxDigest \in Nat \ {0}
      /\ spent \in [Events -> Nat]
      /\ "broken" \in Events /\ "fault" \in Events /\ "forced" \in Events
      /\ "change" \in Events /\ "exit" \in Events /\ "removal" \in Events
  BY ApplyAssumption DEF TypeOK, Events
<1>1. CASE Begin
  <2>1. spent' \in [Events -> Nat]
    BY <1>0, <1>1, SpendType DEF Begin
  <2>3. tag[desired] \in 1 .. MaxDigest /\ want' \in Specs /\ want' = desired
    BY <1>1 DEF Begin, TypeOK
  <2>7. force' \in BOOLEAN
    BY <1>1 DEF Begin
  <2>8. asked' \in 0 .. MaxDigest
    BY <1>0, <1>1, <2>3 DEF Begin
  <2>4. TypeOK'
    BY <1>1, <2>1, <2>3, <2>7, <2>8 DEF Begin, TypeOK
  <2>5. Places'
    BY <1>0, <1>1, <2>3 DEF Begin, Places
  <2>6. Freshness'
    BY <1>0, <1>1, <2>3 DEF Begin, Freshness
  <2> QED
    BY <2>4, <2>5, <2>6
<1>2. CASE Pull
  <2>1. want \in Specs
    BY <1>2 DEF Pull, Places, TypeOK
  <2>2. TypeOK'
    BY <1>0, <1>2, <2>1 DEF Pull, Pulled, Goto, history, TypeOK
  <2>3. Places'
    BY <1>2 DEF Pull, Pulled, Goto, history, Places
  <2>4. local'[want] = tag[want] /\ asked <= tag[want]
    BY <1>2, <2>1 DEF Pull, TypeOK, Freshness
  <2>5. Freshness'
    BY <1>0, <1>2, <2>1, <2>4 DEF Pull, Pulled, Goto, history, Freshness, TypeOK
  <2> QED
    BY <2>2, <2>3, <2>5
<1>3. CASE PullBroken
  <2>1. spent' \in [Events -> Nat] /\ spent'.broken # 0
    BY <1>0, <1>3, SpendType DEF PullBroken
  <2>2. TypeOK'
    BY <1>3, <2>1 DEF PullBroken, Pulled, Goto, history, TypeOK
  <2>3. Places' /\ Freshness'
    BY <1>3, <2>1 DEF PullBroken, Pulled, Goto, history, Places, Freshness
  <2> QED
    BY <2>2, <2>3
<1>4. CASE Compare
  <2>1. TypeOK'
    BY <1>4 DEF Compare, Goto, history, TypeOK
  <2>2. Places' /\ Freshness'
    BY <1>4 DEF Compare, Goto, history, Places, Freshness
  <2> QED
    BY <2>1, <2>2
<1>5. CASE RemoveOld
  <2>1. box' = Absent
    BY <1>5 DEF RemoveOld, Effect
  <2>2. TypeOK'
    BY <1>5, <2>1 DEF RemoveOld, Goto, history, TypeOK
  <2>3. Places' /\ Freshness'
    BY <1>5, <2>1 DEF RemoveOld, Goto, history, Places, Freshness
  <2> QED
    BY <2>2, <2>3
<1>6. CASE Create
  <2>1. want \in Specs /\ box = Absent /\ local[want] \in 0 .. MaxDigest
    BY <1>6 DEF Create, Places, TypeOK
  <2>2. box' \in Boxes \cup {Absent}
    BY <1>6, <2>1, EffectType DEF Create
  <2>3. local[want] # 0 => box' = [spec |-> want, digest |-> local[want], up |-> FALSE]
    BY <1>6 DEF Create, Effect
  <2>4. local[want] = 0 => box' = Absent
    BY <1>6, <2>1 DEF Create, Effect
  <2>5. TypeOK'
    BY <1>6, <2>2 DEF Create, Goto, Return, history, TypeOK
  <2>6. Places'
    BY <1>0, <1>6, <2>1, <2>3, <2>4 DEF Create, Goto, Return, history, Places
  <2>7. Freshness'
    BY <1>0, <1>6, <2>1, <2>3, <2>4 DEF Create, Goto, Return, history, Freshness
  <2> QED
    BY <2>5, <2>6, <2>7
<1>7. CASE StartBox
  <2>1. want \in Specs
    BY <1>7 DEF StartBox, Places, TypeOK
  <2>2. box' \in Boxes \cup {Absent}
    BY <1>7, <2>1, EffectType DEF StartBox
  <2>3. TypeOK'
    BY <1>7, <2>2 DEF StartBox, Return, history, TypeOK
  <2>4. Places' /\ Freshness'
    BY <1>7 DEF StartBox, Return, history, Places, Freshness
  <2> QED
    BY <2>3, <2>4
<1>8. CASE Fault
  <2>1. want \in Specs
    BY <1>8 DEF Fault, Places, TypeOK
  <2>2. box' \in Boxes \cup {Absent}
    BY <1>8, <2>1, EffectType DEF Fault, TypeOK
  <2>3. spent' \in [Events -> Nat]
    BY <1>0, <1>8, SpendType DEF Fault
  <2>4. TypeOK'
    BY <1>8, <2>2, <2>3 DEF Fault, Return, history, TypeOK
  <2>5. Places' /\ Freshness'
    BY <1>8 DEF Fault, Return, history, Places, Freshness
  <2> QED
    BY <2>4, <2>5
<1>9. CASE Change
  <2>1. spent' \in [Events -> Nat] /\ (spent'.broken = 0 => spent.broken = 0)
    BY <1>0, <1>9, SpendType DEF Change
  <2>2. TypeOK'
    BY <1>9, <2>1 DEF Change, history, TypeOK
  <2>3. Places' /\ Freshness'
    BY <1>9, <2>1 DEF Change, history, Places, Freshness
  <2> QED
    BY <2>2, <2>3
<1>10. CASE MoveTag
  <2> PICK s \in Specs : tag[s] < MaxDigest /\ tag' = [tag EXCEPT ![s] = @ + 1]
    BY <1>10 DEF MoveTag
  <2>1. tag' \in [Specs -> 1 .. MaxDigest] /\ \A t \in Specs : tag[t] <= tag'[t]
    BY <1>0 DEF TypeOK
  <2>2. TypeOK'
    BY <1>10, <2>1 DEF MoveTag, history, TypeOK
  <2>3. Places'
    BY <1>10 DEF MoveTag, history, Places
  <2>4. pc # "idle" => want \in Specs
    BY DEF Places, TypeOK
  <2>5. pc # "idle" => asked <= tag'[want]
    BY <1>0, <2>1, <2>4 DEF Freshness, TypeOK
  <2>6. Freshness'
    BY <1>10, <2>5 DEF MoveTag, history, Freshness
  <2> QED
    BY <2>2, <2>3, <2>6
<1>11. CASE Exit
  <2>1. /\ spent' \in [Events -> Nat] /\ (spent'.broken = 0 => spent.broken = 0)
    BY <1>0, <1>11, SpendType DEF Exit
  <2>2. /\ box \in Boxes /\ box' = [box EXCEPT !.up = FALSE]
        /\ box' \in Boxes /\ box' # Absent /\ box # Absent
        /\ box'.spec = box.spec /\ box'.digest = box.digest /\ ~box'.up
    BY <1>0, <1>11, BoxType DEF Exit, Interfere, Boxes
  <2>3. TypeOK'
    BY <1>11, <2>1, <2>2 DEF Exit, Interfere, TypeOK
  <2>4. Places'
    BY <1>11, <2>2 DEF Exit, Interfere, Places
  <2>5. Freshness'
    BY <1>11, <2>1, <2>2 DEF Exit, Interfere, Freshness
  <2> QED
    BY <2>3, <2>4, <2>5
<1>12. CASE RemovedByHand
  <2>1. spent' \in [Events -> Nat] /\ (spent'.broken = 0 => spent.broken = 0)
    BY <1>0, <1>12, SpendType DEF RemovedByHand
  <2>2. TypeOK'
    BY <1>12, <2>1 DEF RemovedByHand, Interfere, TypeOK
  <2>3. Places' /\ Freshness'
    BY <1>12, <2>1 DEF RemovedByHand, Interfere, Places, Freshness
  <2> QED
    BY <2>2, <2>3
<1>13. CASE UNCHANGED vars
  BY <1>13 DEF vars, history, TypeOK, Places, Freshness
<1> QED
  BY <1>1, <1>2, <1>3, <1>4, <1>5, <1>6, <1>7, <1>8, <1>9, <1>10, <1>11, <1>12,
     <1>13 DEF Next, Apply

(* The invariant holds throughout. *)
LEMMA ApplyInvariant == Spec => []ApplyInv
BY ApplyInit, ApplyStep, PTL DEF Spec

(* Every variable keeps its type. *)
THEOREM ApplyTypeCorrect == Spec => []TypeOK
<1>1. ApplyInv => TypeOK
  BY DEF ApplyInv
<1> QED
  BY <1>1, ApplyInvariant, PTL

-----------------------------------------------------------------------------
(***************************************************************************)
(* DockerApply implements ServiceApply: the container that counts is the   *)
(* running one, and a force counts until the removal.                      *)
(***************************************************************************)
Forced == force /\ pc \in {"pull", "compare", "remove"}

(* A step that leaves the container alone does not change what runs.       *)
LEMMA SameBoxRuns == box' = box => Running' = Running
BY DEF Running

(* What an Apply works on is a spec, and never what stands for none.       *)
LEMMA UnderWay ==
    ASSUME ApplyInv, pc # "idle"
    PROVE  want \in Specs /\ want # Absent
BY ApplyAssumption DEF ApplyInv, TypeOK, Places

(* A call at the container: what it does is what ServiceApply allows, with *)
(* or without the answer.                                                  *)
LEMMA CallKeepsPromise ==
    ASSUME ApplyInv, pc # "idle", box' = Effect, Return("error"),
           UNCHANGED disturbed
    PROVE  Service!Next
<1>1. want \in Specs /\ want # Absent
  BY UnderWay
<1>2. /\ want' = Absent /\ answer' = "error" /\ ~force' /\ pc' = "idle"
  BY DEF Return
<1>3. CASE pc = "remove"
  <2>1. Running' = Absent
    BY <1>3 DEF Effect, Running
  <2>2. Forced \/ Running # want
    BY <1>1, <1>3 DEF Forced, ApplyInv, TypeOK, Places, Running
  <2>3. Service!Replace
    BY <1>1, <1>2, <2>1, <2>2 DEF Service!Replace, Service!Return, Forced
  <2> QED
    BY <2>3 DEF Service!Next
<1>4. CASE pc \in {"ensure", "start"} /\ box # Absent
  <2>1. box \in Boxes /\ box.spec = want
    BY <1>4, BoxType DEF ApplyInv, Places
  <2>2. box' = [box EXCEPT !.up = TRUE] /\ box' # Absent
    BY ApplyAssumption, <1>4, <2>1 DEF Effect, Boxes
  <2>3. Running' = want
    BY <2>1, <2>2 DEF Running, Boxes
  <2>4. Running \in {want, Absent}
    BY <2>1 DEF Running
  <2>5. ~Forced /\ ~Forced'
    BY <1>2, <1>4 DEF Forced, ApplyInv, Places
  <2>6. CASE Running = Absent
    BY <1>1, <1>2, <2>3, <2>5, <2>6 DEF Service!Next, Service!Start, Service!Return, Forced
  <2>7. CASE Running = want
    BY <1>1, <1>2, <2>3, <2>5, <2>7 DEF Service!Next, Service!GiveUp, Service!Return, Forced
  <2> QED
    BY <2>4, <2>6, <2>7
<1>5. CASE ~(pc = "remove" \/ (pc \in {"ensure", "start"} /\ box # Absent))
  <2>1. Running' = Running
    <3>1. CASE pc = "create"
      <4>1. Running = Absent
        BY <3>1 DEF ApplyInv, Places, Running
      <4>2. box' = box \/ ~box'.up
        BY <3>1 DEF Effect
      <4> QED
        BY <4>1, <4>2 DEF Running
    <3>2. CASE pc # "create"
      BY <1>5, <3>2 DEF Effect, Running
    <3> QED
      BY <3>1, <3>2
  <2> QED
    BY <1>1, <1>2, <2>1 DEF Service!Next, Service!GiveUp, Service!Return
<1> QED
  BY <1>3, <1>4, <1>5

(* Every step is a step of ServiceApply, or leaves its variables alone.    *)
LEMMA StepKeepsPromise == ApplyInv /\ [Next]_vars => [Service!Next]_(Service!vars)
<1> SUFFICES ASSUME ApplyInv, [Next]_vars PROVE Service!Next \/ UNCHANGED Service!vars
  OBVIOUS
<1>1. CASE Begin
  <2>1. want = Absent /\ desired \in Specs
    BY <1>1 DEF Begin, ApplyInv, TypeOK, Places
  <2>2. Running' = Running
    BY <1>1, SameBoxRuns DEF Begin
  <2> QED
    BY <1>1, <2>1, <2>2 DEF Begin, Service!Next, Service!Begin
<1>2. CASE Pull \/ PullBroken
  <2>1. Running' = Running
    BY <1>2, SameBoxRuns DEF Pull, PullBroken
  <2> QED
    BY <1>2, <2>1 DEF Pull, PullBroken, Pulled, Goto, history, Service!vars
<1>3. CASE Compare
  <2>1. Running' = Running
    BY <1>3, SameBoxRuns DEF Compare
  <2>2. ~force
    BY <1>3 DEF Compare, ApplyInv, Places
  <2> QED
    BY <1>3, <2>1, <2>2 DEF Compare, Goto, history, Service!vars
<1>4. CASE RemoveOld
  <2>1. want # Absent
    BY <1>4, UnderWay DEF RemoveOld
  <2>2. Running' = Absent
    BY <1>4 DEF RemoveOld, Effect, Running
  <2>3. Forced \/ Running # want
    BY <1>4, <2>1 DEF RemoveOld, Forced, ApplyInv, TypeOK, Places, Running
  <2> QED
    BY <1>4, <2>1, <2>2, <2>3
       DEF RemoveOld, Goto, history, Forced, Service!Next, Service!Replace
<1>5. CASE Create
  <2>1. CASE local[want] = 0
    <3>1. Return("error") /\ box' = Effect /\ pc # "idle" /\ UNCHANGED disturbed
      BY <1>5, <2>1 DEF Create, history
    <3> QED
      BY <3>1, CallKeepsPromise
  <2>2. CASE local[want] # 0
    <3>1. Running = Absent
      BY <1>5 DEF Create, ApplyInv, Places, Running
    <3>2. Running' = Absent
      BY <1>5, <2>2 DEF Create, Effect, Running
    <3> QED
      BY <1>5, <2>2, <3>1, <3>2 DEF Create, Goto, history, Service!vars
  <2> QED
    BY <2>1, <2>2
<1>6. CASE StartBox
  <2>1. want \in Specs /\ want # Absent
    BY <1>6, UnderWay DEF StartBox
  <2>2. ~Forced /\ ~Forced' /\ want' = Absent
    BY <1>6 DEF StartBox, Return, Forced, ApplyInv, Places
  <2>3. CASE box # Absent
    <3>1. box \in Boxes /\ box.spec = want
      BY <1>6, <2>3, BoxType DEF StartBox, ApplyInv, Places
    <3>2. box' = [box EXCEPT !.up = TRUE] /\ box' # Absent
      BY ApplyAssumption, <1>6, <2>3, <3>1 DEF StartBox, Effect, Boxes
    <3>3. Running' = want /\ Running \in {want, Absent}
      BY <3>1, <3>2 DEF Running, Boxes
    <3>4. answer' = "ok"
      BY <1>6, <2>3 DEF StartBox, Return
    <3>5. CASE Running = Absent
      BY <1>6, <2>1, <2>2, <3>3, <3>4, <3>5
         DEF StartBox, history, Forced, Service!Next, Service!Start, Service!Return
    <3>6. CASE Running = want
      BY <1>6, <2>1, <2>2, <3>3, <3>4, <3>6
         DEF StartBox, history, Forced, Service!Next, Service!Succeed, Service!Return
    <3> QED
      BY <3>3, <3>5, <3>6
  <2>4. CASE box = Absent
    <3>1. Running' = Absent /\ Running = Absent
      BY <1>6, <2>4 DEF StartBox, Effect, Running
    <3>2. CASE pc = "ensure"
      <4>1. disturbed /\ answer' = "ok"
        BY <1>6, <2>4, <3>2 DEF StartBox, Return, ApplyInv, Places
      <4> QED
        BY <1>6, <2>1, <2>2, <3>1, <4>1
           DEF StartBox, history, Forced, Service!Next, Service!Succeed, Service!Return
    <3>3. CASE pc = "start"
      <4>1. answer' = "error"
        BY <1>6, <2>4, <3>3 DEF StartBox, Return
      <4> QED
        BY <1>6, <2>1, <2>2, <3>1, <4>1
           DEF StartBox, history, Forced, Service!Next, Service!GiveUp, Service!Return
    <3> QED
      BY <1>6, <3>2, <3>3 DEF StartBox
  <2> QED
    BY <2>3, <2>4
<1>7. CASE Fault
  <2>1. pc # "idle" /\ Return("error") /\ UNCHANGED disturbed
    BY <1>7 DEF Fault, history
  <2>2. CASE box' = Effect
    BY <2>1, <2>2, CallKeepsPromise
  <2>3. CASE box' = box
    <3>1. want # Absent /\ Running' = Running
      BY <2>1, <2>3, UnderWay, SameBoxRuns
    <3> QED
      BY <2>1, <3>1 DEF Return, Service!Next, Service!GiveUp, Service!Return
  <2> QED
    BY <1>7, <2>2, <2>3 DEF Fault
<1>8. CASE Change \/ MoveTag
  <2>1. Running' = Running
    BY <1>8, SameBoxRuns DEF Change, MoveTag
  <2> QED
    BY <1>8, <2>1 DEF Change, MoveTag, history, Service!vars
<1>9. CASE Exit \/ RemovedByHand
  <2>1. Running' = Absent
    BY <1>9, BoxType DEF Exit, RemovedByHand, Interfere, Running, ApplyInv, Boxes
  <2> QED
    BY <1>9, <2>1 DEF Exit, RemovedByHand, Interfere, Service!Next, Service!Stop
<1>10. CASE UNCHANGED vars
  <2>1. Running' = Running
    BY <1>10, SameBoxRuns DEF vars
  <2> QED
    BY <1>10, <2>1 DEF vars, history, Service!vars
<1> QED
  BY <1>1, <1>2, <1>3, <1>4, <1>5, <1>6, <1>7, <1>8, <1>9, <1>10 DEF Next, Apply

(* Apply takes a running container down only to replace it, and succeeds   *)
(* only with the asked spec running, whatever fails.                       *)
THEOREM ApplyKeepsPromise == Spec => PromiseIsKept
<1>1. Init => Service!Init
  BY DEF Init, Running, Service!Init
<1> QED
  BY <1>1, StepKeepsPromise, ApplyInvariant, PTL DEF Spec, Service!Spec, PromiseIsKept

(* A Recreate that succeeds runs an image no older than the registry's     *)
(* when it began, unless a pull broke unnoticed.                           *)
THEOREM RecreateRunsFresh == Spec => RecreateIsFresh
<1> DEFINE Fresh == want # Absent /\ answer' = "ok" /\ force /\ spent.broken = 0
                      => box'.digest >= asked
<1>1. ASSUME ApplyInv, [Next]_vars PROVE [Fresh]_vars
  <2> SUFFICES ASSUME want # Absent, answer' = "ok", force, spent.broken = 0, Next
               PROVE  box'.digest >= asked
    BY <1>1
  <2>1. pc # "idle" /\ answer = "none"
    BY <1>1 DEF ApplyInv, Places
  <2>2. StartBox
    BY <2>1 DEF Next, Apply, Begin, Pull, PullBroken, Pulled, Compare, RemoveOld, Create,
                Goto, Return, Fault, Change, MoveTag, Exit, RemovedByHand, Interfere
  <2>3. pc = "start" /\ box # Absent
    BY <1>1, <2>2 DEF StartBox, Return, ApplyInv, Places
  <2>4. box \in Boxes /\ box.digest >= asked
    BY <1>1, <2>3, BoxType DEF ApplyInv, Freshness
  <2>5. box' = [box EXCEPT !.up = TRUE]
    BY <2>2, <2>3 DEF StartBox, Effect
  <2> QED
    BY <2>4, <2>5 DEF Boxes
<1> QED
  BY <1>1, ApplyInvariant, PTL DEF Spec, RecreateIsFresh

(* Once a pull that did not break has returned, the image asked for is on  *)
(* the host until Apply ends: dockerx removes no image.                    *)
ImageInv ==
    pc \notin {"idle", "pull"} /\ spent.broken = 0 => local[want] # 0

LEMMA ImageStays == Spec => []ImageInv
<1>1. Init => ImageInv
  BY DEF Init, ImageInv
<1>2. ASSUME ApplyInv, ImageInv, [Next]_vars PROVE ImageInv'
  <2>1. ASSUME pc = "pull", local' = [local EXCEPT ![want] = tag[want]], want' = want
        PROVE  local'[want'] # 0
    <3>1. want \in Specs
      BY <1>2, <2>1, UnderWay
    <3>2. local'[want] = tag[want] /\ tag[want] \in 1 .. MaxDigest
      BY <1>2, <2>1, <3>1 DEF ApplyInv, TypeOK
    <3> QED
      BY <2>1, <3>2
  <2>2. CASE UNCHANGED vars
    BY <1>2, <2>2 DEF ImageInv, vars
  <2>3. CASE Begin
    BY <2>3 DEF Begin, ImageInv
  <2>4. CASE Pull
    BY <2>1, <2>4 DEF Pull, Pulled, Goto, ImageInv
  <2>5. CASE PullBroken
    BY <1>2, <2>5, SpendType DEF PullBroken, ApplyInv, ImageInv, Events
  <2>6. CASE Compare \/ RemoveOld \/ Create \/ StartBox
    BY <1>2, <2>6 DEF Compare, RemoveOld, Create, StartBox, Goto, Return, ImageInv
  <2>7. CASE Fault
    BY <2>7 DEF Fault, Return, ImageInv
  <2>8. CASE MoveTag
    BY <1>2, <2>8 DEF MoveTag, ImageInv
  <2>9. CASE Change \/ Exit \/ RemovedByHand
    <3>1. UNCHANGED <<local, pc, want>>
      BY <2>9 DEF Change, Exit, RemovedByHand, Interfere
    <3>2. spent'.broken = 0 => spent.broken = 0
      BY <1>2, <2>9, SpendType DEF Change, Exit, RemovedByHand, ApplyInv, Events
    <3> QED
      BY <1>2, <3>1, <3>2 DEF ImageInv
  <2> QED
    BY <1>2, <2>2, <2>3, <2>4, <2>5, <2>6, <2>7, <2>8, <2>9 DEF Next, Apply
<1> QED
  BY <1>1, <1>2, ApplyInvariant, PTL DEF Spec

(* A registry that is down takes no service down: unless a pull broke      *)
(* unnoticed, Apply removes a running container only when the image of     *)
(* the new one is on the host.                                             *)
THEOREM OldOutlivesBadPull == Spec => OldOutlivesPull
<1> DEFINE Outlives == pc = "remove" /\ Running # Absent /\ pc' # "remove" /\ Running' = Absent
                         /\ spent.broken = 0 => local[want] # 0
<1>1. ASSUME ImageInv PROVE [Outlives]_vars
  BY <1>1 DEF ImageInv
<1> QED
  BY <1>1, ImageStays, PTL DEF OldOutlivesPull

-----------------------------------------------------------------------------
(***************************************************************************)
(* FollowLogs.                                                             *)
(***************************************************************************)
(* How many frames of s are between the connection and the channel. *)
InHand(s) == (IF scanner[s] = "send" THEN 1 ELSE 0)
             + (IF copier = "write" /\ frame.stream = s THEN 1 ELSE 0)

(* As long as the logs are not open, nothing is copied or scanned. *)
Idle == copier = "read" /\ \A s \in Streams : scanner[s] = "read" /\ pipe[s]

(* A line is sent at most once, and the goroutines end in order: the       *)
(* channel is closed after FollowLogs, and FollowLogs, unless it could not *)
(* open the logs, returns after its scanners and does not wait for them    *)
(* before the cancellation.                                                *)
Joined ==
    /\ \A s \in Streams : sent[s] + InHand(s) <= frames[s]
    /\ conn = "none" => Idle /\ main \in {"open", "returned"}
    /\ main = "open" => conn = "none"
    /\ conn # "none" /\ main # "wait" => cancelled
    /\ conn # "none" /\ main = "returned" => \A s \in Streams : scanner[s] = "gone"
    /\ closed => main = "returned"

FollowInv == FollowTypeOK /\ Joined

(* The first and later lines of a channel keep its type. *)
LEMMA TailType ==
    ASSUME NEW S, NEW q \in Seq(S), q # <<>>
    PROVE  Tail(q) \in Seq(S) /\ Len(Tail(q)) = Len(q) - 1 /\ Len(q) \in Nat
OBVIOUS

(* No frame has been read yet. *)
LEMMA FollowStarts == FollowInit => FollowInv
<1> SUFFICES ASSUME FollowInit PROVE FollowInv
  OBVIOUS
<1>1. 0 \in 0 .. MaxFrames /\ 0 <= LinesCap
  BY FollowAssumption
<1>a. lines = <<>>
  BY DEF FollowInit
<1>2. lines \in Seq(Streams \X (1 .. MaxFrames)) /\ Len(lines) <= LinesCap
  BY <1>1, <1>a
<1>3. /\ frames \in [Streams -> 0 .. MaxFrames] /\ sent \in [Streams -> 0 .. MaxFrames]
      /\ \A s \in Streams : sent[s] = 0 /\ frames[s] = 0 /\ scanner[s] = "read"
  BY <1>1 DEF FollowInit
<1>4. \A s \in Streams : sent[s] + InHand(s) <= frames[s] /\ sent[s] <= frames[s]
  <2>1. copier = "read"
    BY DEF FollowInit
  <2> SUFFICES ASSUME NEW s \in Streams
               PROVE  sent[s] + InHand(s) <= frames[s] /\ sent[s] <= frames[s]
    OBVIOUS
  <2>2. InHand(s) = 0
    BY <1>3, <2>1 DEF InHand
  <2>3. sent[s] = 0 /\ frames[s] = 0
    BY <1>3
  <2> QED
    BY <2>2, <2>3
<1>5. /\ pipe \in [Streams -> BOOLEAN]
      /\ scanner \in [Streams -> {"read", "send", "gone"}]
  BY DEF FollowInit
<1>6. /\ cancelled \in BOOLEAN /\ closed \in BOOLEAN /\ conn \in {"none", "open", "over"}
      /\ copier \in {"read", "write", "gone"} /\ frame \in Frames
      /\ main \in {"open", "wait", "join", "returned"} /\ reader \in {"reading", "gone"}
  BY DEF FollowInit
<1>7. FollowTypeOK
  BY <1>2, <1>3, <1>4, <1>5, <1>6 DEF FollowTypeOK
<1> QED
  BY <1>4, <1>7 DEF FollowInit, FollowInv, Joined, Idle

(* StdCopy hands a frame from the connection to one scanner. *)
LEMMA CopyStep ==
    ASSUME FollowInv, CopyRead \/ CopyEnds
    PROVE  FollowInv'
<1> USE FollowAssumption DEF FollowInv, FollowTypeOK, Joined, Idle, InHand, Frames, scanning
<1>1. CASE CopyRead
  <2>1. PICK f \in Frames :
          /\ frames[f.stream] < MaxFrames
          /\ frames' = [frames EXCEPT ![f.stream] = @ + 1] /\ frame' = f
    BY <1>1 DEF CopyRead
  <2>2. frames' \in [Streams -> 0 .. MaxFrames]
    BY <2>1
  <2>3. \A s \in Streams : sent[s] + InHand(s)' <= frames'[s]
    <3> SUFFICES ASSUME NEW s \in Streams PROVE sent[s] + InHand(s)' <= frames'[s]
      OBVIOUS
    <3>1. copier = "read" /\ scanner' = scanner /\ sent[s] \in Nat /\ frames[s] \in Nat
      BY <1>1 DEF CopyRead
    <3>2. CASE f.stream = s
      BY <2>1, <3>1, <3>2
    <3>3. CASE f.stream # s
      BY <2>1, <3>1, <3>3
    <3> QED
      BY <3>2, <3>3
  <2>4. \A s \in Streams : sent[s] <= frames'[s]
    BY <2>1
  <2> QED
    BY <1>1, <2>1, <2>2, <2>3, <2>4 DEF CopyRead
<1>2. CASE CopyEnds
  BY <1>2 DEF CopyEnds
<1> QED
  BY <1>1, <1>2

(* A scanner turns one frame into at most one line. *)
LEMMA ScanStep ==
    ASSUME FollowInv, NEW s \in Streams, Scan(s)
    PROVE  FollowInv'
<1> USE FollowAssumption DEF FollowInv, FollowTypeOK, Joined, Idle, InHand, Frames, copying
<1>1. CASE ScanRead(s)
  BY <1>1 DEF ScanRead
<1>2. CASE ScanSend(s)
  <2>1. sent[s] \in Nat /\ frames[s] \in 0 .. MaxFrames /\ sent[s] + 1 <= frames[s]
    <3>1. scanner[s] = "send" /\ sent[s] \in Nat /\ frames[s] \in 0 .. MaxFrames
      BY <1>2 DEF ScanSend
    <3>2. sent[s] + InHand(s) <= frames[s]
      OBVIOUS
    <3> QED
      BY <3>1, <3>2
  <2>2. <<s, sent[s] + 1>> \in Streams \X (1 .. MaxFrames)
    BY <2>1
  <2>3. lines' \in Seq(Streams \X (1 .. MaxFrames)) /\ Len(lines') <= LinesCap
    BY <1>2, <2>2 DEF ScanSend
  <2>4. sent' \in [Streams -> 0 .. MaxFrames]
        /\ scanner' \in [Streams -> {"read", "send", "gone"}]
    <3>1. sent \in [Streams -> 0 .. MaxFrames] /\ sent[s] + 1 \in 0 .. MaxFrames
      BY <2>1
    <3>2. sent' \in [Streams -> 0 .. MaxFrames]
      BY ONLY <1>2, <3>1 DEF ScanSend
    <3>3. scanner \in [Streams -> {"read", "send", "gone"}]
      OBVIOUS
    <3>4. scanner' \in [Streams -> {"read", "send", "gone"}]
      BY ONLY <1>2, <3>3 DEF ScanSend
    <3> QED
      BY <3>2, <3>4
  <2>5. \A t \in Streams : sent'[t] + InHand(t)' <= frames[t]
    <3> SUFFICES ASSUME NEW t \in Streams PROVE sent'[t] + InHand(t)' <= frames[t]
      OBVIOUS
    <3>1. CASE t = s
      <4>1. scanner'[s] = "read" /\ sent'[s] = sent[s] + 1 /\ scanner[s] = "send"
        BY <1>2 DEF ScanSend
      <4>2. copier' = copier /\ frame' = frame
        BY <1>2 DEF ScanSend
      <4> QED
        BY <2>1, <3>1, <4>1, <4>2
    <3>2. CASE t # s
      <4>1. scanner'[t] = scanner[t] /\ sent'[t] = sent[t]
        BY <1>2, <3>2 DEF ScanSend
      <4>2. copier' = copier /\ frame' = frame
        BY <1>2 DEF ScanSend
      <4> QED
        BY <4>1, <4>2
    <3> QED
      BY <3>1, <3>2
  <2>6. \A t \in Streams : sent'[t] <= frames[t]
    BY <1>2, <2>1 DEF ScanSend
  <2>7. main # "returned"
    <3>1. scanner[s] = "send" /\ conn # "none"
      BY <1>2 DEF ScanSend
    <3> QED
      BY <3>1
  <2>8. UNCHANGED <<cancelled, conn, copying, main, closed, reader>>
    BY <1>2 DEF ScanSend
  <2>9. FollowTypeOK'
    <3>1. UNCHANGED <<cancelled, conn, copier, frame, frames, pipe, main, closed, reader>>
      BY <2>8
    <3> QED
      BY <2>3, <2>4, <2>6, <3>1
  <2>10. Joined'
    <3>1. cancelled' = cancelled /\ main' = main /\ closed' = closed /\ frames' = frames
      BY <2>8
    <3>2. \A t \in Streams : sent'[t] + InHand(t)' <= frames'[t]
      BY <2>5, <3>1
    <3>3. conn # "none" /\ conn' = conn
      BY <1>2, <2>8 DEF ScanSend
    <3>4. /\ main' = "open" => conn' = "none"
          /\ conn' # "none" /\ main' # "wait" => cancelled'
          /\ closed' => main' = "returned"
      BY <3>1, <3>3
    <3> QED
      BY <2>7, <3>1, <3>2, <3>3, <3>4
  <2> QED
    BY ONLY <2>9, <2>10 DEF FollowInv
<1>3. CASE ScanLeaves(s)
  <2>1. /\ scanner[s] = "send" /\ scanner' = [scanner EXCEPT ![s] = "gone"]
        /\ UNCHANGED <<cancelled, conn, copying, sent, lines, main, closed, reader>>
    BY <1>3 DEF ScanLeaves
  <2>2. FollowTypeOK'
    BY <2>1
  <2>3. \A t \in Streams : sent'[t] + InHand(t)' <= frames'[t]
    <3> SUFFICES ASSUME NEW t \in Streams PROVE sent'[t] + InHand(t)' <= frames'[t]
      OBVIOUS
    <3>1. sent[t] \in Nat /\ frames[t] \in Nat /\ sent[t] + InHand(t) <= frames[t]
      OBVIOUS
    <3>2. CASE t = s
      BY <2>1, <3>1, <3>2
    <3>3. CASE t # s
      BY <2>1, <3>1, <3>3
    <3> QED
      BY <3>2, <3>3
  <2>4. main # "returned" /\ conn # "none"
    BY <2>1
  <2>5. /\ conn' # "none" /\ main' # "returned"
        /\ main' = "open" => conn' = "none"
        /\ conn' # "none" /\ main' # "wait" => cancelled'
        /\ closed' => main' = "returned"
    BY <2>1, <2>4
  <2>6. Joined'
    BY ONLY <2>3, <2>5 DEF Joined
  <2> QED
    BY ONLY <2>2, <2>6 DEF FollowInv
<1>4. CASE ScanEnds(s)
  BY <1>4 DEF ScanEnds
<1> QED
  BY <1>1, <1>2, <1>3, <1>4 DEF Scan

(* Every step keeps the invariant. *)
LEMMA FollowStep ==
    ASSUME FollowInv, [FollowNext]_followVars
    PROVE  FollowInv'
<1> USE FollowAssumption DEF FollowInv, FollowTypeOK, Joined, Idle, InHand
<1>a. ASSUME UNCHANGED <<copying, scanning, lines, reader>>,
             cancelled' \in {cancelled, TRUE}, conn' \in {"none", "open", "over"},
             main' \in {"open", "wait", "join", "returned"}, closed' \in {closed, TRUE},
             conn' = "none" => conn = "none" /\ main' \in {"open", "returned"},
             main' = "open" => conn' = "none",
             conn' # "none" /\ main' # "wait" => cancelled',
             conn' # "none" /\ main' = "returned" => \A s \in Streams : scanner[s] = "gone",
             closed' => main' = "returned"
      PROVE  FollowInv'
  <2>1. \A s \in Streams : sent'[s] + InHand(s)' <= frames'[s]
    BY <1>a DEF copying, scanning
  <2>2. FollowTypeOK'
    BY <1>a DEF copying, scanning
  <2> QED
    BY <1>a, <2>1, <2>2 DEF copying, scanning
<1>1. CASE StreamEnds \/ Cancel
  BY <1>a, <1>1 DEF StreamEnds, Cancel
<1>2. CASE OpenLogs \/ OpenFails \/ CloseConn \/ Join \/ CloseLines
  BY <1>a, <1>2 DEF OpenLogs, OpenFails, CloseConn, Join, CloseLines
<1>3. CASE Take
  BY <1>3, TailType DEF Take, copying, scanning
<1>4. CASE Leave
  BY <1>4 DEF Leave, copying, scanning
<1>5. CASE UNCHANGED followVars
  BY <1>5 DEF followVars, copying, scanning
<1> QED
  BY <1>1, <1>2, <1>3, <1>4, <1>5, CopyStep, ScanStep DEF FollowNext

(* Types, capacities and the order in which the goroutines end. *)
THEOREM FollowInvariant == FollowSpec => []FollowInv
<1>1. FollowInv /\ [FollowNext]_followVars => FollowInv'
  BY FollowStep
<1> QED
  BY <1>1, FollowStarts, PTL DEF FollowSpec

(* The channel never outgrows its capacity, and no line is sent that       *)
(* StdCopy has not read.                                                   *)
THEOREM FollowTypeCorrect == FollowSpec => []FollowTypeOK
BY FollowInvariant, PTL DEF FollowInv

-----------------------------------------------------------------------------
(***************************************************************************)
(* The implementation of LogFeed.                                          *)
(***************************************************************************)
(* Each step of FollowLogs is a step of LogFeed or leaves it alone: the    *)
(* logs count as opened from the step that opens them.                     *)
LEMMA FeedStep ==
    ASSUME FollowInv, [FollowNext]_followVars
    PROVE  [Feed!Next]_(Feed!feedVars)
<1> USE DEF FollowInv, Joined, Idle, Feed!feedVars
<1>1. CASE StreamEnds
  BY <1>1 DEF StreamEnds, scanning
<1>2. CASE Cancel
  BY <1>2 DEF Cancel, scanning, Feed!Next, Feed!Cancel
<1>3. CASE CopyRead \/ CopyEnds
  BY <1>3 DEF CopyRead, CopyEnds, scanning
<1>4. ASSUME NEW s \in Streams, Scan(s)
      PROVE  [Feed!Next]_(Feed!feedVars)
  <2>1. CASE ScanSend(s)
    <3>1. conn # "none" /\ ~closed
      BY <2>1 DEF ScanSend
    <3>2. Feed!Send(s)
      BY <2>1, <3>1 DEF ScanSend, Feed!Send
    <3> QED
      BY <3>2 DEF Feed!Next
  <2>2. CASE ScanRead(s) \/ ScanLeaves(s) \/ ScanEnds(s)
    BY <2>2 DEF ScanRead, ScanLeaves, ScanEnds
  <2> QED
    BY <1>4, <2>1, <2>2 DEF Scan
<1>5. CASE OpenFails \/ CloseConn \/ Join
  BY <1>5 DEF OpenFails, CloseConn, Join, scanning
<1>0. CASE OpenLogs
  BY <1>0 DEF OpenLogs, scanning, Feed!Next, Feed!Open
<1>6. CASE CloseLines
  BY <1>6 DEF CloseLines, scanning, Feed!Next, Feed!Close
<1>7. CASE Take
  BY <1>7 DEF Take, scanning, Feed!Next, Feed!Take
<1>8. CASE Leave
  BY <1>8 DEF Leave, scanning
<1>9. CASE UNCHANGED followVars
  BY <1>9 DEF followVars, scanning
<1> QED
  BY <1>0, <1>1, <1>2, <1>3, <1>4, <1>5, <1>6, <1>7, <1>8, <1>9 DEF FollowNext

(* What logManager.run relies on holds of FollowLogs: nothing is sent      *)
(* before the logs are open, per-stream order without gaps, a bounded      *)
(* channel, one close - at once if the logs could not be opened, otherwise *)
(* not before the cancellation - and no send after it.                     *)
THEOREM FollowImplementsFeed == FollowSpec => FeedIsHonoured
<1>1. FollowInit => Feed!Init
  BY DEF FollowInit, Feed!Init
<1>2. FollowInv /\ [FollowNext]_followVars => [Feed!Next]_(Feed!feedVars)
  BY FeedStep
<1> QED
  BY <1>1, <1>2, FollowInvariant, PTL DEF FollowSpec, Feed!Spec, FeedIsHonoured
=============================================================================
