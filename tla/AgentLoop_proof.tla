--------------------------- MODULE AgentLoop_proof ---------------------------
(***************************************************************************)
(* Proofs about the Run loop, for every set of desired-states, every       *)
(* number of them and every bound on frames, commands and mishaps.         *)
(***************************************************************************)
EXTENDS AgentLoop, TLAPS

-----------------------------------------------------------------------------
(***************************************************************************)
(* Lemmas about the operators.                                             *)
(***************************************************************************)

(* Every service has a spec in every desired-state. *)
LEMMA SpecOfType ==
    ASSUME NEW s \in Services, NEW c \in DesiredState
    PROVE  SpecOf(s, c) \in Specs
BY DEF SpecOf, Specs, DesiredState, HasBackups

(* buildConditions always finds a reason. *)
LEMMA ReasonType ==
    ASSUME NEW err \in BOOLEAN, NEW store \in BOOLEAN,
           NEW limited \in BOOLEAN, NEW delegation \in BOOLEAN
    PROVE  Reason(err, store, limited, delegation) \in Reasons
BY DEF Reason, Reasons

(* A heartbeat reports the generation the agent converged on. *)
LEMMA HeartbeatType ==
    ASSUME GateOK, BlockOK, Heartbeat
    PROVE  status' \in [gen : Generation, reason : Reasons]
<1>1. Ready \in Reasons
  BY ReasonType DEF Ready, GateOK, BlockOK
<1> QED
  BY <1>1 DEF Heartbeat, GateOK

(* Mishaps are counted. *)
LEMMA SpendStep ==
    ASSUME spent \in [Mishaps -> Nat], NEW m \in Mishaps, Spend(m)
    PROVE  spent' \in [Mishaps -> Nat]
BY DEF Spend

(* A backup holds the release the database is at. *)
LEMMA RunBackupStep ==
    ASSUME DiskOK, spent \in [Mishaps -> Nat], RunBackup
    PROVE  repo' \subseteq Nat /\ spent' \in [Mishaps -> Nat] /\ repo \subseteq repo'
<1>1. schema["managed"] \in Nat
  BY DEF DiskOK, Databases
<1>2. "fault" \in Mishaps /\ "cut" \in Mishaps
  BY DEF Mishaps
<1>3. CASE repo' = repo \cup {schema["managed"]} /\ UNCHANGED spent
  BY <1>1, <1>3 DEF DiskOK
<1>4. CASE (Spend("fault") \/ Spend("cut")) /\ UNCHANGED repo
  BY <1>2, <1>4, SpendStep DEF DiskOK
<1>5. CASE UNCHANGED <<spent, repo>>
  BY <1>5 DEF DiskOK
<1> QED
  BY <1>3, <1>4, <1>5 DEF RunBackup, BackupTaken

(* What a restore brings back is a release. *)
LEMMA RestorableType ==
    ASSUME DiskOK
    PROVE  Restorable \subseteq Nat
<1>1. repo \subseteq Nat
  BY DEF DiskOK
<1>2. \A r \in 0 .. schema["managed"] : r \in Nat
  OBVIOUS
<1> QED
  BY <1>1, <1>2 DEF Restorable

(* applyDesired ends at the select loop or starts a reconcile, and starts  *)
(* one only outside a backoff window and a restore.                        *)
LEMMA ApplyDesiredStep ==
    ASSUME GateOK, BlockOK, HandoverOK, ApplyDesired
    PROVE  /\ pc' \in {"begin", "select"}
           /\ pc' = "begin" => ~restoring' /\ ~window'
           /\ blocked' \in BOOLEAN /\ resyncDue' \in BOOLEAN
           /\ status' \in [gen : Generation, reason : Reasons]
<1>1. CASE Gate
  BY <1>1 DEF ApplyDesired, Gate, GateOK, HandoverOK
<1>2. CASE ~Gate
  <2>1. status' \in [gen : Generation, reason : Reasons]
    BY <1>2, HeartbeatType DEF ApplyDesired
  <2> QED
    BY <1>2, <2>1 DEF ApplyDesired, BlockOK, GateOK, HandoverOK
<1> QED
  BY <1>1, <1>2

(* reapply does the same, and nothing before the first desired-state. *)
LEMMA ReapplyStep ==
    ASSUME GateOK, BlockOK, HandoverOK, Reapply
    PROVE  /\ pc' \in {"begin", "select"}
           /\ pc' = "begin" => ~restoring' /\ ~window' /\ lastDesired # 0
           /\ blocked' \in BOOLEAN /\ resyncDue' \in BOOLEAN
           /\ status' \in [gen : Generation, reason : Reasons]
<1>1. CASE lastDesired = 0
  BY <1>1 DEF Reapply, GateOK, HandoverOK
<1>2. CASE lastDesired # 0
  BY <1>2, ApplyDesiredStep DEF Reapply
<1> QED
  BY <1>1, <1>2

-----------------------------------------------------------------------------
(***************************************************************************)
(* Type correctness.  TypeOK alone is not inductive: reconcile reads       *)
(* generations[lastDesired], so the numbers the agent holds, and those on  *)
(* their way to it, must be numbers of published desired-states.           *)
(***************************************************************************)
Numbering ==
    /\ lastDesired <= Len(generations) /\ lastGeneration <= Len(generations)
    /\ pc \in Phases => lastDesired # 0
    /\ \A i \in 1 .. Len(stream) :
         stream[i].kind = "desired" => stream[i].gen \in 1 .. Len(generations)

TypeInv == TypeOK /\ Numbering

(* The desired-state at hand is one of the published ones. *)
LEMMA DsType ==
    ASSUME TypeInv, lastDesired # 0
    PROVE  ds \in DesiredState
BY ConfigsAssumption DEF TypeInv, TypeOK, Numbering, CloudOK, HandoverOK, ds, Generation

(* A freshly started agent has its types. *)
LEMMA TypeInit == Init => TypeInv
<1> SUFFICES ASSUME Init PROVE TypeInv
  OBVIOUS
<1> USE LoopAssumption DEF Init
<1>1. BlockOK /\ DbOK
  BY Zenon DEF BlockOK, DbOK
<1>2. /\ lastReconcileErr \in BOOLEAN /\ window \in BOOLEAN /\ blocked \in BOOLEAN
      /\ forceRecheckCh \in BOOLEAN /\ restoreCh \in BOOLEAN
      /\ restoring \in BOOLEAN /\ resyncDue \in BOOLEAN
      /\ hadCert \in BOOLEAN /\ stopped \in BOOLEAN /\ dns \in BOOLEAN
      /\ cert \in BOOLEAN
  BY Zenon
<1>3. GateOK /\ HandoverOK
  BY <1>2 DEF GateOK, HandoverOK, Generation, Reasons
<1>4. QueuesOK /\ LocalsOK /\ DockerOK
  BY <1>2 DEF QueuesOK, LocalsOK, DockerOK
<1>5. DiskOK /\ CloudOK /\ RestOK
  BY <1>2 DEF DiskOK, CloudOK, RestOK, Generation, Mishaps
<1>6. Numbering
  BY DEF Numbering, Phases
<1> QED
  BY <1>1, <1>3, <1>4, <1>5, <1>6 DEF TypeInv, TypeOK

(* One turn of the select loop keeps the types. *)
LEMMA TypeServe == TypeInv /\ Serve => TypeInv'
<1> SUFFICES ASSUME TypeInv, Serve PROVE TypeInv'
  OBVIOUS
<1> USE LoopAssumption DEF TypeInv, TypeOK
<1>a. ASSUME Untouched PROVE BlockOK' /\ DbOK' /\ LocalsOK'
  BY <1>a DEF Untouched, BlockOK, blockVars, DbOK, dbVars, LocalsOK, locals
<1>b. ASSUME NEW kind, Receive(kind) PROVE DockerOK' /\ DiskOK' /\ CloudOK'
  BY <1>b DEF Receive, Untouched, DockerOK, docker, DiskOK, CloudOK
<1>c. ASSUME NEW kind, Receive(kind), Idle
      PROVE  RestOK' /\ Numbering' /\ BlockOK' /\ DbOK' /\ LocalsOK'
  <2>1. BlockOK' /\ DbOK' /\ LocalsOK'
    BY <1>a, <1>c DEF Receive
  <2>2. RestOK'
    BY <1>c DEF Receive, Idle, Untouched, RestOK
  <2>3. Numbering'
    BY <1>c DEF Receive, Idle, Untouched, Numbering, CloudOK
  <2> QED
    BY <2>1, <2>2, <2>3
<1>1. CASE OnDesired
  <2> USE <1>1 DEF OnDesired
  <2>1. Head(stream).gen \in 1 .. Len(generations)
    BY DEF Receive, Numbering, CloudOK
  <2>2. GateOK' /\ HandoverOK'
    BY <2>1, ApplyDesiredStep DEF Receive, GateOK, HandoverOK, Untouched, CloudOK, Generation
  <2>3. QueuesOK' /\ BlockOK' /\ DbOK' /\ LocalsOK'
    BY <1>a DEF Receive, QueuesOK, queues
  <2>4. RestOK'
    BY ApplyDesiredStep DEF Receive, RestOK, Untouched, Phases
  <2>5. Numbering'
    BY <2>1, ApplyDesiredStep DEF Receive, Numbering, CloudOK, Untouched, Phases,
       HandoverOK, GateOK, Generation
  <2> QED
    BY <1>b, <2>2, <2>3, <2>4, <2>5
<1>2. CASE OnTampered
  <2> USE <1>2 DEF OnTampered
  <2>1. GateOK' /\ HandoverOK' /\ RestOK'
    BY DEF Receive, Untouched, GateOK, HandoverOK, handover, RestOK, Reasons
  <2>2. QueuesOK' /\ BlockOK' /\ DbOK' /\ LocalsOK'
    BY <1>a DEF Receive, QueuesOK, queues
  <2>3. Numbering'
    BY DEF Receive, Untouched, handover, Numbering, CloudOK
  <2> QED
    BY <1>b, <2>1, <2>2, <2>3
<1>3. CASE OnClosed
  <2> USE <1>3 DEF OnClosed
  <2>1. GateOK' /\ HandoverOK' /\ RestOK'
    BY DEF Untouched, GateOK, HandoverOK, handover, RestOK
  <2>2. QueuesOK' /\ BlockOK' /\ DbOK' /\ LocalsOK'
    BY <1>a DEF QueuesOK, queues
  <2>3. DockerOK' /\ DiskOK' /\ CloudOK'
    BY DEF Untouched, DockerOK, docker, DiskOK, CloudOK
  <2>4. Numbering'
    BY DEF Untouched, handover, Numbering, Phases
  <2> QED
    BY <2>1, <2>2, <2>3, <2>4
<1>4. CASE OnForceRecheck
  <2>1. GateOK' /\ HandoverOK'
    BY <1>4 DEF OnForceRecheck, Receive, Untouched, Idle, GateOK, HandoverOK
  <2>2. QueuesOK'
    BY <1>4 DEF OnForceRecheck, QueuesOK, queues
  <2> QED
    BY <1>4, <1>b, <1>c, <2>1, <2>2 DEF OnForceRecheck
<1>5. CASE OnRequestStatus
  <2>1. GateOK' /\ HandoverOK'
    BY <1>5, HeartbeatType DEF OnRequestStatus, Receive, Untouched, Idle, GateOK, HandoverOK
  <2>2. QueuesOK'
    BY <1>5 DEF OnRequestStatus, QueuesOK, queues
  <2> QED
    BY <1>5, <1>b, <1>c, <2>1, <2>2 DEF OnRequestStatus
<1>6. CASE OnRunBackup
  <2>1. GateOK' /\ HandoverOK'
    BY <1>6 DEF OnRunBackup, Receive, Untouched, Idle, GateOK, HandoverOK
  <2>2. QueuesOK'
    BY <1>6 DEF OnRunBackup, QueuesOK, queues
  <2> QED
    BY <1>6, <1>b, <1>c, <2>1, <2>2 DEF OnRunBackup
<1>7. CASE OnRestoreDB
  <2>1. GateOK' /\ HandoverOK'
    BY <1>7 DEF OnRestoreDB, Receive, Untouched, Idle, GateOK, HandoverOK
  <2>2. QueuesOK'
    BY <1>7 DEF OnRestoreDB, QueuesOK, queues
  <2> QED
    BY <1>7, <1>b, <1>c, <2>1, <2>2 DEF OnRestoreDB
<1>8. CASE OnRecreate
  <2> USE <1>8 DEF OnRecreate
  <2>1. GateOK' /\ HandoverOK' /\ RestOK'
    BY DEF Untouched, Idle, GateOK, HandoverOK, RestOK
  <2>2. QueuesOK'
    BY DEF QueuesOK
  <2>3. DockerOK' /\ DiskOK' /\ CloudOK'
    BY DEF Untouched, DockerOK, DiskOK, CloudOK
  <2>4. Numbering'
    BY DEF Untouched, Idle, Numbering, CloudOK
  <2> QED
    BY <1>a, <2>1, <2>2, <2>3, <2>4
<1>d. ASSUME pc = "select", Untouched, Reapply,
             UNCHANGED <<lastDesired, stream, docker, repo>>,
             restoring' \in BOOLEAN, window' \in BOOLEAN, spent' = spent,
             forceRecreate' \subseteq RecreateTargets
      PROVE  /\ GateOK' /\ HandoverOK' /\ BlockOK' /\ DbOK' /\ LocalsOK'
             /\ DockerOK' /\ DiskOK' /\ CloudOK' /\ RestOK' /\ Numbering'
  <2>1. GateOK' /\ HandoverOK' /\ RestOK'
    BY <1>d, ReapplyStep DEF Untouched, GateOK, HandoverOK, RestOK, Phases
  <2>2. DockerOK' /\ DiskOK' /\ CloudOK'
    BY <1>d DEF Untouched, DockerOK, docker, DiskOK, CloudOK
  <2>3. Numbering'
    BY <1>d, ReapplyStep DEF Untouched, Numbering, CloudOK, Phases
  <2> QED
    BY <1>a, <1>d, <2>1, <2>2, <2>3
<1>9. CASE HeartbeatTick
  <2> USE <1>9 DEF HeartbeatTick
  <2>1. GateOK' /\ HandoverOK' /\ RestOK'
    BY HeartbeatType DEF Untouched, Idle, GateOK, HandoverOK, RestOK
  <2>2. QueuesOK' /\ DockerOK' /\ DiskOK' /\ CloudOK'
    BY DEF Untouched, QueuesOK, queues, DockerOK, docker, DiskOK, CloudOK
  <2>3. Numbering'
    BY DEF Untouched, Idle, Numbering
  <2> QED
    BY <1>a, <2>1, <2>2, <2>3
<1>10. CASE ResyncTick
  <2>1. restoring' \in BOOLEAN /\ window' \in BOOLEAN
        /\ forceRecreate' \subseteq RecreateTargets /\ QueuesOK'
    BY <1>10 DEF ResyncTick, HandoverOK, GateOK, RestOK, QueuesOK, queues
  <2> QED
    BY <1>10, <1>d, <2>1 DEF ResyncTick
<1>11. CASE FastTick
  BY <1>10, <1>11 DEF FastTick
<1>12. CASE ServeRecheck
  <2>1. restoring' \in BOOLEAN /\ window' \in BOOLEAN
        /\ forceRecreate' \subseteq RecreateTargets /\ QueuesOK'
    BY <1>12 DEF ServeRecheck, HandoverOK, GateOK, RestOK, QueuesOK
  <2> QED
    BY <1>12, <1>d, <2>1 DEF ServeRecheck
<1>13. CASE ServeRecreate
  <2> USE <1>13 DEF ServeRecreate
  <2>1. window' \in BOOLEAN
    BY Zenon
  <2>2. Head(recreateCh) \in RecreateTargets
    BY DEF QueuesOK
  <2>3. restoring' \in BOOLEAN /\ forceRecreate' \subseteq RecreateTargets /\ QueuesOK'
    BY <2>2 DEF HandoverOK, RestOK, QueuesOK
  <2> QED
    BY <1>d, <2>1, <2>3
<1>14. CASE ServeBackup
  <2> USE <1>14 DEF ServeBackup
  <2>1. GateOK' /\ HandoverOK' /\ QueuesOK'
    BY HeartbeatType DEF Untouched, Idle, GateOK, HandoverOK, QueuesOK
  <2>2. repo' \subseteq Nat /\ spent' \in [Mishaps -> Nat]
    BY RunBackupStep DEF DiskOK, RestOK
  <2>3. DockerOK' /\ DiskOK' /\ CloudOK' /\ RestOK'
    BY <2>2 DEF Untouched, Idle, DockerOK, docker, DiskOK, CloudOK, RestOK
  <2>4. Numbering'
    BY DEF Untouched, Idle, Numbering
  <2> QED
    BY <1>a, <2>1, <2>3, <2>4
<1>15. CASE BackupTick
  <2> USE <1>15 DEF BackupTick
  <2>1. GateOK' /\ HandoverOK' /\ QueuesOK'
    BY DEF Untouched, Idle, GateOK, HandoverOK, QueuesOK, queues
  <2>2. repo' \subseteq Nat /\ spent' \in [Mishaps -> Nat]
    BY RunBackupStep DEF DiskOK, RestOK
  <2>3. DockerOK' /\ DiskOK' /\ CloudOK' /\ RestOK'
    BY <2>2 DEF Untouched, Idle, DockerOK, docker, DiskOK, CloudOK, RestOK
  <2>4. Numbering'
    BY DEF Untouched, Idle, Numbering
  <2> QED
    BY <1>a, <2>1, <2>3, <2>4
<1> QED
  BY <1>1, <1>2, <1>3, <1>4, <1>5, <1>6, <1>7, <1>8, <1>9, <1>10, <1>11,
     <1>12, <1>13, <1>14, <1>15 DEF Serve

(* Every step of runRestore keeps the types. *)
LEMMA TypeRestore == TypeInv /\ Restore => TypeInv'
<1> SUFFICES ASSUME TypeInv, Restore PROVE TypeInv'
  OBVIOUS
<1> USE LoopAssumption DEF TypeInv, TypeOK
<1>a. ASSUME Untouched PROVE BlockOK' /\ DbOK' /\ LocalsOK'
  BY <1>a DEF Untouched, BlockOK, blockVars, DbOK, dbVars, LocalsOK, locals
(* The deferred release and reapply. *)
<1>b. ASSUME Release, UNCHANGED <<lastGeneration, lastReconcileErr, blockVars, hadCert,
                                  stopped, generations, dns, stream, forceRecreate>>,
             spent' \in [Mishaps -> Nat]
      PROVE  GateOK' /\ HandoverOK' /\ RestOK' /\ CloudOK' /\ Numbering'
  <2>1. restoring' \in BOOLEAN
    BY <1>b, Zenon DEF Release
  <2>2. GateOK' /\ HandoverOK' /\ RestOK'
    BY <1>b, <2>1, ReapplyStep DEF Release, GateOK, HandoverOK, RestOK, Phases
  <2>3. CloudOK' /\ Numbering'
    BY <1>b, ReapplyStep DEF Release, Numbering, CloudOK, Phases
  <2> QED
    BY <2>2, <2>3
<1>1. CASE RestoreSkipped
  <2> USE <1>1 DEF RestoreSkipped
  <2>1. restoreCh' \in BOOLEAN
    BY Zenon
  <2>2. QueuesOK' /\ DockerOK' /\ DiskOK'
    BY <2>1 DEF Untouched, QueuesOK, DockerOK, docker, DiskOK
  <2>3. GateOK' /\ HandoverOK' /\ RestOK' /\ CloudOK' /\ Numbering'
    BY <1>b DEF Untouched, RestOK
  <2> QED
    BY <1>a, <2>2, <2>3
<1>2. CASE RestoreBegin
  <2> USE <1>2 DEF RestoreBegin
  <2>1. restoreCh' \in BOOLEAN
    BY Zenon
  <2>2. QueuesOK' /\ DockerOK' /\ DiskOK' /\ CloudOK'
    BY <2>1 DEF Untouched, QueuesOK, DockerOK, docker, DiskOK, CloudOK
  <2>3. GateOK' /\ HandoverOK' /\ RestOK'
    BY HeartbeatType DEF Untouched, GateOK, HandoverOK, handover, RestOK, RestorePhases
  <2>4. Numbering'
    BY DEF Untouched, handover, Numbering, Phases
  <2> QED
    BY <1>a, <2>2, <2>3, <2>4
<1>3. ASSUME NEW at, NEW s \in Services, NEW next \in RestorePhases,
             RestoreRemove(at, s, next)
      PROVE  TypeInv'
  <2> USE <1>3 DEF RestoreRemove
  <2>1. running' \in [Services -> Specs \cup {Absent}]
    BY DEF RemoveAll, DockerOK
  <2>2. spent' \in [Mishaps -> Nat]
    BY SpendStep DEF Mishaps, RestOK
  <2>3. QueuesOK' /\ DockerOK' /\ DiskOK' /\ CloudOK'
    BY <2>1 DEF Untouched, QueuesOK, queues, DockerOK, DiskOK, CloudOK
  <2>4. GateOK' /\ HandoverOK' /\ RestOK'
    BY <2>2 DEF Untouched, GateOK, HandoverOK, handover, RestOK
  <2>5. Numbering'
    BY DEF Untouched, handover, Numbering, Phases, RestorePhases
  <2> QED
    BY <1>a, <2>3, <2>4, <2>5
<1>4. CASE RestoreRemoves
  BY <1>3, <1>4 DEF RestoreRemoves, RestorePhases, Services, CoreServices, Apps
<1>5. CASE RestoreStart
  <2> USE <1>5 DEF RestoreStart
  <2>1. QueuesOK' /\ DockerOK' /\ DiskOK' /\ CloudOK'
    BY DEF Untouched, QueuesOK, queues, DockerOK, DiskOK, CloudOK
  <2>2. GateOK' /\ HandoverOK' /\ RestOK'
    BY DEF Untouched, GateOK, HandoverOK, handover, RestOK, RestorePhases
  <2>3. Numbering'
    BY DEF Untouched, handover, Numbering, Phases
  <2> QED
    BY <1>a, <2>1, <2>2, <2>3
<1>6. CASE RestoreNotStarted
  <2> USE <1>6 DEF RestoreNotStarted
  <2>1. spent' \in [Mishaps -> Nat]
    BY SpendStep DEF BoxFails, Mishaps, RestOK
  <2>2. QueuesOK' /\ DockerOK' /\ DiskOK'
    BY DEF Untouched, QueuesOK, queues, DockerOK, BoxFails, DiskOK
  <2>3. GateOK' /\ HandoverOK' /\ RestOK' /\ CloudOK' /\ Numbering'
    BY <1>b, <2>1 DEF Untouched
  <2> QED
    BY <1>a, <2>2, <2>3
<1>7. CASE RestoreSucceeds
  <2> USE <1>7 DEF RestoreSucceeds
  <2>3. DiskOK'
    BY RestorableType DEF DiskOK
  <2>4. QueuesOK' /\ DockerOK' /\ BlockOK' /\ DbOK' /\ LocalsOK'
    BY DEF QueuesOK, queues, DockerOK, BlockOK, blockVars, DbOK, dbVars, LocalsOK, locals
  <2>5. GateOK' /\ HandoverOK' /\ RestOK' /\ CloudOK' /\ Numbering'
    BY <1>b DEF RestOK
  <2> QED
    BY <2>3, <2>4, <2>5
<1>8. CASE RestoreFails
  <2> USE <1>8 DEF RestoreFails
  <2>1. spent' \in [Mishaps -> Nat]
    BY SpendStep DEF BoxFails, Mishaps, RestOK
  <2>2. QueuesOK' /\ DockerOK' /\ DiskOK'
    BY DEF Untouched, QueuesOK, queues, DockerOK, BoxFails, DiskOK
  <2>3. GateOK' /\ HandoverOK' /\ RestOK' /\ CloudOK' /\ Numbering'
    BY <1>b, <2>1 DEF Untouched
  <2> QED
    BY <1>a, <2>2, <2>3
<1> QED
  BY <1>1, <1>2, <1>4, <1>5, <1>6, <1>7, <1>8 DEF Restore

(* What the phases of reconcile have in common. *)
LEMMA PhaseStep ==
    ASSUME TypeInv, NEW at \in Phases, Phase(at), GateOK',
           lastGeneration' \in {lastGeneration, lastDesired},
           pc' \in Phases \cup {"select"}
    PROVE  /\ HandoverOK' /\ QueuesOK' /\ CloudOK' /\ Numbering'
           /\ dns' \in BOOLEAN /\ lastDesired # 0
<1> USE DEF Phase, TypeInv, TypeOK
<1>1. HandoverOK' /\ QueuesOK' /\ CloudOK' /\ dns' \in BOOLEAN
  BY DEF HandoverOK, handover, QueuesOK, queues, CloudOK, cloud, RestOK
<1>2. Numbering' /\ lastDesired # 0
  BY DEF Numbering, handover, cloud
<1> QED
  BY <1>1, <1>2

(* The tail of applyDesired. *)
LEMMA SettleStep ==
    ASSUME NEW err \in BOOLEAN, Settle(err), BlockOK', lastGeneration' \in Generation
    PROVE  /\ pc' = "select"
           /\ lastReconcileErr' \in BOOLEAN /\ blocked' \in BOOLEAN
           /\ status' \in [gen : Generation, reason : Reasons]
<1>1. Reason(err, awaitingSecretStore', rateLimited', awaitingDns') \in Reasons
  BY ReasonType DEF BlockOK
<1>2. lastReconcileErr' \in BOOLEAN /\ blocked' \in BOOLEAN
  BY DEF Settle, BlockOK
<1> QED
  BY <1>1, <1>2 DEF Settle

Outcome ==
    \/ \E next \in Phases : Continue(next)
    \/ \E next \in Phases : pc' = next /\ UNCHANGED gateVars /\ Spend("cut")
    \/ Fail
    \/ Block /\ UNCHANGED window
    \/ Converge

(* A phase that goes on, settles, fails or blocks keeps what it does not     *)
(* decide.                                                                   *)
LEMMA OutcomeStep ==
    ASSUME TypeInv, NEW at \in Phases, Phase(at), BlockOK', Outcome
    PROVE  /\ GateOK' /\ HandoverOK' /\ QueuesOK' /\ CloudOK' /\ Numbering'
           /\ dns' \in BOOLEAN /\ spent' \in [Mishaps -> Nat]
           /\ pc' \in Phases \cup {"select"} /\ lastDesired # 0
<1> USE DEF TypeInv, TypeOK
<1>1. lastGeneration' \in {lastGeneration, lastDesired} /\ lastGeneration' \in Generation
  BY DEF Outcome, Continue, Fail, Block, Converge, gateVars, GateOK, HandoverOK, Phase, handover
<1>2. spent' \in [Mishaps -> Nat]
  BY SpendStep DEF Outcome, Continue, Fail, Block, Converge, RestOK, Mishaps
<1>3. CASE \/ \E next \in Phases : Continue(next)
          \/ \E next \in Phases : pc' = next /\ UNCHANGED gateVars /\ Spend("cut")
  <2>1. GateOK' /\ pc' \in Phases
    BY <1>3 DEF Continue, gateVars, GateOK
  <2> QED
    BY <1>1, <1>2, <2>1, PhaseStep
<1>4. CASE Fail \/ (Block /\ UNCHANGED window) \/ Converge
  <2>1. window' \in BOOLEAN
    BY <1>4 DEF Fail, Block, Converge, GateOK
  <2>2. PICK err \in BOOLEAN : Settle(err)
    BY <1>4 DEF Fail, Block, Converge
  <2>3. GateOK' /\ pc' = "select"
    BY <1>1, <2>1, <2>2, SettleStep DEF GateOK
  <2> QED
    BY <1>1, <1>2, <2>3, PhaseStep
<1> QED
  BY <1>3, <1>4 DEF Outcome

(* Removing containers leaves a well-formed Docker. *)
LEMMA RemoveAllType ==
    ASSUME DockerOK, NEW names
    PROVE  RemoveAll(names) \in [Services -> Specs \cup {Absent}]
BY DEF RemoveAll, DockerOK

(* A container that was applied runs one of the specs. *)
LEMMA AppliedStep ==
    ASSUME TypeInv, lastDesired # 0, NEW s \in Services, Applied(s)
    PROVE  /\ running' \in [Services -> Specs \cup {Absent}]
           /\ stale' \subseteq RecreateTargets
BY DsType, SpecOfType DEF Applied, TypeInv, TypeOK, DockerOK

(* A container that could not be applied is the old one, gone or the new   *)
(* one, and the phase fails.                                               *)
LEMMA NotAppliedStep ==
    ASSUME TypeInv, lastDesired # 0, NEW s \in Services, NotApplied(s)
    PROVE  /\ running' \in [Services -> Specs \cup {Absent}]
           /\ stale' \subseteq RecreateTargets
           /\ Fail
BY RemoveAllType, AppliedStep DEF NotApplied, TypeInv, TypeOK, DockerOK

(* A reconcile has a desired-state to reconcile toward. *)
LEMMA PhaseKnown ==
    ASSUME TypeInv, NEW at \in Phases, Phase(at)
    PROVE  lastDesired # 0
BY DEF Phase, TypeInv, Numbering

(* Every phase of reconcile keeps the types. *)
LEMMA TypeReconcile == TypeInv /\ Reconcile => TypeInv'
<1> SUFFICES ASSUME TypeInv, Reconcile PROVE TypeInv'
  OBVIOUS
<1> USE LoopAssumption DEF TypeInv, TypeOK
(* What is left to show for a phase that ends in one of the four ways. *)
<1>a. ASSUME NEW at \in Phases, Phase(at), Outcome,
             BlockOK', DbOK', LocalsOK', DockerOK', DiskOK',
             hadCert' \in BOOLEAN, stopped' \in BOOLEAN,
             forceRecreate' \subseteq RecreateTargets
      PROVE  TypeInv'
  BY <1>a, OutcomeStep DEF RestOK
<1>1. CASE Begin
  <2> USE <1>1 DEF Begin
  <2>1. Phase("begin") /\ "begin" \in Phases
    BY DEF Phases
  <2>2. Outcome
    BY DEF Outcome, Phases
  <2>3. stopped' \in BOOLEAN
    BY Zenon DEF RestOK
  <2>4. LocalsOK' /\ forceRecreate' \subseteq RecreateTargets
    BY DEF LocalsOK, RestOK
  <2>5. BlockOK' /\ DbOK' /\ DockerOK' /\ DiskOK' /\ hadCert' \in BOOLEAN
    BY DEF BlockOK, blockVars, DbOK, dbVars, DockerOK, docker, DiskOK, disk, RestOK
  <2> QED
    BY <1>a, <2>1, <2>2, <2>3, <2>4, <2>5
<1>2. CASE StopStack
  <2> USE <1>2 DEF StopStack
  <2>1. Phase("stop") /\ "stop" \in Phases
    BY DEF Phases
  <2>2. Outcome
    BY DEF Outcome, PruneFails
  <2>3. BlockOK' /\ DbOK' /\ stopped' \in BOOLEAN
    BY Zenon DEF BlockOK, blockVars, DbOK, RestOK
  <2>4. DockerOK'
    BY RemoveAllType DEF DockerOK, PruneFails
  <2>5. LocalsOK' /\ DiskOK' /\ hadCert' \in BOOLEAN /\ forceRecreate' \subseteq RecreateTargets
    BY DEF LocalsOK, locals, DiskOK, disk, RestOK
  <2> QED
    BY <1>a, <2>1, <2>2, <2>3, <2>4, <2>5
<1>3. CASE FinalBackup
  <2> USE <1>3 DEF FinalBackup
  <2>1. /\ Phase("final") /\ "final" \in Phases /\ "prepare" \in Phases
    BY DEF Phases
  <2>2. /\ repo' \subseteq Nat /\ spent' \in [Mishaps -> Nat]
    BY RunBackupStep DEF RestOK
  <2>3. archiving' \in BOOLEAN
    BY Zenon
  <2>4. GateOK'
    BY DEF GateOK, gateVars
  <2>5. HandoverOK' /\ QueuesOK' /\ CloudOK' /\ Numbering' /\ dns' \in BOOLEAN
    BY <2>1, <2>4, PhaseStep DEF gateVars
  <2>6. BlockOK' /\ DbOK' /\ LocalsOK' /\ DockerOK' /\ DiskOK'
    BY <2>2, <2>3 DEF BlockOK, blockVars, DbOK, LocalsOK, locals, DockerOK, docker, DiskOK
  <2>7. RestOK'
    BY <2>1, <2>2, <2>5 DEF RestOK
  <2> QED
    BY <2>4, <2>5, <2>6, <2>7
<1>4. CASE Prepare
  <2> USE <1>4 DEF Prepare
  <2>1. Phase("prepare") /\ "prepare" \in Phases
    BY DEF Phases
  <2>2. Outcome
    BY DEF Outcome, Phases
  <2>3. BlockOK'
    BY Zenon DEF BlockOK
  <2>4. /\ DbOK' /\ LocalsOK' /\ DockerOK' /\ DiskOK' /\ hadCert' \in BOOLEAN
        /\ stopped' \in BOOLEAN /\ forceRecreate' \subseteq RecreateTargets
    BY DEF DbOK, dbVars, LocalsOK, locals, DockerOK, docker, DiskOK, disk, RestOK
  <2> QED
    BY <1>a, <2>1, <2>2, <2>3, <2>4
<1>5. CASE Edge
  <2> USE <1>5 DEF Edge
  <2>1. Phase("edge") /\ "edge" \in Phases /\ lastDesired # 0
    BY PhaseKnown DEF Phases
  <2>2. DbOK' /\ stopped' \in BOOLEAN /\ forceRecreate' \subseteq RecreateTargets
    BY DEF DbOK, dbVars, RestOK
  <2>3. LocalsOK'
    BY DEF LocalsOK, NoEdge, Services, EdgeServices
  <2>4. ASSUME AcmeDnsUp PROVE running' \in [Services -> Specs \cup {Absent}]
    BY <2>1, <2>4, DsType, SpecOfType DEF AcmeDnsUp, DockerOK, Services, EdgeServices
  <2>5. spent["edge"] \in Nat /\ "edge" \in Mishaps
    BY DEF RestOK, Mishaps
  <2>6. CASE WildcardIssued
    <3> USE <2>6 DEF WildcardIssued
    <3>1. BlockOK' /\ window' \in BOOLEAN /\ cert' \in BOOLEAN /\ hadCert' \in BOOLEAN
      BY Zenon DEF BlockOK
    <3>2. GateOK' /\ pc' \in Phases
      BY <3>1 DEF GateOK, HandoverOK, Reasons, Phases
    <3>3. HandoverOK' /\ QueuesOK' /\ CloudOK' /\ Numbering' /\ dns' \in BOOLEAN
      BY <2>1, <3>2, PhaseStep
    <3>4. DockerOK' /\ DiskOK' /\ RestOK'
      BY <2>2, <2>4, <3>1, <3>2, <3>3 DEF DockerOK, DiskOK, RestOK
    <3> QED
      BY <2>2, <2>3, <3>1, <3>2, <3>3, <3>4
  <2>7. CASE WildcardAwaitingDns
    <3> USE <2>7 DEF WildcardAwaitingDns
    <3>1. BlockOK' 
      BY Zenon DEF BlockOK
    <3>2. GateOK' /\ pc' = "select"
      BY <3>1, SettleStep DEF GateOK
    <3>3. HandoverOK' /\ QueuesOK' /\ CloudOK' /\ Numbering' /\ dns' \in BOOLEAN
      BY <2>1, <3>2, PhaseStep
    <3>4. spent' \in [Mishaps -> Nat]
      BY <2>5, SpendStep DEF RestOK
    <3>5. DockerOK' /\ DiskOK' /\ RestOK'
      BY <2>2, <2>4, <3>2, <3>3, <3>4 DEF DockerOK, DiskOK, RestOK
    <3> QED
      BY <2>2, <2>3, <3>1, <3>2, <3>3, <3>5
  <2>8. CASE WildcardRateLimited
    <3> USE <2>8 DEF WildcardRateLimited
    <3>1. BlockOK' /\ window' \in BOOLEAN
      BY Zenon DEF BlockOK
    <3>2. GateOK' /\ pc' = "select"
      BY <3>1, SettleStep DEF GateOK
    <3>3. HandoverOK' /\ QueuesOK' /\ CloudOK' /\ Numbering' /\ dns' \in BOOLEAN
      BY <2>1, <3>2, PhaseStep
    <3>4. spent' \in [Mishaps -> Nat]
      BY <2>5, SpendStep DEF RestOK
    <3>5. DockerOK' /\ DiskOK' /\ RestOK'
      BY <2>2, <2>4, <3>2, <3>3, <3>4 DEF DockerOK, DiskOK, RestOK
    <3> QED
      BY <2>2, <2>3, <3>1, <3>2, <3>3, <3>5
  <2>9. CASE WildcardError
    <3> USE <2>9 DEF WildcardError
    <3>1. BlockOK' /\ DiskOK' /\ hadCert' \in BOOLEAN
      BY DEF BlockOK, blockVars, DiskOK, RestOK
    <3>2. DockerOK'
      BY <2>4, RemoveAllType DEF DockerOK
    <3> QED
      BY <1>a, <2>1, <2>2, <2>3, <3>1, <3>2 DEF Outcome
  <2>10. CASE NoEdge
    <3> USE <2>10 DEF NoEdge
    <3>1. BlockOK'
      BY Zenon DEF BlockOK
    <3>2. DiskOK' /\ DockerOK' /\ hadCert' \in BOOLEAN
      BY DEF DiskOK, DockerOK, RestOK
    <3>3. Outcome
      BY DEF Outcome, Phases
    <3> QED
      BY <1>a, <2>1, <2>2, <2>3, <3>1, <3>2, <3>3
  <2> QED
    BY <2>6, <2>7, <2>8, <2>9, <2>10
(* What the later phases leave alone. *)
<1>b. ASSUME ReconcileFrame
      PROVE  /\ BlockOK' /\ hadCert' \in BOOLEAN /\ stopped' \in BOOLEAN
             /\ forceRecreate' \subseteq RecreateTargets
             /\ force' \subseteq RecreateTargets /\ box' = box /\ cert' = cert
  BY <1>b DEF ReconcileFrame, BlockOK, blockVars, RestOK, LocalsOK
<1>6. CASE ApplyPostgres
  <2> USE <1>6 DEF ApplyPostgres
  <2>1. Phase("postgres") /\ "postgres" \in Phases /\ "postgres" \in Services /\ lastDesired # 0
    BY PhaseKnown DEF Phases, Services
  <2>2. Outcome
    BY <2>1, NotAppliedStep DEF Outcome, Phases
  <2>3. DockerOK'
    BY <1>b, <2>1, AppliedStep, NotAppliedStep DEF DockerOK
  <2>4. LocalsOK' /\ DbOK' /\ DiskOK'
    BY <1>b, <2>1 DEF LocalsOK, DbOK, dbVars, DiskOK
  <2> QED
    BY <1>a, <1>b, <2>1, <2>2, <2>3, <2>4
<1>7. CASE Provision
  <2> USE <1>7 DEF Provision
  <2>1. Phase("provision") /\ "provision" \in Phases
    BY DEF Phases
  <2>2. Outcome
    BY DEF Outcome, Phases
  <2>3. DockerOK' /\ LocalsOK' /\ DbOK' /\ DiskOK'
    BY <1>b DEF DockerOK, LocalsOK, DbOK, dbVars, DiskOK
  <2> QED
    BY <1>a, <1>b, <2>1, <2>2, <2>3
<1>8. CASE BaseBackup
  <2> USE <1>8 DEF BaseBackup, BackupTaken
  <2>1. /\ Phase("base") /\ "base" \in Phases /\ schema["managed"] \in Nat
    BY DEF Phases, DiskOK, Databases
  <2>2. Outcome
    <3> "migrate" \in Phases
      BY DEF Phases
    <3>1. CASE Fail
      BY <3>1 DEF Outcome
    <3>2. CASE pc' = "migrate" /\ UNCHANGED gateVars /\ UNCHANGED spent
      BY <3>2 DEF Outcome, Continue
    <3>3. CASE pc' = "migrate" /\ UNCHANGED gateVars /\ Spend("cut")
      BY <3>3 DEF Outcome
    <3> QED
      BY Zenon, <3>1, <3>2, <3>3
  <2>3. hadFullBackup' \in BOOLEAN
    BY Zenon DEF DbOK
  <2>4. DockerOK' /\ LocalsOK' /\ DbOK' /\ DiskOK'
    BY <1>b, <2>1, <2>3 DEF DockerOK, LocalsOK, DbOK, DiskOK
  <2> QED
    BY <1>a, <1>b, <2>1, <2>2, <2>4
<1>9. CASE Migrate
  <2> USE <1>9 DEF Migrate
  <2>1. Phase("migrate") /\ "migrate" \in Phases /\ lastDesired # 0
    BY PhaseKnown DEF Phases
  <2>2. Outcome
    BY DEF Outcome, Phases
  <2>3. ds.image \in Nat /\ HasBackups(ds) \in BOOLEAN
    BY <2>1, DsType DEF DesiredState, HasBackups
  <2>4. DbOK'
    BY <2>3, Zenon DEF DbOK
  <2>5. DockerOK' /\ LocalsOK' /\ DiskOK'
    BY <1>b, <2>3 DEF DockerOK, LocalsOK, DiskOK
  <2> QED
    BY <1>a, <1>b, <2>1, <2>2, <2>4, <2>5
<1>10. CASE Gitea
  <2> USE <1>10 DEF Gitea
  <2>1. Phase("gitea") /\ "gitea" \in Phases /\ "gitea" \in Services /\ lastDesired # 0
    BY PhaseKnown DEF Phases, Services
  <2>2. Outcome
    BY <2>1, NotAppliedStep DEF Outcome, Phases
  <2>3. DockerOK'
    BY <1>b, <2>1, AppliedStep, NotAppliedStep DEF DockerOK
  <2>4. LocalsOK' /\ DbOK' /\ DiskOK'
    BY <1>b, <2>1 DEF LocalsOK, DbOK, dbVars, DiskOK
  <2> QED
    BY <1>a, <1>b, <2>1, <2>2, <2>3, <2>4
<1>11. CASE ApplyCore
  <2> USE <1>11 DEF ApplyCore
  <2>1. Phase("services") /\ "services" \in Phases /\ lastDesired # 0
    BY PhaseKnown DEF Phases
  <2>2. PICK i \in 1 .. 4 :
          \/ /\ Applied(StartOrder[i]) /\ keep' = keep \cup {StartOrder[i]}
             /\ Continue(IF i < 4 THEN "services" ELSE IF ds.edge THEN "nginx" ELSE "prune")
          \/ NotApplied(StartOrder[i]) /\ UNCHANGED keep
    OBVIOUS
  <2>3. StartOrder[i] \in Services
    BY DEF StartOrder, Services, CoreServices, Apps
  <2>4. Outcome
    BY <2>1, <2>2, <2>3, NotAppliedStep DEF Outcome, Phases
  <2>5. DockerOK'
    BY <1>b, <2>1, <2>2, <2>3, AppliedStep, NotAppliedStep DEF DockerOK
  <2>6. LocalsOK' /\ DbOK' /\ DiskOK'
    BY <1>b, <2>2, <2>3 DEF LocalsOK, DbOK, dbVars, DiskOK
  <2> QED
    BY <1>a, <1>b, <2>1, <2>4, <2>5, <2>6
<1>12. CASE EnsureNginx
  <2> USE <1>12 DEF EnsureNginx
  <2>1. Phase("nginx") /\ "nginx" \in Phases /\ EdgeServices \subseteq Services
        /\ "nginx" \in Services /\ lastDesired # 0
    BY PhaseKnown DEF Phases, Services, EdgeServices
  <2>2. Outcome
    BY <2>1, NotAppliedStep DEF Outcome, Phases
  <2>3. DockerOK'
    BY <1>b, <2>1, AppliedStep, NotAppliedStep DEF DockerOK
  <2>4. LocalsOK' /\ DbOK' /\ DiskOK'
    BY <1>b, <2>1 DEF LocalsOK, DbOK, dbVars, DiskOK
  <2> QED
    BY <1>a, <1>b, <2>1, <2>2, <2>3, <2>4
<1>13. CASE Prune
  <2> USE <1>13 DEF Prune
  <2>1. Phase("prune") /\ "prune" \in Phases
    BY DEF Phases
  <2>2. Outcome
    BY DEF Outcome, PruneFails
  <2>3. DockerOK'
    BY RemoveAllType DEF DockerOK, PruneFails
  <2>4. BlockOK' /\ LocalsOK' /\ DbOK' /\ DiskOK' /\ hadCert' \in BOOLEAN
        /\ stopped' \in BOOLEAN /\ forceRecreate' \subseteq RecreateTargets
    BY DEF BlockOK, blockVars, LocalsOK, locals, DbOK, dbVars, DiskOK, disk, RestOK
  <2> QED
    BY <1>a, <2>1, <2>2, <2>3, <2>4
<1> QED
  BY <1>1, <1>2, <1>3, <1>4, <1>5, <1>6, <1>7, <1>8, <1>9, <1>10, <1>11, <1>12,
     <1>13 DEF Reconcile

(* A crash leaves the agent in its initial memory. *)
LEMMA CrashReset ==
    ASSUME Crash
    PROVE  /\ lastReconcileErr' \in BOOLEAN /\ window' \in BOOLEAN /\ blocked' \in BOOLEAN
           /\ awaitingSecretStore' \in BOOLEAN /\ awaitingDns' \in BOOLEAN
           /\ rateLimited' \in BOOLEAN /\ acmeDelegation' \in BOOLEAN
           /\ archiving' \in BOOLEAN /\ hadFullBackup' \in BOOLEAN
           /\ forceRecheckCh' \in BOOLEAN /\ restoreCh' \in BOOLEAN
           /\ restoring' \in BOOLEAN /\ resyncDue' \in BOOLEAN
           /\ hadCert' \in BOOLEAN /\ stopped' \in BOOLEAN
           /\ lastGeneration' = 0 /\ lastDesired' = 0 /\ pc' = "offline"
           /\ backupCh' = 0 /\ recreateCh' = <<>> /\ forceRecreate' = {}
           /\ force' = {} /\ keep' = {} /\ stream' = <<>>
           /\ UNCHANGED <<host, generations, status, dns>> /\ Spend("crash")
BY Zenon DEF Crash

(* So does whatever the cloud, the network, time or a crash does. *)
LEMMA TypeEnvironment == TypeInv /\ (Subscribe \/ Environment) => TypeInv'
<1> SUFFICES ASSUME TypeInv, Subscribe \/ Environment PROVE TypeInv'
  OBVIOUS
<1> USE LoopAssumption DEF TypeInv, TypeOK
(* What the cloud, the network and the operator leave alone. *)
<1>a. ASSUME UNCHANGED agent
      PROVE  /\ GateOK' /\ BlockOK' /\ DbOK' /\ QueuesOK' /\ LocalsOK' /\ HandoverOK'
             /\ hadCert' \in BOOLEAN /\ stopped' \in BOOLEAN
             /\ forceRecreate' \subseteq RecreateTargets /\ pc' = pc
             /\ lastDesired' = lastDesired /\ lastGeneration' = lastGeneration
  <2> USE <1>a DEF agent
  <2>1. GateOK' /\ BlockOK' /\ DbOK'
    BY DEF gateVars, GateOK, blockVars, BlockOK, dbVars, DbOK
  <2>2. QueuesOK' /\ LocalsOK' /\ HandoverOK'
    BY DEF queues, QueuesOK, locals, LocalsOK, handover, HandoverOK
  <2> QED
    BY <2>1, <2>2 DEF RestOK, handover, gateVars
<1>b. ASSUME UNCHANGED host PROVE DockerOK' /\ DiskOK'
  BY <1>b DEF host, docker, disk, DockerOK, DiskOK
<1>c. ASSUME NEW m \in Mishaps, Spend(m) PROVE spent' \in [Mishaps -> Nat]
  BY <1>c, SpendStep DEF RestOK
<1>d. Mishaps = {"fault", "removal", "cut", "crash", "drop", "command", "edge"}
  BY DEF Mishaps
<1>1. CASE Publish
  <2> USE <1>1 DEF Publish
  <2>1. PICK c \in Configs : generations' = Append(generations, c)
    OBVIOUS
  <2>2. Len(generations') = Len(generations) + 1 /\ generations' \in Seq(Configs)
    BY <2>1 DEF CloudOK
  <2>3. Frame("desired", Len(generations) + 1) \in Frames
    BY <2>2 DEF Frame, Frames, FrameKinds, CloudOK, Generation
  <2>4. \/ stream' = Append(stream, Frame("desired", Len(generations) + 1))
        \/ stream' = stream
    OBVIOUS
  <2>5. CloudOK' /\ RestOK'
    <3>1. stream' \in Seq(Frames)
      <4> DEFINE f == Frame("desired", Len(generations) + 1)
      <4>1. stream \in Seq(Frames) /\ f \in Frames
        BY <2>3 DEF CloudOK
      <4> HIDE DEF f
      <4>2. Append(stream, f) \in Seq(Frames)
        BY <4>1
      <4> QED
        BY <2>4, <4>1, <4>2 DEF f
    <3>2. Len(generations') \in Generation
      BY <2>2 DEF CloudOK, Generation
    <3>3. RestOK'
      BY <1>a DEF RestOK
    <3> QED
      BY <2>2, <3>1, <3>2, <3>3 DEF CloudOK
  <2>6. Numbering'
    <3>1. stream \in Seq(Frames) /\ Len(generations) \in Nat
      BY DEF CloudOK
    <3>2. \A i \in 1 .. Len(stream') : stream'[i].kind = "desired"
            => stream'[i].gen \in 1 .. Len(generations')
      <4>1. Frame("desired", Len(generations) + 1).gen = Len(generations) + 1
        BY DEF Frame
      <4>2. CASE stream' = Append(stream, Frame("desired", Len(generations) + 1))
        BY <2>2, <3>1, <4>1, <4>2 DEF Numbering
      <4>3. CASE stream' = stream
        BY <2>2, <3>1, <4>3 DEF Numbering
      <4> QED
        BY <2>4, <4>2, <4>3
    <3>3. lastDesired' <= Len(generations') /\ lastGeneration' <= Len(generations')
      BY <1>a, <2>2, <3>1 DEF Numbering, GateOK, HandoverOK, Generation
    <3> QED
      BY <1>a, <3>2, <3>3 DEF Numbering
  <2> QED
    BY <1>a, <1>b, <2>5, <2>6
(* A frame that is not a desired-state. *)
<1>e. ASSUME NEW f \in Frames, f.kind # "desired", stream' = Append(stream, f),
             UNCHANGED <<agent, host, generations, dns>>, spent' \in [Mishaps -> Nat]
      PROVE  TypeInv'
  <2>1. CloudOK' /\ RestOK'
    BY <1>a, <1>e DEF CloudOK, RestOK
  <2>2. Numbering'
    BY <1>a, <1>e DEF Numbering, CloudOK
  <2> QED
    BY <1>a, <1>b, <1>e, <2>1, <2>2
<1>f. \A k \in FrameKinds : Frame(k, 0) \in Frames /\ Frame(k, 0).kind = k
  BY DEF Frame, Frames, Generation
<1>2. CASE SendCommand
  <2>1. PICK k \in Commands : stream' = Append(stream, Frame(k, 0))
    BY <1>2 DEF SendCommand
  <2>2. k \in FrameKinds /\ k # "desired"
    BY DEF FrameKinds, CommandKinds
  <2> QED
    BY <1>2, <1>c, <1>d, <1>e, <1>f, <2>1, <2>2 DEF SendCommand
<1>3. CASE SendTampered
  <2>1. "tampered" \in FrameKinds
    BY DEF FrameKinds
  <2> QED
    BY <1>3, <1>c, <1>d, <1>e, <1>f, <2>1 DEF SendTampered
<1>4. CASE Break
  <2> USE <1>4 DEF Break
  <2>1. PICK kept \in 0 .. Len(stream) :
          stream' = Append(SubSeq(stream, 1, kept), Frame("closed", 0))
    OBVIOUS
  <2>2. Frame("closed", 0) \in Frames /\ Frame("closed", 0).kind = "closed"
    BY <1>f DEF FrameKinds
  <2>3. SubSeq(stream, 1, kept) \in Seq(Frames)
    BY DEF CloudOK
  <2>4. CloudOK' /\ RestOK'
    <3>1. stream' \in Seq(Frames)
      BY <2>1, <2>2, <2>3
    <3> QED
      BY <1>a, <1>c, <1>d, <3>1 DEF CloudOK, RestOK
  <2>5. Numbering'
    BY <1>a, <2>1, <2>2 DEF Numbering, CloudOK
  <2> QED
    BY <1>a, <1>b, <2>4, <2>5
<1>5. CASE Subscribe
  <2> USE <1>5 DEF Subscribe
  <2>1. GateOK' /\ BlockOK' /\ DbOK' /\ QueuesOK' /\ LocalsOK' /\ HandoverOK'
    BY DEF gateVars, GateOK, blockVars, BlockOK, dbVars, DbOK, queues, QueuesOK,
       locals, LocalsOK, handover, HandoverOK
  <2>2. Frame("desired", Len(generations)) \in Frames
    BY DEF Frame, Frames, FrameKinds, CloudOK
  <2>3. CloudOK' /\ RestOK'
    BY <2>2 DEF CloudOK, RestOK
  <2>4. Numbering'
    BY DEF Numbering, gateVars, handover, GateOK, CloudOK, Generation, Frame, Phases
  <2> QED
    BY <1>b, <2>1, <2>3, <2>4
<1>6. CASE WindowPasses
  <2> USE <1>6 DEF WindowPasses
  <2>1. window' \in BOOLEAN
    BY Zenon
  <2>2. GateOK' /\ BlockOK' /\ DbOK' /\ QueuesOK' /\ LocalsOK' /\ HandoverOK'
    BY <2>1 DEF GateOK, blockVars, BlockOK, dbVars, DbOK, queues, QueuesOK,
       locals, LocalsOK, handover, HandoverOK
  <2>3. CloudOK' /\ RestOK' /\ Numbering'
    BY DEF CloudOK, cloud, RestOK, Numbering, handover
  <2> QED
    BY <1>b, <2>2, <2>3
<1>7. CASE ResyncFallsDue
  <2> USE <1>7 DEF ResyncFallsDue
  <2>1. resyncDue' \in BOOLEAN
    BY Zenon
  <2>2. GateOK' /\ BlockOK' /\ DbOK' /\ QueuesOK' /\ LocalsOK' /\ HandoverOK'
    BY <2>1 DEF GateOK, gateVars, blockVars, BlockOK, dbVars, DbOK, queues, QueuesOK,
       locals, LocalsOK, HandoverOK
  <2>3. CloudOK' /\ RestOK' /\ Numbering'
    BY DEF CloudOK, cloud, RestOK, Numbering, gateVars
  <2> QED
    BY <1>b, <2>2, <2>3
<1>8. CASE DnsAdded
  <2>1. dns' \in BOOLEAN
    BY <1>8, Zenon DEF DnsAdded
  <2>2. CloudOK' /\ RestOK' /\ Numbering'
    BY <1>8, <1>a, <2>1 DEF DnsAdded, CloudOK, cloud, RestOK, Numbering
  <2> QED
    BY <1>8, <1>a, <1>b, <2>2 DEF DnsAdded
<1>9. CASE DnsRemoved
  <2>1. dns' \in BOOLEAN
    BY <1>9, Zenon DEF DnsRemoved
  <2>2. CloudOK' /\ RestOK' /\ Numbering'
    BY <1>9, <1>a, <1>c, <1>d, <2>1 DEF DnsRemoved, CloudOK, cloud, RestOK, Numbering
  <2> QED
    BY <1>9, <1>a, <1>b, <2>2 DEF DnsRemoved
<1>10. CASE CertExpires
  <2> USE <1>10 DEF CertExpires
  <2>1. cert' \in BOOLEAN
    BY Zenon
  <2>2. DockerOK' /\ DiskOK'
    BY <2>1 DEF DockerOK, docker, DiskOK
  <2>3. CloudOK' /\ RestOK' /\ Numbering'
    BY <1>a, <1>c, <1>d DEF CloudOK, cloud, RestOK, Numbering
  <2> QED
    BY <1>a, <2>2, <2>3
<1>11. CASE OrphanEnds
  <2> USE <1>11 DEF OrphanEnds
  <2>1. DockerOK' /\ DiskOK'
    BY RestorableType DEF DockerOK, DiskOK
  <2>2. CloudOK' /\ RestOK' /\ Numbering'
    BY <1>a DEF CloudOK, cloud, RestOK, Numbering
  <2> QED
    BY <1>a, <2>1, <2>2
<1>12. CASE Crash
  <2>1. GateOK' /\ BlockOK' /\ DbOK'
    BY <1>12, CrashReset DEF GateOK, BlockOK, DbOK, Generation
  <2>2. QueuesOK' /\ LocalsOK' /\ HandoverOK'
    BY <1>12, CrashReset DEF QueuesOK, LocalsOK, HandoverOK, Generation
  <2>3. CloudOK' /\ RestOK'
    BY <1>12, <1>c, <1>d, CrashReset DEF CloudOK, RestOK
  <2>4. Numbering'
    BY <1>12, CrashReset DEF Numbering, Phases, CloudOK, Generation
  <2> QED
    BY <1>12, <1>b, <2>1, <2>2, <2>3, <2>4, CrashReset
<1> QED
  BY <1>1, <1>2, <1>3, <1>4, <1>5, <1>6, <1>7, <1>8, <1>9, <1>10, <1>11, <1>12
     DEF Environment

(* So does doing nothing. *)
LEMMA TypeStutter == TypeInv /\ UNCHANGED vars => TypeInv'
<1> SUFFICES ASSUME TypeInv, UNCHANGED vars PROVE TypeInv'
  OBVIOUS
<1> USE DEF vars, TypeInv, TypeOK
<1>1. GateOK' /\ BlockOK' /\ DbOK' /\ QueuesOK' /\ LocalsOK'
  BY DEF GateOK, gateVars, BlockOK, blockVars, DbOK, dbVars, QueuesOK, queues, LocalsOK, locals
<1>2. DockerOK' /\ DiskOK' /\ CloudOK' /\ HandoverOK' /\ RestOK'
  BY DEF DockerOK, docker, DiskOK, disk, CloudOK, cloud, HandoverOK, handover, RestOK
<1>3. Numbering'
  BY DEF Numbering, gateVars, cloud, handover
<1> QED
  BY <1>1, <1>2, <1>3

(* The inductive form of TypeOK: the types, and the numbering of the         *)
(* generations the agent has seen (applySigned, New).                        *)
THEOREM TypeInvariant == Spec => []TypeInv
<1>1. TypeInv /\ [Next]_vars => TypeInv'
  BY TypeServe, TypeRestore, TypeReconcile, TypeEnvironment, TypeStutter DEF Next
<1> QED
  BY <1>1, TypeInit, PTL DEF Spec

(* The variables of the Run loop keep their types, and its queues their    *)
(* capacities, whatever is published, sent, lost, failed or restarted.     *)
THEOREM TypeCorrect == Spec => []TypeOK
BY TypeInvariant, PTL DEF TypeInv

-----------------------------------------------------------------------------
(***************************************************************************)
(* How control moves, for the invariants below.                            *)
(***************************************************************************)
LEMMA ServeControl ==
    ASSUME TypeInv, Serve
    PROVE  /\ pc = "select" /\ pc' \in {"select", "begin", "offline"}
           /\ pc' = "begin" => ~restoring' /\ ~window'
           /\ \/ restoring' = restoring /\ restoreCh' = restoreCh
              \/ restoring' /\ restoreCh' /\ pc' = "select"
<1> USE DEF TypeInv, TypeOK
<1>1. CASE OnDesired
  BY <1>1, ApplyDesiredStep DEF OnDesired, Receive, queues
<1>2. CASE OnTampered \/ OnClosed
  BY <1>2 DEF OnTampered, OnClosed, Receive, queues, handover
<1>3. CASE OnForceRecheck \/ OnRequestStatus \/ OnRunBackup
  BY <1>3 DEF OnForceRecheck, OnRequestStatus, OnRunBackup, Receive, Idle, queues
<1>4. CASE OnRestoreDB
  BY <1>4 DEF OnRestoreDB, Receive, Idle
<1>5. CASE OnRecreate \/ HeartbeatTick \/ ServeBackup \/ BackupTick
  BY <1>5 DEF OnRecreate, HeartbeatTick, ServeBackup, BackupTick, Idle, queues
<1>6. CASE ResyncTick \/ FastTick
  BY <1>6, ReapplyStep DEF ResyncTick, FastTick, queues
<1>7. CASE ServeRecheck \/ ServeRecreate
  BY <1>7, ReapplyStep DEF ServeRecheck, ServeRecreate
<1> QED
  BY <1>1, <1>2, <1>3, <1>4, <1>5, <1>6, <1>7 DEF Serve

(* A phase of reconcile hands over to the next one or to the select loop, and *)
(* leaves the restore lock and the queues of the select loop alone.          *)
LEMMA ReconcileControl ==
    ASSUME TypeInv, Reconcile
    PROVE  /\ pc \in Phases /\ pc' \in Phases \cup {"select"}
           /\ UNCHANGED <<handover, queues, cloud>>
<1>a. ASSUME NEW at \in Phases, Phase(at), Outcome
      PROVE  /\ pc \in Phases /\ pc' \in Phases \cup {"select"}
             /\ UNCHANGED <<handover, queues, cloud>>
  BY <1>a DEF Phase, Outcome, Continue, Fail, Block, Converge, Settle
<1> USE DEF Phases
<1>1. CASE Begin
  BY <1>1, <1>a DEF Begin, Outcome
<1>2. CASE StopStack
  BY <1>2, <1>a DEF StopStack, Outcome, PruneFails
<1>3. CASE FinalBackup
  BY <1>3 DEF FinalBackup, Phase
<1>4. CASE Prepare
  BY <1>4, <1>a DEF Prepare, Outcome
<1>5. CASE Edge
  BY <1>5 DEF Edge, Phase, WildcardIssued, WildcardAwaitingDns, WildcardRateLimited,
     WildcardError, NoEdge, Settle, Fail, Continue
<1>6. CASE ApplyPostgres \/ Provision \/ Migrate
  BY <1>6, <1>a DEF ApplyPostgres, Provision, Migrate, NotApplied, Outcome
<1>b. CASE BaseBackup
  <2>1. Phase("base") /\ UNCHANGED <<handover, queues, cloud>>
    BY <1>b DEF BaseBackup, Phase
  <2>2. Fail \/ pc' = "migrate"
    BY <1>b DEF BaseBackup
  <2> QED
    BY <2>1, <2>2 DEF Phase, Fail, Settle
<1>7. CASE Gitea
  BY <1>7, <1>a DEF Gitea, NotApplied, Outcome
<1>8. CASE ApplyCore
  BY <1>8, <1>a DEF ApplyCore, NotApplied, Outcome
<1>9. CASE EnsureNginx
  BY <1>9, <1>a DEF EnsureNginx, NotApplied, Outcome
<1>10. CASE Prune
  BY <1>10, <1>a DEF Prune, Outcome, PruneFails
<1> QED
  BY <1>1, <1>2, <1>3, <1>4, <1>5, <1>6, <1>b, <1>7, <1>8, <1>9, <1>10 DEF Reconcile

(* The environment other than a crash leaves the agent's control alone, but *)
(* that it reopens the stream.                                              *)
LEMMA EnvironmentControl ==
    ASSUME Subscribe \/ Environment
    PROVE  \/ /\ restoring' = restoring /\ restoreCh' = restoreCh
              /\ pc' = pc \/ (pc = "offline" /\ pc' = "select")
           \/ ~restoring' /\ ~restoreCh' /\ pc' = "offline"
<1>1. CASE Subscribe
  BY <1>1 DEF Subscribe, handover, queues
<1>2. CASE WindowPasses \/ ResyncFallsDue
  BY <1>2 DEF WindowPasses, ResyncFallsDue, handover, queues
<1>3. CASE Crash
  BY <1>3 DEF Crash
<1>4. CASE UNCHANGED agent
  BY <1>4 DEF agent, handover, queues
<1> QED
  BY <1>1, <1>2, <1>3, <1>4 DEF Environment, Publish, SendCommand, SendTampered, Break,
     DnsAdded, DnsRemoved, CertExpires, OrphanEnds

-----------------------------------------------------------------------------
(***************************************************************************)
(* The restore lock.  That a pending restore keeps reconcile off is only   *)
(* inductive together with the reason the lock is ever released: it is     *)
(* held exactly while a restore is queued or in progress, and runRestore   *)
(* has emptied the queue before it removes the first container.            *)
(***************************************************************************)
RestoreInv ==
    /\ NoReconcileWhileRestoring
    /\ RestoringIsQueued
    /\ pc \in RestorePhases => ~restoreCh

(* The restore lock and the restore queue go together, step by step. *)
LEMMA RestoreInvStep ==
    ASSUME TypeInv, RestoreInv, [Next]_vars
    PROVE  RestoreInv'
<1> USE DEF RestoreInv, NoReconcileWhileRestoring, RestoringIsQueued, Phases, RestorePhases
<1>1. CASE Serve
  BY <1>1, ServeControl
<1>2. CASE Reconcile
  BY <1>2, ReconcileControl DEF handover, queues
<1>3. CASE Subscribe \/ Environment
  BY <1>3, EnvironmentControl
<1>4. CASE Restore
  <2>1. ASSUME Release PROVE pc' \in {"begin", "select"} /\ ~restoring'
    BY <2>1, ReapplyStep DEF Release, TypeInv, TypeOK
  <2>2. CASE RestoreSkipped
    BY <2>1, <2>2 DEF RestoreSkipped
  <2>3. CASE RestoreBegin
    BY <2>3 DEF RestoreBegin, handover
  <2>4. CASE RestoreRemoves
    BY <2>4 DEF RestoreRemoves, RestoreRemove, handover, queues
  <2>5. CASE RestoreStart
    BY <2>5 DEF RestoreStart, handover, queues
  <2>6. CASE RestoreNotStarted \/ RestoreSucceeds \/ RestoreFails
    BY <2>1, <2>6 DEF RestoreNotStarted, RestoreSucceeds, RestoreFails, queues
  <2> QED
    BY <1>4, <2>2, <2>3, <2>4, <2>5, <2>6 DEF Restore
<1>5. CASE UNCHANGED vars
  BY <1>5 DEF vars, handover, queues
<1> QED
  BY <1>1, <1>2, <1>3, <1>4, <1>5 DEF Next

(* requestRestore takes the lock when it queues the restore and runRestore   *)
(* releases it only at its end, so applyDesired is gated all the while.      *)
THEOREM RestoreInvariant == Spec => []RestoreInv
<1>1. Init => RestoreInv
  BY DEF Init, RestoreInv, NoReconcileWhileRestoring, RestoringIsQueued, Phases, RestorePhases
<1>2. TypeInv /\ TypeInv' /\ RestoreInv /\ [Next]_vars => RestoreInv'
  BY RestoreInvStep
<1> QED
  BY <1>1, <1>2, TypeInvariant, PTL DEF Spec

(* No reconcile is ever in progress under a pending restore, however       *)
(* pushes, ticks, commands, failures and crashes interleave.               *)
THEOREM RestoreHoldsReconcile == Spec => []NoReconcileWhileRestoring
BY RestoreInvariant, PTL DEF RestoreInv

(* The restore lock is held exactly while a restore is queued or running.  *)
THEOREM RestoreLockJustified == Spec => []RestoringIsQueued
BY RestoreInvariant, PTL DEF RestoreInv

-----------------------------------------------------------------------------
(***************************************************************************)
(* PGDATA under a restore.  From the removal of the Postgres container to  *)
(* the end of the restore nothing can start it again, because nothing but  *)
(* reconcile starts containers.                                            *)
(***************************************************************************)
ClusterInv ==
    pc \in {"restore_start", "restore_wait"} /\ spent["removal"] = 0
        => running["postgres"] = Absent

(* Mishaps are counted, never forgotten. *)
LEMMA SpendGrows ==
    ASSUME TypeInv, NEW m \in Mishaps, Spend(m)
    PROVE  spent'["removal"] = 0 => spent["removal"] = 0 /\ m # "removal"
BY DEF Spend, Mishaps, TypeInv, TypeOK, RestOK

(* Once runRestore has removed the stack, nothing but its own end brings a   *)
(* container back.                                                           *)
LEMMA ClusterInvStep ==
    ASSUME TypeInv, ClusterInv, [Next]_vars
    PROVE  ClusterInv'
<1> USE DEF ClusterInv, RestorePhases, Phases
<1>1. CASE Serve
  BY <1>1, ServeControl
<1>2. CASE Reconcile
  BY <1>2, ReconcileControl
<1>3. CASE Subscribe \/ Environment
  <2>1. pc' \in {"restore_start", "restore_wait"} => pc' = pc
    BY <1>3, EnvironmentControl
  <2>2. UNCHANGED running
    BY <1>3 DEF Subscribe, Environment, Publish, SendCommand, SendTampered, Break,
       WindowPasses, ResyncFallsDue, DnsAdded, DnsRemoved, CertExpires, OrphanEnds,
       Crash, host, docker
  <2>3. UNCHANGED spent \/ \E m \in Mishaps : Spend(m)
    BY <1>3 DEF Subscribe, Environment, Publish, SendCommand, SendTampered, Break,
       WindowPasses, ResyncFallsDue, DnsAdded, DnsRemoved, CertExpires, OrphanEnds,
       Crash, Mishaps
  <2> QED
    BY <2>1, <2>2, <2>3, SpendGrows
<1>4. CASE Restore
  <2>1. ASSUME Release PROVE pc' \in {"begin", "select"}
    BY <2>1, ReapplyStep DEF Release, TypeInv, TypeOK
  <2>2. CASE RestoreSkipped \/ RestoreNotStarted \/ RestoreSucceeds \/ RestoreFails
    BY <2>1, <2>2 DEF RestoreSkipped, RestoreNotStarted, RestoreSucceeds, RestoreFails
  <2>3. CASE RestoreBegin
    BY <2>3 DEF RestoreBegin
  <2>4. CASE RestoreRemoves
    <3>1. "postgres" \in Services
      BY DEF Services
    <3>2. CASE RestoreRemove("remove_postgres", "postgres", "restore_start")
      <4>1. CASE Spend("removal")
        BY <3>2, <4>1, SpendGrows DEF RestoreRemove, Mishaps
      <4>2. CASE running' = RemoveAll({"postgres"})
        BY <3>1, <3>2, <4>2 DEF RestoreRemove, RemoveAll
      <4> QED
        BY <3>2, <4>1, <4>2 DEF RestoreRemove
    <3>3. CASE \/ RestoreRemove("remove_core", "core-server", "remove_commerce")
               \/ RestoreRemove("remove_commerce", "commerce-service", "remove_postgres")
      BY <3>3 DEF RestoreRemove
    <3> QED
      BY <2>4, <3>2, <3>3 DEF RestoreRemoves
  <2>5. CASE RestoreStart
    BY <2>5 DEF RestoreStart
  <2> QED
    BY <1>4, <2>2, <2>3, <2>4, <2>5 DEF Restore
<1>5. CASE UNCHANGED vars
  BY <1>5 DEF vars, docker
<1> QED
  BY <1>1, <1>2, <1>3, <1>4, <1>5 DEF Next

(* Held from an agent that has just started on. *)
LEMMA ClusterInvariant == Spec => []ClusterInv
<1>1. Init => ClusterInv
  BY DEF Init, ClusterInv
<1>2. TypeInv /\ ClusterInv /\ [Next]_vars => ClusterInv'
  BY ClusterInvStep
<1> QED
  BY <1>1, <1>2, TypeInvariant, PTL DEF Spec

(* While the agent waits for the restore container, Postgres is down -     *)
(* unless a removal failed: runRestore ignores the errors of its removals. *)
THEOREM RestoreHasCluster == Spec => []RestoreOwnsCluster
<1>1. ClusterInv => RestoreOwnsCluster
  BY DEF ClusterInv, RestoreOwnsCluster
<1> QED
  BY <1>1, ClusterInvariant, PTL

-----------------------------------------------------------------------------
(***************************************************************************)
(* A hold is reported.  window is down while reconcile runs; what raises   *)
(* it - an error, or a rate limit met after the secret store check - shows *)
(* in the Ready reason until it passes.                                    *)
(***************************************************************************)
HoldInv ==
    /\ HoldIsReported
    /\ pc \in Phases => ~window
    /\ pc = "edge" => ~awaitingSecretStore

(* What Ready is computed from decides Ready. *)
LEMMA UntouchedReady ==
    ASSUME Untouched
    PROVE  Ready' = Ready
BY DEF Untouched, blockVars, Ready

(* Every step that opens a backoff window also records why. *)
LEMMA HoldInvStep ==
    ASSUME TypeInv, HoldInv, [Next]_vars
    PROVE  HoldInv'
<1> USE DEF HoldInv, HoldIsReported, TypeInv, TypeOK
<1>a. ASSUME Untouched, UNCHANGED window \/ ~window',
             pc' \notin Phases \/ (pc' = "begin" /\ ~window')
      PROVE  HoldInv'
  BY <1>a, UntouchedReady DEF Phases
<1>1. CASE Serve
  <2>1. Untouched /\ (UNCHANGED window \/ ~window')
    BY <1>1 DEF Serve, OnDesired, OnTampered, OnClosed, OnForceRecheck, OnRequestStatus,
       OnRecreate, OnRunBackup, OnRestoreDB, HeartbeatTick, ResyncTick, FastTick, BackupTick,
       ServeRecheck, ServeRecreate, ServeBackup, Receive, Idle
  <2> QED
    BY <1>1, <1>a, <2>1, ServeControl DEF Phases
<1>2. CASE Restore
  <2>1. ASSUME Release PROVE UNCHANGED window /\ (pc' = "select" \/ (pc' = "begin" /\ ~window'))
    BY <2>1, ReapplyStep DEF Release
  <2>2. CASE RestoreSkipped \/ RestoreNotStarted \/ RestoreFails
    BY <1>a, <2>1, <2>2 DEF RestoreSkipped, RestoreNotStarted, RestoreFails, Phases
  <2>3. CASE RestoreBegin
    BY <1>a, <2>3 DEF RestoreBegin, Phases
  <2>4. CASE RestoreRemoves
    BY <1>a, <2>4 DEF RestoreRemoves, RestoreRemove, Phases
  <2>5. CASE RestoreStart
    BY <1>a, <2>5 DEF RestoreStart, Phases
  <2>6. CASE RestoreSucceeds
    BY <2>1, <2>6 DEF RestoreSucceeds, Ready, blockVars, Phases
  <2> QED
    BY <1>2, <2>2, <2>3, <2>4, <2>5, <2>6 DEF Restore
<1>3. CASE Subscribe \/ Environment
  <2>1. CASE Subscribe
    BY <2>1 DEF Subscribe, gateVars, blockVars, Ready, Phases
  <2>2. CASE WindowPasses
    BY <2>2 DEF WindowPasses, blockVars, Phases
  <2>3. CASE ResyncFallsDue
    BY <2>3 DEF ResyncFallsDue, gateVars, blockVars, Ready
  <2>4. CASE Crash
    BY <2>4 DEF Crash, Phases
  <2>5. CASE UNCHANGED agent
    BY <2>5 DEF agent, gateVars, blockVars, Ready
  <2> QED
    BY <1>3, <2>1, <2>2, <2>3, <2>4, <2>5 DEF Environment, Publish, SendCommand, SendTampered,
       Break, DnsAdded, DnsRemoved, CertExpires, OrphanEnds
<1>4. CASE Reconcile
  <2>1. pc \in Phases /\ ~window
    BY <1>4, ReconcileControl
  (* Steps that go on, or return without opening the window. *)
  <2>2. ASSUME ~window', pc' # "edge" PROVE HoldInv'
    BY <2>2
  <2>3. ASSUME Fail PROVE HoldInv'
    BY <2>3 DEF Fail, Settle, Ready, Reason, Phases
  <2>4. ASSUME NEW next, next # "edge", Continue(next) PROVE HoldInv'
    BY <2>1, <2>2, <2>4 DEF Continue, gateVars
  <2>5. CASE Begin
    BY <2>4, <2>5 DEF Begin
  <2>6. CASE StopStack \/ Prune
    BY <2>2, <2>3, <2>6 DEF StopStack, Prune, PruneFails, Converge, Settle
  <2>7. CASE FinalBackup
    BY <2>1, <2>2, <2>7 DEF FinalBackup, gateVars
  <2>8. CASE Prepare
    <3>1. CASE Fail
      BY <2>3, <3>1
    <3>2. CASE UNCHANGED window /\ Block
      BY <2>1, <2>2, <3>2 DEF Block, Settle
    <3>3. CASE ~awaitingSecretStore' /\ Continue("edge")
      BY <2>1, <3>3 DEF Continue, gateVars
    <3> QED
      BY <2>8, <3>1, <3>2, <3>3 DEF Prepare
  <2>9. CASE Edge
    <3>1. CASE WildcardIssued
      BY <2>2, <3>1 DEF WildcardIssued
    <3>2. CASE WildcardAwaitingDns
      BY <2>1, <2>2, <3>2 DEF WildcardAwaitingDns, Settle
    <3>3. CASE WildcardRateLimited
      BY <2>9, <3>3 DEF Edge, Phase, WildcardRateLimited, Settle, Ready, Reason, Phases
    <3>4. CASE WildcardError
      BY <2>3, <3>4 DEF WildcardError
    <3>5. CASE NoEdge
      BY <2>4, <3>5 DEF NoEdge
    <3> QED
      BY <2>9, <3>1, <3>2, <3>3, <3>4, <3>5 DEF Edge
  <2>10. CASE ApplyPostgres \/ Provision \/ Migrate
    BY <2>3, <2>4, <2>10 DEF ApplyPostgres, Provision, Migrate, NotApplied
  <2>12. CASE BaseBackup
    <3>1. Fail \/ (pc' = "migrate" /\ UNCHANGED gateVars)
      BY <2>12 DEF BaseBackup
    <3> QED
      BY <2>1, <2>2, <2>3, <3>1 DEF gateVars
  <2>11. CASE Gitea \/ ApplyCore \/ EnsureNginx
    BY <2>3, <2>4, <2>11 DEF Gitea, ApplyCore, EnsureNginx, NotApplied
  <2> QED
    BY <1>4, <2>5, <2>6, <2>7, <2>8, <2>9, <2>10, <2>11, <2>12 DEF Reconcile
<1>5. CASE UNCHANGED vars
  BY <1>5 DEF vars, gateVars, blockVars, Ready
<1> QED
  BY <1>1, <1>2, <1>3, <1>4, <1>5 DEF Next

(* Held from an agent that has just started on. *)
LEMMA HoldInvariant == Spec => []HoldInv
<1>1. Init => HoldInv
  BY DEF Init, HoldInv, HoldIsReported, Phases
<1>2. TypeInv /\ HoldInv /\ [Next]_vars => HoldInv'
  BY HoldInvStep
<1> QED
  BY <1>1, <1>2, TypeInvariant, PTL DEF Spec

(* The agent never holds reconcile off silently: inside a backoff window   *)
(* its Ready condition is an error or a rate limit.                        *)
THEOREM HoldsAreReported == Spec => []HoldIsReported
BY HoldInvariant, PTL DEF HoldInv

-----------------------------------------------------------------------------
(***************************************************************************)
(* Stopped deployments.  A reconcile that gets past its first phase has    *)
(* lowered the stopped flag before it starts any container.                *)
(***************************************************************************)
StoppedInv ==
    /\ StoppedIsDown
    /\ pc \in Phases \ {"begin", "stop"} => ~stopped

(* Every step that starts a container has first left the stopped state. *)
LEMMA StoppedInvStep ==
    ASSUME TypeInv, StoppedInv, [Next]_vars
    PROVE  StoppedInv'
<1> USE DEF StoppedInv, StoppedIsDown
<1>a. ASSUME stopped' = stopped, archiving' = archiving,
             running' = running \/ \E names : running' = RemoveAll(names),
             pc' \notin Phases \/ pc' = "begin"
      PROVE  StoppedInv'
  BY <1>a DEF RemoveAll
<1>1. CASE Serve
  <2>1. Untouched /\ UNCHANGED running
    BY <1>1 DEF Serve, OnDesired, OnTampered, OnClosed, OnForceRecheck, OnRequestStatus,
       OnRecreate, OnRunBackup, OnRestoreDB, HeartbeatTick, ResyncTick, FastTick, BackupTick,
       ServeRecheck, ServeRecreate, ServeBackup, Receive, docker
  <2> QED
    BY <1>1, <1>a, <2>1, ServeControl DEF Untouched, dbVars, Phases
<1>2. CASE Restore
  <2>1. ASSUME Release PROVE pc' = "select" \/ pc' = "begin"
    BY <2>1, ReapplyStep DEF Release, TypeInv, TypeOK
  <2>2. CASE RestoreSkipped \/ RestoreNotStarted \/ RestoreFails
    BY <1>a, <2>1, <2>2 DEF RestoreSkipped, RestoreNotStarted, RestoreFails, Untouched,
       dbVars, docker, Phases
  <2>3. CASE RestoreSucceeds
    BY <1>a, <2>1, <2>3 DEF RestoreSucceeds, dbVars, Phases
  <2>4. CASE RestoreBegin \/ RestoreStart
    BY <1>a, <2>4 DEF RestoreBegin, RestoreStart, Untouched, dbVars, docker, Phases
  <2>5. CASE RestoreRemoves
    BY <1>a, <2>5 DEF RestoreRemoves, RestoreRemove, Untouched, dbVars, Phases
  <2> QED
    BY <1>2, <2>2, <2>3, <2>4, <2>5 DEF Restore
<1>3. CASE Subscribe \/ Environment
  <2>1. CASE Crash
    BY <2>1 DEF Crash, Phases
  <2>2. CASE Subscribe
    BY <2>2, <1>a DEF Subscribe, dbVars, host, docker, Phases
  <2>3. CASE WindowPasses \/ ResyncFallsDue
    BY <2>3 DEF WindowPasses, ResyncFallsDue, dbVars, host, docker
  <2>4. CASE UNCHANGED agent /\ UNCHANGED running
    BY <2>4 DEF agent, dbVars
  <2> QED
    BY <1>3, <2>1, <2>2, <2>3, <2>4 DEF Environment, Publish, SendCommand, SendTampered,
       Break, DnsAdded, DnsRemoved, CertExpires, OrphanEnds, host, docker
<1>4. CASE Reconcile
  <2>1. CASE Begin
    BY <2>1 DEF Begin, Phase, Continue, docker, dbVars
  <2>2. CASE StopStack
    <3>1. CASE running' = RemoveAll(Services) /\ archiving' = FALSE /\ Converge
      BY <3>1 DEF RemoveAll, Converge, Settle, Phases
    <3>2. CASE UNCHANGED <<stopped, archiving>> /\ PruneFails({})
      BY <3>2, <1>a DEF PruneFails, Fail, Settle, Phases
    <3> QED
      BY <2>2, <3>1, <3>2 DEF StopStack
  <2>3. CASE \/ FinalBackup \/ Prepare \/ Edge \/ ApplyPostgres \/ Provision \/ BaseBackup
             \/ Migrate \/ Gitea \/ ApplyCore \/ EnsureNginx \/ Prune
    <3>1. pc \in Phases \ {"begin", "stop"}
      BY <2>3 DEF FinalBackup, Prepare, Edge, ApplyPostgres, Provision, BaseBackup, Migrate,
         Gitea, ApplyCore, EnsureNginx, Prune, Phase, Phases
    <3>2. UNCHANGED stopped
      BY <2>3 DEF FinalBackup, Prepare, Edge, ApplyPostgres, Provision, BaseBackup, Migrate,
         Gitea, ApplyCore, EnsureNginx, Prune, ReconcileFrame
    <3> QED
      BY <3>1, <3>2
  <2> QED
    BY <1>4, <2>1, <2>2, <2>3 DEF Reconcile
<1>5. CASE UNCHANGED vars
  BY <1>5 DEF vars, dbVars, docker
<1> QED
  BY <1>1, <1>2, <1>3, <1>4, <1>5 DEF Next

(* While the agent takes the deployment for stopped, no container of it is *)
(* up and no backup is scheduled, whatever is restored meanwhile.          *)
THEOREM StoppedStaysDown == Spec => []StoppedIsDown
<1>1. Init => StoppedInv
  BY DEF Init, StoppedInv, StoppedIsDown, Phases
<1>2. TypeInv /\ StoppedInv /\ [Next]_vars => StoppedInv'
  BY StoppedInvStep
<1>3. StoppedInv => StoppedIsDown
  BY DEF StoppedInv
<1> QED
  BY <1>1, <1>2, <1>3, TypeInvariant, PTL DEF Spec

-----------------------------------------------------------------------------
(* Publishing a later desired-state does not change the one at hand. *)
LEMMA DsStable ==
    ASSUME TypeInv, lastDesired # 0, lastDesired' = lastDesired,
           UNCHANGED generations \/ (\E c \in Configs : generations' = Append(generations, c))
    PROVE  ds' = ds
<1>1. generations \in Seq(Configs) /\ lastDesired \in 1 .. Len(generations)
  BY DEF TypeInv, TypeOK, Numbering, CloudOK, HandoverOK, Generation
<1>2. generations'[lastDesired] = generations[lastDesired]
  BY <1>1
<1> QED
  BY <1>2 DEF ds

-----------------------------------------------------------------------------
(***************************************************************************)
(* Where reconcile stands.  The phase it is in tells which services it has *)
(* applied: they are the keep set, they run the spec of the desired-state  *)
(* at hand, and when the prune comes they are all that was asked for.      *)
(***************************************************************************)
AfterEdge == {"postgres", "provision", "base", "migrate", "gitea", "services", "nginx", "prune"}

AfterPostgres == AfterEdge \ {"postgres"}

Kept(at) ==
    /\ at \in AfterEdge /\ ds.edge => "acme-dns" \in keep
    /\ at \in AfterPostgres /\ ~ds.external => "postgres" \in keep
    /\ at \in {"services", "nginx", "prune"} /\ ds.gitea => "gitea" \in keep
    /\ at \in {"nginx", "prune"} => CoreServices \subseteq keep
    /\ at = "prune" => Wanted(ds) \subseteq keep

KeepInv ==
    /\ pc = "stop" => ds.stopped
    /\ pc \in Phases \ {"begin", "stop"} =>
         /\ ~ds.stopped
         /\ keep \subseteq Wanted(ds)
         /\ \A s \in keep : running[s] = SpecOf(s, ds)
    /\ pc \in {"postgres", "provision", "base"} => ~ds.external
    /\ pc = "nginx" => ds.edge
    /\ Kept(pc)

(* No step but one of reconcile moves reconcile on: containers, locals and *)
(* the desired-state at hand are what the last phase left.                 *)
LEMMA PhaseKept ==
    ASSUME TypeInv, Serve \/ Restore \/ Subscribe \/ Environment \/ UNCHANGED vars,
           pc' \in Phases \ {"begin"}
    PROVE  /\ UNCHANGED <<pc, lastDesired, ds, locals, forceRecreate, stopped, dbVars,
                          running, stale, recreateCh>>
           /\ ~Crash
<1>1. CASE Serve
  BY <1>1, ServeControl DEF Phases
<1>2. CASE Restore
  <2>1. ASSUME Release PROVE pc' = "select" \/ pc' = "begin"
    BY <2>1, ReapplyStep DEF Release, TypeInv, TypeOK
  <2> QED
    BY <1>2, <2>1 DEF Restore, RestoreSkipped, RestoreBegin, RestoreRemoves, RestoreRemove,
       RestoreStart, RestoreNotStarted, RestoreSucceeds, RestoreFails, Phases
<1>3. CASE Subscribe \/ Crash
  BY <1>3 DEF Subscribe, Crash, Phases
<1>4. CASE (Environment /\ ~Crash) \/ UNCHANGED vars
  <2>1. /\ UNCHANGED <<pc, lastDesired, locals, forceRecreate, stopped, dbVars,
                       running, stale, recreateCh>>
        /\ UNCHANGED generations \/ (\E c \in Configs : generations' = Append(generations, c))
        /\ ~Crash
    <3>1. CASE UNCHANGED vars
      BY <3>1 DEF vars, dbVars, locals, docker, cloud, handover, queues, Crash, Phases
    <3>2. CASE WindowPasses \/ ResyncFallsDue
      BY <3>2 DEF WindowPasses, ResyncFallsDue, host, docker, cloud, handover, queues, Phases
    <3>3. CASE UNCHANGED <<agent, running, stale>> /\ (UNCHANGED generations \/ Publish) /\ ~Crash
      BY <3>3 DEF agent, Publish, handover, queues, dbVars, locals
    <3> QED
      BY <1>4, <3>1, <3>2, <3>3 DEF Environment, Publish, SendCommand, SendTampered, Break,
         DnsAdded, DnsRemoved, CertExpires, OrphanEnds, host, docker, cloud
  <2>2. lastDesired # 0
    BY <2>1 DEF TypeInv, Numbering
  <2>3. ds' = ds
    BY <2>1, <2>2, DsStable
  <2> QED
    BY <2>1, <2>3
<1> QED
  BY <1>1, <1>2, <1>3, <1>4

(* A service that was applied joins the keep set with the spec it should have. *)
LEMMA KeepApplied ==
    ASSUME TypeInv, keep \subseteq Wanted(ds), \A s \in keep : running[s] = SpecOf(s, ds),
           UNCHANGED ds, NEW t \in Wanted(ds), t \in Services,
           running' = [running EXCEPT ![t] = SpecOf(t, ds)], keep' = keep \cup {t}
    PROVE  keep' \subseteq Wanted(ds') /\ \A s \in keep' : running'[s] = SpecOf(s, ds')
BY DEF TypeInv, TypeOK, DockerOK, LocalsOK

(* Every phase hands the next one the keep set it counts on. *)
LEMMA KeepInvStep ==
    ASSUME TypeInv, KeepInv, [Next]_vars
    PROVE  KeepInv'
<1>1. CASE pc' \notin Phases \/ pc' = "begin"
  BY <1>1 DEF KeepInv, Kept, Phases, AfterEdge, AfterPostgres
<1>2. CASE (Serve \/ Restore \/ Subscribe \/ Environment \/ UNCHANGED vars)
           /\ pc' \in Phases \ {"begin"}
  <2>1. UNCHANGED <<pc, ds, keep, running>>
    BY <1>2, PhaseKept DEF locals
  <2> QED
    BY <2>1 DEF KeepInv, Kept
<1>3. CASE Reconcile
  <2>1. UNCHANGED ds /\ pc \in Phases
    BY <1>3, ReconcileControl DEF handover, cloud, ds
  <2>2. ASSUME Fail \/ Block \/ Converge PROVE KeepInv'
    BY <2>2, <1>1 DEF Fail, Block, Converge, Settle, Phases
  <2> DEFINE Going == pc \in Phases \ {"begin", "stop"}
  <2>g. Going => /\ ~ds.stopped /\ keep \subseteq Wanted(ds)
                 /\ \A s \in keep : running[s] = SpecOf(s, ds)
    BY DEF KeepInv
  <2>3. CASE Begin
    BY <2>1, <2>3 DEF Begin, Continue, KeepInv, Kept, docker, Phases, AfterEdge, AfterPostgres
  <2>4. CASE StopStack \/ Prune
    BY <2>2, <2>4 DEF StopStack, Prune, PruneFails
  <2>5. CASE FinalBackup
    BY <2>1, <2>5 DEF FinalBackup, Phase, KeepInv, Kept, docker, locals, Phases, AfterEdge, AfterPostgres
  <2>6. CASE Prepare
    <3>1. CASE Continue("edge")
      BY <2>1, <2>6, <3>1 DEF Prepare, Phase, Continue, KeepInv, Kept, docker, locals, Phases, AfterEdge, AfterPostgres
    <3> QED
      BY <2>6, <2>2, <3>1 DEF Prepare
  <2>7. CASE Edge
    <3>1. CASE WildcardAwaitingDns \/ WildcardRateLimited \/ WildcardError
      BY <3>1, <1>1, <2>2 DEF WildcardAwaitingDns, WildcardRateLimited, WildcardError, Settle, Phases
    <3>2. CASE WildcardIssued /\ ds.edge /\ keep' = keep \cup {"acme-dns"}
      <4>1. "acme-dns" \in Wanted(ds) /\ "acme-dns" \in Services /\ Going
        BY <2>7, <2>g, <3>2 DEF Edge, Phase, Wanted, EdgeServices, Services, Phases
      <4>2. keep' \subseteq Wanted(ds') /\ \A s \in keep' : running'[s] = SpecOf(s, ds')
        BY <2>1, <2>g, <3>2, <4>1, KeepApplied DEF WildcardIssued, AcmeDnsUp
      <4>3. pc' = IF ds.external THEN "migrate" ELSE "postgres"
        BY <3>2 DEF WildcardIssued
      <4> QED
        BY <2>1, <2>g, <3>2, <4>1, <4>2, <4>3 DEF KeepInv, Kept, Phases, AfterEdge, AfterPostgres
    <3>3. CASE NoEdge /\ ~ds.edge /\ UNCHANGED keep
      BY <2>1, <2>7, <3>3 DEF Edge, Phase, NoEdge, Continue, KeepInv, Kept, Phases, AfterEdge, AfterPostgres
    <3> QED
      BY <2>7, <3>1, <3>2, <3>3 DEF Edge
  <2>8. CASE ApplyPostgres
    <3>1. CASE NotApplied("postgres")
      BY <2>2, <3>1 DEF NotApplied
    <3>2. CASE Applied("postgres") /\ keep' = keep \cup {"postgres"} /\ Continue("provision")
      <4>1. "postgres" \in Wanted(ds) /\ "postgres" \in Services /\ Going /\ pc = "postgres"
            /\ ~ds.external
        BY <2>8, <2>g DEF ApplyPostgres, Phase, KeepInv, Wanted, Services, Phases
      <4>2. keep' \subseteq Wanted(ds') /\ \A s \in keep' : running'[s] = SpecOf(s, ds')
        BY <2>1, <2>g, <3>2, <4>1, KeepApplied DEF Applied
      <4> QED
        BY <2>1, <2>g, <3>2, <4>1, <4>2 DEF Continue, KeepInv, Kept, Phases, AfterEdge, AfterPostgres
    <3> QED
      BY <2>8, <3>1, <3>2 DEF ApplyPostgres
  <2>9. CASE Provision \/ BaseBackup \/ Migrate
    <3>1. Fail \/ /\ pc' \in {"base", "migrate", "gitea"}
                  /\ pc' = "base" => pc = "provision"
      BY <2>9 DEF Provision, BaseBackup, Migrate, Phase, Continue
    <3>2. UNCHANGED <<keep, running>> /\ pc \in AfterPostgres
      BY <2>9 DEF Provision, BaseBackup, Migrate, Phase, AfterPostgres, AfterEdge
    <3>3. CASE pc' \in {"base", "migrate", "gitea"} /\ (pc' = "base" => pc = "provision")
      BY <2>1, <3>2, <3>3 DEF KeepInv, Kept, Phases, AfterEdge, AfterPostgres
    <3> QED
      BY <2>2, <3>1, <3>3
  <2>10. CASE Gitea
    <3>1. CASE Fail
      BY <2>2, <3>1
    <3>2. CASE ds.gitea /\ Applied("gitea") /\ keep' = keep \cup {"gitea"} /\ Continue("services")
      <4>1. "gitea" \in Wanted(ds) /\ "gitea" \in Services /\ Going /\ pc = "gitea"
        BY <2>10, <2>g, <3>2 DEF Gitea, Phase, Wanted, Services, Phases
      <4>2. keep' \subseteq Wanted(ds') /\ \A s \in keep' : running'[s] = SpecOf(s, ds')
        BY <2>1, <2>g, <3>2, <4>1, KeepApplied DEF Applied
      <4> QED
        BY <2>1, <2>g, <3>2, <4>1, <4>2 DEF Continue, KeepInv, Kept, Phases, AfterEdge, AfterPostgres
    <3>3. CASE ~ds.gitea /\ Continue("services") /\ UNCHANGED <<running, keep>>
      BY <2>1, <2>10, <3>3 DEF Gitea, Phase, Continue, KeepInv, Kept, Phases, AfterEdge, AfterPostgres
    <3> QED
      BY <2>10, <3>1, <3>2, <3>3 DEF Gitea, NotApplied
  <2>11. CASE ApplyCore
    <3>1. PICK i \in 1 .. 4 :
            /\ \A j \in 1 .. (i - 1) : StartOrder[j] \in keep
            /\ \/ /\ Applied(StartOrder[i]) /\ keep' = keep \cup {StartOrder[i]}
                  /\ Continue(IF i < 4 THEN "services" ELSE IF ds.edge THEN "nginx" ELSE "prune")
               \/ NotApplied(StartOrder[i]) /\ UNCHANGED keep
      BY <2>11 DEF ApplyCore
    <3>2. CASE NotApplied(StartOrder[i])
      BY <2>2, <3>2 DEF NotApplied
    <3>3. CASE /\ Applied(StartOrder[i]) /\ keep' = keep \cup {StartOrder[i]}
               /\ Continue(IF i < 4 THEN "services" ELSE IF ds.edge THEN "nginx" ELSE "prune")
      <4>1. StartOrder[i] \in CoreServices
        BY DEF StartOrder, CoreServices, Apps
      <4>2. StartOrder[i] \in Wanted(ds) /\ StartOrder[i] \in Services /\ Going /\ pc = "services"
        BY <2>11, <2>g, <4>1 DEF ApplyCore, Phase, Wanted, Services, Phases
      <4>3. keep' \subseteq Wanted(ds') /\ \A s \in keep' : running'[s] = SpecOf(s, ds')
        BY <2>1, <2>g, <3>3, <4>2, KeepApplied DEF Applied
      <4>4. i = 4 => CoreServices \subseteq keep'
        BY <3>1, <3>3 DEF StartOrder, CoreServices, Apps
      <4>5. pc' = IF i < 4 THEN "services" ELSE IF ds.edge THEN "nginx" ELSE "prune"
        BY <3>3 DEF Continue
      <4>6. /\ ds.edge => "acme-dns" \in keep'
            /\ ~ds.external => "postgres" \in keep'
            /\ ds.gitea => "gitea" \in keep'
        BY <3>3, <4>2 DEF KeepInv, Kept, AfterEdge, AfterPostgres
      <4>7. i = 4 /\ ~ds.edge => Wanted(ds) \subseteq keep'
        BY <4>4, <4>6 DEF Wanted
      <4> QED
        BY <2>1, <2>g, <4>2, <4>3, <4>4, <4>5, <4>6, <4>7 DEF KeepInv, Kept, Phases, AfterEdge, AfterPostgres
    <3> QED
      BY <3>1, <3>2, <3>3
  <2>12. CASE EnsureNginx
    <3>1. CASE NotApplied("nginx")
      BY <2>2, <3>1 DEF NotApplied
    <3>2. CASE Applied("nginx") /\ keep' = keep \cup EdgeServices /\ Continue("prune")
      <4>1. pc = "nginx" /\ Going /\ ds.edge /\ "acme-dns" \in keep /\ CoreServices \subseteq keep
            /\ (~ds.external => "postgres" \in keep) /\ (ds.gitea => "gitea" \in keep)
        BY <2>12 DEF EnsureNginx, Phase, KeepInv, Kept, Phases, AfterEdge, AfterPostgres
      <4>2. "nginx" \in Wanted(ds) /\ "nginx" \in Services /\ keep' = keep \cup {"nginx"}
        BY <2>g, <3>2, <4>1 DEF Wanted, EdgeServices, Services
      <4>3. keep' \subseteq Wanted(ds') /\ \A s \in keep' : running'[s] = SpecOf(s, ds')
        BY <2>1, <2>g, <3>2, <4>1, <4>2, KeepApplied DEF Applied
      <4>4. Wanted(ds) \subseteq keep'
        BY <4>1, <4>2 DEF Wanted, EdgeServices
      <4> QED
        BY <2>1, <2>g, <3>2, <4>1, <4>2, <4>3, <4>4 DEF Continue, KeepInv, Kept, Phases, AfterEdge, AfterPostgres
    <3> QED
      BY <2>12, <3>1, <3>2 DEF EnsureNginx
  <2> QED
    BY <1>3, <2>3, <2>4, <2>5, <2>6, <2>7, <2>8, <2>9, <2>10, <2>11, <2>12 DEF Reconcile
<1> QED
  BY <1>1, <1>2, <1>3, ReconcileControl DEF Next

(* A phase of reconcile always finds what the phases before it applied. *)
LEMMA KeepInvariant == Spec => []KeepInv
<1>1. Init => KeepInv
  BY DEF Init, KeepInv, Kept, Phases, AfterEdge, AfterPostgres
<1>2. TypeInv /\ KeepInv /\ [Next]_vars => KeepInv'
  BY KeepInvStep
<1> QED
  BY <1>1, <1>2, TypeInvariant, PTL DEF Spec

-----------------------------------------------------------------------------
(***************************************************************************)
(* Honest reports.  What is hard in them is the restore: it removes        *)
(* containers behind the back of the gate, and its reapply may find        *)
(* nothing due.  It never does so under an InSync report, because the      *)
(* frames keep the order the cloud gave them: when RestoreDB is read, the  *)
(* desired-state at hand is the stopped one the cloud sent it for, or a    *)
(* later one that the gate finds due.                                      *)
(***************************************************************************)

(* Known(st, ld, n, g): an agent that holds desired-state ld has           *)
(* desired-state g when it has read n frames of st.                        *)
Known(st, ld, n, g) ==
    \/ \E j \in 1 .. n : /\ st[j].kind = "desired" /\ st[j].gen = g
                         /\ \A k \in (j + 1) .. n : st[k].kind # "desired"
    \/ g = ld /\ \A k \in 1 .. n : st[k].kind # "desired"

(* The generations only ever grow along the way from cloud to agent. *)
OrderInv ==
    /\ lastGeneration <= lastDesired
    /\ \A i \in 1 .. Len(stream) : stream[i].kind = "desired" =>
         /\ lastDesired <= stream[i].gen
         /\ \A j \in 1 .. i : stream[j].kind = "desired" => stream[j].gen <= stream[i].gen

RestoreFrames ==
    \A i \in 1 .. Len(stream) : stream[i].kind = "restore" =>
        \E g \in 1 .. Len(generations) :
            Known(stream, lastDesired, i - 1, g) /\ generations[g].stopped

StreamInv ==
    /\ OrderInv
    /\ RestoreFrames
    /\ Connected /\ ~Closed => Known(stream, lastDesired, Len(stream), Len(generations))
    /\ restoring /\ lastGeneration = lastDesired /\ lastDesired # 0
         => generations[lastDesired].stopped

(* Reading a frame brings the agent one frame further. *)
LEMMA KnownTail ==
    ASSUME NEW st \in Seq(Frames), st # <<>>, NEW ld, NEW n \in 1 .. Len(st), NEW g,
           Known(st, ld, n, g)
    PROVE  Known(Tail(st), IF Head(st).kind = "desired" THEN Head(st).gen ELSE ld, n - 1, g)
<1>1. Len(Tail(st)) = Len(st) - 1 /\ \A k \in 1 .. (n - 1) : Tail(st)[k] = st[k + 1]
  OBVIOUS
<1>2. Head(st) = st[1]
  OBVIOUS
<1>3. CASE \E j \in 1 .. n : /\ st[j].kind = "desired" /\ st[j].gen = g
                             /\ \A k \in (j + 1) .. n : st[k].kind # "desired"
  <2>1. PICK j \in 1 .. n : /\ st[j].kind = "desired" /\ st[j].gen = g
                            /\ \A k \in (j + 1) .. n : st[k].kind # "desired"
    BY <1>3
  <2>2. \A k \in j .. (n - 1) : k + 1 \in (j + 1) .. n
    OBVIOUS
  <2>3. \A k \in j .. (n - 1) : Tail(st)[k].kind # "desired"
    BY <1>1, <2>1, <2>2
  <2>4. CASE j = 1
    BY <1>2, <2>1, <2>3, <2>4 DEF Known
  <2>5. CASE j > 1
    <3>1. j - 1 \in 1 .. (n - 1) /\ Tail(st)[j - 1] = st[j] /\ (j - 1) + 1 = j
      BY <1>1, <2>5
    <3> QED
      BY <2>1, <2>3, <3>1 DEF Known
  <2> QED
    BY <2>4, <2>5
<1>4. CASE g = ld /\ \A k \in 1 .. n : st[k].kind # "desired"
  <2>1. \A k \in 1 .. (n - 1) : k + 1 \in 1 .. n
    OBVIOUS
  <2>2. \A k \in 1 .. (n - 1) : Tail(st)[k].kind # "desired"
    BY <1>1, <1>4, <2>1
  <2> QED
    BY <1>2, <1>4, <2>2 DEF Known
<1> QED
  BY <1>3, <1>4 DEF Known

(* Only the frames that are read count. *)
LEMMA KnownPrefix ==
    ASSUME NEW st, NEW tt, NEW ld, NEW n \in Nat, NEW g,
           \A k \in 1 .. n : tt[k] = st[k], Known(st, ld, n, g)
    PROVE  Known(tt, ld, n, g)
BY DEF Known

(* Sending a frame: a desired-state is what the agent will have, any other *)
(* frame leaves it with what it had.                                       *)
LEMMA KnownAppend ==
    ASSUME NEW st \in Seq(Frames), NEW f \in Frames, NEW ld, NEW g,
           IF f.kind = "desired" THEN g = f.gen ELSE Known(st, ld, Len(st), g)
    PROVE  Known(Append(st, f), ld, Len(st) + 1, g)
<1> DEFINE tt == Append(st, f)
           n == Len(st)
<1>1. tt[n + 1] = f /\ n \in Nat /\ \A k \in 1 .. n : tt[k] = st[k]
  OBVIOUS
<1> HIDE DEF tt, n
<1>2. CASE f.kind = "desired"
  <2>1. n + 1 \in 1 .. (n + 1) /\ ((n + 1) + 1) .. (n + 1) = {}
    BY <1>1
  <2>2. \E j \in 1 .. (n + 1) : /\ tt[j].kind = "desired" /\ tt[j].gen = g
                                /\ \A k \in (j + 1) .. (n + 1) : tt[k].kind # "desired"
    BY <1>1, <1>2, <2>1
  <2> QED
    BY <2>2 DEF Known, tt, n
<1>3. CASE f.kind # "desired"
  <2>0. Known(st, ld, n, g)
    BY <1>3 DEF n
  <2>1. \A k \in 1 .. (n + 1) : k \in 1 .. n \/ k = n + 1
    BY <1>1
  <2>2. \A j \in 1 .. n : j \in 1 .. (n + 1) /\ \A k \in (j + 1) .. (n + 1) : k \in (j + 1) .. n \/ k = n + 1
    BY <1>1
  <2>3. CASE \E j \in 1 .. n : /\ st[j].kind = "desired" /\ st[j].gen = g
                               /\ \A k \in (j + 1) .. n : st[k].kind # "desired"
    <3>1. PICK j \in 1 .. n : /\ st[j].kind = "desired" /\ st[j].gen = g
                              /\ \A k \in (j + 1) .. n : st[k].kind # "desired"
      BY <2>3
    <3>2. \A k \in (j + 1) .. n : k \in 1 .. n
      BY <1>1
    <3>3. \A k \in (j + 1) .. (n + 1) : tt[k].kind # "desired"
      BY <1>1, <1>3, <2>2, <3>1, <3>2
    <3>4. tt[j] = st[j] /\ j \in 1 .. (n + 1)
      BY <1>1, <2>2
    <3> QED
      BY <3>1, <3>3, <3>4 DEF Known, tt, n
  <2>4. CASE g = ld /\ \A k \in 1 .. n : st[k].kind # "desired"
    <3>1. \A k \in 1 .. (n + 1) : tt[k].kind # "desired"
      BY <1>1, <1>3, <2>1, <2>4
    <3> QED
      BY <2>4, <3>1 DEF Known, tt, n
  <2> QED
    BY <2>0, <2>3, <2>4 DEF Known
<1> QED
  BY <1>2, <1>3

(* What a turn of the select loop does to the stream. *)
LEMMA ServeStream ==
    ASSUME TypeInv, Serve
    PROVE  /\ UNCHANGED <<generations, lastGeneration>>
           /\ \/ /\ stream # <<>> /\ Head(stream).kind # "closed" /\ stream' = Tail(stream)
                 /\ pc' # "offline"
                 /\ lastDesired' = IF Head(stream).kind = "desired" THEN Head(stream).gen
                                   ELSE lastDesired
                 /\ restoring' => restoring \/ Head(stream).kind = "restore"
              \/ stream' = <<>> /\ pc' = "offline" /\ UNCHANGED <<lastDesired, restoring>>
              \/ UNCHANGED <<stream, lastDesired, restoring>> /\ pc' # "offline"
<1> USE DEF TypeInv, TypeOK
<1>1. CASE OnDesired
  BY <1>1, ApplyDesiredStep DEF OnDesired, Receive, Untouched
<1>2. CASE OnTampered
  BY <1>2 DEF OnTampered, Receive, Untouched, handover
<1>3. CASE OnClosed
  BY <1>3 DEF OnClosed, Untouched, handover
<1>4. CASE OnForceRecheck \/ OnRequestStatus \/ OnRunBackup
  BY <1>4 DEF OnForceRecheck, OnRequestStatus, OnRunBackup, Receive, Untouched, Idle
<1>5. CASE OnRestoreDB
  BY <1>5 DEF OnRestoreDB, Receive, Untouched, Idle
<1>6. CASE OnRecreate
  BY <1>6 DEF OnRecreate, Untouched, Idle
<1>7. CASE HeartbeatTick \/ ServeBackup \/ BackupTick
  BY <1>7 DEF HeartbeatTick, ServeBackup, BackupTick, Untouched, Idle
<1>8. CASE ResyncTick \/ FastTick
  BY <1>8, ReapplyStep DEF ResyncTick, FastTick, Untouched
<1>9. CASE ServeRecheck \/ ServeRecreate
  BY <1>9, ReapplyStep DEF ServeRecheck, ServeRecreate, Untouched
<1> QED
  BY <1>1, <1>2, <1>3, <1>4, <1>5, <1>6, <1>7, <1>8, <1>9 DEF Serve

(* A restore takes the desired-state it finds, and gives the lock back. *)
LEMMA RestoreStream ==
    ASSUME TypeInv, Restore
    PROVE  /\ UNCHANGED <<generations, stream, lastDesired, lastGeneration>>
           /\ restoring' => restoring
           /\ pc # "offline" /\ pc' # "offline"
<1>1. ASSUME Release PROVE UNCHANGED lastDesired /\ ~restoring' /\ pc' # "offline"
  BY <1>1, ReapplyStep DEF Release, TypeInv, TypeOK
<1>2. CASE RestoreSkipped \/ RestoreNotStarted \/ RestoreFails
  BY <1>1, <1>2 DEF RestoreSkipped, RestoreNotStarted, RestoreFails, Untouched
<1>3. CASE RestoreSucceeds
  BY <1>1, <1>3 DEF RestoreSucceeds
<1>4. CASE RestoreBegin
  BY <1>4 DEF RestoreBegin, Untouched, handover
<1>5. CASE RestoreRemoves \/ RestoreStart
  BY <1>5 DEF RestoreRemoves, RestoreRemove, RestoreStart, Untouched, handover
<1> QED
  BY <1>2, <1>3, <1>4, <1>5 DEF Restore

(* A phase of reconcile converges on the desired-state at hand or not at all. *)
LEMMA ReconcileGeneration ==
    ASSUME Reconcile
    PROVE  lastGeneration' \in {lastGeneration, lastDesired}
BY DEF Reconcile, Begin, StopStack, FinalBackup, Prepare, Edge, ApplyPostgres, Provision,
   BaseBackup, Migrate, Gitea, ApplyCore, EnsureNginx, Prune, PruneFails, NotApplied,
   WildcardIssued, WildcardAwaitingDns, WildcardRateLimited, WildcardError, NoEdge,
   Continue, Fail, Block, Converge, gateVars

(* Frames that are only read, and desired-states that are only added,      *)
(* leave the stream in order.                                              *)
LEMMA StreamReceive ==
    ASSUME TypeInv, StreamInv, pc # "offline",
           stream # <<>>, Head(stream).kind # "closed", stream' = Tail(stream),
           UNCHANGED <<generations, lastGeneration>>,
           lastDesired' = IF Head(stream).kind = "desired" THEN Head(stream).gen ELSE lastDesired,
           restoring' => restoring \/ Head(stream).kind = "restore"
    PROVE  StreamInv'
<1> USE DEF StreamInv
<1>1. /\ stream \in Seq(Frames) /\ Len(stream) \in Nat \ {0} /\ Len(stream') = Len(stream) - 1
      /\ \A k \in 1 .. Len(stream') : stream'[k] = stream[k + 1] /\ k + 1 \in 1 .. Len(stream)
      /\ Head(stream) = stream[1] /\ 1 \in 1 .. Len(stream)
  BY DEF TypeInv, TypeOK, CloudOK
<1>0. \A i \in 1 .. Len(stream) : stream[i].gen \in Nat
  <2>1. \A f \in Frames : f.gen \in Nat
    BY LoopAssumption DEF Frames, Generation
  <2> QED
    BY <1>1, <2>1
<1>2. lastGeneration \in Nat /\ lastDesired \in Nat /\ lastDesired' \in Nat
  BY <1>0, <1>1 DEF TypeInv, TypeOK, GateOK, HandoverOK, Generation
<1>3. lastDesired <= lastDesired' /\ OrderInv'
  <2>1. lastDesired <= lastDesired'
    BY <1>1, <1>2 DEF OrderInv
  <2>2. ASSUME NEW i \in 1 .. Len(stream'), stream'[i].kind = "desired"
        PROVE  /\ lastDesired' <= stream'[i].gen
               /\ \A j \in 1 .. i : stream'[j].kind = "desired" => stream'[j].gen <= stream'[i].gen
    <3>1. /\ i + 1 \in 1 .. Len(stream) /\ stream'[i] = stream[i + 1] /\ 1 \in 1 .. (i + 1)
          /\ \A j \in 1 .. i : j + 1 \in 1 .. (i + 1) /\ stream'[j] = stream[j + 1]
      BY <1>1
    <3>2. lastDesired' <= stream'[i].gen
      BY <1>1, <2>2, <3>1 DEF OrderInv
    <3> QED
      BY <2>2, <3>1, <3>2 DEF OrderInv
  <2> QED
    BY <1>2, <2>1, <2>2 DEF OrderInv
<1>4. RestoreFrames'
  <2> SUFFICES ASSUME NEW i \in 1 .. Len(stream'), stream'[i].kind = "restore"
               PROVE  \E g \in 1 .. Len(generations') :
                        Known(stream', lastDesired', i - 1, g) /\ generations'[g].stopped
    BY DEF RestoreFrames
  <2>1. i + 1 \in 1 .. Len(stream) /\ stream[i + 1].kind = "restore" /\ (i + 1) - 1 = i
        /\ i \in 1 .. Len(stream)
    BY <1>1
  <2>2. PICK g \in 1 .. Len(generations) : Known(stream, lastDesired, i, g) /\ generations[g].stopped
    BY <2>1 DEF RestoreFrames
  <2>3. Known(stream', lastDesired', i - 1, g)
    BY <1>1, <2>1, <2>2, KnownTail
  <2> QED
    BY <2>2, <2>3
<1>5. Connected' /\ ~Closed' => Known(stream', lastDesired', Len(stream'), Len(generations'))
  <2>1. ~Closed' => ~Closed
    <3>1. CASE Len(stream) = 1
      BY <1>1, <3>1 DEF Closed
    <3>2. CASE Len(stream) # 1
      <4>1. Len(stream') \in 1 .. Len(stream') /\ Len(stream') + 1 = Len(stream) /\ stream' # <<>>
        <5>1. Len(stream) \in Nat /\ Len(stream) > 1 /\ Len(stream') = Len(stream) - 1
          BY <1>1, <3>2
        <5>2. Len(stream') \in Nat \ {0} /\ Len(stream') + 1 = Len(stream)
          BY <5>1
        <5>3. stream' # <<>>
          BY <5>2
        <5> QED
          BY <5>2, <5>3
      <4> QED
        BY <1>1, <4>1 DEF Closed
    <3> QED
      BY <3>1, <3>2
  <2>2. Connected /\ ~Closed => Known(stream', lastDesired', Len(stream'), Len(generations'))
    BY <1>1, KnownTail
  <2> QED
    BY <2>1, <2>2 DEF Connected
<1>6. restoring' /\ lastGeneration' = lastDesired' /\ lastDesired' # 0
        => generations'[lastDesired'].stopped
  <2>1. lastGeneration <= lastDesired
    BY DEF OrderInv
  <2>2. CASE Head(stream).kind = "restore"
    <3>1. PICK g \in 1 .. Len(generations) : Known(stream, lastDesired, 0, g) /\ generations[g].stopped
      BY <1>1, <2>2 DEF RestoreFrames
    <3>2. g = lastDesired
      BY <3>1 DEF Known
    <3> QED
      BY <2>2, <3>1, <3>2
  <2>3. CASE Head(stream).kind # "restore"
    <3>1. lastGeneration' = lastDesired' => lastDesired' = lastDesired
      BY <1>2, <1>3, <2>1
    <3> QED
      BY <2>3, <3>1
  <2> QED
    BY <2>2, <2>3
<1> QED
  BY <1>3, <1>4, <1>5, <1>6

(* The generation the stream leads to, when the stream is as it was. *)
LEMMA StreamStays ==
    ASSUME TypeInv, StreamInv, UNCHANGED <<generations, stream, lastDesired>>,
           lastGeneration' \in {lastGeneration, lastDesired},
           restoring' => restoring /\ lastGeneration' = lastGeneration,
           Connected' => Connected
    PROVE  StreamInv'
<1> USE DEF StreamInv
<1>1. lastDesired \in Nat
  BY DEF TypeInv, TypeOK, HandoverOK, Generation
<1>2. OrderInv' /\ RestoreFrames'
  BY <1>1 DEF OrderInv, RestoreFrames
<1> QED
  BY <1>2 DEF Closed

(* A frame added at the end of the stream. *)
LEMMA StreamSend ==
    ASSUME TypeInv, StreamInv, NEW f \in Frames, stream' = Append(stream, f),
           UNCHANGED <<generations, lastDesired, lastGeneration, restoring, pc>>, f.kind # "desired",
           Connected, ~Closed,
           f.kind = "restore" => generations # <<>> /\ generations[Len(generations)].stopped
    PROVE  StreamInv'
<1> USE DEF StreamInv
<1> DEFINE n == Len(stream)
<1>1. /\ n \in Nat /\ stream \in Seq(Frames) /\ Len(stream') = n + 1 /\ stream'[n + 1] = f
      /\ \A k \in 1 .. n : stream'[k] = stream[k]
      /\ \A k \in 1 .. (n + 1) : k \in 1 .. n \/ k = n + 1
      /\ Len(generations) \in Nat /\ (generations # <<>> => Len(generations) # 0)
  BY DEF TypeInv, TypeOK, CloudOK
<1>2. Known(stream, lastDesired, n, Len(generations))
  OBVIOUS
<1>3. Known(stream', lastDesired, n + 1, Len(generations))
  BY <1>1, <1>2, KnownAppend
<1>4. OrderInv'
  <2> SUFFICES ASSUME NEW i \in 1 .. (n + 1), stream'[i].kind = "desired"
               PROVE  /\ lastDesired' <= stream'[i].gen
                      /\ \A j \in 1 .. i : stream'[j].kind = "desired" => stream'[j].gen <= stream'[i].gen
    BY <1>1 DEF OrderInv
  <2>1. i \in 1 .. n /\ \A j \in 1 .. i : j \in 1 .. n
    BY <1>1
  <2> QED
    BY <1>1, <2>1 DEF OrderInv
<1>5. RestoreFrames'
  <2> SUFFICES ASSUME NEW i \in 1 .. (n + 1), stream'[i].kind = "restore"
               PROVE  \E g \in 1 .. Len(generations') :
                        Known(stream', lastDesired', i - 1, g) /\ generations'[g].stopped
    BY <1>1 DEF RestoreFrames
  <2>1. CASE i = n + 1
    <3>1. i - 1 = n /\ f.kind = "restore"
      BY <1>1, <2>1
    <3>2. Known(stream', lastDesired, n, Len(generations))
      BY <1>1, <1>2, KnownPrefix
    <3> QED
      BY <1>1, <3>1, <3>2
  <2>2. CASE i \in 1 .. n
    <3>1. PICK g \in 1 .. Len(generations) :
             Known(stream, lastDesired, i - 1, g) /\ generations[g].stopped
      BY <1>1, <2>2 DEF RestoreFrames
    <3>2. i - 1 \in Nat /\ \A k \in 1 .. (i - 1) : stream'[k] = stream[k]
      BY <1>1, <2>2
    <3>3. Known(stream', lastDesired, i - 1, g)
      BY <3>1, <3>2, KnownPrefix
    <3> QED
      BY <3>1, <3>3
  <2> QED
    BY <1>1, <2>1, <2>2
<1> QED
  BY <1>1, <1>3, <1>4, <1>5

(* A new desired-state is sent to the agent that listens, or kept for the  *)
(* one that does not.                                                      *)
LEMMA StreamPublish ==
    ASSUME TypeInv, StreamInv, Publish
    PROVE  StreamInv'
<1> USE DEF StreamInv
<1> DEFINE n == Len(stream)
           m == Len(generations)
           f == Frame("desired", m + 1)
<1>0. UNCHANGED <<lastDesired, lastGeneration, restoring, pc>>
  BY DEF Publish, agent, handover, gateVars
<1>1. /\ n \in Nat /\ stream \in Seq(Frames)
      /\ m \in Nat /\ Len(generations') = m + 1
      /\ \A g \in 1 .. m : generations'[g] = generations[g] /\ g \in 1 .. (m + 1)
      /\ lastDesired \in 0 .. m /\ lastGeneration \in 0 .. m
  BY DEF TypeInv, TypeOK, CloudOK, Publish, Numbering, HandoverOK, GateOK, Generation
<1>2. f.kind = "desired" /\ f.gen = m + 1
  BY DEF Frame
<1>3. f \in Frames
  <2>1. m + 1 \in Generation
    BY <1>1, LoopAssumption DEF Publish, Generation
  <2> QED
    BY <2>1 DEF Frame, Frames, FrameKinds
<1>4. restoring' /\ lastGeneration' = lastDesired' /\ lastDesired' # 0
        => generations'[lastDesired'].stopped
  BY <1>0, <1>1
<1>5. CASE Connected /\ ~Closed /\ stream' = Append(stream, f)
  <2> HIDE DEF f
  <2>1. /\ Len(stream') = n + 1 /\ stream'[n + 1] = f
        /\ \A k \in 1 .. n : stream'[k] = stream[k]
        /\ \A k \in 1 .. (n + 1) : k \in 1 .. n \/ k = n + 1
    BY <1>1, <1>3, <1>5
  <2>2. OrderInv'
    <3> SUFFICES ASSUME NEW i \in 1 .. (n + 1), stream'[i].kind = "desired"
                 PROVE  /\ lastDesired' <= stream'[i].gen
                        /\ \A j \in 1 .. i : stream'[j].kind = "desired" => stream'[j].gen <= stream'[i].gen
      BY <1>0, <2>1 DEF OrderInv
    <3>0. \A k \in 1 .. n : stream[k].kind = "desired" => stream[k].gen \in 1 .. m
      BY DEF TypeInv, Numbering
    <3>1. CASE i \in 1 .. n
      <4>1. \A j \in 1 .. i : j \in 1 .. n
        BY <1>1, <3>1
      <4> QED
        BY <1>0, <2>1, <3>1, <4>1 DEF OrderInv
    <3>2. CASE i = n + 1
      <4>1. \A j \in 1 .. n : stream'[j].kind = "desired" => stream'[j].gen \in 1 .. m
        BY <2>1, <3>0
      <4>2. stream'[i].gen = m + 1
        BY <1>2, <2>1, <3>2
      <4>3. \A j \in 1 .. i : j \in 1 .. n \/ j = i
        BY <2>1, <3>2
      <4>4. lastDesired' <= m + 1
        BY <1>0, <1>1
      <4>5. ASSUME NEW j \in 1 .. i, stream'[j].kind = "desired" PROVE stream'[j].gen <= stream'[i].gen
        BY <1>1, <4>1, <4>2, <4>3, <4>5
      <4> QED
        BY <4>2, <4>4, <4>5
    <3> QED
      BY <2>1, <3>1, <3>2
  <2>3. RestoreFrames'
    <3> SUFFICES ASSUME NEW i \in 1 .. (n + 1), stream'[i].kind = "restore"
                 PROVE  \E g \in 1 .. (m + 1) :
                          Known(stream', lastDesired', i - 1, g) /\ generations'[g].stopped
      BY <1>1, <2>1 DEF RestoreFrames
    <3>1. i \in 1 .. n
      BY <1>2, <2>1
    <3>2. PICK g \in 1 .. m : Known(stream, lastDesired, i - 1, g) /\ generations[g].stopped
      BY <2>1, <3>1 DEF RestoreFrames
    <3>3. i - 1 \in Nat /\ \A k \in 1 .. (i - 1) : stream'[k] = stream[k]
      BY <1>1, <2>1, <3>1
    <3>4. Known(stream', lastDesired, i - 1, g)
      BY <3>2, <3>3, KnownPrefix
    <3> QED
      BY <1>0, <1>1, <3>2, <3>4
  <2>4. Known(stream', lastDesired', Len(stream'), Len(generations'))
    BY <1>0, <1>1, <1>2, <1>3, <1>5, <2>1, KnownAppend
  <2> QED
    BY <1>4, <2>2, <2>3, <2>4
<1>6. CASE ~(Connected /\ ~Closed) /\ UNCHANGED stream
  <2>1. OrderInv'
    BY <1>0, <1>6 DEF OrderInv
  <2>2. RestoreFrames'
    BY <1>0, <1>1, <1>6 DEF RestoreFrames
  <2> QED
    BY <1>0, <1>4, <1>6, <2>1, <2>2 DEF Connected, Closed
<1> QED
  BY <1>5, <1>6 DEF Publish

(* A connection that breaks delivers a prefix of what was under way. *)
LEMMA StreamBreak ==
    ASSUME TypeInv, StreamInv, Break
    PROVE  StreamInv'
<1> USE DEF StreamInv
<1>0. UNCHANGED <<generations, lastDesired, lastGeneration, restoring, pc>>
  BY DEF Break, agent, handover, gateVars
<1>1. PICK n \in 0 .. Len(stream) :
         stream' = Append(SubSeq(stream, 1, n), Frame("closed", 0))
  BY DEF Break
<1> DEFINE f == Frame("closed", 0)
<1>2. f \in Frames /\ f.kind = "closed"
  BY LoopAssumption DEF Frame, Frames, FrameKinds, Generation
<1> HIDE DEF f
<1>3. stream \in Seq(Frames) /\ Len(stream) \in Nat /\ n \in Nat /\ n <= Len(stream)
  BY DEF TypeInv, TypeOK, CloudOK
<1>4. /\ SubSeq(stream, 1, n) \in Seq(Frames) /\ Len(SubSeq(stream, 1, n)) = n
      /\ \A k \in 1 .. n : SubSeq(stream, 1, n)[k] = stream[k] /\ k \in 1 .. Len(stream)
  BY <1>3
<1>5. /\ Len(stream') = n + 1 /\ stream'[n + 1] = f
      /\ \A k \in 1 .. n : stream'[k] = stream[k]
      /\ \A k \in 1 .. (n + 1) : k \in 1 .. n \/ k = n + 1
  BY <1>1, <1>2, <1>3, <1>4 DEF f
<1>6. OrderInv'
  <2> SUFFICES ASSUME NEW i \in 1 .. (n + 1), stream'[i].kind = "desired"
               PROVE  /\ lastDesired' <= stream'[i].gen
                      /\ \A j \in 1 .. i : stream'[j].kind = "desired" => stream'[j].gen <= stream'[i].gen
    BY <1>0, <1>5 DEF OrderInv
  <2>1. i \in 1 .. n /\ i \in 1 .. Len(stream) /\ \A j \in 1 .. i : j \in 1 .. n
    BY <1>2, <1>3, <1>5
  <2> QED
    BY <1>0, <1>5, <2>1 DEF OrderInv
<1>7. RestoreFrames'
  <2> SUFFICES ASSUME NEW i \in 1 .. (n + 1), stream'[i].kind = "restore"
               PROVE  \E g \in 1 .. Len(generations') :
                        Known(stream', lastDesired', i - 1, g) /\ generations'[g].stopped
    BY <1>5 DEF RestoreFrames
  <2>1. i \in 1 .. n /\ i \in 1 .. Len(stream)
    BY <1>2, <1>3, <1>5
  <2>2. PICK g \in 1 .. Len(generations) : Known(stream, lastDesired, i - 1, g) /\ generations[g].stopped
    BY <1>5, <2>1 DEF RestoreFrames
  <2>3. i - 1 \in Nat /\ \A k \in 1 .. (i - 1) : stream'[k] = stream[k]
    BY <1>3, <1>5, <2>1
  <2>4. Known(stream', lastDesired, i - 1, g)
    BY <2>2, <2>3, KnownPrefix
  <2> QED
    BY <1>0, <2>2, <2>4
<1>8. Closed'
  <2>1. stream' # <<>>
    BY <1>3, <1>5
  <2> QED
    BY <1>2, <1>5, <2>1 DEF Closed
<1> QED
  BY <1>0, <1>6, <1>7, <1>8

(* What the cloud sends keeps its order, provided it sends RestoreDB only  *)
(* to a deployment whose latest desired-state is stopped.                  *)
LEMMA StreamInvStep ==
    ASSUME CloudEnforcesStop, TypeInv, RestoreInv, StreamInv, [Next]_vars
    PROVE  StreamInv'
<1>1. CASE Serve
  <2>1. pc = "select" /\ UNCHANGED <<generations, lastGeneration>>
    BY <1>1, ServeControl, ServeStream
  <2>2. CASE stream' = <<>> /\ pc' = "offline" /\ UNCHANGED <<lastDesired, restoring>>
    BY <2>1, <2>2 DEF StreamInv, OrderInv, RestoreFrames, Connected
  <2>3. CASE UNCHANGED <<stream, lastDesired, restoring>> /\ pc' # "offline"
    BY <2>1, <2>3, StreamStays DEF Connected
  <2>4. CASE ~(\/ stream' = <<>> /\ pc' = "offline" /\ UNCHANGED <<lastDesired, restoring>>
               \/ UNCHANGED <<stream, lastDesired, restoring>> /\ pc' # "offline")
    <3>1. /\ stream # <<>> /\ Head(stream).kind # "closed" /\ stream' = Tail(stream)
          /\ lastDesired' = IF Head(stream).kind = "desired" THEN Head(stream).gen
                            ELSE lastDesired
          /\ restoring' => restoring \/ Head(stream).kind = "restore"
      BY <1>1, <2>4, ServeStream
    <3> QED
      BY <2>1, <3>1, StreamReceive
  <2> QED
    BY <2>2, <2>3, <2>4
<1>2. CASE Restore
  BY <1>2, RestoreStream, StreamStays DEF Connected
<1>3. CASE Reconcile
  <2>1. UNCHANGED <<generations, stream, lastDesired, restoring>> /\ pc \in Phases /\ pc' # "offline"
    BY <1>3, ReconcileControl DEF handover, cloud, Phases
  <2>2. ~restoring
    BY <2>1 DEF RestoreInv, NoReconcileWhileRestoring
  <2> QED
    BY <1>3, <2>1, <2>2, ReconcileGeneration, StreamStays DEF Connected, Phases
<1>4. CASE Subscribe
  <2>1. /\ UNCHANGED <<generations, lastDesired, lastGeneration, restoring>>
        /\ stream' = IF Len(generations) # lastGeneration
                     THEN <<Frame("desired", Len(generations))>> ELSE <<>>
    BY <1>4 DEF Subscribe, gateVars, handover
  <2>2. lastDesired \in 0 .. Len(generations) /\ lastGeneration \in 0 .. Len(generations)
        /\ lastGeneration <= lastDesired /\ Len(generations) \in Nat
    BY DEF TypeInv, TypeOK, Numbering, HandoverOK, GateOK, CloudOK, Generation, StreamInv, OrderInv
  <2>3. CASE Len(generations) # lastGeneration
    <3>1. stream' = <<Frame("desired", Len(generations))>>
      BY <2>1, <2>3
    <3>2. Len(stream') = 1 /\ stream'[1].kind = "desired" /\ stream'[1].gen = Len(generations)
      BY <3>1 DEF Frame
    <3>3. \A i \in 1 .. 1 : i = 1
      OBVIOUS
    <3>4. OrderInv'
      BY <2>1, <2>2, <3>2, <3>3 DEF OrderInv
    <3>5. RestoreFrames'
      BY <3>2, <3>3 DEF RestoreFrames
    <3>6. Known(stream', lastDesired', Len(stream'), Len(generations'))
      <4>1. 1 \in 1 .. 1 /\ (1 + 1) .. 1 = {}
        OBVIOUS
      <4> QED
        BY <2>1, <3>2, <4>1 DEF Known
    <3> QED
      BY <2>1, <3>4, <3>5, <3>6 DEF StreamInv
  <2>4. CASE Len(generations) = lastGeneration
    <3>1. stream' = <<>> /\ Len(stream') = 0 /\ lastDesired = Len(generations)
      BY <2>1, <2>2, <2>4
    <3>2. Known(stream', lastDesired', Len(stream'), Len(generations'))
      BY <2>1, <3>1 DEF Known
    <3>3. OrderInv' /\ RestoreFrames'
      BY <2>1, <2>2, <3>1 DEF OrderInv, RestoreFrames
    <3> QED
      BY <2>1, <3>2, <3>3 DEF StreamInv
  <2> QED
    BY <2>3, <2>4
<1>5. CASE Crash
  BY <1>5, CrashReset DEF StreamInv, OrderInv, RestoreFrames, Connected, Crash
<1>6. CASE Publish
  BY <1>6, StreamPublish
<1>7. CASE Break
  BY <1>7, StreamBreak
<1>8. CASE SendCommand
  <2>1. PICK k \in Commands : /\ k = "restore" => LatestStopped
                              /\ stream' = Append(stream, Frame(k, 0))
    BY <1>8 DEF SendCommand
  <2>2. Frame(k, 0) \in Frames /\ Frame(k, 0).kind = k /\ k # "desired"
    BY LoopAssumption DEF Frame, Frames, FrameKinds, CommandKinds, Generation
  <2>3. UNCHANGED <<generations, lastDesired, lastGeneration, restoring, pc>> /\ Connected /\ ~Closed
    BY <1>8 DEF SendCommand, Open, agent, handover, gateVars
  <2> QED
    BY <2>1, <2>2, <2>3, StreamSend DEF LatestStopped
<1>9. CASE SendTampered
  <2>1. Frame("tampered", 0) \in Frames /\ Frame("tampered", 0).kind = "tampered"
    BY LoopAssumption DEF Frame, Frames, FrameKinds, Generation
  <2>2. UNCHANGED <<generations, lastDesired, lastGeneration, restoring, pc>> /\ Connected /\ ~Closed
    BY <1>9 DEF SendTampered, Open, agent, handover, gateVars
  <2> QED
    BY <1>9, <2>1, <2>2, StreamSend DEF SendTampered
<1>10. CASE WindowPasses \/ ResyncFallsDue \/ DnsAdded \/ DnsRemoved \/ CertExpires \/ OrphanEnds
            \/ UNCHANGED vars
  <2>1. UNCHANGED <<generations, stream, lastDesired, lastGeneration, restoring, pc>>
    BY <1>10 DEF WindowPasses, ResyncFallsDue, DnsAdded, DnsRemoved, CertExpires, OrphanEnds,
       vars, agent, cloud, handover, gateVars
  <2> QED
    BY <2>1, StreamStays DEF Connected
<1> QED
  BY <1>1, <1>2, <1>3, <1>4, <1>5, <1>6, <1>7, <1>8, <1>9, <1>10 DEF Next, Environment

(* The claim of an InSync report. *)
InSyncIsTrue ==
    Ready = "InSync" /\ lastGeneration # 0 => running = Stack(generations[lastGeneration])

HonestInv ==
    /\ pc \in {"select", "offline"} => InSyncIsTrue
    /\ pc \in RestorePhases /\ lastGeneration = lastDesired => InSyncIsTrue

(* A turn of the select loop touches neither a container nor what Ready is *)
(* computed from.                                                          *)
LEMMA ServeLeaves ==
    ASSUME Serve
    PROVE  Untouched /\ UNCHANGED running
BY DEF Serve, OnDesired, OnTampered, OnClosed, OnForceRecheck, OnRequestStatus,
   OnRecreate, OnRunBackup, OnRestoreDB, HeartbeatTick, ResyncTick, FastTick, BackupTick,
   ServeRecheck, ServeRecreate, ServeBackup, Receive, docker

(* Nor does anything around the agent, but for a crash. *)
LEMMA EnvironmentLeaves ==
    ASSUME Subscribe \/ (Environment /\ ~Crash) \/ UNCHANGED vars
    PROVE  /\ UNCHANGED <<running, Ready, lastGeneration, lastDesired>>
           /\ UNCHANGED generations \/ (\E c \in Configs : generations' = Append(generations, c))
<1>1. CASE Subscribe
  BY <1>1 DEF Subscribe, gateVars, blockVars, handover, host, docker, Ready
<1>2. CASE WindowPasses \/ ResyncFallsDue
  BY <1>2 DEF WindowPasses, ResyncFallsDue, gateVars, blockVars, handover, host, docker, cloud, Ready
<1>3. CASE UNCHANGED <<agent, running>> /\ (UNCHANGED generations \/ Publish)
  BY <1>3 DEF agent, gateVars, blockVars, handover, Ready, Publish
<1>4. CASE UNCHANGED vars
  BY <1>4 DEF vars, gateVars, blockVars, handover, docker, cloud, Ready
<1> QED
  BY <1>1, <1>2, <1>3, <1>4 DEF Environment, Publish, SendCommand, SendTampered, Break,
     DnsAdded, DnsRemoved, CertExpires, OrphanEnds, host, docker, cloud

(* A container that is removed from a stopped deployment was not there. *)
LEMMA RemoveNothing ==
    ASSUME NEW c \in DesiredState, c.stopped, NEW names, running = Stack(c)
    PROVE  RemoveAll(names) = running
BY DEF Stack, Wanted, RemoveAll

(* A reconcile that returns reports an error, a block, or the truth. *)
LEMMA ReconcileReports ==
    ASSUME TypeInv, KeepInv, Reconcile, pc' = "select"
    PROVE  InSyncIsTrue'
<1> USE DEF TypeInv, TypeOK
<1>0. UNCHANGED generations /\ ds = generations[lastDesired]
  BY ReconcileControl DEF cloud, ds
<1>1. ASSUME Fail PROVE Ready' # "InSync"
  BY <1>1 DEF Fail, Settle, Ready, Reason
<1>2. CASE Begin
  BY <1>2 DEF Begin, Continue
<1>3. CASE StopStack
  <2>1. CASE running' = RemoveAll(Services) /\ Converge
    <3>1. ds.stopped
      BY <1>3 DEF StopStack, Phase, KeepInv
    <3>2. running' = Stack(ds)
      BY <2>1, <3>1 DEF RemoveAll, Stack, Wanted
    <3> QED
      BY <1>0, <2>1, <3>2 DEF Converge, InSyncIsTrue
  <2>2. CASE PruneFails({})
    BY <1>1, <2>2 DEF PruneFails, InSyncIsTrue
  <2> QED
    BY <1>3, <2>1, <2>2 DEF StopStack
<1>4. CASE FinalBackup
  BY <1>4 DEF FinalBackup
<1>5. CASE Prepare
  <2>1. CASE awaitingSecretStore' /\ Block
    BY <2>1 DEF Block, Settle, InSyncIsTrue, Ready, Reason
  <2> QED
    BY <1>1, <1>5, <2>1 DEF Prepare, Continue, InSyncIsTrue
<1>6. CASE Edge
  BY <1>1, <1>6 DEF Edge, WildcardIssued, WildcardAwaitingDns, WildcardRateLimited, WildcardError,
     NoEdge, Continue, Settle, InSyncIsTrue, Ready, Reason
<1>7. CASE ApplyPostgres \/ Provision \/ BaseBackup \/ Migrate
  BY <1>1, <1>7 DEF ApplyPostgres, Provision, BaseBackup, Migrate, NotApplied, Continue, InSyncIsTrue
<1>8. CASE Gitea \/ ApplyCore \/ EnsureNginx
  BY <1>1, <1>8 DEF Gitea, ApplyCore, EnsureNginx, NotApplied, Continue, InSyncIsTrue
<1>9. CASE Prune
  <2>1. CASE running' = RemoveAll(Services \ keep) /\ Converge
    <3>1. keep = Wanted(ds) /\ \A s \in keep : running[s] = SpecOf(s, ds)
      BY <1>9 DEF Prune, Phase, KeepInv, Kept, Phases
    <3>2. running' = Stack(ds)
      BY <2>1, <3>1 DEF RemoveAll, Stack
    <3> QED
      BY <1>0, <2>1, <3>2 DEF Converge, InSyncIsTrue
  <2>2. CASE PruneFails(keep)
    BY <1>1, <2>2 DEF PruneFails, InSyncIsTrue
  <2> QED
    BY <1>9, <2>1, <2>2 DEF Prune
<1> QED
  BY <1>2, <1>3, <1>4, <1>5, <1>6, <1>7, <1>8, <1>9 DEF Reconcile

(* The reapply that follows a restore is refused by the gate only inside a *)
(* backoff window, which is reported, or when nothing is due.              *)
LEMMA ReleaseRefused ==
    ASSUME Release, pc' = "select", ~window', Ready' = "InSync", lastDesired # 0
    PROVE  lastDesired = lastGeneration
BY DEF Release, Reapply, ApplyDesired, Gate, Due

(* A step that ends at the select loop or starts a restore leaves a true   *)
(* report, and a restore that falsifies one does not survive the gate.     *)
LEMMA HonestInvStep ==
    ASSUME TypeInv, KeepInv, RestoreInv, HoldInv, HoldInv', StreamInv, HonestInv, [Next]_vars
    PROVE  HonestInv'
<1> USE DEF HonestInv, TypeInv, TypeOK
<1>1. CASE Serve
  <2>1. pc = "select" /\ UNCHANGED <<running, Ready, lastGeneration, generations>>
    BY <1>1, ServeLeaves, ServeControl, ServeStream, UntouchedReady
  <2> QED
    BY <2>1 DEF InSyncIsTrue
<1>2. CASE Reconcile
  BY <1>2, ReconcileControl, ReconcileReports DEF RestorePhases, Phases
<1>3. CASE Subscribe \/ (Environment /\ ~Crash) \/ UNCHANGED vars
  <2>1. /\ UNCHANGED <<running, Ready, lastGeneration, lastDesired>>
        /\ UNCHANGED generations \/ (\E c \in Configs : generations' = Append(generations, c))
    BY <1>3, EnvironmentLeaves
  <2>2. lastGeneration # 0 => generations'[lastGeneration] = generations[lastGeneration]
    BY <2>1 DEF Numbering, CloudOK, GateOK, Generation
  <2>3. InSyncIsTrue => InSyncIsTrue'
    BY <2>1, <2>2 DEF InSyncIsTrue
  <2>4. pc' = pc \/ (pc = "offline" /\ pc' = "select")
    <3>1. CASE UNCHANGED vars
      BY <3>1 DEF vars
    <3>2. CASE Subscribe \/ (Environment /\ ~Crash)
      BY <3>2 DEF Subscribe, Environment, Publish, SendCommand, SendTampered, Break, WindowPasses,
         ResyncFallsDue, DnsAdded, DnsRemoved, CertExpires, OrphanEnds, agent
    <3> QED
      BY <1>3, <3>1, <3>2
  <2> QED
    BY <2>1, <2>3, <2>4 DEF RestorePhases
<1>4. CASE Crash
  BY <1>4 DEF Crash, InSyncIsTrue, RestorePhases
<1>5. CASE Restore
  <2>0. /\ UNCHANGED <<generations, lastDesired, lastGeneration>>
        /\ lastGeneration <= lastDesired /\ lastGeneration \in Nat /\ lastDesired \in Nat
    BY <1>5, RestoreStream, LoopAssumption DEF StreamInv, OrderInv, GateOK, HandoverOK, Generation
  <2>1. UNCHANGED Ready
    BY <1>5, UntouchedReady DEF Restore, RestoreSkipped, RestoreBegin, RestoreRemoves, RestoreRemove,
       RestoreStart, RestoreNotStarted, RestoreSucceeds, RestoreFails, blockVars, Ready
  <2>2. ASSUME Release, pc \in RestorePhases, UNCHANGED running PROVE HonestInv'
    <3>1. pc' \in {"select", "begin"}
      BY <2>2, ReapplyStep DEF Release
    <3>2. ASSUME pc' = "select", Ready' = "InSync", lastGeneration # 0
          PROVE  running' = Stack(generations[lastGeneration])
      <4>1. ~window'
        BY <3>2 DEF HoldInv, HoldIsReported
      <4>2. lastDesired = lastGeneration
        BY <2>0, <2>2, <3>2, <4>1, ReleaseRefused
      <4> QED
        BY <2>1, <2>2, <3>2, <4>2 DEF InSyncIsTrue
    <3> QED
      BY <2>0, <3>1, <3>2 DEF InSyncIsTrue, RestorePhases
  <2>3. CASE RestoreSkipped
    <3>1. UNCHANGED running /\ pc = "select" /\ pc' \in {"select", "begin"}
      BY <2>3, ReapplyStep DEF RestoreSkipped, Release, docker
    <3> QED
      BY <2>0, <2>1, <3>1 DEF InSyncIsTrue, RestorePhases
  <2>4. CASE RestoreBegin
    BY <2>0, <2>1, <2>4 DEF RestoreBegin, docker, InSyncIsTrue
  <2>5. CASE RestoreRemoves
    <3>1. pc \in RestorePhases /\ pc' \in RestorePhases
          /\ (UNCHANGED running \/ \E names : running' = RemoveAll(names))
      BY <2>5 DEF RestoreRemoves, RestoreRemove, RestorePhases
    <3>2. ASSUME lastGeneration = lastDesired, Ready = "InSync", lastGeneration # 0
          PROVE  running' = Stack(generations[lastGeneration])
      <4>1. running = Stack(generations[lastGeneration])
        BY <3>1, <3>2 DEF InSyncIsTrue
      <4>2. generations[lastGeneration].stopped /\ generations[lastGeneration] \in DesiredState
        BY <3>1, <3>2, DsType DEF RestoreInv, RestoringIsQueued, StreamInv, ds
      <4>3. running' = running
        BY <3>1, <4>1, <4>2, RemoveNothing
      <4> QED
        BY <4>1, <4>3
    <3> QED
      BY <2>0, <2>1, <3>1, <3>2 DEF InSyncIsTrue, RestorePhases
  <2>6. CASE RestoreStart
    BY <2>0, <2>1, <2>6 DEF RestoreStart, InSyncIsTrue, RestorePhases
  <2>7. CASE RestoreNotStarted \/ RestoreSucceeds \/ RestoreFails
    BY <2>2, <2>7 DEF RestoreNotStarted, RestoreSucceeds, RestoreFails, RestorePhases
  <2> QED
    BY <1>5, <2>3, <2>4, <2>5, <2>6, <2>7 DEF Restore
<1> QED
  BY <1>1, <1>2, <1>3, <1>4, <1>5 DEF Next

(* With a cloud that sends RestoreDB to stopped deployments only, a restore *)
(* that starts on a converged generation starts on a stopped one, whatever  *)
(* frames were lost, reordered by reconnects or still under way.            *)
THEOREM StreamInvariant == CloudEnforcesStop => (Spec => []StreamInv)
<1> SUFFICES ASSUME CloudEnforcesStop PROVE Spec => []StreamInv
  OBVIOUS
<1>1. Init => StreamInv
  BY DEF Init, StreamInv, OrderInv, RestoreFrames, Connected
<1>2. TypeInv /\ RestoreInv /\ StreamInv /\ [Next]_vars => StreamInv'
  BY StreamInvStep
<1> QED
  BY <1>1, <1>2, TypeInvariant, RestoreInvariant, PTL DEF Spec

(* Whenever the loop stands at its select with nothing to complain of, the *)
(* containers that run are those of the generation it reports, with the    *)
(* specs of that generation (buildConditions after every applyDesired).    *)
THEOREM ReportsAreHonest ==
    ASSUME CloudEnforcesStop
    PROVE  Spec => []HonestStatus
<1>1. Init => HonestInv
  BY DEF Init, HonestInv, InSyncIsTrue, RestorePhases
<1>2. TypeInv /\ KeepInv /\ RestoreInv /\ HoldInv /\ HoldInv' /\ StreamInv /\ HonestInv /\ [Next]_vars
        => HonestInv'
  BY HonestInvStep
<1>3. HonestInv => HonestStatus
  BY DEF HonestInv, InSyncIsTrue, HonestStatus
<1>4. Spec => []StreamInv
  BY StreamInvariant
<1> QED
  BY <1>1, <1>2, <1>3, <1>4, TypeInvariant, KeepInvariant, RestoreInvariant, HoldInvariant, PTL DEF Spec

(* A step spends nothing, or one mishap of one kind. *)
LEMMA MishapStep ==
    ASSUME [Next]_vars
    PROVE  UNCHANGED spent \/ \E m \in Mishaps : Spend(m)
<1>0. {"fault", "removal", "cut", "crash", "drop", "command", "edge"} = Mishaps
  BY DEF Mishaps
<1>1. CASE Serve
  BY <1>0, <1>1 DEF Serve, OnDesired, OnTampered, OnClosed, OnForceRecheck, OnRequestStatus,
     OnRecreate, OnRunBackup, OnRestoreDB, HeartbeatTick, ResyncTick, FastTick, BackupTick,
     ServeRecheck, ServeRecreate, ServeBackup, Receive, RunBackup, BackupTaken
<1>2. CASE Restore
  BY <1>0, <1>2 DEF Restore, RestoreSkipped, RestoreBegin, RestoreRemoves, RestoreRemove,
     RestoreStart, RestoreNotStarted, RestoreSucceeds, RestoreFails, BoxFails
<1>3. CASE Reconcile
  <2>1. CASE Begin \/ StopStack \/ FinalBackup \/ Prepare \/ Prune
    BY <1>0, <2>1 DEF Begin, StopStack, FinalBackup, Prepare, Prune, PruneFails, RunBackup,
       BackupTaken, Continue, Fail, Block, Converge
  <2>2. CASE Edge
    BY <1>0, <2>2 DEF Edge, WildcardIssued, WildcardAwaitingDns, WildcardRateLimited,
       WildcardError, NoEdge, Continue, Fail
  <2>3. CASE ApplyPostgres \/ Provision \/ BaseBackup \/ Migrate \/ Gitea \/ ApplyCore \/ EnsureNginx
    BY <1>0, <2>3 DEF ApplyPostgres, Provision, BaseBackup, Migrate, Gitea, ApplyCore, EnsureNginx,
       NotApplied, BackupTaken, Continue, Fail
  <2> QED
    BY <1>3, <2>1, <2>2, <2>3 DEF Reconcile
<1>4. CASE Subscribe \/ Environment
  BY <1>0, <1>4 DEF Subscribe, Environment, Publish, SendCommand, SendTampered, Break,
     WindowPasses, ResyncFallsDue, DnsAdded, DnsRemoved, CertExpires, OrphanEnds, Crash
<1>5. CASE UNCHANGED vars
  BY <1>5 DEF vars
<1> QED
  BY <1>1, <1>2, <1>3, <1>4, <1>5 DEF Next

(* Mishaps are never taken back. *)
LEMMA MishapsStay ==
    ASSUME TypeInv, [Next]_vars, NEW m \in Mishaps, spent'[m] = 0
    PROVE  spent[m] = 0 /\ ~Spend(m)
<1>1. spent \in [Mishaps -> Nat]
  BY DEF TypeInv, TypeOK, RestOK
<1>2. ASSUME NEW k \in Mishaps, Spend(k) PROVE spent'[m] >= spent[m] /\ (k = m => spent'[m] > 0)
  BY <1>1, <1>2 DEF Spend
<1> QED
  BY <1>1, <1>2, MishapStep

-----------------------------------------------------------------------------
(***************************************************************************)
(* Backups.  archiving is raised only in the migrate phase, which a        *)
(* deployment with backups reaches only with a full backup taken, by this  *)
(* reconcile or an earlier one, for the desired-state being applied.       *)
(***************************************************************************)
BackupInv ==
    /\ archiving => hadFullBackup
    /\ spent["cut"] = 0 /\ hadFullBackup => repo # {}
    /\ pc = "migrate" /\ HasBackups(ds) => hadFullBackup

(* archiving is set only after the base backup was taken or found. *)
LEMMA BackupInvStep ==
    ASSUME TypeInv, BackupInv, [Next]_vars
    PROVE  BackupInv'
<1> USE DEF BackupInv
<1>0. "cut" \in Mishaps /\ (spent'["cut"] = 0 => spent["cut"] = 0 /\ ~Spend("cut"))
  BY MishapsStay DEF Mishaps
<1>a. ASSUME UNCHANGED <<archiving, hadFullBackup>>, repo \subseteq repo', pc' # "migrate"
      PROVE  BackupInv'
  BY <1>0, <1>a
<1>1. CASE Serve
  <2>1. UNCHANGED <<archiving, hadFullBackup>>
    BY <1>1 DEF Serve, OnDesired, OnTampered, OnClosed, OnForceRecheck, OnRequestStatus,
       OnRecreate, OnRunBackup, OnRestoreDB, HeartbeatTick, ResyncTick, FastTick, BackupTick,
       ServeRecheck, ServeRecreate, ServeBackup, Receive, Untouched, dbVars
  <2>2. repo \subseteq repo'
    BY <1>1 DEF Serve, OnDesired, OnTampered, OnClosed, OnForceRecheck, OnRequestStatus,
       OnRecreate, OnRunBackup, OnRestoreDB, HeartbeatTick, ResyncTick, FastTick, BackupTick,
       ServeRecheck, ServeRecreate, ServeBackup, Receive, RunBackup, BackupTaken
  <2> QED
    BY <1>1, <1>a, <2>1, <2>2, ServeControl
<1>2. CASE Restore
  <2>1. ASSUME Release PROVE pc' = "select" \/ pc' = "begin"
    BY <2>1, ReapplyStep DEF Release, TypeInv, TypeOK
  <2>2. CASE \/ RestoreSkipped \/ RestoreNotStarted \/ RestoreFails \/ RestoreBegin
             \/ RestoreStart \/ RestoreRemoves
    BY <1>a, <2>1, <2>2 DEF RestoreSkipped, RestoreNotStarted, RestoreFails, RestoreBegin,
       RestoreStart, RestoreRemoves, RestoreRemove, Untouched, dbVars
  <2>3. CASE RestoreSucceeds
    BY <1>a, <2>1, <2>3 DEF RestoreSucceeds, dbVars
  <2> QED
    BY <1>2, <2>2, <2>3 DEF Restore
<1>3. CASE Subscribe \/ Environment
  <2>1. CASE Crash
    BY <1>0, <2>1 DEF Crash, host, disk
  <2>2. CASE Subscribe \/ WindowPasses \/ ResyncFallsDue
    <3>1. UNCHANGED <<archiving, hadFullBackup, repo, lastDesired, generations>>
      BY <2>2 DEF Subscribe, WindowPasses, ResyncFallsDue, dbVars, host, disk, handover, cloud
    <3>2. pc' = "migrate" => pc = "migrate"
      BY <2>2 DEF Subscribe, WindowPasses, ResyncFallsDue
    <3> QED
      BY <1>0, <3>1, <3>2 DEF ds
  <2>3. CASE UNCHANGED <<agent, repo>> /\ (UNCHANGED generations \/ Publish)
    <3>1. UNCHANGED <<archiving, hadFullBackup, repo, lastDesired, pc>>
      BY <2>3 DEF agent, dbVars, handover
    <3>2. CASE pc = "migrate"
      <4>1. lastDesired # 0
        BY <3>2 DEF TypeInv, Numbering, Phases
      <4>2. ds' = ds
        BY <2>3, <3>1, <4>1, DsStable DEF Publish
      <4> QED
        BY <1>0, <3>1, <4>2
    <3> QED
      BY <1>0, <3>1, <3>2
  <2> QED
    BY <1>3, <2>1, <2>2, <2>3 DEF Environment, Publish, SendCommand, SendTampered, Break,
       DnsAdded, DnsRemoved, CertExpires, OrphanEnds, host, disk, cloud
<1>4. CASE Reconcile
  <2>1. UNCHANGED ds
    BY <1>4, ReconcileControl DEF handover, cloud, ds
  <2>2. CASE Begin \/ Prepare
    BY <1>a, <2>2 DEF Begin, Prepare, Continue, Fail, Block, Settle, dbVars, disk
  <2>3. CASE StopStack \/ Prune
    <3>1. UNCHANGED <<hadFullBackup, repo>> /\ (UNCHANGED archiving \/ ~archiving')
      BY <2>3 DEF StopStack, Prune, dbVars, disk
    <3>2. pc' = "select"
      BY <2>3 DEF StopStack, Prune, PruneFails, Fail, Converge, Settle
    <3> QED
      BY <1>0, <3>1, <3>2
  <2>4. CASE FinalBackup
    BY <1>0, <2>4 DEF FinalBackup, RunBackup, BackupTaken
  <2>5. CASE Edge
    <3>1. UNCHANGED <<archiving, hadFullBackup, repo>>
      BY <2>5 DEF Edge, dbVars
    <3>2. pc' = "migrate" => ds.external
      BY <2>5 DEF Edge, WildcardIssued, WildcardAwaitingDns, WildcardRateLimited,
         WildcardError, NoEdge, Continue, Fail, Settle
    <3> QED
      BY <1>0, <2>1, <3>1, <3>2 DEF HasBackups
  <2>6. CASE Provision
    BY <1>0, <2>1, <2>6 DEF Provision, Continue, Fail, Settle, dbVars
  <2>7. CASE BaseBackup
    <3>1. CASE Fail /\ UNCHANGED <<repo, hadFullBackup>>
      BY <1>a, <2>7, <3>1 DEF BaseBackup, Fail, Settle
    <3>2. CASE BackupTaken /\ hadFullBackup'
      BY <1>0, <2>7, <3>2 DEF BaseBackup, BackupTaken
    <3> QED
      BY <2>7, <3>1, <3>2 DEF BaseBackup
  <2>8. CASE Migrate
    <3>1. /\ archiving' = HasBackups(ds) /\ repo' = repo /\ pc' # "migrate"
          /\ hadFullBackup' = (hadFullBackup /\ HasBackups(ds))
          /\ HasBackups(ds) => hadFullBackup
      BY <2>8 DEF Migrate, Phase, Continue, Fail, Settle
    <3> QED
      BY <1>0, <3>1
  <2>9. CASE ApplyPostgres \/ Gitea \/ ApplyCore \/ EnsureNginx
    BY <1>a, <2>9 DEF ApplyPostgres, Gitea, ApplyCore, EnsureNginx, NotApplied, Continue,
       Fail, Settle, dbVars
  <2> QED
    BY <1>4, <2>2, <2>3, <2>4, <2>5, <2>6, <2>7, <2>8, <2>9 DEF Reconcile
<1>5. CASE UNCHANGED vars
  BY <1>0, <1>5 DEF vars, dbVars, disk, handover, cloud, ds
<1> QED
  BY <1>1, <1>2, <1>3, <1>4, <1>5 DEF Next

(* Scheduled and on-demand backups only ever run once the agent has taken a *)
(* full backup, and unless the connection to a backup was lost - Exec then  *)
(* answers 0 for one that is not there - the repository holds a backup.     *)
THEOREM BackupsHaveBase == Spec => []ArchivingHasBackup
<1>1. Init => BackupInv
  BY DEF Init, BackupInv
<1>2. TypeInv /\ BackupInv /\ [Next]_vars => BackupInv'
  BY BackupInvStep
<1>3. TypeInv /\ BackupInv => ArchivingHasBackup
  <2>1. TypeInv => spent["cut"] = 0 \/ spent["cut"] > 0
    BY DEF TypeInv, TypeOK, RestOK, Mishaps
  <2> QED
    BY <2>1 DEF BackupInv, ArchivingHasBackup
<1> QED
  BY <1>1, <1>2, <1>3, TypeInvariant, PTL DEF Spec

-----------------------------------------------------------------------------
(***************************************************************************)
(* Schemas and apps.  The migration comes before the apps and nothing      *)
(* takes it back but a restore, which runs when both apps are down - as    *)
(* long as it ran because this agent started it, and the apps were really  *)
(* removed.                                                                *)
(***************************************************************************)
Covered(r) ==
    \A s \in Apps : r[s] # Absent => r[s].image <= schema[Database(r[s])]

SchemaInv ==
    spent["removal"] = 0 /\ spent["crash"] = 0 =>
      /\ box = "running" => pc = "restore_wait"
      /\ Covered(running)
      /\ pc \in RestorePhases \ {"remove_core"} => running["core-server"] = Absent
      /\ pc \in RestorePhases \ {"remove_core", "remove_commerce"}
           => running["commerce-service"] = Absent
      /\ pc \in {"gitea", "services", "nginx", "prune"} => ds.image <= schema[Database(ds)]

(* Removing containers uncovers nothing. *)
LEMMA CoveredRemove ==
    ASSUME TypeInv, Covered(running), NEW names
    PROVE  Covered(RemoveAll(names))
BY DEF Covered, RemoveAll, Services, CoreServices

(* A container that a reconcile past its migration applies is covered. *)
LEMMA CoveredApplied ==
    ASSUME TypeInv, Covered(running), NEW t \in Services, lastDesired # 0,
           t \in Apps => ds.image <= schema[Database(ds)],
           running' = [running EXCEPT ![t] = SpecOf(t, ds)]
    PROVE  Covered(running')
<1>1. /\ running \in [Services -> Specs \cup {Absent}] /\ ds \in DesiredState
      /\ Apps \subseteq Services
  BY DsType DEF TypeInv, TypeOK, DockerOK, Services, CoreServices
<1>2. t \in Apps => SpecOf(t, ds).image = ds.image /\ Database(SpecOf(t, ds)) = Database(ds)
  BY <1>1 DEF SpecOf, Database, Apps, DesiredState
<1> QED
  BY <1>1, <1>2 DEF Covered

(* A migration leaves the schema of either database at least where it was. *)
LEMMA CoveredMigrated ==
    ASSUME TypeInv, Covered(running), NEW release \in Nat, NEW d \in Databases,
           schema' = [schema EXCEPT ![d] = IF @ < release THEN release ELSE @],
           UNCHANGED running
    PROVE  Covered(running)'
<1>1. /\ schema \in [Databases -> Nat] /\ running \in [Services -> Specs \cup {Absent}]
      /\ Apps \subseteq Services
  BY DEF TypeInv, TypeOK, DiskOK, DockerOK, Services, CoreServices
<1>2. \A x \in Databases : schema[x] <= schema'[x] /\ schema'[x] \in Nat
  BY <1>1
<1>3. \A s \in Apps : running[s] # Absent => running[s].image \in Nat /\ Database(running[s]) \in Databases
  BY <1>1 DEF Specs, Database, Databases
<1> QED
  BY <1>1, <1>2, <1>3 DEF Covered

(* Only a migration, a restore and the apps' own Apply bear on it. *)
LEMMA SchemaInvStep ==
    ASSUME TypeInv, SchemaInv, [Next]_vars
    PROVE  SchemaInv'
<1> SUFFICES ASSUME spent'["removal"] = 0, spent'["crash"] = 0
             PROVE  /\ box' = "running" => pc' = "restore_wait"
                    /\ Covered(running)'
                    /\ pc' \in RestorePhases \ {"remove_core"} => running'["core-server"] = Absent
                    /\ pc' \in RestorePhases \ {"remove_core", "remove_commerce"}
                         => running'["commerce-service"] = Absent
                    /\ pc' \in {"gitea", "services", "nginx", "prune"}
                         => ds'.image <= schema'[Database(ds')]
  BY DEF SchemaInv
<1>0. /\ spent["removal"] = 0 /\ spent["crash"] = 0 /\ ~Spend("removal") /\ ~Spend("crash")
      /\ box = "running" => pc = "restore_wait"
      /\ Covered(running)
      /\ pc \in RestorePhases \ {"remove_core"} => running["core-server"] = Absent
      /\ pc \in RestorePhases \ {"remove_core", "remove_commerce"}
           => running["commerce-service"] = Absent
      /\ pc \in {"gitea", "services", "nginx", "prune"} => ds.image <= schema[Database(ds)]
  BY MishapsStay DEF SchemaInv, Mishaps
<1>t. /\ running \in [Services -> Specs \cup {Absent}] /\ schema \in [Databases -> Nat]
      /\ "core-server" \in Services /\ "commerce-service" \in Services
      /\ "core-server" \in Apps /\ "commerce-service" \in Apps
      /\ Apps = {"core-server", "commerce-service"}
  BY DEF TypeInv, TypeOK, DockerOK, DiskOK, Services, CoreServices, Apps
<1>1. CASE Serve
  <2>1. UNCHANGED <<running, schema, box>> /\ pc = "select" /\ pc' \in {"select", "begin", "offline"}
    BY <1>1, ServeControl, ServeLeaves DEF Untouched, Serve, OnDesired, OnTampered, OnClosed,
       OnForceRecheck, OnRequestStatus, OnRecreate, OnRunBackup, OnRestoreDB, HeartbeatTick,
       ResyncTick, FastTick, BackupTick, ServeRecheck, ServeRecreate, ServeBackup, Receive, docker
  <2> QED
    BY <1>0, <2>1 DEF Covered, RestorePhases
<1>2. CASE Restore
  <2>1. ASSUME Release PROVE pc' \in {"begin", "select"}
    BY <2>1, ReapplyStep DEF Release, TypeInv, TypeOK
  <2>2. CASE RestoreSkipped
    BY <1>0, <2>1, <2>2 DEF RestoreSkipped, Untouched, docker, Covered, RestorePhases
  <2>3. CASE RestoreBegin
    BY <1>0, <2>3 DEF RestoreBegin, Untouched, docker, Covered, RestorePhases
  <2>4. CASE RestoreRemoves
    <3>1. PICK s \in Services : running' = RemoveAll({s})
      BY <1>0, <1>t, <2>4 DEF RestoreRemoves, RestoreRemove, Services
    <3>2. UNCHANGED <<schema, box>>
      BY <2>4 DEF RestoreRemoves, RestoreRemove, Untouched
    <3>3. Covered(running)'
      BY <1>0, <3>1, <3>2, CoveredRemove DEF Covered
    <3>4. CASE RestoreRemove("remove_core", "core-server", "remove_commerce")
      BY <1>0, <1>t, <3>2, <3>3, <3>4 DEF RestoreRemove, RemoveAll, RestorePhases
    <3>5. CASE RestoreRemove("remove_commerce", "commerce-service", "remove_postgres")
      BY <1>0, <1>t, <3>2, <3>3, <3>5 DEF RestoreRemove, RemoveAll, RestorePhases
    <3>6. CASE RestoreRemove("remove_postgres", "postgres", "restore_start")
      BY <1>0, <1>t, <3>2, <3>3, <3>6 DEF RestoreRemove, RemoveAll, RestorePhases
    <3> QED
      BY <2>4, <3>4, <3>5, <3>6 DEF RestoreRemoves
  <2>5. CASE RestoreStart
    BY <1>0, <2>5 DEF RestoreStart, Untouched, Covered, RestorePhases
  <2>6. CASE RestoreNotStarted
    BY <1>0, <2>1, <2>6 DEF RestoreNotStarted, BoxFails, Untouched, Covered, RestorePhases
  <2>7. CASE RestoreSucceeds
    BY <1>0, <1>t, <2>1, <2>7 DEF RestoreSucceeds, Covered, RestorePhases
  <2>8. CASE RestoreFails
    BY <1>0, <2>1, <2>8 DEF RestoreFails, BoxFails, Untouched, Covered, RestorePhases
  <2> QED
    BY <1>2, <2>2, <2>3, <2>4, <2>5, <2>6, <2>7, <2>8 DEF Restore
<1>3. CASE Subscribe \/ Environment \/ UNCHANGED vars
  <2>1. CASE Crash
    BY <1>0, <2>1 DEF Crash
  <2>2. CASE OrphanEnds
    BY <1>0, <2>2 DEF OrphanEnds
  <2>3. CASE ~Crash /\ ~OrphanEnds
    <3>1. UNCHANGED <<running, box, schema>>
      BY <1>3, <2>3 DEF Subscribe, Environment, Publish, SendCommand, SendTampered, Break,
         WindowPasses, ResyncFallsDue, DnsAdded, DnsRemoved, CertExpires, host, docker, disk, vars
    <3>2. pc' = pc \/ (pc = "offline" /\ pc' = "select")
      <4>1. CASE UNCHANGED vars
        BY <4>1 DEF vars
      <4>2. CASE Subscribe \/ Environment
        BY <2>3, <4>2 DEF Subscribe, Environment, Publish, SendCommand, SendTampered, Break,
           WindowPasses, ResyncFallsDue, DnsAdded, DnsRemoved, CertExpires, agent
      <4> QED
        BY <1>3, <4>1, <4>2
    <3>3. pc' \in {"gitea", "services", "nginx", "prune"} => UNCHANGED ds
      BY <1>3, PhaseKept DEF Phases
    <3> QED
      BY <1>0, <3>1, <3>2, <3>3 DEF Covered, RestorePhases
  <2> QED
    BY <2>1, <2>2, <2>3
<1>4. CASE Reconcile
  <2>0. /\ UNCHANGED ds /\ pc \in Phases /\ pc' \notin RestorePhases /\ lastDesired # 0
        /\ pc # "restore_wait" /\ ds \in DesiredState
    BY <1>4, ReconcileControl, DsType DEF handover, cloud, ds, Phases, RestorePhases, TypeInv, Numbering
  <2>1. box' # "running"
    BY <1>0, <1>4, <2>0 DEF Reconcile, Begin, StopStack, FinalBackup, Prepare, Edge, ApplyPostgres,
       Provision, BaseBackup, Migrate, Gitea, ApplyCore, EnsureNginx, Prune, PruneFails,
       ReconcileFrame, docker
  <2>2. CASE Migrate
    <3>1. UNCHANGED running /\ pc' \notin {"services", "nginx", "prune"}
      BY <2>2 DEF Migrate, Continue, Fail, Settle
    <3>2. CASE Fail /\ UNCHANGED schema
      BY <1>0, <2>0, <2>1, <3>1, <3>2 DEF Fail, Settle, Covered
    <3>3. CASE schema' = [schema EXCEPT ![Database(ds)] = IF @ < ds.image THEN ds.image ELSE @]
      <4>1. ds.image \in Nat /\ Database(ds) \in Databases
        BY <2>0 DEF DesiredState, Database, Databases
      <4>2. ds.image <= schema'[Database(ds)]
        BY <1>t, <3>3, <4>1
      <4> QED
        BY <1>0, <2>0, <2>1, <3>1, <3>3, <4>1, <4>2, CoveredMigrated DEF Covered
    <3> QED
      BY <2>2, <3>2, <3>3 DEF Migrate
  <2>3. CASE Reconcile /\ ~Migrate
    <3>1. UNCHANGED schema
      BY <2>3 DEF Reconcile, Begin, StopStack, FinalBackup, Prepare, Edge, ApplyPostgres,
         Provision, BaseBackup, Gitea, ApplyCore, EnsureNginx, Prune, disk
    <3>2. pc' \in {"gitea", "services", "nginx", "prune"} => pc \in {"gitea", "services", "nginx", "prune"}
      BY <2>3 DEF Reconcile, Begin, StopStack, FinalBackup, Prepare, Edge, ApplyPostgres,
         Provision, BaseBackup, Gitea, ApplyCore, EnsureNginx, Prune, PruneFails, NotApplied, Phase,
         WildcardIssued, WildcardAwaitingDns, WildcardRateLimited, WildcardError, NoEdge,
         Continue, Fail, Block, Converge, Settle
    <3>3. Covered(running)'
      <4>1. ASSUME NEW t \in Services, t \in Apps => pc = "services", Applied(t) \/ NotApplied(t)
            PROVE  Covered(running)'
        BY <1>0, <2>0, <3>1, <4>1, CoveredApplied, CoveredRemove DEF Applied, NotApplied, Covered
      <4>2. ASSUME NEW names, running' = RemoveAll(names) PROVE Covered(running)'
        BY <1>0, <3>1, <4>2, CoveredRemove DEF Covered
      <4>3. CASE UNCHANGED running
        BY <1>0, <3>1, <4>3 DEF Covered
      <4>4. CASE StopStack \/ Prune
        BY <4>2, <4>4 DEF StopStack, Prune, PruneFails
      <4>5. CASE Edge
        <5>1. "acme-dns" \in Services /\ "acme-dns" \notin Apps
          BY <1>t DEF Services, EdgeServices
        <5>2. CASE AcmeDnsUp
          BY <1>0, <2>0, <3>1, <5>1, <5>2, CoveredApplied DEF AcmeDnsUp, Covered
        <5> QED
          BY <4>2, <4>3, <4>5, <5>2 DEF Edge, WildcardIssued, WildcardAwaitingDns,
             WildcardRateLimited, WildcardError, NoEdge
      <4>6. CASE ApplyPostgres \/ EnsureNginx \/ Gitea
        <5>1. /\ "postgres" \in Services \ Apps /\ "nginx" \in Services \ Apps
              /\ "gitea" \in Services \ Apps
          BY <1>t DEF Services, EdgeServices
        <5> QED
          BY <4>1, <4>3, <4>6, <5>1 DEF ApplyPostgres, EnsureNginx, Gitea
      <4>7. CASE ApplyCore
        <5>1. PICK i \in 1 .. 4 : Applied(StartOrder[i]) \/ NotApplied(StartOrder[i])
          BY <4>7 DEF ApplyCore
        <5>2. StartOrder[i] \in Services /\ pc = "services"
          BY <4>7 DEF StartOrder, Services, CoreServices, Apps, ApplyCore, Phase
        <5> QED
          BY <4>1, <5>1, <5>2
      <4>8. CASE Begin \/ FinalBackup \/ Prepare \/ Provision \/ BaseBackup
        BY <4>3, <4>8 DEF Begin, FinalBackup, Prepare, Provision, BaseBackup, docker
      <4> QED
        BY <2>3, <4>4, <4>5, <4>6, <4>7, <4>8 DEF Reconcile
    <3> QED
      BY <1>0, <2>0, <2>1, <3>1, <3>2, <3>3
  <2> QED
    BY <1>4, <2>2, <2>3
<1> QED
  BY <1>1, <1>2, <1>3, <1>4 DEF Next

(* The migrations of its release have run on the database an app container *)
(* connects to before reconcile starts it, and no later step undoes that   *)
(* under it, unless a restore meets a crash or a container it cannot       *)
(* remove.                                                                 *)
THEOREM AppsMeetTheirSchema == Spec => []SchemaCoversApps
<1>1. Init => SchemaInv
  BY DEF Init, SchemaInv, Covered, RestorePhases, Apps, Services, CoreServices
<1>2. TypeInv /\ SchemaInv /\ [Next]_vars => SchemaInv'
  BY SchemaInvStep
<1>3. SchemaInv => SchemaCoversApps
  BY DEF SchemaInv, Covered, SchemaCoversApps
<1> QED
  BY <1>1, <1>2, <1>3, TypeInvariant, PTL DEF Spec

-----------------------------------------------------------------------------
(***************************************************************************)
(* The final backup.  Without faults, a Postgres container with backups on *)
(* is either under a schedule, which the final backup of a teardown looks  *)
(* at, or its data is in a backup already.                                 *)
(***************************************************************************)
FinalInv ==
    (\A m \in {"fault", "cut", "crash", "removal"} : spent[m] = 0) =>
      /\ /\ running["postgres"] # Absent /\ running["postgres"].archive
         /\ ~(pc \in {"provision", "base", "migrate"} /\ HasBackups(ds))
         => archiving \/ schema["managed"] \in repo
      /\ pc \in Phases \ {"begin", "stop", "final"} /\ ds.external => ~archiving
      /\ pc = "final" => ds.external

(* The archive flag of the container, the schedule and the repository move *)
(* together, except inside the phases between Apply and Migrate.           *)
LEMMA FinalInvStep ==
    ASSUME TypeInv, KeepInv, ClusterInv, SchemaInv, FinalInv, [Next]_vars
    PROVE  FinalInv'
<1> SUFFICES ASSUME \A m \in {"fault", "cut", "crash", "removal"} : spent'[m] = 0
             PROVE  /\ /\ running'["postgres"] # Absent /\ running'["postgres"].archive
                       /\ ~(pc' \in {"provision", "base", "migrate"} /\ HasBackups(ds'))
                       => archiving' \/ schema'["managed"] \in repo'
                    /\ pc' \in Phases \ {"begin", "stop", "final"} /\ ds'.external => ~archiving'
                    /\ pc' = "final" => ds'.external
  BY DEF FinalInv
<1>0. /\ ~Spend("fault") /\ ~Spend("cut") /\ ~Spend("crash") /\ ~Spend("removal")
      /\ \A m \in {"fault", "cut", "crash", "removal"} : spent[m] = 0
  BY MishapsStay DEF Mishaps
<1>i. /\ /\ running["postgres"] # Absent /\ running["postgres"].archive
         /\ ~(pc \in {"provision", "base", "migrate"} /\ HasBackups(ds))
         => archiving \/ schema["managed"] \in repo
      /\ pc \in Phases \ {"begin", "stop", "final"} /\ ds.external => ~archiving
      /\ pc = "final" => ds.external
  BY <1>0 DEF FinalInv
<1>t. /\ running \in [Services -> Specs \cup {Absent}] /\ "postgres" \in Services
      /\ schema \in [Databases -> Nat] /\ "managed" \in Databases /\ "external" \in Databases
      /\ "external" # "managed"
  BY DEF TypeInv, TypeOK, DockerOK, DiskOK, Services, Databases
(* Nothing but reconcile and a restore disturbs it. *)
<1>a. ASSUME pc \notin Phases, UNCHANGED <<running, archiving, schema>>, repo \subseteq repo',
             pc' \notin Phases \ {"begin"}
      PROVE  /\ /\ running'["postgres"] # Absent /\ running'["postgres"].archive
                /\ ~(pc' \in {"provision", "base", "migrate"} /\ HasBackups(ds'))
                => archiving' \/ schema'["managed"] \in repo'
             /\ pc' \in Phases \ {"begin", "stop", "final"} /\ ds'.external => ~archiving'
             /\ pc' = "final" => ds'.external
  BY <1>i, <1>a DEF Phases
<1>1. CASE Serve
  <2>1. UNCHANGED <<running, archiving, schema>> /\ pc \notin Phases /\ pc' \notin Phases \ {"begin"}
    BY <1>1, ServeLeaves, ServeControl DEF Untouched, dbVars, Phases
  <2>2. repo \subseteq repo'
    BY <1>1 DEF Serve, OnDesired, OnTampered, OnClosed, OnForceRecheck, OnRequestStatus,
       OnRecreate, OnRunBackup, OnRestoreDB, HeartbeatTick, ResyncTick, FastTick, BackupTick,
       ServeRecheck, ServeRecreate, ServeBackup, Receive, RunBackup, BackupTaken
  <2> QED
    BY <1>a, <2>1, <2>2
<1>2. CASE Restore
  <2>1. ASSUME Release PROVE pc' \in {"begin", "select"}
    BY <2>1, ReapplyStep DEF Release, TypeInv, TypeOK
  <2>2. CASE RestoreSkipped \/ RestoreBegin \/ RestoreStart \/ RestoreNotStarted \/ RestoreFails
    BY <1>a, <2>1, <2>2 DEF RestoreSkipped, RestoreBegin, RestoreStart, RestoreNotStarted,
       RestoreFails, Untouched, docker, dbVars, Phases
  <2>3. CASE RestoreRemoves
    <3>1. PICK names : running' = RemoveAll(names)
      BY <1>0, <2>3 DEF RestoreRemoves, RestoreRemove
    <3>2. UNCHANGED <<archiving, schema, repo>> /\ pc \notin Phases /\ pc' \notin Phases
      BY <2>3 DEF RestoreRemoves, RestoreRemove, Untouched, dbVars, Phases
    <3>3. running'["postgres"] \in {running["postgres"], Absent}
      BY <1>t, <3>1 DEF RemoveAll
    <3> QED
      BY <1>i, <3>2, <3>3 DEF Phases
  <2>4. CASE RestoreSucceeds
    BY <1>0, <2>1, <2>4 DEF RestoreSucceeds, ClusterInv, Phases
  <2> QED
    BY <1>2, <2>2, <2>3, <2>4 DEF Restore
<1>3. CASE Subscribe \/ Environment \/ UNCHANGED vars
  <2>1. CASE Crash
    BY <1>0, <2>1 DEF Crash
  <2>2. CASE OrphanEnds
    BY <1>0, <2>2 DEF OrphanEnds, SchemaInv
  <2>3. CASE ~Crash /\ ~OrphanEnds
    <3>1. UNCHANGED <<running, archiving, schema, repo>> /\ (pc' = pc \/ pc' \notin Phases)
      <4>1. CASE UNCHANGED vars
        BY <4>1 DEF vars, docker, disk, dbVars
      <4>2. CASE Subscribe
        BY <4>2 DEF Subscribe, host, docker, disk, dbVars, Phases
      <4>3. CASE WindowPasses \/ ResyncFallsDue
        BY <4>3 DEF WindowPasses, ResyncFallsDue, host, docker, disk, dbVars, Phases
      <4>4. CASE UNCHANGED <<agent, running, schema, repo>>
        BY <4>4 DEF agent, dbVars
      <4> QED
        BY <1>3, <2>3, <4>1, <4>2, <4>3, <4>4 DEF Environment, Publish, SendCommand, SendTampered,
           Break, DnsAdded, DnsRemoved, CertExpires, host, docker, disk
    <3>2. pc' \in Phases \ {"begin"} => UNCHANGED ds
      BY <1>3, PhaseKept
    <3>3. pc \notin {"provision", "base", "migrate"} \/ pc' = pc
      BY <3>1, <1>3, <2>3 DEF Subscribe, Environment, Publish, SendCommand, SendTampered, Break,
         WindowPasses, ResyncFallsDue, DnsAdded, DnsRemoved, CertExpires, agent, vars
    <3> QED
      BY <1>i, <3>1, <3>2, <3>3 DEF Phases
  <2> QED
    BY <2>1, <2>2, <2>3
<1>4. CASE Reconcile
  <2>0. UNCHANGED ds /\ pc \in Phases /\ lastDesired # 0 /\ ds \in DesiredState /\ ~Fail
    BY <1>0, <1>4, ReconcileControl, DsType DEF handover, cloud, ds, TypeInv, Numbering, Fail
  <2>1. CASE Begin
    BY <1>i, <2>0, <2>1 DEF Begin, Phase, Continue, docker, disk, dbVars, Phases
  <2>2. CASE StopStack
    BY <1>t, <2>0, <2>2 DEF StopStack, PruneFails, Converge, Settle, RemoveAll, Phases
  <2>3. CASE FinalBackup
    <3>1. running["postgres"] # Absent => repo' = repo \cup {schema["managed"]}
      BY <1>0, <2>3 DEF FinalBackup, RunBackup, BackupTaken
    <3>2. UNCHANGED <<running, schema>> /\ pc' = "prepare" /\ ~archiving'
      BY <2>3 DEF FinalBackup, docker
    <3> QED
      BY <3>1, <3>2
  <2>4. CASE Prepare \/ Edge
    <3>1. UNCHANGED <<archiving, schema, repo>> /\ pc \in {"prepare", "edge"}
          /\ pc' \notin {"begin", "stop", "final", "provision", "base"}
          /\ (pc' = "migrate" => ds.external)
      BY <2>0, <2>4 DEF Prepare, Edge, dbVars, disk, WildcardIssued, WildcardAwaitingDns,
         WildcardRateLimited, WildcardError, NoEdge, Continue, Fail, Block, Settle, Phase
    <3>2. running'["postgres"] = running["postgres"]
      BY <1>t, <2>0, <2>4 DEF Prepare, docker, Edge, WildcardIssued, WildcardAwaitingDns,
         WildcardRateLimited, WildcardError, NoEdge, AcmeDnsUp
    <3> QED
      BY <1>i, <2>0, <3>1, <3>2 DEF Phases, HasBackups
  <2>5. CASE ApplyPostgres
    <3>1. running'["postgres"] = SpecOf("postgres", ds) /\ pc' = "provision" /\ ~ds.external
      BY <1>t, <2>0, <2>5 DEF ApplyPostgres, NotApplied, Applied, Continue, KeepInv, Phase
    <3>2. SpecOf("postgres", ds).archive => HasBackups(ds)
      BY DEF SpecOf
    <3> QED
      BY <2>0, <3>1, <3>2
  <2>6. CASE Provision \/ BaseBackup
    <3>1. UNCHANGED <<running, archiving, schema>> /\ repo \subseteq repo'
          /\ pc' \in {"base", "migrate"} /\ pc \in {"provision", "base"}
      BY <2>0, <2>6 DEF Provision, BaseBackup, BackupTaken, dbVars, Continue, Phase
    <3> QED
      BY <1>i, <2>0, <3>1 DEF Phases
  <2>7. CASE Migrate
    <3>1. UNCHANGED <<running, repo>> /\ archiving' = HasBackups(ds) /\ pc' = "gitea" /\ pc = "migrate"
          /\ schema' = [schema EXCEPT ![Database(ds)] = IF @ < ds.image THEN ds.image ELSE @]
      BY <2>0, <2>7 DEF Migrate, Continue, Phase
    <3>2. CASE ds.external
      <4>1. schema'["managed"] = schema["managed"] /\ ~archiving /\ ~HasBackups(ds)
        BY <1>i, <1>t, <3>1, <3>2 DEF Database, HasBackups, Phases
      <4> QED
        BY <1>i, <3>1, <4>1
    <3>3. CASE ~ds.external
      <4>1. running["postgres"] = SpecOf("postgres", ds)
        BY <3>1, <3>3 DEF KeepInv, Kept, AfterPostgres, AfterEdge, Phases
      <4>2. SpecOf("postgres", ds).archive => HasBackups(ds)
        BY DEF SpecOf
      <4> QED
        BY <2>0, <3>1, <3>3, <4>1, <4>2
    <3> QED
      BY <3>2, <3>3
  <2>8. CASE Gitea \/ ApplyCore \/ EnsureNginx \/ Prune
    <3>1. UNCHANGED <<archiving, schema, repo>> /\ pc \in {"gitea", "services", "nginx", "prune"}
          /\ pc' \notin {"begin", "stop", "final", "provision", "base", "migrate"}
      BY <2>0, <2>8 DEF Gitea, ApplyCore, EnsureNginx, Prune, PruneFails, NotApplied, dbVars, disk,
         Continue, Converge, Settle, Phase
    <3>2. running'["postgres"] \in {running["postgres"], Absent}
      <4>1. CASE Prune
        BY <1>t, <4>1 DEF Prune, PruneFails, RemoveAll
      <4>2. ASSUME NEW s, s # "postgres", Applied(s) PROVE running'["postgres"] = running["postgres"]
        BY <1>t, <4>2 DEF Applied
      <4>3. CASE Gitea
        BY <2>0, <4>2, <4>3 DEF Gitea, NotApplied
      <4>4. CASE EnsureNginx
        BY <2>0, <4>2, <4>4 DEF EnsureNginx, NotApplied
      <4>5. CASE ApplyCore
        <5>1. PICK i \in 1 .. 4 : Applied(StartOrder[i])
          BY <2>0, <4>5 DEF ApplyCore, NotApplied
        <5>2. StartOrder[i] # "postgres"
          BY DEF StartOrder
        <5> QED
          BY <4>2, <5>1, <5>2
      <4> QED
        BY <2>8, <4>1, <4>3, <4>4, <4>5
    <3> QED
      BY <1>i, <2>0, <3>1, <3>2 DEF Phases
  <2> QED
    BY <1>4, <2>1, <2>2, <2>3, <2>4, <2>5, <2>6, <2>7, <2>8 DEF Reconcile
<1> QED
  BY <1>1, <1>2, <1>3, <1>4 DEF Next

(* It holds from an empty host on. *)
LEMMA SchemaInvariant == Spec => []SchemaInv
<1>1. Init => SchemaInv
  BY DEF Init, SchemaInv, Covered, RestorePhases, Apps, Services, CoreServices
<1>2. TypeInv /\ SchemaInv /\ [Next]_vars => SchemaInv'
  BY SchemaInvStep
<1> QED
  BY <1>1, <1>2, TypeInvariant, PTL DEF Spec

(* The prune that removes the managed Postgres of a deployment that moved  *)
(* to an external database finds its latest state in a backup, unless a    *)
(* call failed, the connection to a backup was lost, the agent died, or a  *)
(* restore ran under a live server.                                        *)
THEOREM TeardownHasBackup == Spec => FinalBackupBeforeTeardown
<1> DEFINE Teardown ==
        /\ pc = "prune" /\ ds.external
        /\ running["postgres"] # Absent /\ running'["postgres"] = Absent
        /\ running["postgres"].archive
        => \/ schema["managed"] \in repo
           \/ \E m \in {"fault", "cut", "crash", "removal"} : spent[m] > 0
<1>1. Init => FinalInv
  BY DEF Init, FinalInv, Phases, Services
<1>2. TypeInv /\ KeepInv /\ ClusterInv /\ SchemaInv /\ FinalInv /\ [Next]_vars => FinalInv'
  BY FinalInvStep
<1>3. TypeInv /\ FinalInv => Teardown
  <2>1. TypeInv => \A m \in Mishaps : spent[m] = 0 \/ spent[m] > 0
    BY DEF TypeInv, TypeOK, RestOK
  <2> QED
    BY <2>1 DEF FinalInv, Phases, Mishaps
<1>4. TypeInv /\ FinalInv /\ [Next]_vars => [Teardown]_vars
  BY <1>3
<1>5. Spec => [][Teardown]_vars
  BY <1>1, <1>2, <1>4, TypeInvariant, KeepInvariant, ClusterInvariant, SchemaInvariant, PTL DEF Spec
<1> QED
  BY <1>5 DEF FinalBackupBeforeTeardown

-----------------------------------------------------------------------------
(***************************************************************************)
(* Recreate commands.  Each one takes its place in the queue, then in the  *)
(* marks, then in the force set of the reconcile that drains the marks,    *)
(* and leaves that one only when the container was replaced or removed.    *)
(* That the queue has a place for it takes a count of the commands: f      *)
(* numbers the frames under way so that every Recreate has a number of its *)
(* own, above the requests in the queue and within the commands sent.      *)
(***************************************************************************)
Tally(f) ==
    /\ f \in [0 .. Len(stream) -> Nat]
    /\ Len(recreateCh) <= f[0]
    /\ f[Len(stream)] <= spent["command"]
    /\ \A i, j \in 0 .. Len(stream) : i <= j => f[i] <= f[j]
    /\ \A i \in 1 .. Len(stream) : stream[i].kind = "recreate" => f[i - 1] < f[i]

TallyInv == \E f : Tally(f)

(* No mishap is taken back. *)
LEMMA MishapsGrow ==
    ASSUME TypeInv, [Next]_vars, NEW m \in Mishaps
    PROVE  spent[m] \in Nat /\ spent'[m] \in Nat /\ spent[m] <= spent'[m]
<1>1. spent \in [Mishaps -> Nat]
  BY DEF TypeInv, TypeOK, RestOK
<1>2. ASSUME NEW k \in Mishaps, Spend(k)
      PROVE  spent'[m] \in Nat /\ spent[m] <= spent'[m]
  BY <1>1, <1>2 DEF Spend
<1> QED
  BY <1>1, <1>2, MishapStep

(* A turn of the select loop and the queue of Recreate requests. *)
LEMMA ServeQueue ==
    ASSUME TypeInv, Serve
    PROVE  \/ /\ stream # <<>> /\ stream' = Tail(stream)
              /\ recreateCh' = recreateCh \/
                 (Head(stream).kind = "recreate" /\ Len(recreateCh') <= Len(recreateCh) + 1)
           \/ stream' \in {<<>>, stream} /\ Len(recreateCh') <= Len(recreateCh)
<1> USE DEF TypeInv, TypeOK, QueuesOK
<1>1. CASE OnDesired \/ OnTampered \/ OnForceRecheck \/ OnRequestStatus \/ OnRunBackup \/ OnRestoreDB
  BY <1>1 DEF OnDesired, OnTampered, OnForceRecheck, OnRequestStatus, OnRunBackup, OnRestoreDB,
     Receive, queues
<1>2. CASE OnRecreate
  BY <1>2 DEF OnRecreate
<1>3. CASE OnClosed
  BY <1>3 DEF OnClosed, queues
<1>4. CASE HeartbeatTick \/ ResyncTick \/ FastTick \/ BackupTick \/ ServeRecheck \/ ServeBackup
  BY <1>4 DEF HeartbeatTick, ResyncTick, FastTick, BackupTick, ServeRecheck, ServeBackup, queues
<1>5. CASE ServeRecreate
  <2>1. Len(Tail(recreateCh)) <= Len(recreateCh)
    BY <1>5 DEF ServeRecreate
  <2> QED
    BY <1>5, <2>1 DEF ServeRecreate
<1> QED
  BY <1>1, <1>2, <1>3, <1>4, <1>5 DEF Serve

(* A step that neither sends nor receives keeps the tally. *)
LEMMA TallyStays ==
    ASSUME TypeInv, TypeInv', TallyInv, [Next]_vars, stream' \in {<<>>, stream},
           Len(recreateCh') <= Len(recreateCh)
    PROVE  TallyInv'
<1>1. PICK f : Tally(f)
  BY DEF TallyInv
<1>2. /\ spent["command"] <= spent'["command"] /\ spent["command"] \in Nat /\ spent'["command"] \in Nat
      /\ Len(recreateCh) \in Nat /\ Len(recreateCh') \in Nat /\ Len(stream) \in Nat
  <2>1. spent["command"] <= spent'["command"] /\ spent["command"] \in Nat /\ spent'["command"] \in Nat
    BY MishapsGrow DEF Mishaps
  <2>2. Len(recreateCh) \in Nat /\ Len(recreateCh') \in Nat /\ Len(stream) \in Nat
    BY DEF TypeInv, TypeOK, QueuesOK, CloudOK
  <2> QED
    BY <2>1, <2>2
<1>3. CASE stream' = stream
  <2>1. 0 \in 0 .. Len(stream) /\ Len(stream) \in 0 .. Len(stream)
    BY <1>2
  <2>2. f[0] \in Nat /\ f[Len(stream)] \in Nat
    BY <1>1, <2>1 DEF Tally
  <2>3. Len(recreateCh') <= f[0] /\ f[Len(stream)] <= spent'["command"]
    BY <1>1, <1>2, <2>2 DEF Tally
  <2> QED
    BY <1>1, <1>3, <2>3 DEF Tally, TallyInv
<1>4. CASE stream' = <<>>
  <2> DEFINE g == [i \in 0 .. 0 |-> f[0]]
  <2>1. 0 \in 0 .. Len(stream) /\ Len(stream) \in 0 .. Len(stream) /\ Len(stream') = 0
    BY <1>2, <1>4
  <2>2. f[0] \in Nat /\ f[Len(stream)] \in Nat /\ f[0] <= f[Len(stream)] /\ f[Len(stream)] <= spent["command"]
    BY <1>1, <1>2, <2>1 DEF Tally
  <2>3. Len(recreateCh') <= f[0] /\ f[0] <= spent'["command"]
    BY <1>1, <1>2, <2>2 DEF Tally
  <2>4. Tally(g)'
    BY <2>1, <2>2, <2>3 DEF Tally
  <2> QED
    BY <2>4 DEF TallyInv
<1> QED
  BY <1>3, <1>4

(* A frame that is sent gets the next number if it is a Recreate. *)
LEMMA TallySend ==
    ASSUME TypeInv, NEW st \in Seq(Frames), NEW fr \in Frames, NEW f, NEW n \in Nat, NEW c \in Nat,
           n = Len(st), f \in [0 .. n -> Nat], f[n] <= c,
           \A i, j \in 0 .. n : i <= j => f[i] <= f[j],
           \A i \in 1 .. n : st[i].kind = "recreate" => f[i - 1] < f[i],
           fr.kind = "recreate" => f[n] < c,
           stream' = Append(st, fr), Len(recreateCh') <= f[0], spent'["command"] = c
    PROVE  TallyInv'
<1> DEFINE g == [i \in 0 .. (n + 1) |-> IF i = n + 1 THEN c ELSE f[i]]
<1>1. /\ Len(stream') = n + 1 /\ stream'[n + 1] = fr /\ \A k \in 1 .. n : stream'[k] = st[k]
      /\ \A k \in 0 .. (n + 1) : k \in 0 .. n \/ k = n + 1
      /\ \A k \in 0 .. n : k # n + 1 /\ k \in 0 .. (n + 1)
      /\ \A k \in 1 .. (n + 1) : k \in 1 .. n \/ k = n + 1
      /\ \A k \in 1 .. n : k \in 0 .. n /\ k - 1 \in 0 .. n
      /\ n + 1 \in 0 .. (n + 1) /\ n \in 0 .. n /\ 0 \in 0 .. n /\ (n + 1) - 1 = n
  OBVIOUS
<1>2. \A k \in 0 .. n : g[k] = f[k] /\ f[k] \in Nat /\ f[k] <= c
  BY <1>1
<1>3. g[n + 1] = c
  BY <1>1
<1>4. g \in [0 .. (n + 1) -> Nat]
  BY <1>1
<1> HIDE DEF g
<1>5. \A i, j \in 0 .. (n + 1) : i <= j => g[i] <= g[j]
  BY <1>1, <1>2, <1>3
<1>6. \A i \in 1 .. (n + 1) : stream'[i].kind = "recreate" => g[i - 1] < g[i]
  BY <1>1, <1>2, <1>3
<1>7. g[0] = f[0] /\ Len(recreateCh') <= g[0] /\ g[Len(stream')] <= spent'["command"]
  BY <1>1, <1>2, <1>3
<1>8. Tally(g)'
  BY <1>1, <1>4, <1>5, <1>6, <1>7 DEF Tally
<1> QED
  BY <1>8 DEF TallyInv

(* A frame that is read takes its number off the tally. *)
LEMMA TallyReceive ==
    ASSUME TypeInv, TypeInv', TallyInv, [Next]_vars, stream # <<>>, stream' = Tail(stream),
           recreateCh' = recreateCh \/
             (Head(stream).kind = "recreate" /\ Len(recreateCh') <= Len(recreateCh) + 1)
    PROVE  TallyInv'
<1>1. PICK f : Tally(f)
  BY DEF TallyInv
<1> DEFINE n == Len(stream)
           g == [i \in 0 .. (n - 1) |-> f[i + 1]]
<1>2. /\ n \in Nat \ {0} /\ Len(stream') = n - 1 /\ stream[1] = Head(stream)
      /\ \A k \in 1 .. (n - 1) : stream'[k] = stream[k + 1] /\ k + 1 \in 1 .. n
      /\ \A k \in 0 .. (n - 1) : k + 1 \in 0 .. n
      /\ \A k \in 1 .. (n - 1) : k - 1 \in 0 .. (n - 1) /\ k \in 0 .. (n - 1) /\ (k - 1) + 1 = k /\ (k + 1) - 1 = k
      /\ 0 \in 0 .. (n - 1) /\ n - 1 \in 0 .. (n - 1) /\ 0 + 1 = 1 /\ (n - 1) + 1 = n
      /\ 0 \in 0 .. n /\ 1 \in 0 .. n /\ 1 \in 1 .. n /\ 1 - 1 = 0 /\ n \in 0 .. n
      /\ Len(recreateCh) \in Nat /\ Len(recreateCh') \in Nat
  BY DEF TypeInv, TypeOK, CloudOK, QueuesOK
<1>3. f \in [0 .. n -> Nat] /\ g \in [0 .. (n - 1) -> Nat] /\ \A k \in 0 .. (n - 1) : g[k] = f[k + 1]
  BY <1>1, <1>2 DEF Tally
<1>4. Len(recreateCh') <= g[0]
  <2>1. f[0] \in Nat /\ f[1] \in Nat /\ f[0] <= f[1] /\ Len(recreateCh) <= f[0] /\ g[0] = f[1]
        /\ (Head(stream).kind = "recreate" => f[0] < f[1])
    BY <1>1, <1>2, <1>3 DEF Tally
  <2> QED
    BY <1>2, <2>1
<1>5. g[n - 1] <= spent'["command"]
  <2>1. f[n] <= spent["command"] /\ g[n - 1] = f[n] /\ f[n] \in Nat
    BY <1>1, <1>2, <1>3 DEF Tally
  <2> QED
    BY <2>1, MishapsGrow DEF Mishaps
<1>6. \A i, j \in 0 .. (n - 1) : i <= j => g[i] <= g[j]
  <2> SUFFICES ASSUME NEW i \in 0 .. (n - 1), NEW j \in 0 .. (n - 1), i <= j PROVE g[i] <= g[j]
    OBVIOUS
  <2>1. i + 1 <= j + 1 /\ i + 1 \in 0 .. n /\ j + 1 \in 0 .. n
    BY <1>2
  <2>2. f[i + 1] <= f[j + 1]
    BY <1>1, <2>1 DEF Tally
  <2> QED
    BY <1>3, <2>2
<1>7. ASSUME NEW i \in 1 .. (n - 1), stream'[i].kind = "recreate" PROVE g[i - 1] < g[i]
  <2>1. stream[i + 1].kind = "recreate" /\ i + 1 \in 1 .. n
    BY <1>2, <1>7
  <2>2. f[(i + 1) - 1] < f[i + 1]
    BY <1>1, <2>1 DEF Tally
  <2>3. g[i - 1] = f[i] /\ g[i] = f[i + 1] /\ (i + 1) - 1 = i
    <3>1. i - 1 \in 0 .. (n - 1) /\ i \in 0 .. (n - 1) /\ (i - 1) + 1 = i /\ (i + 1) - 1 = i
      BY <1>2
    <3> HIDE DEF g
    <3> QED
      BY <1>3, <3>1
  <2> QED
    BY <2>2, <2>3
<1> HIDE DEF g
<1>8. \A i \in 1 .. (n - 1) : stream'[i].kind = "recreate" => g[i - 1] < g[i]
  BY <1>7
<1>9. PICK h, m :
         /\ m = Len(stream') /\ h \in [0 .. m -> Nat] /\ Len(recreateCh') <= h[0]
         /\ h[m] <= spent'["command"]
         /\ \A i, j \in 0 .. m : i <= j => h[i] <= h[j]
         /\ \A i \in 1 .. m : stream'[i].kind = "recreate" => h[i - 1] < h[i]
  <2> DEFINE m == n - 1
  <2>1. /\ m = Len(stream') /\ g \in [0 .. m -> Nat] /\ Len(recreateCh') <= g[0]
        /\ g[m] <= spent'["command"]
        /\ \A i, j \in 0 .. m : i <= j => g[i] <= g[j]
        /\ \A i \in 1 .. m : stream'[i].kind = "recreate" => g[i - 1] < g[i]
    BY <1>2, <1>3, <1>4, <1>5, <1>6, <1>8
  <2> HIDE DEF m
  <2> QED
    BY <2>1
<1>10. Tally(h)'
  BY <1>9 DEF Tally
<1> QED
  BY <1>10 DEF TallyInv

(* Every frame that is sent or read keeps the numbering. *)
LEMMA TallyInvStep ==
    ASSUME TypeInv, TypeInv', TallyInv, [Next]_vars
    PROVE  TallyInv'
<1>0. Len(recreateCh) \in Nat /\ stream \in Seq(Frames) /\ Len(stream) \in Nat
  BY DEF TypeInv, TypeOK, QueuesOK, CloudOK
<1>1. CASE Serve
  BY <1>1, ServeQueue, TallyReceive, TallyStays
<1>2. CASE Restore
  BY <1>0, <1>2, RestoreStream, TallyStays DEF Restore, RestoreSkipped, RestoreBegin,
     RestoreRemoves, RestoreRemove, RestoreStart, RestoreNotStarted, RestoreSucceeds, RestoreFails,
     queues
<1>3. CASE Reconcile
  BY <1>0, <1>3, ReconcileControl, TallyStays DEF queues, cloud
<1>4. CASE Crash
  BY <1>0, <1>4, TallyStays, CrashReset
<1>5. CASE WindowPasses \/ ResyncFallsDue \/ DnsAdded \/ DnsRemoved \/ CertExpires \/ OrphanEnds
           \/ UNCHANGED vars
  <2>1. UNCHANGED <<recreateCh, stream>>
    BY <1>5 DEF WindowPasses, ResyncFallsDue, DnsAdded, DnsRemoved, CertExpires, OrphanEnds,
       vars, agent, queues, cloud
  <2> QED
    BY <1>0, <2>1, TallyStays
<1>6. CASE Subscribe \/ Publish \/ SendCommand \/ SendTampered \/ Break
  <2>0. UNCHANGED recreateCh
    BY <1>6 DEF Subscribe, Publish, SendCommand, SendTampered, Break, agent, queues
  <2>1. PICK f : Tally(f)
    BY DEF TallyInv
  (* A frame after the first n of the stream. *)
  <2>2. ASSUME NEW n \in 0 .. Len(stream), NEW st \in Seq(Frames), Len(st) = n,
               \A k \in 1 .. n : st[k] = stream[k],
               NEW fr \in Frames, stream' = Append(st, fr),
               fr.kind = "recreate" => spent'["command"] > spent["command"]
        PROVE  TallyInv'
    <3> DEFINE g == [i \in 0 .. n |-> f[i]]
    <3>1. /\ \A k \in 0 .. n : k \in 0 .. Len(stream)
          /\ n \in 0 .. Len(stream) /\ n <= Len(stream) /\ Len(stream) \in 0 .. Len(stream)
          /\ \A k \in 1 .. n : k \in 0 .. n /\ k - 1 \in 0 .. n /\ k \in 1 .. Len(stream)
          /\ n \in 0 .. n /\ 0 \in 0 .. n /\ n \in Nat
      BY <1>0
    <3>2. g \in [0 .. n -> Nat] /\ \A k \in 0 .. n : g[k] = f[k]
      BY <2>1, <3>1 DEF Tally
    <3>3. /\ spent["command"] \in Nat /\ spent'["command"] \in Nat
          /\ spent["command"] <= spent'["command"]
      BY MishapsGrow DEF Mishaps
    <3>4. f[n] <= f[Len(stream)] /\ f[Len(stream)] <= spent["command"]
          /\ f[n] \in Nat /\ f[Len(stream)] \in Nat
      BY <2>1, <3>1 DEF Tally
    <3>5. g[n] <= spent'["command"] /\ (fr.kind = "recreate" => g[n] < spent'["command"])
      BY <2>2, <3>1, <3>2, <3>3, <3>4
    <3>6. \A i, j \in 0 .. n : i <= j => g[i] <= g[j]
      BY <2>1, <3>1, <3>2 DEF Tally
    <3>7. \A i \in 1 .. n : st[i].kind = "recreate" => g[i - 1] < g[i]
      BY <2>1, <2>2, <3>1, <3>2 DEF Tally
    <3>8. Len(recreateCh') <= g[0]
      BY <2>0, <2>1, <3>1, <3>2 DEF Tally
    <3> HIDE DEF g
    <3> QED
      BY <2>2, <3>1, <3>2, <3>3, <3>5, <3>6, <3>7, <3>8, TallySend
  <2>f. \A k \in FrameKinds : \A m \in Generation : Frame(k, m) \in Frames /\ Frame(k, m).kind = k
    BY DEF Frame, Frames
  <2>g. 0 \in Generation /\ Len(stream) \in 0 .. Len(stream) /\ 0 \in 0 .. Len(stream)
    BY <1>0, LoopAssumption DEF Generation
  <2>3. CASE Subscribe
    <3>1. CASE stream' = <<>>
      BY <1>0, <2>0, <3>1, TallyStays
    <3>2. CASE stream' = <<Frame("desired", Len(generations))>>
      <4>0. Len(generations) \in Generation /\ "desired" \in FrameKinds /\ "desired" # "recreate"
        BY DEF FrameKinds, TypeInv, TypeOK, CloudOK
      <4>1. Frame("desired", Len(generations)) \in Frames /\ Frame("desired", Len(generations)).kind # "recreate"
        BY <2>f, <4>0
      <4> DEFINE fr == Frame("desired", Len(generations))
      <4> HIDE DEF fr
      <4>2. stream' = Append(<<>>, fr) /\ <<>> \in Seq(Frames) /\ Len(<<>>) = 0 /\ \A k \in 1 .. 0 : FALSE
        BY <3>2 DEF fr
      <4> QED
        BY <2>2, <2>g, <4>1, <4>2 DEF fr
    <3> QED
      BY <2>3, <3>1, <3>2 DEF Subscribe
  <2>4. CASE Publish
    <3>1. CASE stream' = Append(stream, Frame("desired", Len(generations) + 1))
      <4>1. Len(generations) + 1 \in Generation
        BY <2>4, LoopAssumption DEF Publish, Generation, TypeInv, TypeOK, CloudOK
      <4>2. /\ Frame("desired", Len(generations) + 1) \in Frames
            /\ Frame("desired", Len(generations) + 1).kind # "recreate"
        BY <2>f, <4>1 DEF FrameKinds
      <4> QED
        BY <1>0, <2>2, <2>g, <3>1, <4>2
    <3>2. CASE UNCHANGED stream
      BY <1>0, <2>0, <3>2, TallyStays
    <3> QED
      BY <2>4, <3>1, <3>2 DEF Publish
  <2>5. CASE SendCommand
    <3>1. PICK k \in Commands : stream' = Append(stream, Frame(k, 0))
      BY <2>5 DEF SendCommand
    <3>2. Frame(k, 0) \in Frames
      BY <2>f, <2>g, LoopAssumption DEF FrameKinds
    <3>3. spent'["command"] > spent["command"]
      <4>1. spent \in [Mishaps -> Nat] /\ "command" \in Mishaps
        BY DEF TypeInv, TypeOK, RestOK, Mishaps
      <4> QED
        BY <2>5, <4>1 DEF SendCommand, Spend
    <3> QED
      BY <1>0, <2>2, <2>g, <3>1, <3>2, <3>3
  <2>6. CASE SendTampered
    <3>1. Frame("tampered", 0) \in Frames /\ Frame("tampered", 0).kind # "recreate"
      BY <2>f, <2>g DEF FrameKinds
    <3> QED
      BY <1>0, <2>2, <2>6, <2>g, <3>1 DEF SendTampered
  <2>7. CASE Break
    <3>1. PICK n \in 0 .. Len(stream) :
             stream' = Append(SubSeq(stream, 1, n), Frame("closed", 0))
      BY <2>7 DEF Break
    <3>2. /\ SubSeq(stream, 1, n) \in Seq(Frames) /\ Len(SubSeq(stream, 1, n)) = n
          /\ \A k \in 1 .. n : SubSeq(stream, 1, n)[k] = stream[k]
      BY <1>0
    <3>3. Frame("closed", 0) \in Frames /\ Frame("closed", 0).kind # "recreate"
      BY <2>f, <2>g DEF FrameKinds
    <3> QED
      BY <2>2, <3>1, <3>2, <3>3
  <2> QED
    BY <1>6, <2>3, <2>4, <2>5, <2>6, <2>7
<1> QED
  BY <1>1, <1>2, <1>3, <1>4, <1>5, <1>6 DEF Next, Environment

(* The tally begins at zero. *)
LEMMA TallyInvariant == Spec => []TallyInv
<1>1. Init => TallyInv
  <2> SUFFICES ASSUME Init PROVE TallyInv
    OBVIOUS
  <2> DEFINE f == [i \in 0 .. 0 |-> 0]
  <2>1. Tally(f)
    BY DEF Init, Tally, Mishaps
  <2> QED
    BY <2>1 DEF TallyInv
<1>2. TypeInv /\ TypeInv' /\ TallyInv /\ [Next]_vars => TallyInv'
  BY TallyInvStep
<1> QED
  BY <1>1, <1>2, TypeInvariant, PTL DEF Spec

(* The hypotheses of RecreateKept. *)
Calm ==
    /\ spent["fault"] = 0 /\ spent["crash"] = 0
    /\ spent["command"] <= RecreateCap
    /\ \A i \in 1 .. Len(generations) : generations[i].secretStore /\ ~generations[i].edge

Queued(s) == \E i \in 1 .. Len(recreateCh) : recreateCh[i] = s

RecreateInv ==
    Calm => \A s \in stale :
        \/ running[s] = Absent
        \/ Queued(s) \/ s \in forceRecreate
        \/ pc \in Phases \ {"begin"} /\ s \in force \ keep

(* It was calm before if it is calm now, and no step fails. *)
LEMMA CalmStays ==
    ASSUME TypeInv, [Next]_vars, Calm'
    PROVE  /\ Calm /\ ~Fail /\ ~Crash
           /\ lastDesired # 0 => ds.secretStore /\ ~ds.edge
<1>1. {"fault", "crash", "command"} \subseteq Mishaps
  BY DEF Mishaps
<1>2. spent["fault"] = 0 /\ spent["crash"] = 0 /\ ~Fail /\ ~Crash
  BY <1>1, MishapsStay DEF Calm, Fail, Crash
<1>3. spent["command"] <= RecreateCap
  <2>1. spent["command"] \in Nat /\ spent'["command"] \in Nat /\ spent["command"] <= spent'["command"]
    BY <1>1, MishapsGrow
  <2>2. spent'["command"] <= RecreateCap /\ RecreateCap \in Nat
    BY LoopAssumption DEF Calm
  <2> QED
    BY <2>1, <2>2
<1>4. \A i \in 1 .. Len(generations) : generations[i].secretStore /\ ~generations[i].edge
  <2>1. UNCHANGED generations \/ \E c \in Configs : generations' = Append(generations, c)
    <3>1. CASE Serve
      BY <3>1, ServeLeaves DEF Untouched
    <3>2. CASE Restore
      BY <3>2 DEF Restore, RestoreSkipped, RestoreBegin, RestoreRemoves, RestoreRemove,
         RestoreStart, RestoreNotStarted, RestoreSucceeds, RestoreFails, Untouched
    <3>3. CASE Reconcile
      BY <3>3, ReconcileControl DEF cloud
    <3>4. CASE Subscribe \/ Environment \/ UNCHANGED vars
      BY <1>2, <3>4, EnvironmentLeaves
    <3> QED
      BY <3>1, <3>2, <3>3, <3>4 DEF Next
  <2>2. generations \in Seq(Configs)
    BY DEF TypeInv, TypeOK, CloudOK
  <2>3. CASE \E c \in Configs : generations' = Append(generations, c)
    <3>1. PICK c \in Configs : generations' = Append(generations, c)
      BY <2>3
    <3>2. \A i \in 1 .. Len(generations) : i \in 1 .. Len(generations') /\ generations'[i] = generations[i]
      BY <2>2, <3>1
    <3> QED
      BY <3>2 DEF Calm
  <2> QED
    BY <2>1, <2>3 DEF Calm
<1>5. lastDesired # 0 => ds.secretStore /\ ~ds.edge
  BY <1>4 DEF TypeInv, TypeOK, Numbering, HandoverOK, CloudOK, Generation, ds
<1> QED
  BY <1>2, <1>3, <1>4, <1>5 DEF Calm

(* A Recreate that is read finds room in the queue. *)
LEMMA RecreateHasRoom ==
    ASSUME TypeInv, TallyInv, stream # <<>>, Head(stream).kind = "recreate",
           spent["command"] <= RecreateCap
    PROVE  Len(recreateCh) < RecreateCap
<1>1. PICK f : Tally(f)
  BY DEF TallyInv
<1>2. /\ Len(stream) \in Nat \ {0} /\ stream[1] = Head(stream)
      /\ 0 \in 0 .. Len(stream) /\ 1 \in 0 .. Len(stream) /\ 1 \in 1 .. Len(stream)
      /\ Len(stream) \in 0 .. Len(stream) /\ 1 <= Len(stream) /\ 1 - 1 = 0
      /\ Len(recreateCh) \in Nat /\ spent["command"] \in Nat /\ RecreateCap \in Nat
  BY LoopAssumption DEF TypeInv, TypeOK, QueuesOK, CloudOK, RestOK, Mishaps
<1>3. f[0] \in Nat /\ f[1] \in Nat /\ f[Len(stream)] \in Nat
  BY <1>1, <1>2 DEF Tally
<1>4. Len(recreateCh) <= f[0] /\ f[0] < f[1] /\ f[1] <= f[Len(stream)] /\ f[Len(stream)] <= spent["command"]
  BY <1>1, <1>2 DEF Tally
<1> QED
  BY <1>2, <1>3, <1>4

(* A service that was applied is out of stale, or was not to be recreated. *)
LEMMA RecreateApplied ==
    ASSUME TypeInv, Calm, RecreateInv, NEW t \in Services, lastDesired # 0, Applied(t),
           keep' = keep \cup {t},
           pc \in Phases \ {"begin"}, pc' \in Phases \ {"begin"},
           UNCHANGED <<recreateCh, forceRecreate, force>>
    PROVE  RecreateInv'
<1>1. SpecOf(t, ds) # Absent
  BY DsType, SpecOfType, AbsentAssumption
<1>2. ASSUME NEW s \in stale'
      PROVE  \/ running'[s] = Absent
             \/ Queued(s)' \/ s \in forceRecreate' \/ s \in force' \ keep'
  <2>1. running[s] = Absent \/ Queued(s) \/ s \in forceRecreate \/ s \in force \ keep
    BY <1>2 DEF RecreateInv, Applied
  <2>2. CASE s # t
    BY <2>1, <2>2 DEF Applied, Queued, TypeInv, TypeOK, DockerOK
  <2>3. CASE s = t
    <3>1. running[s] = SpecOf(s, ds) /\ s \notin force
      BY <1>2, <2>3 DEF Applied, Changed
    <3> QED
      BY <1>1, <2>1, <2>3, <3>1 DEF Queued
  <2> QED
    BY <2>2, <2>3
<1> QED
  BY <1>2 DEF RecreateInv

(* A request stays remembered when it moves up in the queue, when the      *)
(* container is gone, and when nothing happens to it.                      *)
LEMMA RecreateStays ==
    ASSUME Calm, RecreateInv, stale' \subseteq stale,
           \A s \in stale : running'[s] \in {running[s], Absent} /\ (Queued(s) => Queued(s)'),
           forceRecreate' = forceRecreate,
           \/ pc \notin Phases \ {"begin"}
           \/ pc' \in Phases \ {"begin"} /\ UNCHANGED locals
    PROVE  RecreateInv'
BY DEF RecreateInv, locals

(* A request only leaves one of the three places for the next, or because  *)
(* the container it names was replaced or removed.                         *)
LEMMA RecreateInvStep ==
    ASSUME TypeInv, KeepInv, TallyInv, RecreateInv, [Next]_vars
    PROVE  RecreateInv'
<1> SUFFICES ASSUME Calm' PROVE RecreateInv'
  BY DEF RecreateInv
<1>0. /\ Calm /\ ~Fail /\ ~Crash
      /\ lastDesired # 0 => ds.secretStore /\ ~ds.edge
  BY CalmStays
<1>a. ASSUME UNCHANGED recreateCh PROVE \A s : Queued(s)' = Queued(s)
  BY <1>a DEF Queued
<1>1. CASE Serve
  <2>0. UNCHANGED running /\ pc = "select" /\ pc \notin Phases \ {"begin"}
    BY <1>1, ServeLeaves, ServeControl DEF Phases
  <2>1. CASE OnRecreate
    <3>1. PICK t \in RecreateTargets :
            /\ recreateCh' = IF Len(recreateCh) < RecreateCap THEN Append(recreateCh, t) ELSE recreateCh
            /\ stale' = stale \cup {t}
      BY <2>1 DEF OnRecreate
    <3>2. recreateCh' = Append(recreateCh, t)
      BY <1>0, <2>1, <3>1, RecreateHasRoom DEF OnRecreate, Calm
    <3>3. recreateCh \in Seq(RecreateTargets)
      BY DEF TypeInv, TypeOK, QueuesOK
    <3>4. /\ Len(recreateCh') = Len(recreateCh) + 1 /\ recreateCh'[Len(recreateCh) + 1] = t
          /\ Len(recreateCh) + 1 \in 1 .. Len(recreateCh')
          /\ \A i \in 1 .. Len(recreateCh) : i \in 1 .. Len(recreateCh') /\ recreateCh'[i] = recreateCh[i]
      BY <3>2, <3>3
    <3>5. Queued(t)' /\ \A s : Queued(s) => Queued(s)'
      BY <3>4 DEF Queued
    <3>6. UNCHANGED forceRecreate
      BY <2>1 DEF OnRecreate, Idle
    <3> QED
      BY <1>0, <2>0, <3>1, <3>5, <3>6 DEF RecreateInv
  <2>2. CASE ServeRecreate
    <3>1. /\ recreateCh' = Tail(recreateCh) /\ recreateCh # <<>> /\ UNCHANGED stale
          /\ forceRecreate' = forceRecreate \cup {Head(recreateCh)}
      BY <2>2 DEF ServeRecreate, docker
    <3>2. recreateCh \in Seq(RecreateTargets)
      BY DEF TypeInv, TypeOK, QueuesOK
    <3>3. ASSUME NEW s, NEW i \in 1 .. Len(recreateCh), i # 1, recreateCh[i] = s
          PROVE  Queued(s)'
      <4>1. i - 1 \in 1 .. Len(recreateCh') /\ recreateCh'[i - 1] = recreateCh[i]
        BY <3>1, <3>2, <3>3
      <4> QED
        BY <3>3, <4>1 DEF Queued
    <3>4. recreateCh[1] = Head(recreateCh)
      BY <3>1, <3>2
    <3>5. \A s : Queued(s) => Queued(s)' \/ s \in forceRecreate'
      BY <3>1, <3>3, <3>4 DEF Queued
    <3> QED
      BY <1>0, <2>0, <3>1, <3>5 DEF RecreateInv
  <2>3. CASE OnDesired \/ OnTampered \/ OnClosed \/ OnForceRecheck \/ OnRequestStatus
             \/ OnRunBackup \/ OnRestoreDB \/ HeartbeatTick \/ ResyncTick \/ FastTick
             \/ BackupTick \/ ServeRecheck \/ ServeBackup
    <3>1. UNCHANGED <<recreateCh, forceRecreate, stale>>
      BY <2>3 DEF OnDesired, OnTampered, OnClosed, OnForceRecheck, OnRequestStatus, OnRunBackup,
         OnRestoreDB, HeartbeatTick, ResyncTick, FastTick, BackupTick, ServeRecheck, ServeBackup,
         Receive, Idle, queues, docker
    <3> QED
      BY <1>0, <1>a, <2>0, <3>1, RecreateStays
  <2> QED
    BY <1>1, <2>1, <2>2, <2>3 DEF Serve
<1>2. CASE Restore
  <2>1. /\ UNCHANGED <<recreateCh, forceRecreate, stale>>
        /\ running' = running \/ \E s \in Services : running' = RemoveAll({s})
        /\ pc \notin Phases \ {"begin"}
    BY <1>2 DEF Restore, RestoreSkipped, RestoreBegin, RestoreRemoves, RestoreRemove,
       RestoreStart, RestoreNotStarted, RestoreSucceeds, RestoreFails, queues, docker, Phases,
       Services, CoreServices, Apps
  <2>2. \A s \in stale : running'[s] \in {running[s], Absent}
    BY <2>1, LoopAssumption DEF RemoveAll, TypeInv, TypeOK, DockerOK
  <2> QED
    BY <1>0, <1>a, <2>1, <2>2, RecreateStays
<1>3. CASE Reconcile
  <2>0. /\ UNCHANGED <<ds, recreateCh>> /\ lastDesired # 0 /\ ds.secretStore /\ ~ds.edge
    BY <1>0, <1>3, ReconcileControl DEF handover, cloud, queues, ds, TypeInv, Numbering
  <2>q. \A s \in stale : s \in Services
    BY LoopAssumption DEF TypeInv, TypeOK, DockerOK
  <2>1. CASE Begin
    BY <1>0, <1>a, <2>0, <2>1 DEF Begin, Phase, Continue, RecreateInv, docker, Phases
  <2>2. CASE StopStack
    BY <1>0, <2>2, <2>q DEF StopStack, PruneFails, RemoveAll, RecreateInv
  <2>3. CASE FinalBackup \/ Prepare \/ Edge \/ Provision \/ BaseBackup \/ Migrate
    <3>1. /\ UNCHANGED <<running, stale, forceRecreate, locals>>
          /\ pc' \in Phases \ {"begin"}
      <4>1. CASE FinalBackup \/ Prepare
        BY <1>0, <2>0, <4>1 DEF FinalBackup, Prepare, Continue, docker, Phases
      <4>2. CASE Edge
        BY <1>0, <2>0, <4>2 DEF Edge, NoEdge, Continue, locals, Phases
      <4>3. CASE Provision \/ BaseBackup \/ Migrate
        BY <1>0, <4>3 DEF Provision, BaseBackup, Migrate, Continue, ReconcileFrame, locals, Phases
      <4> QED
        BY <2>3, <4>1, <4>2, <4>3
    <3> QED
      BY <1>0, <1>a, <2>0, <3>1, RecreateStays
  <2>4. CASE ApplyPostgres \/ Gitea \/ ApplyCore
    <3>1. pc \in Phases \ {"begin"} /\ UNCHANGED <<forceRecreate, force>>
      BY <2>4 DEF ApplyPostgres, Gitea, ApplyCore, Phase, ReconcileFrame, Phases
    <3>2. CASE \E t \in Services : Applied(t) /\ keep' = keep \cup {t} /\ pc' \in Phases \ {"begin"}
      BY <1>0, <2>0, <3>1, <3>2, RecreateApplied
    <3>3. CASE UNCHANGED <<running, stale, keep>> /\ pc' \in Phases \ {"begin"}
      BY <1>0, <1>a, <2>0, <3>1, <3>3, RecreateStays DEF locals
    <3>4. CASE ApplyPostgres
      <4>1. "postgres" \in Services
        BY DEF Services
      <4> QED
        BY <1>0, <3>2, <3>4, <4>1 DEF ApplyPostgres, NotApplied, Continue, Phases
    <3>5. CASE Gitea
      <4>1. "gitea" \in Services
        BY DEF Services
      <4> QED
        BY <1>0, <3>2, <3>3, <3>5, <4>1 DEF Gitea, NotApplied, Continue, Phases
    <3>6. CASE ApplyCore
      <4>1. \A i \in 1 .. 4 : StartOrder[i] \in Services
        BY DEF StartOrder, Services, CoreServices, Apps
      <4>2. PICK i \in 1 .. 4 : Applied(StartOrder[i]) /\ keep' = keep \cup {StartOrder[i]}
                                /\ pc' \in Phases \ {"begin"}
        BY <1>0, <2>0, <3>6 DEF ApplyCore, NotApplied, Continue, Phases
      <4> QED
        BY <3>2, <4>1, <4>2
    <3> QED
      BY <2>4, <3>4, <3>5, <3>6
  <2>5. CASE EnsureNginx
    BY <2>0, <2>5 DEF EnsureNginx, Phase, KeepInv
  <2>6. CASE Prune
    <3>1. /\ running' = RemoveAll(Services \ keep) /\ UNCHANGED <<stale, forceRecreate>>
      BY <1>0, <2>6 DEF Prune, PruneFails
    <3>2. \A s \in stale : running'[s] = Absent \/ (running'[s] = running[s] /\ s \in keep)
      BY <2>q, <3>1 DEF RemoveAll
    <3> QED
      BY <1>0, <1>a, <2>0, <3>1, <3>2 DEF RecreateInv
  <2> QED
    BY <1>3, <2>1, <2>2, <2>3, <2>4, <2>5, <2>6 DEF Reconcile
<1>4. CASE Subscribe \/ Environment \/ UNCHANGED vars
  <2>1. UNCHANGED <<recreateCh, forceRecreate, stale, running>>
    <3>1. CASE Subscribe
      BY <3>1 DEF Subscribe, queues, host, docker
    <3>2. CASE WindowPasses \/ ResyncFallsDue
      BY <3>2 DEF WindowPasses, ResyncFallsDue, queues, host, docker
    <3>3. CASE UNCHANGED <<agent, running, stale>>
      BY <3>3 DEF agent, queues
    <3>4. CASE UNCHANGED vars
      BY <3>4 DEF vars, queues, docker
    <3> QED
      BY <1>0, <1>4, <3>1, <3>2, <3>3, <3>4 DEF Environment, Publish, SendCommand, SendTampered,
         Break, DnsAdded, DnsRemoved, CertExpires, OrphanEnds, host, docker
  <2>2. pc \notin Phases \/ (UNCHANGED <<pc, locals>>)
    <3>1. CASE Subscribe
      BY <3>1 DEF Subscribe, Phases
    <3>2. CASE WindowPasses \/ ResyncFallsDue
      BY <3>2 DEF WindowPasses, ResyncFallsDue, locals
    <3>3. CASE UNCHANGED agent
      BY <3>3 DEF agent, locals
    <3>4. CASE UNCHANGED vars
      BY <3>4 DEF vars, locals
    <3> QED
      BY <1>0, <1>4, <3>1, <3>2, <3>3, <3>4 DEF Environment, Publish, SendCommand, SendTampered,
         Break, DnsAdded, DnsRemoved, CertExpires, OrphanEnds
  <2> QED
    BY <1>0, <1>a, <2>1, <2>2, RecreateStays
<1> QED
  BY <1>1, <1>2, <1>3, <1>4 DEF Next

(* At the select a container that should be recreated is still in the      *)
(* queue or marked for the next reconcile (onRecreate, applyDesired).      *)
THEOREM RecreatesAreKept == Spec => []RecreateKept
<1>1. Init => RecreateInv
  BY DEF Init, RecreateInv
<1>2. TypeInv /\ KeepInv /\ TallyInv /\ RecreateInv /\ [Next]_vars => RecreateInv'
  BY RecreateInvStep
<1>3. RecreateInv => RecreateKept
  BY DEF RecreateInv, RecreateKept, Calm, Queued, Phases
<1> QED
  BY <1>1, <1>2, <1>3, TypeInvariant, KeepInvariant, TallyInvariant, PTL DEF Spec
=============================================================================
