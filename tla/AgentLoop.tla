------------------------------ MODULE AgentLoop ------------------------------
(***************************************************************************)
(* The agent's Run loop (internal/agent/agent.go): one goroutine that      *)
(* serves the Subscribe stream, the tickers and its own queues, reconciles *)
(* the stack towards the last verified desired-state, and restores the     *)
(* database.  Around it: the cloud that publishes desired-states and       *)
(* commands, the Docker host, the disk, the operator's DNS, and crashes.   *)
(*                                                                         *)
(* The loop is single-threaded: a handler runs to its end before the next  *)
(* select.  reconcile and runRestore are cut into one action per external  *)
(* interaction, because the agent can crash, and the host can fail,        *)
(* between any two of them.  pc is the handler's place in that sequence.   *)
(***************************************************************************)
EXTENDS Deployment, Integers, Sequences, FiniteSets

CONSTANTS
    MaxGen,               \* bound: desired-states the cloud publishes
    StreamCap,            \* bound: frames in flight on the stream
    RecreateCap,          \* capacity of recreateCh (8 in the code)
    BackupCap,            \* capacity of backupCh (4 in the code)
    Commands,             \* the commands the cloud uses
    RecreateTargets,      \* the services it asks to recreate
    Limit,                \* bound: how often each kind of mishap happens
    Kinds,                \* bound: how many kinds of mishap meet in a behaviour
    CloudEnforcesStop     \* RestoreDB is only sent to a stopped deployment

CommandKinds == {"recheck", "status", "recreate", "backup", "restore"}

(* removal: Docker fails to remove a container in a restore; cut: the       *)
(* connection to a backup in progress is lost; fault: any other failing     *)
(* call; drop: a lost or forged frame.                                      *)
Mishaps == {"fault", "removal", "cut", "crash", "drop", "command", "edge"}

ASSUME LoopAssumption ==
    /\ MaxGen \in Nat
    /\ StreamCap \in Nat
    /\ RecreateCap \in Nat
    /\ BackupCap \in Nat
    /\ Commands \subseteq CommandKinds
    /\ RecreateTargets \subseteq Services
    /\ Limit \in [Mishaps -> Nat]
    /\ Kinds \in Nat
    /\ CloudEnforcesStop \in BOOLEAN

VARIABLES
    (* memory of the agent, lost in a crash *)
    lastGeneration,       \* generation the agent converged on, 0 if none
    lastDesired,          \* generation of the last verified desired-state
    lastReconcileErr,     \* the last reconcile failed
    resyncDue,            \* now - lastResync >= resyncInterval
    window,               \* backoff > 0 and now < nextAttempt
    awaitingSecretStore, awaitingDns, rateLimited, blocked,
    acmeDelegation,       \* the one-time DNS records are being surfaced
    hadCert,
    stopped, restoring, archiving, hadFullBackup,
    forceRecheckCh,       \* capacity 1: full or empty
    restoreCh,            \* capacity 1: full or empty
    backupCh,             \* number of queued on-demand backups
    recreateCh,           \* queue of service names
    forceRecreate,        \* services to rebuild on the next reconcile
    (* the handler in progress *)
    pc,
    force, keep,          \* reconcile's locals of the same names
    (* the host *)
    running,              \* service -> spec of its running container
    box,                  \* the one-off restore container
    schema,               \* release each database is migrated to
    repo,                 \* schema releases a pgBackRest backup can restore
    cert,                 \* a wildcard cert outside its renew window is on disk
    stale,                \* services with a Recreate since they were created
    (* the cloud and the operator *)
    generations,          \* desired-states published so far
    stream,               \* frames between the cloud and the select loop
    status,               \* the last status report
    dns,                  \* the delegation records resolve
    spent                 \* mishaps used up

gateVars   == <<lastGeneration, lastReconcileErr, window, blocked, status>>
blockVars  == <<awaitingSecretStore, awaitingDns, rateLimited, acmeDelegation>>
dbVars     == <<archiving, hadFullBackup>>
queues     == <<forceRecheckCh, recreateCh, backupCh, restoreCh>>
locals     == <<force, keep>>
docker     == <<running, box, stale>>
disk       == <<schema, repo, cert>>
cloud      == <<generations, stream>>
handover   == <<lastDesired, restoring, resyncDue>>

vars == <<gateVars, blockVars, dbVars, queues, locals, docker, disk, cloud,
          handover, hadCert, stopped, forceRecreate, pc, dns, spent>>

-----------------------------------------------------------------------------
(***************************************************************************)
(* Helpers                                                                 *)
(***************************************************************************)
Spend(m) ==
    /\ spent[m] < Limit[m]
    /\ Cardinality({k \in Mishaps : spent[k] > 0} \cup {m}) <= Kinds
    /\ spent' = [spent EXCEPT ![m] = @ + 1]

ds == generations[lastDesired]

(* buildConditions: the Ready reason, by strict priority.  Container health *)
(* is abstracted: every container that runs is taken to be healthy.         *)
Reason(err, store, limited, delegation) ==
    IF err THEN "ReconcileError"
    ELSE IF store THEN "AwaitingSecretStore"
    ELSE IF limited THEN "RateLimited"
    ELSE IF delegation THEN "AwaitingDnsDelegation" ELSE "InSync"

Reasons == {"ReconcileError", "AwaitingSecretStore", "RateLimited",
            "AwaitingDnsDelegation", "InSync", "Reconciling"}

Ready == Reason(lastReconcileErr, awaitingSecretStore, rateLimited, awaitingDns)

Heartbeat == status' = [gen |-> lastGeneration, reason |-> Ready]

Frame(kind, gen) == [kind |-> kind, gen |-> gen]

FrameKinds == CommandKinds \cup {"desired", "tampered", "closed"}

Connected == pc # "offline"

(* The last frame is the reader's error: nothing more comes down the stream. *)
Closed == stream # <<>> /\ stream[Len(stream)].kind = "closed"

RemoveAll(names) == [s \in Services |-> IF s \in names THEN Absent ELSE running[s]]

(* What a pgBackRest restore can bring back: the schema of a backup, or of  *)
(* a point in time after one.                                               *)
Restorable == repo \cup {r \in 0 .. schema["managed"] : \E b \in repo : b <= r}

Phases == {"begin", "stop", "final", "prepare", "edge", "postgres", "provision",
           "base", "migrate", "gitea", "services", "nginx", "prune"}

RestorePhases == {"remove_core", "remove_commerce", "remove_postgres",
                  "restore_start", "restore_wait"}

-----------------------------------------------------------------------------
Init ==
    /\ lastGeneration = 0 /\ lastDesired = 0
    /\ lastReconcileErr = FALSE /\ resyncDue = TRUE /\ window = FALSE
    /\ awaitingSecretStore = FALSE /\ awaitingDns = FALSE
    /\ rateLimited = FALSE /\ blocked = FALSE /\ acmeDelegation = FALSE
    /\ hadCert = FALSE /\ stopped = FALSE /\ restoring = FALSE
    /\ archiving = FALSE /\ hadFullBackup = FALSE
    /\ forceRecheckCh = FALSE /\ restoreCh = FALSE
    /\ backupCh = 0 /\ recreateCh = <<>> /\ forceRecreate = {}
    /\ pc = "offline" /\ force = {} /\ keep = {}
    /\ running = [s \in Services |-> Absent] /\ box = "none" /\ stale = {}
    /\ schema = [d \in Databases |-> 0] /\ repo = {} /\ cert = FALSE
    /\ generations = <<>> /\ stream = <<>>
    /\ status = [gen |-> 0, reason |-> "InSync"]
    /\ dns = FALSE /\ spent = [m \in Mishaps |-> 0]

-----------------------------------------------------------------------------
(***************************************************************************)
(* applyDesired and reapply.  The gate reads the values the handler has    *)
(* just written (lastDesired', restoring', window'); what it does not      *)
(* start it reports.                                                       *)
(***************************************************************************)
(* Mutant of Due: an unchanged generation is only retried by the resync. *)
MutDueOnce == lastDesired' # lastGeneration \/ (resyncDue /\ ~lastReconcileErr)

Due == lastDesired' # lastGeneration \/ lastReconcileErr \/ resyncDue

(* Mutant of Gate: a pending restore does not hold reconcile off. *)
MutGateOpen == ~window' /\ Due

Gate == ~restoring' /\ ~window' /\ Due

ApplyDesired ==
    IF Gate
    THEN /\ pc' = "begin"
         /\ resyncDue' = FALSE
         /\ UNCHANGED <<blocked, status>>
    ELSE /\ pc' = "select"
         /\ blocked' = IF restoring' THEN blocked
                       ELSE awaitingSecretStore \/ awaitingDns
         /\ Heartbeat
         /\ UNCHANGED resyncDue

Reapply ==
    IF lastDesired = 0
    THEN pc' = "select" /\ UNCHANGED <<blocked, status, resyncDue>>
    ELSE ApplyDesired

(* What no select case touches. *)
Untouched ==
    UNCHANGED <<lastGeneration, lastReconcileErr, blockVars, dbVars, hadCert,
                stopped, locals, schema, cert, generations, dns>>

-----------------------------------------------------------------------------
(***************************************************************************)
(* The select cases of Run: the stream.                                    *)
(***************************************************************************)
Receive(kind) ==
    /\ pc = "select" /\ stream # <<>> /\ Head(stream).kind = kind
    /\ stream' = Tail(stream)
    /\ Untouched
    /\ UNCHANGED <<docker, repo, spent>>

OnDesired ==
    /\ Receive("desired")
    /\ lastDesired' = Head(stream).gen
    /\ UNCHANGED <<restoring, window, queues, forceRecreate>>
    /\ ApplyDesired

(* A frame whose signature does not verify is reported and dropped. *)
OnTampered ==
    /\ Receive("tampered")
    /\ status' = [gen |-> lastGeneration, reason |-> "ReconcileError"]
    /\ UNCHANGED <<pc, handover, window, blocked, queues, forceRecreate>>

(* The terminal error of the reader: close the stream, sleep, reopen. *)
OnClosed ==
    /\ pc = "select" /\ stream # <<>> /\ Head(stream).kind = "closed"
    /\ stream' = <<>>
    /\ pc' = "offline"
    /\ Untouched
    /\ UNCHANGED <<handover, window, blocked, status, queues, forceRecreate,
                   docker, repo, spent>>

Idle == UNCHANGED <<pc, lastDesired, resyncDue, window, blocked, forceRecreate>>

OnForceRecheck ==
    /\ Receive("recheck") /\ Idle
    /\ forceRecheckCh' = TRUE
    /\ UNCHANGED <<restoring, status, recreateCh, backupCh, restoreCh>>

OnRequestStatus ==
    /\ Receive("status") /\ Idle
    /\ Heartbeat
    /\ UNCHANGED <<restoring, queues>>

(* stale records the operator's request; the code has no such variable. *)
OnRecreate ==
    /\ pc = "select" /\ stream # <<>> /\ Head(stream).kind = "recreate"
    /\ stream' = Tail(stream)
    /\ \E s \in RecreateTargets :
         /\ recreateCh' = IF Len(recreateCh) < RecreateCap
                          THEN Append(recreateCh, s) ELSE recreateCh
         /\ stale' = stale \cup {s}
    /\ Untouched /\ Idle
    /\ UNCHANGED <<restoring, status, forceRecheckCh, backupCh, restoreCh,
                   running, box, repo, spent>>

OnRunBackup ==
    /\ Receive("backup") /\ Idle
    /\ backupCh' = IF backupCh < BackupCap THEN backupCh + 1 ELSE backupCh
    /\ UNCHANGED <<restoring, status, forceRecheckCh, recreateCh, restoreCh>>

(* Reconcile is suspended at once; the restore itself waits for the select. *)
OnRestoreDB ==
    /\ Receive("restore") /\ Idle
    /\ restoring' = TRUE
    /\ restoreCh' = TRUE
    /\ UNCHANGED <<status, forceRecheckCh, recreateCh, backupCh>>

-----------------------------------------------------------------------------
(***************************************************************************)
(* The select cases of Run: tickers and queues.  They are served only      *)
(* while the stream is open.                                               *)
(***************************************************************************)
HeartbeatTick ==
    /\ pc = "select"
    /\ Heartbeat
    /\ Untouched /\ Idle
    /\ UNCHANGED <<restoring, queues, docker, repo, stream, spent>>

ResyncTick ==
    /\ pc = "select"
    /\ Untouched
    /\ UNCHANGED <<lastDesired, restoring, window, queues, forceRecreate,
                   docker, repo, stream, spent>>
    /\ Reapply

FastTick ==
    /\ blocked
    /\ ResyncTick

ServeRecheck ==
    /\ pc = "select" /\ forceRecheckCh
    /\ forceRecheckCh' = FALSE
    /\ window' = FALSE
    /\ Untouched
    /\ UNCHANGED <<lastDesired, restoring, recreateCh, backupCh, restoreCh,
                   forceRecreate, docker, repo, stream, spent>>
    /\ Reapply

ServeRecreate ==
    /\ pc = "select" /\ recreateCh # <<>>
    /\ recreateCh' = Tail(recreateCh)
    /\ forceRecreate' = forceRecreate \cup {Head(recreateCh)}
    /\ window' = FALSE
    /\ Untouched
    /\ UNCHANGED <<lastDesired, restoring, forceRecheckCh, backupCh, restoreCh,
                   docker, repo, stream, spent>>
    /\ Reapply

(* Exec answers with exit code 0: the backup is in the repository - or the *)
(* connection broke, and 0 is what Docker says of a command that still     *)
(* runs.  What becomes of such a backup is the subject of Backups.tla; here *)
(* it counts as none.                                                      *)
BackupTaken ==
    \/ repo' = repo \cup {schema["managed"]} /\ UNCHANGED spent
    \/ Spend("cut") /\ UNCHANGED repo

(* deploy.RunBackup: an exec in the Postgres container. *)
RunBackup ==
    \/ running["postgres"] # Absent /\ BackupTaken
    \/ /\ IF running["postgres"] = Absent THEN UNCHANGED spent ELSE Spend("fault")
       /\ UNCHANGED repo

(* runOnDemandBackup: skipped with an event unless backups are on. *)
ServeBackup ==
    /\ pc = "select" /\ backupCh > 0
    /\ backupCh' = backupCh - 1
    /\ IF archiving THEN RunBackup ELSE UNCHANGED <<repo, spent>>
    /\ Heartbeat
    /\ Untouched /\ Idle
    /\ UNCHANGED <<restoring, forceRecheckCh, recreateCh, restoreCh, docker, stream>>

(* runScheduledBackup *)
BackupTick ==
    /\ pc = "select" /\ archiving
    /\ RunBackup
    /\ Untouched /\ Idle
    /\ UNCHANGED <<restoring, status, queues, docker, stream>>

-----------------------------------------------------------------------------
(***************************************************************************)
(* runRestore.  Its deferred function - release, then reapply - runs on    *)
(* every way out.                                                          *)
(***************************************************************************)
CanRestore == lastDesired # 0 /\ HasBackups(ds)

(* Mutant of Release: the lock is not released. *)
MutLockKept == UNCHANGED <<lastDesired, restoring, window>> /\ Reapply

Release ==
    /\ restoring' = FALSE
    /\ UNCHANGED <<lastDesired, window>>
    /\ Reapply

(* Mutant of RestoreSkipped: the early return comes before the defer. *)
MutSkipUnreleased ==
    /\ pc = "select" /\ restoreCh /\ ~CanRestore
    /\ restoreCh' = FALSE
    /\ Untouched
    /\ UNCHANGED <<pc, handover, window, blocked, status, forceRecheckCh,
                   recreateCh, backupCh, forceRecreate, docker, repo, stream, spent>>

RestoreSkipped ==
    /\ pc = "select" /\ restoreCh /\ ~CanRestore
    /\ restoreCh' = FALSE
    /\ Untouched
    /\ UNCHANGED <<forceRecheckCh, recreateCh, backupCh, forceRecreate, docker,
                   repo, stream, spent>>
    /\ Release

RestoreBegin ==
    /\ pc = "select" /\ restoreCh /\ CanRestore
    /\ restoreCh' = FALSE
    /\ pc' = "remove_core"
    /\ Heartbeat
    /\ Untouched
    /\ UNCHANGED <<handover, window, blocked, forceRecheckCh, recreateCh,
                   backupCh, forceRecreate, docker, repo, stream, spent>>

(* An error of Remove is logged and ignored. *)
RestoreRemove(at, s, next) ==
    /\ pc = at /\ pc' = next
    /\ \/ running' = RemoveAll({s}) /\ UNCHANGED spent
       \/ Spend("removal") /\ UNCHANGED running
    /\ Untouched
    /\ UNCHANGED <<handover, window, blocked, status, queues, forceRecreate,
                   box, stale, repo, stream>>

RestoreRemoves ==
    \/ RestoreRemove("remove_core", "core-server", "remove_commerce")
    \/ RestoreRemove("remove_commerce", "commerce-service", "remove_postgres")
    \/ RestoreRemove("remove_postgres", "postgres", "restore_start")

(* RunToCompletion, up to ContainerStart: any leftover restore container is *)
(* removed first.                                                           *)
RestoreStart ==
    /\ pc = "restore_start"
    /\ box' = "running" /\ pc' = "restore_wait"
    /\ Untouched
    /\ UNCHANGED <<handover, window, blocked, status, queues, forceRecreate,
                   running, stale, repo, stream, spent>>

(* RunToCompletion returns an error; its deferred removal of the restore   *)
(* container may fail as well.                                             *)
BoxFails ==
    \/ Spend("fault") /\ box' = "none"
    \/ Spend("removal") /\ UNCHANGED box

RestoreNotStarted ==
    /\ pc = "restore_start"
    /\ BoxFails
    /\ Untouched
    /\ UNCHANGED <<queues, forceRecreate, running, stale, repo, stream>>
    /\ Release

RestoreSucceeds ==
    /\ pc = "restore_wait" /\ box = "running"
    /\ \E r \in Restorable : schema' = [schema EXCEPT !["managed"] = r]
    /\ box' = "none"
    /\ UNCHANGED <<lastGeneration, lastReconcileErr, blockVars, dbVars, hadCert,
                   stopped, locals, cert, generations, dns, queues,
                   forceRecreate, running, stale, repo, stream, spent>>
    /\ Release

(* pgbackrest exits non-zero (it must when there is no backup), or waiting *)
(* for the container fails while it runs on; then its deferred removal is  *)
(* all that stops it.                                                      *)
RestoreFails ==
    /\ pc = "restore_wait"
    /\ (Restorable = {} /\ box' = "none" /\ UNCHANGED spent) \/ BoxFails
    /\ Untouched
    /\ UNCHANGED <<queues, forceRecreate, running, stale, repo, stream>>
    /\ Release

Restore ==
    \/ RestoreSkipped \/ RestoreBegin \/ RestoreRemoves \/ RestoreStart
    \/ RestoreNotStarted \/ RestoreSucceeds \/ RestoreFails

-----------------------------------------------------------------------------
(***************************************************************************)
(* reconcile.  Every step ends in one of four ways: it goes on to the next *)
(* phase, it fails, it returns nil early because the operator has to act,  *)
(* or (the last one) it has converged.  The tail of applyDesired runs in   *)
(* the step that returns.                                                  *)
(***************************************************************************)
Phase(at) ==
    /\ pc = at
    /\ UNCHANGED <<handover, queues, cloud, dns>>

Continue(next) == pc' = next /\ UNCHANGED <<gateVars, spent>>

Settle(err) ==
    /\ pc' = "select"
    /\ lastReconcileErr' = err
    /\ blocked' = (awaitingSecretStore' \/ awaitingDns')
    /\ status' = [gen |-> lastGeneration',
                  reason |-> Reason(err, awaitingSecretStore', rateLimited', awaitingDns')]

(* Mutant of Fail: the error is not kept. *)
MutErrorDropped ==
    /\ Spend("fault")
    /\ window' = TRUE
    /\ UNCHANGED lastGeneration
    /\ Settle(FALSE)

(* Return an error: enterBackoff opens the window. *)
Fail ==
    /\ Spend("fault")
    /\ window' = TRUE
    /\ UNCHANGED lastGeneration
    /\ Settle(TRUE)

(* Return nil with a block standing. *)
Block ==
    /\ UNCHANGED <<lastGeneration, spent>>
    /\ Settle(FALSE)

Converge ==
    /\ window' = FALSE
    /\ lastGeneration' = lastDesired
    /\ UNCHANGED spent
    /\ Settle(FALSE)

(* Mutants of Begin: the deployment is still marked stopped when it starts; *)
(* no final backup is taken.                                                *)
MutStillStopped ==
    /\ Phase("begin")
    /\ force' = forceRecreate /\ forceRecreate' = {} /\ keep' = {}
    /\ Continue(IF ds.stopped THEN "stop"
                ELSE IF ds.external /\ archiving THEN "final" ELSE "prepare")
    /\ UNCHANGED <<stopped, blockVars, dbVars, hadCert, docker, disk>>

MutNoFinalBackup ==
    /\ Phase("begin")
    /\ force' = forceRecreate /\ forceRecreate' = {} /\ keep' = {}
    /\ stopped' = (stopped /\ ds.stopped)
    /\ Continue(IF ds.stopped THEN "stop" ELSE "prepare")
    /\ UNCHANGED <<blockVars, dbVars, hadCert, docker, disk>>

Begin ==
    /\ Phase("begin")
    /\ force' = forceRecreate /\ forceRecreate' = {} /\ keep' = {}
    /\ IF ds.stopped
       THEN Continue("stop") /\ UNCHANGED stopped
       ELSE /\ stopped' = FALSE
            /\ Continue(IF ds.external /\ archiving THEN "final" ELSE "prepare")
    /\ UNCHANGED <<blockVars, dbVars, hadCert, docker, disk>>

(* PruneExcept(keep) fails on one container: any of the others may be gone. *)
PruneFails(kept) ==
    /\ Fail
    /\ \E gone \in SUBSET (Services \ kept) : running' = RemoveAll(gone)
    /\ box' \in {box, "none"}

StopStack ==
    /\ Phase("stop")
    /\ \/ /\ running' = RemoveAll(Services) /\ box' = "none"
          /\ stopped' = TRUE
          /\ archiving' = FALSE
          /\ acmeDelegation' = FALSE
          /\ UNCHANGED <<awaitingSecretStore, awaitingDns, rateLimited>>
          /\ Converge
       \/ UNCHANGED <<stopped, archiving, blockVars>> /\ PruneFails({})
    /\ UNCHANGED <<hadFullBackup, hadCert, forceRecreate, locals, stale, disk>>

(* Managed to external: a last full backup, tried once, allowed to fail. *)
FinalBackup ==
    /\ Phase("final")
    /\ archiving' = FALSE
    /\ RunBackup
    /\ pc' = "prepare"
    /\ UNCHANGED <<gateVars, hadFullBackup, blockVars, hadCert, stopped,
                   forceRecreate, locals, docker, schema, cert>>

(* Sealed secrets, secret store, provisioning secrets, network and host    *)
(* directories.                                                            *)
Prepare ==
    /\ Phase("prepare")
    /\ UNCHANGED <<awaitingDns, rateLimited, acmeDelegation, dbVars, hadCert,
                   stopped, forceRecreate, locals, docker, disk>>
    /\ \/ /\ ~ds.secretStore
          /\ awaitingSecretStore' = TRUE
          /\ UNCHANGED window
          /\ Block
       \/ /\ ds.secretStore
          /\ awaitingSecretStore' = FALSE
          /\ Continue("edge") \/ Fail
       \/ UNCHANGED awaitingSecretStore /\ Fail

(* Mutant of Changed: a forced recreate compares specs all the same. *)
MutForceIgnored(s) == running[s] # SpecOf(s, ds)

(* deploy.Apply of one service: nothing to do when the spec is unchanged and *)
(* no recreate is forced, else remove, create and start.                     *)
Changed(s) == running[s] # SpecOf(s, ds) \/ s \in force

Applied(s) ==
    /\ running' = [running EXCEPT ![s] = SpecOf(s, ds)]
    /\ stale' = IF Changed(s) THEN stale \ {s} ELSE stale

(* A failed Apply of a changed spec may have removed the old container, or *)
(* even started the new one: see DockerApply.                              *)
NotApplied(s) ==
    /\ Fail
    /\ \/ UNCHANGED <<running, stale>>
       \/ Changed(s) /\ running' = RemoveAll({s}) /\ UNCHANGED stale
       \/ Changed(s) /\ Applied(s)

(* EnsureWildcard applies acme-dns without the force set. *)
AcmeDnsUp == running' = [running EXCEPT !["acme-dns"] = SpecOf("acme-dns", ds)]

WildcardIssued ==
    /\ cert \/ dns
    /\ AcmeDnsUp /\ cert' = TRUE /\ hadCert' = TRUE
    /\ acmeDelegation' = FALSE /\ awaitingDns' = FALSE /\ rateLimited' = FALSE
    /\ window' = FALSE
    /\ status' = IF hadCert THEN status
                 ELSE [gen |-> lastDesired, reason |-> "Reconciling"]
    /\ pc' = IF ds.external THEN "migrate" ELSE "postgres"
    /\ UNCHANGED <<awaitingSecretStore, lastGeneration, lastReconcileErr, blocked, spent>>

(* The delegation does not resolve, or Let's Encrypt does not see it yet. *)
WildcardAwaitingDns ==
    /\ ~cert
    /\ IF dns THEN Spend("edge") ELSE UNCHANGED spent
    /\ AcmeDnsUp
    /\ acmeDelegation' = TRUE /\ awaitingDns' = TRUE /\ rateLimited' = FALSE
    /\ UNCHANGED <<awaitingSecretStore, lastGeneration, window, cert, hadCert>>
    /\ Settle(FALSE)

WildcardRateLimited ==
    /\ ~cert /\ dns /\ Spend("edge")
    /\ AcmeDnsUp
    /\ awaitingDns' = FALSE /\ rateLimited' = TRUE
    /\ window' = TRUE
    /\ UNCHANGED <<awaitingSecretStore, acmeDelegation, lastGeneration, cert, hadCert>>
    /\ Settle(FALSE)

WildcardError ==
    /\ UNCHANGED <<blockVars, cert, hadCert>>
    /\ AcmeDnsUp \/ running' \in {running, RemoveAll({"acme-dns"})}
    /\ Fail

NoEdge ==
    /\ acmeDelegation' = FALSE /\ awaitingDns' = FALSE /\ rateLimited' = FALSE
    /\ Continue(IF ds.external THEN "migrate" ELSE "postgres")
    /\ UNCHANGED <<awaitingSecretStore, running, cert, hadCert>>

Edge ==
    /\ Phase("edge")
    /\ IF ds.edge
       THEN /\ keep' = keep \cup {"acme-dns"}
            /\ \/ WildcardIssued \/ WildcardAwaitingDns
               \/ WildcardRateLimited \/ WildcardError
       ELSE NoEdge /\ UNCHANGED keep
    /\ UNCHANGED <<dbVars, stopped, forceRecreate, force, box, stale, schema, repo>>

ReconcileFrame ==
    UNCHANGED <<blockVars, hadCert, stopped, forceRecreate, force, box, cert>>

(* Backup secrets and pgbackrest.conf, then the container. *)
ApplyPostgres ==
    /\ Phase("postgres")
    /\ ReconcileFrame
    /\ \/ /\ Applied("postgres") /\ keep' = keep \cup {"postgres"}
          /\ Continue("provision")
       \/ NotApplied("postgres") /\ UNCHANGED keep
    /\ UNCHANGED <<dbVars, schema, repo>>

(* WaitHealthy, EnsureManagedDatabase, EnsureStanza. *)
Provision ==
    /\ Phase("provision")
    /\ ReconcileFrame
    /\ Continue(IF HasBackups(ds) /\ ~hadFullBackup THEN "base" ELSE "migrate") \/ Fail
    /\ UNCHANGED <<dbVars, keep, running, stale, schema, repo>>

BaseBackup ==
    /\ Phase("base")
    /\ ReconcileFrame
    /\ \/ /\ BackupTaken
          /\ hadFullBackup' = TRUE /\ pc' = "migrate"
          /\ UNCHANGED gateVars
       \/ Fail /\ UNCHANGED <<repo, hadFullBackup>>
    /\ UNCHANGED <<archiving, keep, running, stale, schema>>

(* Mutant of Migrate: the exit code of a migration is ignored. *)
MutExitIgnored ==
    /\ Phase("migrate")
    /\ ReconcileFrame
    /\ archiving' = HasBackups(ds)
    /\ hadFullBackup' = (hadFullBackup /\ HasBackups(ds))
    /\ \/ /\ schema' = [schema EXCEPT ![Database(ds)] = IF @ < ds.image THEN ds.image ELSE @]
          /\ UNCHANGED spent
       \/ Spend("fault") /\ UNCHANGED schema
    /\ pc' = "gitea"
    /\ UNCHANGED <<gateVars, keep, running, stale, repo>>

(* The backup flags are settled first, then both migration containers run; *)
(* migrating to an older release changes nothing.                          *)
Migrate ==
    /\ Phase("migrate")
    /\ ReconcileFrame
    /\ archiving' = HasBackups(ds)
    /\ hadFullBackup' = (hadFullBackup /\ HasBackups(ds))
    /\ \/ /\ schema' = [schema EXCEPT ![Database(ds)] = IF @ < ds.image THEN ds.image ELSE @]
          /\ Continue("gitea")
       \/ Fail /\ UNCHANGED schema
    /\ UNCHANGED <<keep, running, stale, repo>>

(* Apply, WaitHealthy, ProvisionAdminToken - when the add-on is on. *)
Gitea ==
    /\ Phase("gitea")
    /\ ReconcileFrame
    /\ IF ds.gitea
       THEN \/ /\ Applied("gitea") /\ keep' = keep \cup {"gitea"}
               /\ Continue("services")
            \/ Applied("gitea") /\ keep' = keep \cup {"gitea"} /\ Fail
            \/ NotApplied("gitea") /\ UNCHANGED keep
       ELSE Continue("services") /\ UNCHANGED <<running, stale, keep>>
    /\ UNCHANGED <<dbVars, schema, repo>>

StartOrder == <<"redis", "nats", "commerce-service", "core-server">>

ApplyCore ==
    /\ Phase("services")
    /\ ReconcileFrame
    /\ \E i \in 1 .. 4 :
         /\ StartOrder[i] \notin keep
         /\ \A j \in 1 .. (i - 1) : StartOrder[j] \in keep
         /\ \/ /\ Applied(StartOrder[i]) /\ keep' = keep \cup {StartOrder[i]}
               /\ Continue(IF i < 4 THEN "services" ELSE IF ds.edge THEN "nginx" ELSE "prune")
            \/ NotApplied(StartOrder[i]) /\ UNCHANGED keep
    /\ UNCHANGED <<dbVars, schema, repo>>

(* Web bundles, nginx configuration, then the container. *)
EnsureNginx ==
    /\ Phase("nginx")
    /\ ReconcileFrame
    /\ \/ /\ Applied("nginx") /\ keep' = keep \cup EdgeServices
          /\ Continue("prune")
       \/ NotApplied("nginx") /\ UNCHANGED keep
    /\ UNCHANGED <<dbVars, schema, repo>>

(* The restore container is owned too: pruned with the rest. *)
Prune ==
    /\ Phase("prune")
    /\ UNCHANGED <<blockVars, hadCert, stopped, forceRecreate, locals, stale,
                   dbVars, disk>>
    /\ \/ running' = RemoveAll(Services \ keep) /\ box' = "none" /\ Converge
       \/ PruneFails(keep)

Reconcile ==
    \/ Begin \/ StopStack \/ FinalBackup \/ Prepare \/ Edge
    \/ ApplyPostgres \/ Provision \/ BaseBackup \/ Migrate
    \/ Gitea \/ ApplyCore \/ EnsureNginx \/ Prune

-----------------------------------------------------------------------------
(***************************************************************************)
(* The cloud, the network, the operator, the clock and the process.        *)
(***************************************************************************)
agent == <<gateVars, blockVars, dbVars, queues, locals, handover, hadCert,
           stopped, forceRecreate, pc>>

host == <<docker, disk>>

Open == Connected /\ ~Closed /\ Len(stream) < StreamCap

Publish ==
    /\ Len(generations) < MaxGen
    /\ \E c \in Configs : generations' = Append(generations, c)
    /\ IF Connected /\ ~Closed
       THEN Open /\ stream' = Append(stream, Frame("desired", Len(generations) + 1))
       ELSE UNCHANGED stream
    /\ UNCHANGED <<agent, host, dns, spent>>

LatestStopped == generations # <<>> /\ generations[Len(generations)].stopped

SendCommand ==
    /\ Open /\ Spend("command")
    /\ \E k \in Commands :
         /\ k = "restore" /\ CloudEnforcesStop => LatestStopped
         /\ stream' = Append(stream, Frame(k, 0))
    /\ UNCHANGED <<agent, host, generations, dns>>

(* A frame whose payload does not match its signature. *)
SendTampered ==
    /\ Open /\ Spend("drop")
    /\ stream' = Append(stream, Frame("tampered", 0))
    /\ UNCHANGED <<agent, host, generations, dns>>

(* The connection breaks: the frames the reader had not buffered are lost, *)
(* the ones before them are still delivered, then the error.               *)
Break ==
    /\ Connected /\ ~Closed /\ Spend("drop")
    /\ \E kept \in 0 .. Len(stream) :
         stream' = Append(SubSeq(stream, 1, kept), Frame("closed", 0))
    /\ UNCHANGED <<agent, host, generations, dns>>

(* The cloud pushes the current desired-state unless the agent knows it. *)
Subscribe ==
    /\ pc = "offline" /\ pc' = "select"
    /\ stream' = IF Len(generations) # lastGeneration
                 THEN <<Frame("desired", Len(generations))>> ELSE <<>>
    /\ UNCHANGED <<gateVars, blockVars, dbVars, queues, locals, handover, hadCert,
                   stopped, forceRecreate, host, generations, dns, spent>>

WindowPasses ==
    /\ window /\ pc \in {"select", "offline"}
    /\ window' = FALSE
    /\ UNCHANGED <<lastGeneration, lastReconcileErr, blocked, status, blockVars,
                   dbVars, queues, locals, handover, hadCert, stopped,
                   forceRecreate, pc, host, cloud, dns, spent>>

ResyncFallsDue ==
    /\ ~resyncDue /\ pc \in {"select", "offline"}
    /\ resyncDue' = TRUE
    /\ UNCHANGED <<gateVars, blockVars, dbVars, queues, locals, lastDesired,
                   restoring, hadCert, stopped, forceRecreate, pc, host, cloud,
                   dns, spent>>

DnsAdded ==
    /\ ~dns /\ dns' = TRUE
    /\ UNCHANGED <<agent, host, cloud, spent>>

DnsRemoved ==
    /\ dns /\ Spend("edge") /\ dns' = FALSE
    /\ UNCHANGED <<agent, host, cloud>>

CertExpires ==
    /\ cert /\ Spend("edge") /\ cert' = FALSE
    /\ UNCHANGED <<agent, docker, schema, repo, cloud, dns>>

(* A restore container that outlived its agent runs to its end. *)
OrphanEnds ==
    /\ box = "running" /\ pc # "restore_wait"
    /\ box' = "none"
    /\ \/ \E r \in Restorable : schema' = [schema EXCEPT !["managed"] = r]
       \/ UNCHANGED schema
    /\ UNCHANGED <<agent, running, stale, repo, cert, cloud, dns, spent>>

(* The process dies, or is told to stop, at any point, and is restarted:   *)
(* memory and queues are lost, containers, disk and cloud stay.            *)
Crash ==
    /\ Spend("crash")
    /\ lastGeneration' = 0 /\ lastDesired' = 0
    /\ lastReconcileErr' = FALSE /\ resyncDue' = TRUE /\ window' = FALSE
    /\ awaitingSecretStore' = FALSE /\ awaitingDns' = FALSE
    /\ rateLimited' = FALSE /\ blocked' = FALSE /\ acmeDelegation' = FALSE
    /\ hadCert' = FALSE /\ stopped' = FALSE /\ restoring' = FALSE
    /\ archiving' = FALSE /\ hadFullBackup' = FALSE
    /\ forceRecheckCh' = FALSE /\ restoreCh' = FALSE
    /\ backupCh' = 0 /\ recreateCh' = <<>> /\ forceRecreate' = {}
    /\ pc' = "offline" /\ force' = {} /\ keep' = {}
    /\ stream' = <<>>
    /\ UNCHANGED <<host, generations, status, dns>>

Serve ==
    \/ OnDesired \/ OnTampered \/ OnClosed \/ OnForceRecheck \/ OnRequestStatus
    \/ OnRecreate \/ OnRunBackup \/ OnRestoreDB
    \/ HeartbeatTick \/ ResyncTick \/ FastTick \/ BackupTick
    \/ ServeRecheck \/ ServeRecreate \/ ServeBackup

Environment ==
    \/ Publish \/ SendCommand \/ SendTampered \/ Break
    \/ WindowPasses \/ ResyncFallsDue
    \/ DnsAdded \/ DnsRemoved \/ CertExpires \/ OrphanEnds \/ Crash

Next == Serve \/ Restore \/ Reconcile \/ Subscribe \/ Environment

Spec == Init /\ [][Next]_vars

-----------------------------------------------------------------------------
(***************************************************************************)
(* Types                                                                   *)
(***************************************************************************)
Generation == 0 .. MaxGen

Frames == [kind : FrameKinds, gen : Generation]

GateOK ==
    /\ lastGeneration \in Generation
    /\ lastReconcileErr \in BOOLEAN /\ window \in BOOLEAN /\ blocked \in BOOLEAN
    /\ status \in [gen : Generation, reason : Reasons]

BlockOK ==
    /\ awaitingSecretStore \in BOOLEAN /\ awaitingDns \in BOOLEAN
    /\ rateLimited \in BOOLEAN /\ acmeDelegation \in BOOLEAN

DbOK == archiving \in BOOLEAN /\ hadFullBackup \in BOOLEAN

QueuesOK ==
    /\ forceRecheckCh \in BOOLEAN /\ restoreCh \in BOOLEAN
    /\ backupCh \in 0 .. BackupCap
    /\ recreateCh \in Seq(RecreateTargets) /\ Len(recreateCh) <= RecreateCap

LocalsOK == force \subseteq RecreateTargets /\ keep \subseteq Services

DockerOK ==
    /\ running \in [Services -> Specs \cup {Absent}]
    /\ box \in {"none", "running"}
    /\ stale \subseteq RecreateTargets

DiskOK == schema \in [Databases -> Nat] /\ repo \subseteq Nat /\ cert \in BOOLEAN

CloudOK ==
    /\ generations \in Seq(Configs) /\ Len(generations) \in Generation
    /\ stream \in Seq(Frames)

HandoverOK ==
    /\ lastDesired \in Generation
    /\ restoring \in BOOLEAN /\ resyncDue \in BOOLEAN

RestOK ==
    /\ hadCert \in BOOLEAN /\ stopped \in BOOLEAN /\ dns \in BOOLEAN
    /\ forceRecreate \subseteq RecreateTargets
    /\ pc \in {"offline", "select"} \cup Phases \cup RestorePhases
    /\ spent \in [Mishaps -> Nat]

(* Every variable stays in its type; backupCh and recreateCh never hold    *)
(* more than the channels of the code can.                                 *)
TypeOK ==
    /\ GateOK /\ BlockOK /\ DbOK /\ QueuesOK /\ LocalsOK /\ DockerOK
    /\ DiskOK /\ CloudOK /\ HandoverOK /\ RestOK

-----------------------------------------------------------------------------
(***************************************************************************)
(* Safety                                                                  *)
(***************************************************************************)

(* From the moment a RestoreDB command is read until the restore is over,  *)
(* no reconcile is in progress: neither the auto-start push nor a ticker   *)
(* nor an operator command brings the stack up under a pending restore.    *)
NoReconcileWhileRestoring == restoring => pc \notin Phases

(* Reconcile is suspended only while a restore is queued or being done, so *)
(* something will release it; and no queued restore goes unguarded.        *)
RestoringIsQueued == restoring <=> (restoreCh \/ pc \in RestorePhases)

(* While the agent waits for the restore container it has Postgres down:   *)
(* the restore has PGDATA to itself.  Holds as long as the removals that   *)
(* come before it, whose errors are ignored, succeed.                      *)
RestoreOwnsCluster ==
    pc = "restore_wait" /\ spent["removal"] = 0 => running["postgres"] = Absent

(* pgbackrest.go, RestoreSpec: "The live Postgres container MUST be        *)
(* stopped first".  PGDATA never has both a restore and a server on it -   *)
(* also when the restore outlives the agent that began it.                 *)
RestoreAlone == box = "running" => running["postgres"] = Absent

(* The migrations of its release, on the database it connects to, have run *)
(* before an app container is up - across upgrades, rollbacks, changes of  *)
(* database and restores of an older schema.  A restore whose agent crashes *)
(* or that meets a failed removal can end when newer containers are up.    *)
SchemaCoversApps ==
    spent["removal"] = 0 /\ spent["crash"] = 0 =>
    \A s \in Apps : running[s] # Absent =>
        running[s].image <= schema[Database(running[s])]

(* An InSync report tells the truth: whenever the loop is at its select    *)
(* with nothing to complain of, exactly the containers of the generation   *)
(* it reports are running, with the specs of that generation.  It relies   *)
(* on the cloud sending RestoreDB to stopped deployments only: the reapply *)
(* that follows a restore can be refused by the gate.                      *)
HonestStatus ==
    pc = "select" /\ Ready = "InSync" /\ lastGeneration # 0
        => running = Stack(generations[lastGeneration])

(* The agent never refuses to reconcile silently: inside a backoff window  *)
(* what it reports is an error or a rate limit.                            *)
HoldIsReported == window => Ready \in {"ReconcileError", "RateLimited"}

(* A deployment marked stopped has no container up and no backup schedule. *)
StoppedIsDown ==
    stopped => ~archiving /\ \A s \in Services : running[s] = Absent

(* Scheduled and on-demand backups run only on top of a full backup, which *)
(* incrementals need: while the schedule is on there is a backup, unless   *)
(* the connection to one was lost, which the agent takes for a success.    *)
ArchivingHasBackup ==
    archiving => hadFullBackup /\ (repo # {} \/ spent["cut"] > 0)

(* The managed database of a deployment that had backups on is not pruned  *)
(* for an external one unless its latest state is in a backup, or taking   *)
(* it failed or lost its connection, or a crash made the agent forget that *)
(* backups were on, or a restore ran after the final backup with Postgres  *)
(* still up.                                                               *)
FinalBackupBeforeTeardown ==
    [][ /\ pc = "prune" /\ ds.external
        /\ running["postgres"] # Absent /\ running'["postgres"] = Absent
        /\ running["postgres"].archive
        => \/ schema["managed"] \in repo
           \/ \E m \in {"fault", "cut", "crash", "removal"} : spent[m] > 0 ]_vars

(* A Recreate command is not lost: until the container is replaced, the    *)
(* request is in the queue or marked for the reconcile to come.  The marks *)
(* are drained first, so a reconcile that fails or is held for the         *)
(* operator forgets them; and a full queue drops what more it is asked.    *)
RecreateKept ==
    /\ spent["fault"] = 0 /\ spent["crash"] = 0
    /\ spent["command"] <= RecreateCap
    /\ \A i \in 1 .. Len(generations) : generations[i].secretStore /\ ~generations[i].edge
    => \A s \in stale : running[s] # Absent /\ pc = "select" =>
           s \in forceRecreate \/ \E i \in 1 .. Len(recreateCh) : recreateCh[i] = s

-----------------------------------------------------------------------------
(***************************************************************************)
(* Fairness and liveness.  Handlers run to their end, the clock runs, a    *)
(* dropped stream is reopened, and Go's select picks among the ready cases *)
(* at random, so a case that is ready again and again is picked.           *)
(***************************************************************************)
Receives ==
    \/ OnDesired \/ OnTampered \/ OnClosed \/ OnForceRecheck \/ OnRequestStatus
    \/ OnRecreate \/ OnRunBackup \/ OnRestoreDB

Fairness ==
    /\ WF_vars(Reconcile)
    /\ WF_vars(Subscribe)
    /\ SF_vars(Restore)
    /\ SF_vars(Receives)
    /\ SF_vars(ResyncTick)
    /\ SF_vars(WindowPasses)
    /\ SF_vars(ResyncFallsDue)

FairSpec == Spec /\ Fairness

(* The suspension of reconcile always ends. *)
RestoreEnds == restoring ~> ~restoring

Latest == generations[Len(generations)]

(* What the operator owes a generation before it can converge. *)
Servable ==
    /\ generations # <<>> /\ Latest.secretStore
    /\ Latest.edge => dns

Converged ==
    /\ generations # <<>>
    /\ lastGeneration = Len(generations)
    /\ running = Stack(Latest)
    /\ status.gen = Len(generations)
    /\ Latest.stopped \/ status.reason = "InSync"

(* Mishaps are bounded, so they end; after that the stack reaches the last *)
(* published generation, stays there, and the cloud is told so, whatever   *)
(* was lost, failed, blocked or restarted on the way.  (A stopped stack    *)
(* may be reported as blocked: a stop leaves the block flags standing.)    *)
EventuallyInSync == <>[]Servable => <>[]Converged
=============================================================================
