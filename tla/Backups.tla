------------------------------- MODULE Backups -------------------------------
(***************************************************************************)
(* Backups of the managed database (internal/deploy/pgbackrest.go and the  *)
(* parts of internal/agent/agent.go that use it): the secrets are          *)
(* validated, the configuration is written, the stanza and a first full    *)
(* backup are made, a ticker and the operator take more, pgBackRest        *)
(* expires old ones, and the inventory and the topology are reported.      *)
(*                                                                         *)
(* When a reconcile is due is the matter of AgentLoop: here one may begin  *)
(* whenever nothing else is going on.  So are restores.                    *)
(***************************************************************************)
EXTENDS Integers, Sequences, FiniteSetsExt

CONSTANTS
    Retention,     \* of the desired-state: full backups kept, 0 if unset
    FullEvery,     \* every how manieth scheduled backup is full (24 in the code)
    Folders,       \* bound: what the secret store may hold in /agent/backup
    Labels,        \* bound: backups have 0 .. Labels - 1 for labels, in turn
    MaxRepo,       \* bound: backups there are when the operator asks for one
    Limit,         \* bound: how often each kind of mishap or change happens
    Kinds          \* bound: how many kinds of them meet in a behaviour

Values == {"absent", "blank", "text"}

(* pass1, pass2: the passphrases; s3: the least of the four credentials.   *)
Secrets == [pass1 : Values, pass2 : Values, s3 : Values]

(* fault: a call fails; torn: a write stops half-way; refresh: the         *)
(* inventory cannot be read; cut: the connection to a command is lost      *)
(* while the command goes on; lapse: a reconcile that turns backups off     *)
(* fails with the new Postgres up; the others are a crash, and changes of  *)
(* the desired-state and of the secrets.                                   *)
Mishaps == {"fault", "torn", "refresh", "cut", "lapse", "crash", "plan", "folder"}

(* Desired-states: backups on, off, an external database, and two that are *)
(* stopped, with backups on and off.                                       *)
Plans == {"on", "off", "external", "stopped", "stoppedOff"}

ASSUME BackupsAssumption ==
    /\ Retention \in Nat /\ FullEvery \in Nat \ {0} /\ Labels \in Nat \ {0}
    /\ Folders \subseteq Secrets /\ MaxRepo \in Nat
    /\ Limit \in [Mishaps -> Nat] /\ Kinds \in Nat

VARIABLES
    plan, folder,          \* the desired-state the agent has; the secret store
    (* memory of the agent: backupInfo is the set of the inventory last     *)
    (* read, empty for nil; tick counts modulo FullEvery                     *)
    archiving, hadFullBackup, stopped, backupState, backupInfo, tick, pc,
    (* Docker and the disk *)
    postgres,              \* the container: "down", "plain" or "archiving"
    running,               \* a backup that goes on unattended in it, or "none"
    conf,                  \* pgbackrest.conf: its topology, "none" or "torn"
    stanza, repo, last,    \* the repository, oldest first, and the last label
    chained,               \* history: WAL is whole since some backup
    spent                  \* mishaps and changes used up

flags == <<archiving, hadFullBackup, stopped>>
memory == <<flags, backupState, backupInfo, tick>>
repository == <<stanza, repo, last, chained>>
world == <<postgres, running, conf, repository>>
vars == <<plan, folder, memory, pc, world, spent>>

-----------------------------------------------------------------------------
Spend(m) ==
    /\ spent[m] < Limit[m]
    /\ Cardinality({k \in Mishaps : spent[k] > 0} \cup {m}) <= Kinds
    /\ spent' = [spent EXCEPT ![m] = @ + 1]

(* strings.TrimSpace(v) == "" *)
Blank(v) == v # "text"

(* ValidateBackupSecrets *)
Valid(s) == ~Blank(s.pass1) /\ (Blank(s.pass2) \/ ~Blank(s.s3))

(* BackupState *)
StateOf(s) == IF Blank(s.pass2) THEN "local" ELSE "local+offsite"

(* Mutant of Rendered: the credentials alone switch the second one on. *)
MutCredentialsSuffice(s) == IF s.s3 # "absent" THEN "local+offsite" ELSE "local"

(* RenderPgBackRestConf compares without trimming. *)
Rendered(s) == IF s.pass2 # "absent" /\ s.s3 # "absent" THEN "local+offsite" ELSE "local"

Topologies == {"local", "local+offsite"}

Kept == IF Retention >= 1 THEN Retention ELSE 4

Fulls(r) == {i \in 1 .. Len(r) : r[i].full}

(* pgBackRest expires what is older than the full backups it keeps, the    *)
(* newest ones.                                                            *)
KeptFulls(r) ==
    {i \in Fulls(r) : Cardinality({j \in Fulls(r) : j > i}) < Kept}

Expire(r) ==
    IF Cardinality(Fulls(r)) <= Kept THEN r ELSE SubSeq(r, Min(KeptFulls(r)), Len(r))

(* A first incremental backup becomes a full one.  Any backup is a base    *)
(* for the WAL that follows it.                                            *)
Made(type) ==
    /\ chained' = TRUE
    /\ last' = (last + 1) % Labels
    /\ repo' = Expire(Append(repo, [label |-> last', full |-> type = "full" \/ Fulls(repo) = {}]))
    /\ UNCHANGED stanza

Works == postgres = "archiving" /\ stanza /\ conf \in Topologies /\ running = "none"

(* Exec ignores the error of its stream and takes the exit code of a       *)
(* command that still runs, 0: then a backup counts as taken.              *)
RunBackup(type, ok) ==
    \/ ok /\ Works /\ Made(type) /\ UNCHANGED <<running, spent>>
    \/ ok /\ Works /\ Spend("cut") /\ running' = type /\ UNCHANGED repository
    \/ ~ok /\ ~Works /\ UNCHANGED <<running, repository, spent>>
    \/ ~ok /\ Works /\ Spend("fault") /\ (Made(type) \/ UNCHANGED repository) /\ UNCHANGED running

(* pgbackrest info: a configuration that lacks the passphrase shows no     *)
(* backups; if it fails the inventory of before stays.                     *)
CollectBackupInfo ==
    \/ /\ backupInfo' = {IF conf \in Topologies THEN repo ELSE <<>>}
       /\ UNCHANGED spent
    \/ UNCHANGED backupInfo /\ Spend("refresh")
    \/ conf \notin Topologies /\ UNCHANGED <<backupInfo, spent>>

Init ==
    /\ plan = "on" /\ folder \in Folders
    /\ archiving = FALSE /\ hadFullBackup = FALSE /\ stopped = FALSE
    /\ backupState = "off" /\ backupInfo = {} /\ tick = 0 /\ pc = "idle"
    /\ postgres = "down" /\ running = "none" /\ conf = "none"
    /\ stanza = FALSE /\ repo = <<>> /\ last = 0 /\ chained = FALSE
    /\ spent = [m \in Mishaps |-> 0]

-----------------------------------------------------------------------------
(* Reconcile *)

Down == postgres' = "down" /\ running' = "none"

Stop ==
    /\ pc = "idle" /\ plan \in {"stopped", "stoppedOff"}
    /\ \/ /\ Down /\ stopped' = TRUE /\ archiving' = FALSE
          /\ IF plan = "stopped" THEN CollectBackupInfo
             ELSE backupInfo' = {} /\ UNCHANGED spent
       \/ /\ Spend("fault") /\ (Down \/ UNCHANGED <<postgres, running>>)
          /\ UNCHANGED <<stopped, archiving, backupInfo>>
    /\ UNCHANGED <<plan, folder, hadFullBackup, backupState, tick, pc, conf, repository>>

Begin ==
    /\ pc = "idle" /\ plan \in {"on", "off", "external"}
    /\ stopped' = FALSE
    /\ IF plan = "external" /\ archiving
       THEN archiving' = FALSE /\ pc' = "final"
       ELSE UNCHANGED archiving /\ pc' = "prepare"
    /\ UNCHANGED <<plan, folder, hadFullBackup, backupState, backupInfo, tick, world, spent>>

(* Whatever becomes of the final backup. *)
FinalBackup ==
    /\ pc = "final" /\ pc' = "prepare"
    /\ \E ok \in BOOLEAN : RunBackup("full", ok)
    /\ UNCHANGED <<plan, folder, memory, postgres, conf>>

(* The secret store, the network or the edge fail or hold the reconcile.   *)
Held ==
    /\ pc = "prepare" /\ pc' = "idle"
    /\ UNCHANGED <<plan, folder, memory, world, spent>>

(* A fetch that fails is one of an empty folder. *)
Prepared ==
    /\ pc = "prepare"
    /\ \/ /\ plan = "on" /\ Valid(folder) /\ UNCHANGED spent
          /\ backupState' = StateOf(folder) /\ pc' = "conf"
       \/ /\ plan = "on" /\ backupState' = "off" /\ pc' = "idle"
          /\ IF Valid(folder) THEN Spend("fault") ELSE UNCHANGED spent
       \/ /\ plan # "on" /\ UNCHANGED spent
          /\ backupState' = "off"
          /\ pc' = IF plan = "off" THEN "postgres" ELSE "settle"
    /\ UNCHANGED <<plan, folder, flags, backupInfo, tick, world>>

WriteConf ==
    /\ pc = "conf"
    /\ \/ conf' = Rendered(folder) /\ pc' = "postgres" /\ UNCHANGED spent
       \/ conf' \in {conf, Rendered(folder)} /\ pc' = "idle" /\ Spend("fault")
       \/ conf' = "torn" /\ pc' = "idle" /\ Spend("torn")
    /\ UNCHANGED <<plan, folder, memory, postgres, running, repository>>

(* Apply, WaitHealthy and EnsureManagedDatabase.  A new container takes    *)
(* what ran in the old one with it; one without archiving breaks the chain *)
(* of WAL.                                                                 *)
ApplyPostgres ==
    LET wanted == IF plan = "on" THEN "archiving" ELSE "plain" IN
    /\ pc = "postgres"
    /\ \/ /\ postgres' = wanted /\ UNCHANGED spent
          /\ pc' = IF plan = "on" THEN "stanza" ELSE "settle"
       \/ /\ postgres' \in {postgres, "down", wanted} /\ pc' = "idle"
          /\ Spend(IF plan = "off" /\ postgres' = "plain" THEN "lapse" ELSE "fault")
    /\ running' = IF postgres' = postgres THEN running ELSE "none"
    /\ chained' = (chained /\ postgres' # "plain")
    /\ UNCHANGED <<plan, folder, memory, conf, stanza, repo, last>>

EnsureStanza ==
    /\ pc = "stanza"
    /\ \/ /\ running = "none"
          /\ \/ stanza' = TRUE /\ UNCHANGED spent
             \/ UNCHANGED stanza /\ Spend("cut")
          /\ pc' = IF hadFullBackup THEN "settle" ELSE "initial"
       \/ running # "none" /\ pc' = "idle" /\ UNCHANGED <<stanza, spent>>
       \/ stanza' \in {stanza, TRUE} /\ pc' = "idle" /\ Spend("fault")
    /\ UNCHANGED <<plan, folder, memory, postgres, running, conf, repo, last, chained>>

InitialBackup ==
    /\ pc = "initial"
    /\ \E ok \in BOOLEAN :
          /\ RunBackup("full", ok)
          /\ hadFullBackup' = ok /\ pc' = IF ok THEN "settle" ELSE "idle"
    /\ UNCHANGED <<plan, folder, archiving, stopped, backupState, backupInfo, tick, postgres, conf>>

(* Mutant of Settle: a full backup is taken once and for all. *)
MutNeverReset ==
    /\ pc = "settle" /\ pc' = "rest"
    /\ archiving' = (plan = "on") /\ UNCHANGED hadFullBackup
    /\ IF archiving' THEN CollectBackupInfo ELSE backupInfo' = {} /\ UNCHANGED spent
    /\ UNCHANGED <<plan, folder, stopped, backupState, tick, world>>

(* archiving, hadFullBackup and refreshBackupInfo *)
Settle ==
    /\ pc = "settle" /\ pc' = "rest"
    /\ archiving' = (plan = "on")
    /\ hadFullBackup' = (hadFullBackup /\ archiving')
    /\ IF archiving' THEN CollectBackupInfo ELSE backupInfo' = {} /\ UNCHANGED spent
    /\ UNCHANGED <<plan, folder, stopped, backupState, tick, world>>

(* What follows fails, or ends in the prune, which keeps a managed Postgres. *)
Rest ==
    /\ pc = "rest" /\ pc' = "idle"
    /\ \/ Spend("fault") /\ UNCHANGED <<postgres, running>>
       \/ UNCHANGED spent /\ IF plan = "external" THEN Down ELSE UNCHANGED <<postgres, running>>
    /\ UNCHANGED <<plan, folder, memory, conf, repository>>

-----------------------------------------------------------------------------
(* Scheduled and requested backups *)

(* Mutant of BackupTick: the inventory is read after successes only. *)
MutRefreshOnSuccess ==
    /\ pc = "idle" /\ archiving /\ tick' = (tick + 1) % FullEvery
    /\ \E ok \in BOOLEAN :
          /\ RunBackup(IF tick' = 0 THEN "full" ELSE "incr", ok)
          /\ pc' = IF ok THEN "refresh" ELSE "idle"
    /\ UNCHANGED <<plan, folder, flags, backupState, backupInfo, postgres, conf>>

BackupTick ==
    /\ pc = "idle" /\ archiving /\ pc' = "refresh"
    /\ tick' = (tick + 1) % FullEvery
    /\ \E ok \in BOOLEAN : RunBackup(IF tick' = 0 THEN "full" ELSE "incr", ok)
    /\ UNCHANGED <<plan, folder, flags, backupState, backupInfo, postgres, conf>>

OnDemandBackup(type) ==
    /\ pc = "idle" /\ archiving /\ pc' = "refresh"
    /\ Len(repo) < MaxRepo
    /\ \E ok \in BOOLEAN : RunBackup(type, ok)
    /\ UNCHANGED <<plan, folder, memory, postgres, conf>>

RefreshBackupInfo ==
    /\ pc = "refresh" /\ pc' = "idle" /\ CollectBackupInfo
    /\ UNCHANGED <<plan, folder, flags, backupState, tick, world>>

-----------------------------------------------------------------------------
(* The world *)

(* A backup left to itself ends, well or not. *)
BackgroundEnds ==
    /\ running # "none" /\ running' = "none"
    /\ Made(running) \/ UNCHANGED repository
    /\ UNCHANGED <<plan, folder, memory, pc, postgres, conf, spent>>

(* The command of a dead agent goes on in the container. *)
Crash ==
    /\ Spend("crash")
    /\ \/ UNCHANGED running
       \/ pc \in {"initial", "final"} /\ Works /\ running' = "full"
       \/ pc = "idle" /\ archiving /\ Works /\ running' \in {"full", "incr"}
    /\ conf' \in {conf} \cup IF pc = "conf" THEN {"torn"} ELSE {}
    /\ archiving' = FALSE /\ hadFullBackup' = FALSE /\ stopped' = FALSE
    /\ backupState' = "off" /\ backupInfo' = {} /\ tick' = 0 /\ pc' = "idle"
    /\ UNCHANGED <<plan, folder, postgres, repository>>

(* The agent reads both once in a reconcile, so it is enough that they     *)
(* change between two.                                                     *)
Change ==
    /\ pc = "idle"
    /\ \/ plan' \in Plans \ {plan} /\ UNCHANGED folder /\ Spend("plan")
       \/ folder' \in Folders \ {folder} /\ UNCHANGED plan /\ Spend("folder")
    /\ UNCHANGED <<memory, pc, world>>

Steps ==
    \/ FinalBackup \/ WriteConf \/ ApplyPostgres \/ EnsureStanza \/ InitialBackup
    \/ Settle \/ Rest \/ RefreshBackupInfo

Next ==
    \/ Stop \/ Begin \/ Held \/ Prepared \/ Steps
    \/ BackupTick \/ \E type \in {"full", "diff", "incr"} : OnDemandBackup(type)
    \/ BackgroundEnds \/ Crash \/ Change

Spec == Init /\ [][Next]_vars

(* Reconciles and the ticker recur, what holds a reconcile is cleared in   *)
(* the end, calls return.                                                  *)
FairSpec ==
    /\ Spec
    /\ SF_vars(Stop \/ Begin) /\ SF_vars(Prepared) /\ SF_vars(BackupTick)
    /\ WF_vars(Steps) /\ WF_vars(BackgroundEnds)

-----------------------------------------------------------------------------
(* While the agent counts on backups, the stanza is there, a full backup   *)
(* is in the repository, whatever has expired, and some backup is later    *)
(* than the last time Postgres ran without archiving: a recovery to any    *)
(* later moment is possible.  A reconcile that fails after it has          *)
(* restarted Postgres without archiving never resets hadFullBackup, and a  *)
(* backup whose connection is lost counts as taken.                        *)
BaseIsFresh ==
    archiving /\ pc = "idle" /\ spent["lapse"] = 0 /\ spent["cut"] = 0 =>
        stanza /\ Fulls(repo) # {} /\ chained

(* Between two handlers the inventory that heartbeats report is the        *)
(* repository's, also after backups that failed, ran on after a crash or   *)
(* were expired; of a stopped deployment it is that or nothing.            *)
InventoryIsCurrent ==
    pc = "idle" /\ (\A m \in {"refresh", "cut", "torn"} : spent[m] = 0) =>
        /\ archiving => backupInfo = {repo}
        /\ stopped /\ conf # "torn" => backupInfo \in {{}, {repo}}

(* Once backups stay asked for and the secrets valid, the agent ends up    *)
(* with backups on, a base, and the topology it reports in use, whatever   *)
(* failed, crashed or was left running before.  A second passphrase of     *)
(* blanks is validated and reported as absent, and written as it is.       *)
EventuallyProtected ==
    <>[](plan = "on" /\ Valid(folder) /\ folder.pass2 # "blank") =>
        <>[](pc = "idle" => archiving /\ Fulls(repo) # {} /\ backupState = conf)
=============================================================================
