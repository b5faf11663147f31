# Verification of the Vritti application agent

The application agent runs on a customer's host, keeps a stream open to the
cloud, and converges a Docker stack (Postgres, Redis, NATS, the core and
commerce services, Gitea, nginx, acme-dns) towards the signed desired-state the
cloud publishes. This directory holds TLA+ models of the agent, the TLC
configurations that check them on small instances, and TLAPS proofs of the
properties that matter most.

To check a run: `tlc -config <run>.cfg <MC module>` (see the table of runs). To
check the proofs: `tlapm M.tla` for the modules `AgentLoop_proof`,
`Backups_proof`, `Dockerx_proof`, `EdgeCert_proof`, `Enroll_proof`,
`GiteaToken_proof`, `Reporting_proof` and `WebBundles_proof`.

## The system

| component | source | state it keeps | operations | hard part |
|---|---|---|---|---|
| Run loop and reconcile | `internal/agent/agent.go`, `cmd/agent/main.go` | in memory only: the generation converged on, the last desired-state, the backoff window, block flags, stopped / restoring / archiving, command queues | one `select` over stream frames, tickers and queues; `reconcile`; `runRestore`; backups; status reports | everything is forgotten in a crash while containers and data stay; a gate decides whether a reconcile runs; commands race with pushes; steps fail half-way |
| Deployment specs | `internal/deploy/{deploy,specs,reconcile}.go` | none | which services, with which spec; `Apply` recreates a container whose spec hash changed | a service that is not in the keep set is pruned |
| Timeline and status | `internal/agent/agent.go` | events not yet reported; what was told last; the backoff | emit, step, emitError, emitBlock; report | told once, never forgotten; reports whose answer is lost |
| Backup and restore | `internal/deploy/pgbackrest.go`, `internal/agent/agent.go` | the configuration and the repository; in memory: whether a base was taken, the inventory last read | validate, configure, stanza, backups of three triggers, inventory, restore container | PGDATA must have one owner; archiving needs a base backup; commands in a container outlive the agent |
| Log manager | `internal/agent/logs.go` | cancel functions by target | start, stop, one goroutine per tail | tails of one target overlap; cancellation races batches |
| Following logs | `internal/dockerx/dockerx.go` `FollowLogs` | pipes, a bounded channel | StdCopy, two scanners, a joiner | five goroutines wait on one another |
| Managed edge | `internal/deploy/{nginx,acme}.go` | on disk: certificate, key, acme-dns account, account key, `vritti.conf`; in memory: the delegation shown to the operator | pre-flight, order, write, configure, reload | a human in the loop, rate limits, files written in pairs, nginx reads files only when told to |
| Web bundles | `internal/deploy/webbundle.go` | tree and marker per bundle | resolve, pull, replace, mark | tags move between two requests; partial trees |
| Gitea token | `internal/gitea/gitea.go` | `gitea-state.json` | ensure admin, delete, generate, save | one secret in three places |
| Docker client | `internal/dockerx/dockerx.go` | none | pull, compare, remove, create, start, prune, exec, wait | partial effects of failed calls; the world changes between two of them |
| Cloud client | `internal/cloudapi` | none | the stream, reports, unary calls | frames lost with the stream |
| Enrollment and keys | `internal/enroll`, `internal/agentcrypto/keys.go` | `agent-keys.json`, `enrollment.json` | load or create the key pairs, exchange a one-time token | the token is used up before the credential is on disk; the credential is bound to keys that must not be lost |
| Sealing, secret provider, rendering of env and secrets, database initialisation, host metrics, configuration, generated code | | none that matters to the rest | | |

How they interact. The Run loop is a single goroutine: it calls reconcile, the
deploy package, the Gitea client and the restore synchronously, and nothing
else is served meanwhile. A second goroutine reads the stream into a channel;
when the stream breaks it delivers one terminal error. Each log tail has its own
goroutines, and shares only the manager's map (under a mutex) with the loop.
The agent and the rest of the world meet in Docker (containers survive the
agent), on the disk, and in the operator's DNS.

What makes each part correct:

* Run loop: a pending restore holds reconcile off and is released in the end;
  commands are not forgotten; the status tells the truth; a hold is reported; a
  stopped deployment stays down; after whatever failed, the stack converges.
* Timeline and status: an event is neither lost nor overtaken, and repeated only
  when the cloud's answer was lost; an error, a block and a success that the status
  shows have their event; failures back off.
* Database: applications never run ahead of their migrations; archiving has a
  base backup with no gap in the WAL behind it; the inventory shown is the
  repository's; a managed database is backed up before it is torn down; the
  restore has PGDATA to itself.
* Logs: a watched target is tailed and an unwatched one is not; lines arrive in
  order; nobody sends on a closed channel; stopped tails end.
* Edge: certificate and key belong together unless a write was interrupted, nginx
  serves what is on disk, Let's Encrypt is not asked in vain, and an operator who
  does as told gets an edge.
* Bundles: a sync that succeeds leaves whole bundles, no older than asked for.
* Gitea: core-server's token works.
* Apply: a running container is given up only for the one that replaces it, and
  an Apply that succeeds has done what it was asked.
* Enrollment: the credential and the keys belong together, and one token is
  enough for a lifetime unless the agent never got to keep what it bought.

## The modules

| module | models | extends / instantiates |
|---|---|---|
| `Deployment` | the desired-state, container specs, which services belong to it | |
| `AgentLoop` | Run loop, reconcile, restore, backups, crash and network | `Deployment` |
| `EventReport` | timeline events, their requeueing, repetition, the status and the backoff | |
| `Backups` | backup secrets, configuration, stanza, scheduled and requested backups, expiry, inventory | |
| `ServiceApply` | abstract: what `deploy.Apply` promises of one service | |
| `DockerApply` | Apply call by call, with Docker and the registry; implements `ServiceApply` | `INSTANCE ServiceApply` |
| `Enroll` | keys and enrollment of a starting agent | |
| `LogFeed` | abstract: what the lines channel promises its reader | |
| `FollowLogs` | FollowLogs' goroutines; implements `LogFeed` | `INSTANCE LogFeed` |
| `LogTails` | the log manager over many tails; FollowLogs is a producer that may hang | |
| `EdgeCert` | wildcard certificate, key, nginx, operator | |
| `WebBundles` | bundle synchronisation against a registry | |
| `GiteaToken` | token provisioning | |
| `AgentLoop_proof`, `Backups_proof`, `EdgeCert_proof`, `Enroll_proof`, `GiteaToken_proof`, `WebBundles_proof` | theorems about the module of that name | the module, `TLAPS` |
| `Reporting_proof` | theorems about `EventReport` and `LogTails`: what the cloud is told | `EventReport`, `LogTails`, `TLAPS` |
| `Dockerx_proof` | theorems about `DockerApply` and `FollowLogs`: what the Docker client does | `DockerApply`, `FollowLogs`, `TLAPS` |
| `MC*` | values of constants for TLC | the module |

`LogTails` and `FollowLogs` share a proof module with a second component, and so
name their specification and its parts after themselves (`TailsSpec`, `TailsTypeOK`;
`FollowSpec`, `FollowTypeOK`).

Definitions named `Mut...` are variations of the definition they precede, with
a plausible bug in it; no specification uses them. Each property is checked to
fail when its variation replaces the definition.

### AgentLoop

The loop is sequential, so a handler is one action, except that `reconcile` and
`runRestore` are cut into one action per external interaction: the agent can
crash, a call can fail, the cloud can publish, and a restore container left by
an earlier life of the agent can end, between any two. `pc` is the place in
that sequence: `select`, `offline` (between two streams), or a phase.

* Select cases: `OnDesired`, `OnTampered`, `OnClosed`, `OnForceRecheck`,
  `OnRequestStatus`, `OnRecreate`, `OnRunBackup`, `OnRestoreDB` (frames);
  `HeartbeatTick`, `ResyncTick`, `FastTick`, `BackupTick` (tickers);
  `ServeRecheck`, `ServeRecreate`, `ServeBackup`, `RestoreSkipped`,
  `RestoreBegin` (queues).
* `Gate` and `ApplyDesired` are `applyDesired`: what is not started is reported.
  They read primed variables, because the handler has just assigned them. The
  tail of `applyDesired` - backoff, block flag, status - is `Settle`, and is part
  of the step in which reconcile returns: `Fail`, `Block` or `Converge`.
* Phases: `Begin`, `StopStack`, `FinalBackup`, `Prepare` (secrets, secret store,
  network), `Edge` (the outcomes of `EnsureWildcard`), `ApplyPostgres`,
  `Provision`, `BaseBackup`, `Migrate`, `Gitea`, `ApplyCore` (one step per
  service, in order), `EnsureNginx`, `Prune`.
* Restore: `RestoreRemoves` (three removals, whose errors are ignored),
  `RestoreStart`, `RestoreNotStarted`, `RestoreSucceeds`, `RestoreFails`; each
  way out ends in `Release`, the deferred function that reapplies.
* Time is abstracted to two facts: `window` (inside a backoff) and `resyncDue`
  (five minutes since the last reconcile).
* Data: a container is Absent or its spec; a spec is what makes its hash differ;
  the database is the release its schema is at; a backup is the release it would
  restore. Containers that run are taken to be healthy.
* `stale` is a history variable (services with a Recreate since their container
  was created), and `spent` counts mishaps; the code has neither.

### EventReport

The same goroutine as `AgentLoop`, seen from the cloud. `AgentLoop` keeps what a
handler does to the host and when it may run; here a reconcile may run whenever
the backoff window is over, and takes its outcomes in any order. Of the events there
are those the properties tell apart: errors, blocks, the first certificate, completion
and stop, a refused frame, backups, and one kind of progress step that stands for all
of them; with the flags and memories that decide whether they are told, and every report.

* An event has a number, in the order of emission; `timeline` is what the cloud
  has taken in. `emitted`, `lost`, `mark`, `born`, `fails` and `issued` are history
  variables, as are the numbers.
* Handlers: `OnDesired`, `Reapply` (resync, fast re-check), `Nudge`
  (ForceRecheck and Recreate, which end the window), `HeartbeatTick`, `OnTampered`, `OnRunBackup`,
  `BackupDone`, `BackupTick`. Phases of reconcile: `StopStack`, `Prepare`, `Edge`,
  `ProvisionStep`, `ProvisionFails`, `Complete`.
* A handler that reports ends in `pc = "report"`; then `Arrives`, `NotSent` or
  `AnswerLost` (the cloud has taken the events in, the agent puts them back).
* `StepEvent`, `ErrorEvent` and `BlockEvent` are `step`, `emitError` and `emitBlock`, with
  the memory each keeps of what it said last.
* The backoff counts in units of `backoffBase`, doubles, and is capped by `Cap`;
  `held` says whether its window is still running.

### Backups

From the secrets to the inventory. `folder` is what the secret store has in
`/agent/backup`, each value absent, of blanks, or with text, because the validation
trims (`pgbackrest.go:49`) and the rendering does not (`pgbackrest.go:103`). A
reconcile is cut at each call: `Begin`, `FinalBackup`, `Prepared`, `WriteConf`,
`ApplyPostgres`, `EnsureStanza`, `InitialBackup`, `Settle`, `Rest`, with `Held` for the
steps before the database that fail or hold, and `Stop` for a stopped deployment.
`BackupTick` and `OnDemandBackup` are followed by `RefreshBackupInfo`.

pgBackRest and the container it runs in are external, and modelled by what the
code counts on: a backup needs a Postgres with archiving, a stanza, a whole
configuration and the lock (`Works`); it expires what is older than the full
backups it keeps (`Expire`, `KeptFulls`); a command started with `Exec` goes on when the agent
dies or its connection is lost (`running`, `BackgroundEnds`), and `Exec` then takes
the exit code of a running command, 0, for success (`dockerx.go:706`). `backupInfo` is
a set of at most one inventory, `tick` counts modulo `FullEvery`, and `chained`, a history
variable, says that Postgres has not run without archiving since some backup.

### ServiceApply, DockerApply

`DockerApply` cuts `deploy.Apply` into the calls it makes: `Pull`, `Compare`,
`RemoveOld`, `Create`, `StartBox` (of `Run`, or `EnsureStarted` when the spec is
unchanged). `Fault` is a failing call or a crash at any of them, with or without
the call's effect; `PullBroken` is a pull whose progress stream, which
`PullImage` drains unread (`dockerx.go:158`), ends in an error. Image references move
(`MoveTag`), the desired-state changes under an Apply, containers end or are removed
by hand. Digests are positions in the history of a reference. A lookup by name
and the call on the id it returned are one step: what goes in between is an
error of the call. `asked` and `disturbed` are history variables.

`ServiceApply` says what the rest of the agent may rely on, and is the reason why
`AgentLoop` has three outcomes of an Apply: the new container (`Applied`), and, in
`NotApplied`, the old one, none, or the new one with an error. The refinement
mapping hides the calls: `running` is the spec of a container that is up, and the
promise is forced until the old container has been removed.

### Enroll

What `agent.New` and `enroll.Run` do to the two files before the loop begins. A
key pair is a serial, a credential is known by the token it was given for, and
`bound` is the cloud's record of the keys each token was used with (the cloud is
external: it accepts a token once). `keyFile` and `enrollment` may be torn: `os.WriteFile`
truncates first. The container is restarted when the agent exits, and an operator
whose agent does not come up starts it with another token (`PasteToken`).

### LogFeed, FollowLogs, LogTails

`FollowLogs` has one action per blocking operation of each goroutine: the
demultiplexer (`CopyRead`, and the write that completes in `ScanRead`, since a
pipe is a rendezvous), the two scanners, FollowLogs itself (`CloseConn`, `Join`),
the goroutine that closes the channel, and the reader. A frame stands for one
line. It begins before the logs are opened, which may fail (`OpenFails`,
`dockerx.go:492`). `LogFeed` is the contract the log manager relies on: nothing before the
logs are open, per stream in order and without a gap, bounded, nothing sent after the
close; the channel is closed once - at once when the logs could not be opened, and
otherwise only after the cancellation. `FeedIsHonoured` is that contract as a property; the
refinement mapping is the identity on `lines`, `sent`, `cancelled` and `closed`, and the
logs are `opened` once there has been a connection.

`LogTails` has many tails of a target and the cloud that counts viewers.
FollowLogs is there a producer that may send, may fail to open and may hang for
ever: nothing is assumed of it beyond `LogFeed`. A push (`Flush`) runs in the context of
the whole agent, not of the tail (`logs.go:88`): it reaches the cloud, fails of itself, or is
cut off once that context is cancelled (`Shutdown`, a SIGTERM); the batch is forgotten in
each case (`logs.go:92`). `taken`, `landed` and `refused` are history: the lines received,
those that reached the cloud, and those of pushes that failed of themselves, which are
lost.

### EdgeCert

Follows a reconcile from the pre-flight to the nginx reload, and the files it
leaves: `chain` and `key` hold the serial of the order that produced them, so
that a pair that does not match can be told. `prev` is the delegation in memory,
`target` the CNAME the pre-flight looked for. nginx is what it last loaded.
Operator, base-domain changes, renewals, a full disk and crashes interleave; `cut`, a
history variable, has the base domains whose last `writeCert` was interrupted.
`AgentLoop` keeps the outcomes of this component (`Wildcard...`) only.

### WebBundles and GiteaToken

`WebBundles`: digests are positions in the registry's history, so "no older
than" can be said; a tree between wipe and the end of the extract is `Partial`; a
marker cut short is `Torn`. `GiteaToken`: a token is its serial; the three places
it lives in are `valid` (Gitea), `file` and `env` (core-server). `LostGenerate` is an answer
of generate that is an error, `CutGenerate` one whose stream broke off: `Exec` ignores that
(`dockerx.go:708`), and what was read is saved as the token (`Garbled`).

## The runs

Passing runs (all explore the complete state space of their bounds):

| run | asks | bounds, and why they are enough |
|---|---|---|
| `AgentLoop_safety` | one command of any kind among changes of release, backups, database mode and the stopped flag: `NoReconcileWhileRestoring`, `RestoringIsQueued`, `StoppedIsDown`, `SchemaCoversApps`, `HonestStatus`, `RecreateKept`, `FinalBackupBeforeTeardown` | 4 configurations (with backups, upgraded with Gitea, external database, stopped), 2 generations, every ordered pair of them; any two of: a failing call, a failing removal, a lost connection to a backup, a crash, a lost or forged frame, a command. That is enough for a push before, during and after a restore, for a restore of an older schema under newer images, and for a crash or a failure in the middle of any command. 1.1 million states |
| `AgentLoop_live` | `RestoreEnds`, `EventuallyInSync` | any two of a failing call, a crash, a restore and a mishap of the edge (records removed, certificate expired, slow propagation or rate limit), two generations out of stopped / no secret store / managed edge with backups. 69 thousand states |
| `EventReport` | `NothingIsSkipped`, `OnlyLostAnswersRepeat`, `StatusIsExplained`, `FailuresBackOff`, `EventsArrive` | five events, two generations (edge to stopped and back, no store to an edge of one's own), one error message besides the forged one, one progress step, a backoff cap of 4 (three doublings); one mishap of any kind. Five events cover a failure or a block, its end, a second occurrence and what is put back behind it. 468 thousand states |
| `Backups` | `BaseIsFresh`, `InventoryIsCurrent`, `EventuallyProtected` | five contents of the folder (whole, local only, a passphrase of blanks, missing credentials, invalid), one full backup kept and every second scheduled one full, so that expiry happens; two changes of plan and one of each mishap, any two kinds together. The safety properties also hold with three kinds together (1.9 million states). 286 thousand states |
| `DockerApply` | `PromiseIsKept` (the refinement), `RecreateIsFresh`, `OldOutlivesPull`, `EventuallyUp` | two specs, two digests of each, two faults, and one Recreate, broken pull, change, exit and removal: a fault in an Apply and another in its retry. 146 thousand states |
| `Enroll` | `CredentialFitsKeys`, `BoundKeysAreKept`, `ComesUp` | two crashes, one each of an unreadable file, a torn key file, another failing call and a cleared directory; six tokens and seven key pairs, more than these can use up |
| `LogTails` | `RegisteredIsLive`, `StopCutsNothing`, `StoppedEnds`, `WatchedIsTailed` | one target and two tails (targets share nothing but the map; two tails give one that unwinds and one that replaces it), channel of 1, batches of 2, three lines a tail (a full batch and one in hand), one command in flight, a shutdown. 774 thousand states |
| `FollowLogs` | `FeedIsHonoured`, `LinesAreDelivered`, `EndedReturns` | two streams of three lines, channel of 2: both streams fill the channel and block; any line may be too long, and the logs may fail to open. 27 thousand states |
| `EdgeCert` | `PairMatches`, `ConfIsServed`, `OrdersArePrepared`, `EdgeIsServed` | two base domains and two changes (there and back), one renewal, a crash, a full disk, two failing calls, seven orders: more than these mishaps can use up while nothing loops; at the seventh Let's Encrypt rate-limits. 1.4 million states |
| `WebBundles` | `SyncedIsWhole`, `NginxHasHost`, `WebRootFollows` | two bundles, the host one last (first, a failure elsewhere could not meet a missing host), three digests, two moves, one move back, two failures, a crash |
| `GiteaToken` | `TokenWorks`, `CoreIsConnected` | six tokens, two failures, two crashes, a cut answer, a wiped state directory, a database restore: two lost answers in a row and a crash on top |

`TypeOK` is no property of the runs: it is proved, in the modules that have
theorems. `RestoreOwnsCluster`, `HoldIsReported`, `ArchivingHasBackup` (AgentLoop) and
`EnrolledForGood` (Enroll) are proved too and not run.

Deadlock is checked, except in the three runs of the log modules and in `Enroll`:
there the system really stops (a cancelled tail has ended and no viewer comes
back; an agent that is up has left the module).

The run that finds what a comment says violated:

| run | what the source says | what happens |
|---|---|---|
| `Claim_restore_crash` | `pgbackrest.go:305`: the live Postgres container MUST be stopped first | `restoring` lives in memory. The agent crashes in `restore_wait`; the restore container runs on; the restarted agent reconciles and starts Postgres on the same PGDATA |

### Conditions on the properties

Some properties hold only until a particular mishap, and then say so in their
premise (`spent[...] = 0`). Each premise marks a weakness of the code that
dropping it makes TLC exhibit. The property then says nothing about that weakness, and
`PROJECT.json` says so in the note of the hazard:

* `RestoreOwnsCluster`: `agent.go:537` only logs a removal that failed, and the
  restore then runs over the live cluster.
* `SchemaCoversApps`: the same, and an orphaned restore that ends after the
  stack is up again.
* `HonestStatus` needs `CloudEnforcesStop`. If a running deployment is restored,
  the reapply at the end passes the gate of `applyDesired` (`agent.go:392`) and
  can be refused - same generation, resync not due - although `agent.go:504` says
  "release the restore lock and reconcile": the stack stays down, reported InSync,
  until a resync.
* `RecreateKept`: `agent.go:744` drains the marks first, so a reconcile that
  fails, or is held for the secret store or the edge, before it gets to the service
  forgets the request; and a full queue drops it, although `agent.go:171` says "the queued
  ones already cover the same intent": they may be for other services. Hence the premises:
  no fault and no crash, no generation that can be held, and no more commands than
  the queue holds.
* `FinalBackupBeforeTeardown`: `agent.go:794` asks the in-memory `archiving`, which a
  crash clears; and after a removal that failed a restore may bring the schema back to
  one that no backup was taken of, under the Postgres the teardown then prunes.
* `EventuallyInSync`: the reason in the status of a stopped deployment may be a
  stale block for ever, since `agent.go:771` clears `acmeDelegation` and leaves
  `awaitingDns`, `awaitingSecretStore` and `rateLimited`.
* `BaseIsFresh`: a reconcile that turns backups off and fails after Postgres has been
  recreated without archiving never gets to `agent.go:1057`, so `hadFullBackup` survives
  and a re-enable takes no base backup, although `agent.go:1055` says "reset so a
  re-enable takes a fresh base backup": until the next scheduled backup the WAL has a
  gap (`spent["lapse"]`). And a first backup whose connection is lost counts as taken
  (`dockerx.go:706`); `ArchivingHasBackup` and `FinalBackupBeforeTeardown` except the same.
* `InventoryIsCurrent`: an inventory that cannot be read leaves the old one, and a backup
  that goes on after its connection is lost changes the repository unseen.
* `EventuallyProtected`: a second passphrase of blanks makes the agent report "local"
  (`pgbackrest.go:69`) and configure the offsite repository with blanks for a
  passphrase.
* `FailuresBackOff`: `agent.go:970` resets the backoff whenever the certificate is in
  place, before provisioning, so that on a managed edge a dependency that keeps
  failing is retried every `backoffBase`, although `agent.go:44` promises an
  exponential backoff.
* `StatusIsExplained`: for a block, a first certificate and a converged generation it asks
  for an event of this life of the agent, not for one of this occurrence.
* `OnlyLostAnswersRepeat`: events carry no identity, so the cloud cannot tell a
  repetition after a lost answer.
* `LinesAreDelivered`: a line over the scanner's 1 MB ends that scanner
  (`dockerx.go:511`), its pipe is not closed, and StdCopy blocks for both streams.
* `WatchedIsTailed`: a tail that ends by itself is not restarted until a viewer asks.
* `EndedReturns`: it asks for a stream that has ended. While Docker keeps it open, a
  scanner blocked on the channel may leave on cancellation with StdCopy in a write
  to its pipe, which nobody reads or closes; the other pipe is then never closed
  and `wg.Wait` (`dockerx.go:526`) never returns: goroutines leak, although
  `dockerx.go:525` closes the connection to "unblock StdCopy".
* `RecreateIsFresh`, `OldOutlivesPull`: an error inside the progress stream of a pull
  is not noticed (`dockerx.go:158`), so a Recreate may run the image at hand, and a
  container may go for an image that is not there.
* `CredentialFitsKeys`, `BoundKeysAreKept` and the proved `EnrolledForGood`: any error of reading the
  key file counts as a first run (`keys.go:45`), so a file that is there and cannot
  be read is overwritten; the cached credential then belongs to keys that are gone.
* `ComesUp`: a key file cut short by a crash fails every later start (`keys.go:47`).
* `PairMatches` needs no such premise: it says which pairs may differ, those whose last
  `writeCert` was interrupted (`acme.go:421`).
* `StopCutsNothing`, `StoppedEnds`: a shutdown of the agent cancels the pushes too. A push
  that fails loses its lines in any case (`logs.go:89`).
* `ConfIsServed`: a reconcile that fails between writing the configuration and
  the reload is followed by one that finds the file unchanged.
* `OrdersArePrepared`, `EdgeIsServed`: after a change of base domain the pre-flight
  uses the delegation of the old one (`nginx.go:158`) or any account
  (`acme.go:215`), and orders may go out in vain without an end.
* `SyncedIsWhole`, `WebRootFollows`: the marker stands while the tree is
  replaced (`webbundle.go:118`), so a tag moved back to it hides a partial tree.
* `TokenWorks`, `CoreIsConnected`: a cached token is returned without asking
  Gitea (`gitea.go:36`), whose tables a database restore has taken back in time; and the
  same goes for a token whose line was cut short.

More statements of the sources that the code does not honour and no
property covers. WildcardOutcomeIssued means that "a usable wildcard cert is on disk"
(`acme.go:161`), while `certNeedsIssue` parses the chain only (`nginx.go:141`): after a crash or
a full disk between the two writes of `writeCert` the next reconcile goes on to nginx with
a certificate that is not its key's, until the renew window. A tail "exists only while someone looks" (`logs.go:22`), while after
a stop and a start the old tail's deferred delete (`logs.go:67`) takes away the
entry of the new one, which the next stop then does not find. The resync keeps "the
wildcard cert renewed" (`agent.go:42`), while renewed files have the same paths,
`vritti.conf` does not change, and nginx is not reloaded. ForceRecheck "reconciles immediately" (`agent.proto:107`), while it
clears the backoff only and the gate may still refuse; a Start "re-converges the
instant the cloud clears the flag" (`agent.go:749`), while the backoff of a
failed stop holds it. Likewise the 10 second re-check of a blocked deployment
(`agent.go:47`) does nothing when it blocks at the generation it has converged on.

Observed while modelling, and allowed by the models: the buffer of events has no
limit while the cloud is away; a recovery at a generation whose completion has been
announced is not announced again; a second forged frame, with nothing successful in
between, has no event of its own; after secrets have become invalid the reported
topology is "off" while scheduled backups go on; each restart of the agent takes
another initial full backup, which may expire an older one.

### Fairness

* `AgentLoop`: a handler in progress continues (`WF` of `Reconcile`: calls return),
  a dropped stream is reopened (`WF` of `Subscribe`), and time passes
  (`WindowPasses`, `ResyncFallsDue`). Go's `select` picks at random among the ready
  cases, so a case that is ready infinitely often is taken (`SF` of `Receives`,
  `ResyncTick` and `Restore`); weak fairness would not do, because a ready case is
  disabled while a handler runs. `WindowPasses` and `ResyncFallsDue` are strongly fair
  for the same reason. Nothing is assumed of the cloud, the operator or mishaps,
  which are bounded. `EventuallyInSync` asks for a latest generation that can be
  served: its secret store is configured and, with a managed edge, the records
  stay.
* `EventReport`: a handler that has begun ends (`WF` of `Reconcile`, `BackupDone` and
  `Report`), the heartbeat is served again and again (`SF`, as the other tickers), and a
  report that is sent again and again arrives in the end (`SF` of `Arrives`).
* `Backups`: reconciles and the ticker recur, what holds a reconcile is cleared in the
  end (`SF`: all three are disabled while another handler runs), calls return, and a
  backup left alone ends.
* `LogTails`: goroutines are scheduled and the loop serves its commands; the
  select of a tail takes `ctx.Done` in the end, all as long as no SIGTERM has come: after
  one the process may end at any moment. Nothing is assumed of the feed.
* `FollowLogs`: goroutines are scheduled; Docker may be silent for ever.
* `EdgeCert`: reconciles recur (resync) and the operator adds what is shown.
* `WebBundles`, `GiteaToken`, `DockerApply`: reconciles recur, and their calls return.
* `Enroll`: Docker restarts an agent that exits, its calls return, and an operator
  whose agent keeps failing with the token it has gets another one (`SF`: the agent
  is up in between).

## The theorems

All are proved for every value of the constants that satisfies the `ASSUME`s of
the module (bounds are natural numbers, configurations are desired-states), so
for any number of generations, queue capacities, mishaps, lines, orders and
base domains.

`AgentLoop_proof`

| theorem | shows |
|---|---|
| `TypeCorrect` | `TypeOK`, from `TypeInv` = `TypeOK` and `Numbering`: a generation the agent holds has been published, and while a handler works on a desired-state there is one. Without it `generations[lastDesired]` could be anything. |
| `RestoreHoldsReconcile`, `RestoreLockJustified` | `NoReconcileWhileRestoring` and `RestoringIsQueued`. Neither is inductive alone. `RestoreInv` adds that the queue is empty while a restore is in progress; then the gate keeps every handler from starting a reconcile, and each way out of runRestore both empties and releases. |
| `RestoreHasCluster` | `RestoreOwnsCluster`, from `ClusterInv`: already at `restore_start`, the step before, Postgres is gone - or a removal has failed, which stays counted - and only reconcile, which `RestoreInv` keeps out, starts containers. |
| `HoldsAreReported` | `HoldIsReported`, from `HoldInv`: the window is down while reconcile runs, and the secret store check has passed before the edge. |
| `StoppedStaysDown` | `StoppedIsDown`, from an invariant that no phase after `Begin` runs with `stopped` set, other than the stop itself. |
| `BackupsHaveBase` | `ArchivingHasBackup`, from an invariant that follows `hadFullBackup` through the phases of reconcile: it is set only after a backup that was reported taken, and none goes away, so the repository has one unless the connection to a backup was lost (`spent["cut"]`). |
| `ReportsAreHonest` | `HonestStatus`, given `CloudEnforcesStop`. The claim has to hold at every return of reconcile, so `KeepInv` follows a reconcile from service to service - the containers of `keep` run with the specs of the desired-state at hand, and at the prune `keep` is the whole stack - and `HonestInv` carries the claim through the states in which nothing runs but the select loop, and through a restore. The last step of a restore needs `StreamInv`: frames are in order, a `RestoreDB` in flight follows a desired-state that is stopped, so an agent that is up to date while restoring has converged on a stopped one. |
| `StreamInvariant` | `StreamInv`, the invariant just named |
| `AppsMeetTheirSchema` | `SchemaCoversApps`, from `SchemaInv`: past the migration of a reconcile the schema is that of its release, and a restore has removed the apps before it takes the schema back |
| `TeardownHasBackup` | the action property `FinalBackupBeforeTeardown`, from `FinalInv`: a Postgres that archives is under a schedule, which the teardown asks about, or its data is in the repository already; only the phases between Apply and Migrate, and a backup whose connection was lost, are exempt |
| `RecreatesAreKept` | `RecreateKept`. `TallyInv` bounds the queue: some function numbers the positions of the stream so that each Recreate frame counts one, and the queue with all that is still to be read is no more than the commands there have been, so the queue never overflows. `RecreateInv` then follows a request from the queue to the marks to the reconcile that serves it. |

`Reporting_proof`: EventReport

| theorem | shows |
|---|---|
| `ReportTypeCorrect` | `TypeOK` |
| `TimelineIsComplete`, `TimelineIsExact` | `NothingIsSkipped` and `OnlyLostAnswersRepeat`, about `Told`, the timeline followed by the buffer: every step of the agent appends to it, a report that arrives leaves it as it is, one that loses its answer repeats its end, a crash cuts it. `Numbered` adds that what is told has been emitted. |
| `StatusHasGrounds` | `StatusIsExplained`, from `Grounds`: what each of the three memories says was told last is on the timeline or in the buffer and recent enough, so that when an event is not repeated the earlier one still explains the status; and a report about to be sent has its event in what it delivers. Recent enough is, for an error, since the last reconcile that succeeded, and otherwise since the agent started. |
| `FailuresKeepDistance` | `FailuresBackOff`, which is inductive. What takes work is that the recursive function `PowerOfTwo` is defined: no induction theorem of the library can be used, so `LeastNatural` (every set of numbers has a least one) is proved from the well-foundedness of inclusion on finite sets, and `DoublesReach` argues from the least length that no function reaches. |

`Reporting_proof`: LogTails

| theorem | shows |
|---|---|
| `TailsTypeCorrect` | `TailsTypeOK`, with `BatchHasRoom`: a tail that waits for lines has room for one |
| `NothingIsCut` | `StopCutsNothing`, from an account of every line taken: as long as the agent lives, those a tail has taken are those that landed, those of pushes that failed of themselves, and those of its batch, whether or not the tail was cancelled |
| `EntriesAreLive` | `RegisteredIsLive`: an unwinding tail deletes an entry, never adds one, and a stop cancels exactly the tail whose entry it removes |

`GiteaToken_proof`

| theorem | shows |
|---|---|
| `GiteaTypeCorrect` | `TypeOK` |
| `TokenIsGood` | `TokenWorks`, from `Agreement`: without a restore of the database and a token cut short, a usable file holds the token that is valid in Gitea, and between generate and save the token at hand is that one |

`Dockerx_proof`: FollowLogs

| theorem | shows |
|---|---|
| `FollowTypeCorrect` | `FollowTypeOK`, from `FollowInvariant` |
| `FollowImplementsFeed` | `FeedIsHonoured`, that is `FollowSpec => Feed!Spec`: every step of FollowLogs is a step of `LogFeed` or leaves its variables alone. The invariant needed: when FollowLogs has returned, both scanners are gone and it was cancelled, or the logs were never opened and nothing has been read (`Idle`, `Joined`). |

`Dockerx_proof`: DockerApply

| theorem | shows |
|---|---|
| `ApplyTypeCorrect` | `TypeOK` |
| `ApplyKeepsPromise` | `PromiseIsKept`, that is `Spec => Service!Spec`: every step of DockerApply is a step of `ServiceApply` or leaves its variables alone. The invariant needed, `Places`, ties `pc` to what has been done: after the removal there is no container until it is created, a removal that is not forced has no container of the wanted spec to remove, and what `EnsureStarted` finds is a container of the wanted spec, or none because another hand has been in it. |
| `RecreateRunsFresh` | `RecreateIsFresh`, from `Freshness`: once pulled, the image at hand is no older than `asked`, because tags only move forward |
| `OldOutlivesBadPull` | the action property `OldOutlivesPull`, from `ImageInv`: once a pull that did not break has returned, the image asked for is on the host until the Apply ends |

`Enroll_proof`

| theorem | shows |
|---|---|
| `EnrollTypeCorrect` | `TypeOK` |
| `CredentialIsGood`, `KeysAreKept` | `CredentialFitsKeys` and `BoundKeysAreKept`. Neither is inductive. `Agreement` adds that, as long as no file was unreadable, the keys in memory past the write are the ones on disk, a handshake is under way only without a usable enrollment, and a usable enrollment is bound to the keys on disk; `Holding`, that a running agent has the credential of its file. |
| `OneEnrollment` | `EnrolledForGood`: no step of the agent takes a usable enrollment away |

`EdgeCert_proof`

| theorem | shows |
|---|---|
| `EdgeTypeCorrect` | `TypeOK`, with the counting of orders |
| `CertificateHasKey` | `PairMatches`, from `PairInv`, with no premise on what crashes or fails: between the two writes the chain on disk is the one of the current order, and an interrupted write disturbs the pair of its own base domain only (`InterruptedStep`) |
| `PreflightPreparesOrders` | `OrdersArePrepared`, from `OneAccount`: while the base domain stays the same there is one account, every delegation and CNAME points to it, and an order goes out only with no account or with live records |
| `ConfigurationIsServed` | `ConfIsServed`, from `ServedInv`: as long as nothing has failed, nginx has the configuration on disk, or is about to be reloaded, or is down before its first one, and every configuration written has a whole certificate |

`WebBundles_proof`

| theorem | shows |
|---|---|
| `HostIsThere` | `NginxHasHost`, from `MarkersInv`: every bundle the sync has passed has a marker, and no marker goes away |
| `SyncLeavesWhole` | `SyncedIsWhole`, from `WholeInv`, which holds while no tag moves back: a marker is never ahead of its tree or its tag, so one that equals the tag vouches for the tree (`MarkerInv`); what is renewed is older than what was resolved (`RenewInv`); and what the sync has passed is whole, also when the list names a bundle twice (`BehindInv`) |

`Backups_proof`

| theorem | shows |
|---|---|
| `BaseStaysFresh` | `BaseIsFresh`. `ControlInv` says which flags go with which phase; `BaseInv` extends the property to every state but the one between a Postgres recreated without archiving and the reset of `hadFullBackup`. That expiry never takes the last full backup (`ExpireKeepsFull`) needs the least and the greatest member of a set of positions (`LeastNatural`, `GreatestNatural`). |
| `InventoryStaysCurrent` | `InventoryIsCurrent`, from `InventoryInv`: while backups are scheduled the configuration can be read, no command runs on, and the inventory is the repository's except at the refresh; also a stopped deployment keeps what was read last |

The proofs have one step per action; case lemmas of the same shape
(`ServeControl`, `ReconcileControl`, `EnvironmentControl`) say once which control
variables a group of actions may change and are cited by each invariant.

What the theorems assume of the constants is in the `ASSUME`s, which TLC evaluates
on every run, and in the premises of the properties. `BundlesAssumption` takes a list of
bundles and a registry with a digest at all; `CloudEnforcesStop` is the hypothesis of
`StreamInvariant` and `ReportsAreHonest` only.

Every safety property of the passing runs is proved. Model-checked only are the
liveness properties (`RestoreEnds`, `EventuallyInSync`, `EventsArrive`,
`EventuallyProtected`, `StoppedEnds`, `WatchedIsTailed`, `LinesAreDelivered`,
`EndedReturns`, `EdgeIsServed`, `WebRootFollows`, `CoreIsConnected`, `EventuallyUp`,
`ComesUp`), because TLAPS does not do ENABLED or fairness.

## What is not modelled

* Wall-clock lengths of windows and the jitter of reconnects: the backoff counts in
  multiples of its base.
* A Recreate that finds its queue of eight full (`agent.go:171`) is in no run: the drop
  is in `OnRecreate`, and the proofs cover it, but no run has so many commands on their way.
* Cryptography: a frame verifies or it does not.
* Rendering of configurations, env files and secrets; SQL of the database
  initialisation; annotations, sizes and timelines of backups: strings and
  idempotent calls, present as calls that may fail.
* Pure decisions on names and modes: two bundle paths that share a marker
  (`webbundle.go:143`; `WebBundles` takes destinations that do not overlap), and a
  database mode left empty, which `Dirs` (`deploy.go:167`) does not take for managed while
  the rest of the code does.
* Container health: a running container is taken to be healthy, so the Degraded
  ready reason does not occur.
* Host metrics, configuration, generated code: no state anything depends on.

## Plan

Done: 1. `Deployment` and `AgentLoop` with its proofs; 2. `LogFeed`, `FollowLogs`,
`LogTails`; 3. `EdgeCert`; 4. `WebBundles`; 5. `GiteaToken`; 6. `ServiceApply` and
`DockerApply`; 7. `Enroll`; 8. `EventReport`; 9. `Backups`; 10. proofs of `EventReport`,
`LogTails` and `GiteaToken`; 11. proofs of the remaining safety properties.

Next:

12. An abstract `EdgeCert` with the outcomes `AgentLoop` uses, as `ServiceApply` is to
    `DockerApply`, and the proof that `EdgeCert` implements it.
13. Pure functions over bounded inputs: `Dirs`, marker names.
