---------------------------- MODULE EventReport ----------------------------
(***************************************************************************)
(* What the cloud gets to know (internal/agent/agent.go): the timeline     *)
(* events that handlers buffer, the report that drains the buffer and puts *)
(* it back when the call fails, the three ways events are kept from being  *)
(* repeated (emitError, emitBlock, step), and the exponential backoff      *)
(* after a failure.                                                        *)
(*                                                                         *)
(* Whether a reconcile is due, and what it does to the host, is the matter *)
(* of AgentLoop.  Here it may run whenever the backoff window is over, and *)
(* may go through its outcomes in any order.                               *)
(***************************************************************************)
EXTENDS Integers, Sequences, FiniteSets

CONSTANTS
    Errors,           \* messages of failed reconciles
    Forged,           \* the message of a signature that does not verify
    NoError,          \* nil
    Progress,         \* reasons of the progress steps of a provisioning
    Cap,              \* backoffCap, in units of backoffBase
    Histories,        \* bound: the desired-states published, oldest first
    MaxEvents,        \* bound: events emitted
    Limit,            \* bound: how often each kind of mishap happens
    Kinds             \* bound: how many kinds of mishap meet in a behaviour

Mishaps == {"answer", "crash", "forgery", "backup"}

(* Desired-states: stopped, without a secret store, with a managed edge,   *)
(* with an edge of the operator's own.                                     *)
Modes == {"stopped", "noStore", "edge", "byo"}

ASSUME ReportAssumption ==
    /\ Forged \notin Errors /\ NoError \notin Errors \cup {Forged}
    /\ Progress \in Seq(STRING)
    /\ Cap \in Nat \ {0}
    /\ Histories \subseteq Seq(Modes)
    /\ MaxEvents \in Nat
    /\ Limit \in [Mishaps -> Nat] /\ Kinds \in Nat

VARIABLES
    (* memory of the agent, lost in a crash *)
    lastDesired, lastGeneration,
    lastReconcileErr,     \* the message of the error, or NoError
    lastErrMsg,           \* the last ReconcileError event, or NoError
    curBlockReason,       \* the last block event, or "none"
    emittedSteps,         \* step reason -> generation it was emitted for
    awaitingSecretStore, awaitingDns, rateLimited,
    hadCert, stopped,
    backoff,              \* in units of backoffBase
    held,                 \* now < nextAttempt
    pendingEvents,
    (* the handler in progress *)
    pc,
    report,               \* the report it is about to send
    resume,               \* where it goes on after the report
    at,                   \* progress steps behind it
    (* the cloud *)
    generations, timeline, status,
    (* history *)
    emitted,              \* events emitted so far
    lost,                 \* numbers of the events lost in a crash
    mark,                 \* emitted, when reconcile last returned nil
    born,                 \* emitted, when this life of the agent began
    fails,                \* failed attempts since the stack last converged
    issued,               \* a certificate was issued, or found valid, since
    spent                 \* mishaps used up

dedup  == <<lastErrMsg, curBlockReason, emittedSteps>>
flags  == <<awaitingSecretStore, awaitingDns, rateLimited>>
gate   == <<lastDesired, lastGeneration, lastReconcileErr>>
retry  == <<backoff, held, fails, issued>>
memory == <<hadCert, stopped>>
queue  == <<pendingEvents, emitted>>
place  == <<pc, report, resume, at>>
cloud  == <<generations, timeline, status>>
lives  == <<lost, born>>

vars == <<dedup, flags, gate, retry, memory, queue, place, cloud, lives, mark, spent>>

-----------------------------------------------------------------------------
Spend(m) ==
    /\ spent[m] < Limit[m]
    /\ Cardinality({k \in Mishaps : spent[k] > 0} \cup {m}) <= Kinds
    /\ spent' = [spent EXCEPT ![m] = @ + 1]

ProgressSteps == {Progress[i] : i \in 1 .. Len(Progress)}

Steps == ProgressSteps \cup
         {"StoppingDeployment", "DeploymentStopped", "StartingDeployment",
          "IssuingWildcard", "ReconcileComplete"}

(* What goes on the timeline; gen is not part of the message.              *)
Event(reason, msg) == [reason |-> reason, msg |-> msg, gen |-> lastDesired]

Emit(events) ==
    /\ emitted' = emitted + Len(events)
    /\ pendingEvents' = pendingEvents \o
         [i \in 1 .. Len(events) |-> [n |-> emitted + i, event |-> events[i]]]

(* step: once per generation and reason. *)
StepEvent(reason) ==
    IF emittedSteps[reason] = lastDesired THEN <<>> ELSE <<Event(reason, NoError)>>

Stepped(reasons) ==
    emittedSteps' = [r \in Steps |-> IF r \in reasons THEN lastDesired ELSE emittedSteps[r]]

ErrorEvent(msg) == IF msg = lastErrMsg THEN <<>> ELSE <<Event("ReconcileError", msg)>>

BlockEvent(reason) == IF reason = curBlockReason THEN <<>> ELSE <<Event(reason, NoError)>>

(* buildConditions, over containers that are healthy. *)
Ready ==
    IF lastReconcileErr # NoError THEN "ReconcileError"
    ELSE IF awaitingSecretStore THEN "AwaitingSecretStore"
    ELSE IF rateLimited THEN "RateLimited"
    ELSE IF awaitingDns THEN "AwaitingDnsDelegation" ELSE "InSync"

Nothing == [gen |-> 0, reason |-> "none", msg |-> NoError, since |-> 0]

(* since is history: an event that explains the report is no older.        *)
Status(gen, reason, msg) ==
    [gen |-> gen, reason |-> reason, msg |-> msg,
     since |-> IF reason = "ReconcileError" THEN mark' ELSE born']

(* The handler ends, or goes on, with a report of the current conditions.  *)
ReportThen(next) ==
    /\ pc' = "report" /\ resume' = next
    /\ report' = Status(lastGeneration', Ready', lastReconcileErr')

Doubled(b) == IF b = 0 THEN 1 ELSE IF 2 * b > Cap THEN Cap ELSE 2 * b

Grown(n) == IF n < Cap THEN n + 1 ELSE n

EnterBackoff == backoff' = Doubled(backoff) /\ held' = TRUE /\ fails' = Grown(fails)

ResetBackoff == backoff' = 0 /\ held' = FALSE

Init ==
    /\ lastDesired = 0 /\ lastGeneration = 0 /\ lastReconcileErr = NoError
    /\ lastErrMsg = NoError /\ curBlockReason = "none"
    /\ emittedSteps = [r \in Steps |-> 0]
    /\ awaitingSecretStore = FALSE /\ awaitingDns = FALSE /\ rateLimited = FALSE
    /\ hadCert = FALSE /\ stopped = FALSE
    /\ backoff = 0 /\ held = FALSE /\ fails = 0 /\ issued = FALSE
    /\ pendingEvents = <<>> /\ emitted = 0
    /\ pc = "idle" /\ resume = "idle" /\ at = 0
    /\ report = Nothing
    /\ generations = <<>> /\ timeline = <<>> /\ status = Nothing
    /\ lost = {} /\ born = 0 /\ mark = 0
    /\ spent = [m \in Mishaps |-> 0]

-----------------------------------------------------------------------------
(***************************************************************************)
(* Handlers that start from the select.                                    *)
(***************************************************************************)
Room(n) == emitted + n <= MaxEvents

New(reasons) == Cardinality({r \in reasons : emittedSteps[r] # lastDesired'})

(* No reconcile emits more events than this.                               *)
Most ==
    LET mode == generations[lastDesired']
        starting == IF stopped THEN New({"StartingDeployment"}) ELSE 0
    IN CASE mode = "stopped" -> New({"StoppingDeployment"}) + 1
         [] mode = "noStore" -> starting + 1
         [] mode = "byo"     -> starting + New(ProgressSteps) + 1
         [] mode = "edge"    -> starting + (IF hadCert THEN 0 ELSE 1)
                                + New(ProgressSteps \cup {"IssuingWildcard"}) + 1

(* applyDesired: not inside a backoff window; what it does not start it    *)
(* reports.                                                                *)
Apply ==
    \/ /\ ~held' /\ Room(Most)
       /\ pc' = "begin"
       /\ UNCHANGED <<report, resume, at>>
    \/ ReportThen("idle") /\ UNCHANGED at

OnDesired ==
    /\ pc = "idle"
    /\ \E g \in 1 .. Len(generations) : g >= lastDesired /\ lastDesired' = g
    /\ UNCHANGED <<lastGeneration, lastReconcileErr, dedup, flags, retry, memory,
                   queue, cloud, lives, mark, spent>>
    /\ Apply

(* resyncTicker and fastTicker. *)
Reapply ==
    /\ pc = "idle" /\ lastDesired # 0
    /\ UNCHANGED <<gate, dedup, flags, retry, memory, queue, cloud, lives, mark, spent>>
    /\ Apply

(* Mutant of Nudge: the backoff is reset, not only its window. *)
MutNudgeForgets ==
    /\ pc = "idle"
    /\ ResetBackoff
    /\ UNCHANGED <<gate, dedup, flags, fails, issued, memory, queue, cloud, lives,
                   mark, spent>>
    /\ IF lastDesired = 0 THEN UNCHANGED place ELSE Apply

(* ForceRecheck and Recreate end the window, and leave the backoff. *)
Nudge ==
    /\ pc = "idle"
    /\ held' = FALSE
    /\ UNCHANGED <<gate, dedup, flags, backoff, fails, issued, memory, queue, cloud,
                   lives, mark, spent>>
    /\ IF lastDesired = 0 THEN UNCHANGED place ELSE Apply

(* Mutant of HeartbeatTick: with nothing new to say, nothing is sent. *)
MutSilentHeartbeat ==
    /\ pc = "idle" /\ status.reason # Ready
    /\ UNCHANGED <<gate, dedup, flags, retry, memory, queue, cloud, lives, mark, spent, at>>
    /\ ReportThen("idle")

(* heartbeatTicker and RequestStatus. *)
HeartbeatTick ==
    /\ pc = "idle"
    /\ UNCHANGED <<gate, dedup, flags, retry, memory, queue, cloud, lives, mark, spent, at>>
    /\ ReportThen("idle")

OnTampered ==
    /\ pc = "idle" /\ Spend("forgery") /\ Room(1)
    /\ Emit(ErrorEvent(Forged)) /\ lastErrMsg' = Forged
    /\ UNCHANGED <<curBlockReason, emittedSteps, gate, flags, retry, memory, cloud,
                   lives, mark, at>>
    /\ pc' = "report" /\ resume' = "idle"
    /\ report' = Status(lastGeneration, "ReconcileError", Forged)

(* runOnDemandBackup: one event, unless backups are off, before the backup *)
(* and one after it, each with a report of its own.                        *)
OnRunBackup ==
    /\ pc = "idle" /\ Spend("backup") /\ Room(2)
    /\ UNCHANGED <<gate, dedup, flags, retry, memory, cloud, lives, mark, at>>
    /\ \/ Emit(<<Event("BackupSkipped", NoError)>>) /\ ReportThen("idle")
       \/ Emit(<<Event("BackupStarted", NoError)>>) /\ ReportThen("backup")

BackupDone ==
    /\ pc = "backup"
    /\ \E r \in {"BackupComplete", "BackupFailed"} : Emit(<<Event(r, NoError)>>)
    /\ UNCHANGED <<gate, dedup, flags, retry, memory, cloud, lives, mark, spent, at>>
    /\ ReportThen("idle")

(* runScheduledBackup leaves its event to the next report. *)
BackupTick ==
    /\ pc = "idle" /\ Spend("backup") /\ Room(1)
    /\ \E r \in {"BackupComplete", "BackupFailed"} : Emit(<<Event(r, NoError)>>)
    /\ UNCHANGED <<gate, dedup, flags, retry, memory, place, cloud, lives, mark>>

-----------------------------------------------------------------------------
(***************************************************************************)
(* Outcomes of reconcile, each with the tail of applyDesired.              *)
(***************************************************************************)
Mode == generations[lastDesired]

Fail(events) ==
    \E m \in Errors :
      /\ Emit(events \o ErrorEvent(m))
      /\ lastErrMsg' = m /\ lastReconcileErr' = m
      /\ EnterBackoff
      /\ UNCHANGED <<lastGeneration, issued, mark>>
      /\ ReportThen("idle")

(* Mutant of Succeed: the last error is remembered as reported. *)
MutErrMsgKept ==
    /\ lastReconcileErr' = NoError
    /\ UNCHANGED lastErrMsg
    /\ mark' = emitted'
    /\ ReportThen("idle")

(* reconcile returns nil. *)
Succeed ==
    /\ lastReconcileErr' = NoError
    /\ lastErrMsg' = NoError
    /\ mark' = emitted'
    /\ ReportThen("idle")

Converge ==
    /\ curBlockReason' = "none"
    /\ ResetBackoff /\ fails' = 0 /\ issued' = FALSE
    /\ lastGeneration' = lastDesired
    /\ Succeed

StopStack ==
    /\ pc = "begin" /\ Mode = "stopped"
    /\ UNCHANGED <<lastDesired, flags, hadCert, at, cloud, lives, spent>>
    /\ LET stopping == IF stopped THEN {} ELSE {"StoppingDeployment"}
           before == IF stopped THEN <<>> ELSE StepEvent("StoppingDeployment")
       IN \/ /\ Emit(before \o StepEvent("DeploymentStopped"))
             /\ Stepped(stopping \cup {"DeploymentStopped"})
             /\ stopped' = TRUE
             /\ Converge
          \/ /\ Stepped(stopping)
             /\ UNCHANGED <<stopped, curBlockReason>>
             /\ Fail(before)

(* Sealed secrets, the secret store, provisioning secrets, network and     *)
(* directories.  A missing secret store is no event.                       *)
Prepare ==
    /\ pc = "begin" /\ Mode # "stopped"
    /\ stopped' = FALSE
    /\ Stepped(IF stopped THEN {"StartingDeployment"} ELSE {})
    /\ UNCHANGED <<lastDesired, awaitingDns, rateLimited, curBlockReason, hadCert,
                   at, cloud, lives, spent>>
    /\ LET starting == IF stopped THEN StepEvent("StartingDeployment") ELSE <<>>
       IN \/ /\ awaitingSecretStore' \in {awaitingSecretStore} \cup
                    (IF Mode = "noStore" THEN {} ELSE {FALSE})
             /\ Fail(starting)
          \/ /\ Mode = "noStore"
             /\ awaitingSecretStore' = TRUE
             /\ Emit(starting)
             /\ UNCHANGED <<lastGeneration, retry>>
             /\ Succeed
          \/ /\ Mode # "noStore"
             /\ awaitingSecretStore' = FALSE
             /\ Emit(starting)
             /\ pc' = "edge"
             /\ UNCHANGED <<lastGeneration, lastReconcileErr, lastErrMsg, retry,
                            mark, report, resume>>

AwaitDns ==
    /\ awaitingDns' = TRUE /\ rateLimited' = FALSE
    /\ Emit(StepEvent("IssuingWildcard") \o BlockEvent("AwaitingDnsDelegation"))
    /\ Stepped({"IssuingWildcard"})
    /\ curBlockReason' = "AwaitingDnsDelegation"
    /\ UNCHANGED <<lastGeneration, retry, hadCert>>
    /\ Succeed

HitRateLimit ==
    /\ awaitingDns' = FALSE /\ rateLimited' = TRUE
    /\ Emit(BlockEvent("RateLimited"))
    /\ curBlockReason' = "RateLimited"
    /\ EnterBackoff
    /\ UNCHANGED <<lastGeneration, issued, emittedSteps, hadCert>>
    /\ Succeed

NotIssued ==
    /\ UNCHANGED <<awaitingDns, rateLimited, curBlockReason, emittedSteps, hadCert>>
    /\ Fail(<<>>)

(* The first certificate is reported at once; provisioning goes on after.  *)
Issued ==
    /\ awaitingDns' = FALSE /\ rateLimited' = FALSE
    /\ curBlockReason' = "none"
    /\ ResetBackoff /\ issued' = TRUE
    /\ hadCert' = TRUE
    /\ Emit(IF hadCert THEN <<>> ELSE <<Event("WildcardIssued", NoError)>>)
    /\ UNCHANGED <<lastGeneration, lastReconcileErr, lastErrMsg, emittedSteps, fails, mark>>
    /\ IF hadCert
       THEN pc' = "provision" /\ UNCHANGED <<report, resume>>
       ELSE /\ pc' = "report" /\ resume' = "provision"
            /\ report' = Status(lastDesired, "Reconciling", NoError)

NoEdge ==
    /\ awaitingDns' = FALSE /\ rateLimited' = FALSE
    /\ curBlockReason' = "none"
    /\ pc' = "provision"
    /\ UNCHANGED <<lastGeneration, lastReconcileErr, lastErrMsg, emittedSteps, retry,
                   hadCert, queue, mark, report, resume>>

Edge ==
    /\ pc = "edge"
    /\ UNCHANGED <<lastDesired, awaitingSecretStore, stopped, at, cloud, lives, spent>>
    /\ IF Mode = "edge" THEN AwaitDns \/ HitRateLimit \/ NotIssued \/ Issued ELSE NoEdge

(* The progress steps of a generation, in order; any of them may fail.     *)
ProvisionStep ==
    /\ pc = "provision" /\ at < Len(Progress)
    /\ at' = at + 1
    /\ Emit(StepEvent(Progress[at + 1]))
    /\ Stepped({Progress[at + 1]})
    /\ UNCHANGED <<gate, lastErrMsg, curBlockReason, flags, retry, memory, pc, report,
                   resume, cloud, lives, mark, spent>>

ProvisionFails ==
    /\ pc = "provision"
    /\ UNCHANGED <<lastDesired, curBlockReason, emittedSteps, flags, memory, cloud, lives,
                   spent>>
    /\ at' = 0
    /\ Fail(<<>>)

Complete ==
    /\ pc = "provision" /\ at = Len(Progress)
    /\ Emit(StepEvent("ReconcileComplete"))
    /\ Stepped({"ReconcileComplete"})
    /\ UNCHANGED <<lastDesired, flags, memory, cloud, lives, spent>>
    /\ at' = 0
    /\ Converge

Reconcile ==
    StopStack \/ Prepare \/ Edge \/ ProvisionStep \/ ProvisionFails \/ Complete

-----------------------------------------------------------------------------
(***************************************************************************)
(* report.  The buffer is drained before the call and put back when it     *)
(* fails; the cloud may have taken it in all the same.                     *)
(***************************************************************************)
Deliver == timeline' = timeline \o pendingEvents /\ status' = report

Sending ==
    /\ pc = "report" /\ pc' = resume
    /\ report' = Nothing /\ resume' = "idle"
    /\ UNCHANGED <<gate, dedup, flags, retry, memory, emitted, at, generations, lives,
                   mark>>

(* Mutant of Arrives: the buffer is not emptied. *)
MutNotDrained ==
    /\ Sending /\ Deliver
    /\ UNCHANGED <<pendingEvents, spent>>

Arrives ==
    /\ Sending /\ Deliver
    /\ pendingEvents' = <<>>
    /\ UNCHANGED spent

(* Mutant of NotSent: a failed report takes its events with it. *)
MutNotRequeued ==
    /\ Sending
    /\ pendingEvents' = <<>>
    /\ UNCHANGED <<timeline, status, spent>>

NotSent ==
    /\ Sending
    /\ UNCHANGED <<pendingEvents, timeline, status, spent>>

AnswerLost ==
    /\ Sending /\ Deliver /\ Spend("answer")
    /\ UNCHANGED pendingEvents

-----------------------------------------------------------------------------
(***************************************************************************)
(* The cloud, the clock and the process.                                   *)
(***************************************************************************)
Publish ==
    /\ \E h \in Histories :
         /\ Len(generations) < Len(h)
         /\ \A i \in 1 .. Len(generations) : generations[i] = h[i]
         /\ generations' = Append(generations, h[Len(generations) + 1])
    /\ UNCHANGED <<dedup, flags, gate, retry, memory, queue, place, timeline, status,
                   lives, mark, spent>>

WindowPasses ==
    /\ pc = "idle" /\ held /\ held' = FALSE
    /\ UNCHANGED <<dedup, flags, gate, backoff, fails, issued, memory, queue, place,
                   cloud, lives, mark, spent>>

Numbers(events) == {events[i].n : i \in 1 .. Len(events)}

Crash ==
    /\ Spend("crash")
    /\ lastDesired' = 0 /\ lastGeneration' = 0 /\ lastReconcileErr' = NoError
    /\ lastErrMsg' = NoError /\ curBlockReason' = "none"
    /\ emittedSteps' = [r \in Steps |-> 0]
    /\ awaitingSecretStore' = FALSE /\ awaitingDns' = FALSE /\ rateLimited' = FALSE
    /\ hadCert' = FALSE /\ stopped' = FALSE
    /\ backoff' = 0 /\ held' = FALSE /\ fails' = 0 /\ issued' = FALSE
    /\ pendingEvents' = <<>>
    /\ lost' = lost \cup (Numbers(pendingEvents) \ Numbers(timeline))
    /\ pc' = "idle" /\ resume' = "idle" /\ at' = 0
    /\ report' = Nothing
    /\ born' = emitted /\ mark' = emitted
    /\ UNCHANGED <<emitted, cloud>>

Handlers ==
    \/ OnDesired \/ Reapply \/ Nudge \/ HeartbeatTick \/ OnTampered
    \/ OnRunBackup \/ BackupDone \/ BackupTick

Report == Arrives \/ NotSent \/ AnswerLost

Next == Handlers \/ Reconcile \/ Report \/ Publish \/ WindowPasses \/ Crash

Spec == Init /\ [][Next]_vars

-----------------------------------------------------------------------------
(***************************************************************************)
(* Types                                                                   *)
(***************************************************************************)
Messages == Errors \cup {Forged, NoError}

Blocks == {"AwaitingDnsDelegation", "RateLimited"}

EventReasons == Steps \cup Blocks \cup
    {"ReconcileError", "WildcardIssued", "BackupSkipped", "BackupStarted",
     "BackupComplete", "BackupFailed"}

EventData == [reason : EventReasons, msg : Messages, gen : Nat]

Events == [n : Nat \ {0}, event : EventData]

Reports == [gen : Nat, msg : Messages, since : Nat,
            reason : {"none", "ReconcileError", "AwaitingSecretStore", "RateLimited",
                      "AwaitingDnsDelegation", "Reconciling", "InSync"}]

(* Every variable stays in its type.                                       *)
TypeOK ==
    /\ lastDesired \in Nat /\ lastGeneration \in Nat
    /\ lastReconcileErr \in Messages /\ lastErrMsg \in Messages
    /\ curBlockReason \in Blocks \cup {"none"}
    /\ emittedSteps \in [Steps -> Nat]
    /\ awaitingSecretStore \in BOOLEAN /\ awaitingDns \in BOOLEAN
    /\ rateLimited \in BOOLEAN /\ hadCert \in BOOLEAN /\ stopped \in BOOLEAN
    /\ backoff \in 0 .. Cap /\ held \in BOOLEAN
    /\ fails \in 0 .. Cap /\ issued \in BOOLEAN
    /\ pendingEvents \in Seq(Events) /\ timeline \in Seq(Events)
    /\ pc \in {"idle", "begin", "edge", "provision", "report", "backup"}
    /\ resume \in {"idle", "provision", "backup"}
    /\ at \in 0 .. Len(Progress)
    /\ report \in Reports /\ status \in Reports
    /\ generations \in Seq(Modes) /\ lastDesired <= Len(generations)
    /\ emitted \in Nat /\ mark \in Nat /\ born \in Nat
    /\ lost \subseteq Nat
    /\ spent \in [Mishaps -> Nat]

-----------------------------------------------------------------------------
(***************************************************************************)
(* Properties                                                              *)
(***************************************************************************)
Told == timeline \o pendingEvents

(* Whatever reports fail, an event is on the timeline or waits for the     *)
(* next report, unless the agent died with it; and nothing gets on the     *)
(* timeline ahead of what was emitted before it.                           *)
NothingIsSkipped ==
    /\ \A n \in 1 .. emitted : n \in lost \cup Numbers(Told)
    /\ \A i \in 1 .. Len(Told) : \A n \in 1 .. (Told[i].n - 1) :
         n \in lost \/ \E j \in 1 .. (i - 1) : Told[j].n = n

(* Putting events back repeats them only when the report had arrived and   *)
(* just its answer was lost.                                               *)
OnlyLostAnswersRepeat ==
    spent["answer"] = 0 =>
        \A i, j \in 1 .. Len(Told) : Told[i].n = Told[j].n => i = j

Explains(e, s) ==
    /\ e.n > s.since
    /\ CASE s.reason = "ReconcileError" ->
              e.event.reason = "ReconcileError" /\ e.event.msg = s.msg
         [] s.reason \in Blocks -> e.event.reason = s.reason
         [] s.reason = "Reconciling" -> e.event.reason = "WildcardIssued" /\ e.event.gen = s.gen
         [] s.reason = "InSync" ->
              e.event.reason \in {"ReconcileComplete", "DeploymentStopped"} /\ e.event.gen = s.gen

(* The three ways of not repeating events leave nothing unsaid: an error   *)
(* in the status has its event, emitted after the last reconcile that      *)
(* succeeded; a block, a first certificate and a generation that is in     *)
(* sync have theirs, from this life of the agent.  They come with the      *)
(* report, not after it.                                                   *)
StatusIsExplained ==
    \/ status.reason \in {"none", "AwaitingSecretStore"}
    \/ status.reason = "InSync" /\ status.gen = 0
    \/ \E i \in 1 .. Len(timeline) : Explains(timeline[i], status)

PowerOfTwo[n \in 0 .. Cap] == IF n = 0 THEN 1 ELSE 2 * PowerOfTwo[n - 1]

AtLeast(n) == IF PowerOfTwo[n - 1] > Cap THEN Cap ELSE PowerOfTwo[n - 1]

(* Attempts that go on failing are made at growing intervals, also when an *)
(* operator forces some of them - unless a certificate was issued or found *)
(* valid on the way: agent.go:970 then starts over, and a dependency that  *)
(* fails behind a managed edge is retried after backoffBase for ever.      *)
FailuresBackOff == fails > 0 /\ ~issued => backoff >= AtLeast(fails)

-----------------------------------------------------------------------------
(***************************************************************************)
(* Fairness: a handler that has begun ends, the heartbeat ticks, and a     *)
(* call to the cloud that is made again and again gets through.            *)
(***************************************************************************)
FairSpec ==
    /\ Spec
    /\ WF_vars(Reconcile \/ BackupDone) /\ WF_vars(Report)
    /\ SF_vars(HeartbeatTick) /\ SF_vars(Arrives)

(* The timeline catches up again and again: no event waits for ever,       *)
(* unless the agent dies with it.                                          *)
EventsArrive == []<>(1 .. emitted \subseteq lost \cup Numbers(timeline))

=============================================================================
