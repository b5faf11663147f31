------------------------- MODULE Reporting_proof -------------------------
(***************************************************************************)
(* Proofs about what the agent tells the cloud.  EventReport, for any      *)
(* histories of desired-states, errors, progress steps and mishaps: its    *)
(* types, that the timeline skips no event and repeats none but those of a *)
(* report whose answer was lost, that the status is explained by it, and   *)
(* that failures back off, for every cap.  LogTails, for any targets, any  *)
(* number of tails and commands, and any capacity of the channel and size  *)
(* of a batch.                                                             *)
(***************************************************************************)
EXTENDS EventReport, LogTails, SequenceTheorems, FiniteSetTheorems,
        WellFoundedInduction, TLAPS

(* The numbers on the timeline and in the buffer are those of events.      *)
Numbered == \A i \in 1 .. Len(Told) : Told[i].n \in 1 .. emitted

ToldInv == Numbered /\ NothingIsSkipped /\ OnlyLostAnswersRepeat

Phases == {"idle", "begin", "edge", "provision", "report", "backup"}

(* What a step does that is neither a report nor a crash: it may emit.     *)
Local ==
    /\ UNCHANGED queue \/ \E events \in Seq(EventData) : Emit(events)
    /\ UNCHANGED <<timeline, lost>>
    /\ spent'["answer"] = 0 => spent["answer"] = 0

(* The types of what the end of a reconcile sets. *)
EndType ==
    /\ lastReconcileErr \in Messages /\ lastErrMsg \in Messages
    /\ pc \in Phases /\ resume \in {"idle", "provision", "backup"}
    /\ report \in Reports /\ mark \in Nat

BackoffType ==
    /\ backoff \in 0 .. Cap /\ held \in BOOLEAN
    /\ fails \in 0 .. Cap /\ issued \in BOOLEAN

QueueType == pendingEvents \in Seq(Events) /\ emitted \in Nat

LEMMA Basics ==
    /\ NoError \in Messages /\ Forged \in Messages /\ Errors \subseteq Messages
    /\ ProgressSteps \subseteq Steps /\ Steps \subseteq EventReasons
    /\ Blocks \subseteq EventReasons
    /\ Len(Progress) \in Nat
    /\ \A i \in 1 .. Len(Progress) : Progress[i] \in Steps
BY ReportAssumption DEF Messages, ProgressSteps, Steps, EventReasons, Blocks

LEMMA InitType == Init => TypeOK
<1> SUFFICES ASSUME Init PROVE TypeOK
  OBVIOUS
<1>1. Nothing \in Reports
  BY Basics DEF Nothing, Reports
<1>2. /\ pendingEvents \in Seq(Events) /\ timeline \in Seq(Events)
      /\ generations \in Seq(Modes) /\ lastDesired <= Len(generations)
  BY DEF Init
<1>3. emittedSteps \in [Steps -> Nat] /\ spent \in [Mishaps -> Nat]
  BY DEF Init
<1>4. 0 \in 0 .. Cap /\ 0 \in 0 .. Len(Progress)
  BY Basics, ReportAssumption
<1>5. /\ lastReconcileErr \in Messages /\ lastErrMsg \in Messages
      /\ report \in Reports /\ status \in Reports
  BY <1>1, Basics DEF Init
<1> QED
  BY <1>2, <1>3, <1>4, <1>5 DEF Init, TypeOK

-----------------------------------------------------------------------------
(* What goes into the buffer. *)
LEMMA EventType ==
    ASSUME TypeOK, NEW reason \in EventReasons, NEW msg \in Messages
    PROVE  Event(reason, msg) \in EventData
BY DEF TypeOK, Event, EventData

LEMMA StepType ==
    ASSUME TypeOK, NEW reason \in Steps
    PROVE  StepEvent(reason) \in Seq(EventData)
<1>1. Event(reason, NoError) \in EventData
  BY EventType, Basics
<1> QED
  BY <1>1 DEF StepEvent

LEMMA ErrorType ==
    ASSUME TypeOK, NEW msg \in Messages
    PROVE  ErrorEvent(msg) \in Seq(EventData)
<1>1. Event("ReconcileError", msg) \in EventData
  BY EventType DEF EventReasons
<1> QED
  BY <1>1 DEF ErrorEvent

LEMMA BlockType ==
    ASSUME TypeOK, NEW reason \in Blocks
    PROVE  BlockEvent(reason) \in Seq(EventData)
<1>1. Event(reason, NoError) \in EventData
  BY EventType, Basics
<1> QED
  BY <1>1 DEF BlockEvent

LEMMA SingleType ==
    ASSUME TypeOK, NEW reason \in EventReasons
    PROVE  <<Event(reason, NoError)>> \in Seq(EventData)
<1>1. Event(reason, NoError) \in EventData
  BY EventType, Basics
<1> QED
  BY <1>1

LEMMA EmptyType == <<>> \in Seq(EventData)
OBVIOUS

LEMMA EmitType ==
    ASSUME TypeOK, NEW events \in Seq(EventData), Emit(events)
    PROVE  pendingEvents' \in Seq(Events) /\ emitted' \in Nat
<1>1. emitted \in Nat /\ Len(events) \in Nat /\ pendingEvents \in Seq(Events)
  BY DEF TypeOK
<1> DEFINE new == [i \in 1 .. Len(events) |-> [n |-> emitted + i, event |-> events[i]]]
<1>2. \A i \in 1 .. Len(events) : [n |-> emitted + i, event |-> events[i]] \in Events
  BY <1>1 DEF Events
<1>3. new \in Seq(Events)
  BY <1>1, <1>2
<1> QED
  BY <1>1, <1>3 DEF Emit

LEMMA SteppedType ==
    ASSUME TypeOK, NEW reasons, Stepped(reasons)
    PROVE  emittedSteps' \in [Steps -> Nat]
BY DEF TypeOK, Stepped

LEMMA SpendType ==
    ASSUME TypeOK, NEW m \in Mishaps, Spend(m)
    PROVE  /\ spent' \in [Mishaps -> Nat]
           /\ spent'["answer"] = 0 => spent["answer"] = 0
           /\ m = "answer" => spent'["answer"] # 0
BY DEF TypeOK, Spend, Mishaps

LEMMA ReportType ==
    ASSUME lastGeneration' \in Nat, lastReconcileErr' \in Messages,
           mark' \in Nat, born' \in Nat,
           NEW next \in {"idle", "provision", "backup"}, ReportThen(next)
    PROVE  pc' \in Phases /\ resume' \in {"idle", "provision", "backup"} /\ report' \in Reports
<1>1. Ready' \in {"ReconcileError", "AwaitingSecretStore", "RateLimited",
                  "AwaitingDnsDelegation", "InSync"}
  BY DEF Ready
<1> QED
  BY <1>1 DEF ReportThen, Status, Reports, Phases

LEMMA BackoffGrows ==
    ASSUME TypeOK, EnterBackoff, issued' \in BOOLEAN
    PROVE  BackoffType'
BY ReportAssumption DEF TypeOK, EnterBackoff, Doubled, Grown, BackoffType

LEMMA FailType ==
    ASSUME TypeOK, NEW events \in Seq(EventData), Fail(events), born' = born
    PROVE  /\ EndType' /\ BackoffType' /\ QueueType' /\ lastGeneration' \in Nat
           /\ \E all \in Seq(EventData) : Emit(all)
<1>1. PICK m \in Errors : /\ Emit(events \o ErrorEvent(m))
                          /\ lastErrMsg' = m /\ lastReconcileErr' = m
                          /\ EnterBackoff /\ UNCHANGED <<lastGeneration, issued, mark>>
                          /\ ReportThen("idle")
  BY DEF Fail
<1>2. m \in Messages
  BY Basics
<1>3. events \o ErrorEvent(m) \in Seq(EventData)
  BY <1>2, ErrorType
<1>4. lastGeneration' \in Nat /\ mark' \in Nat /\ born' \in Nat /\ issued' \in BOOLEAN
  BY <1>1 DEF TypeOK
<1>5. QueueType'
  BY <1>1, <1>3, EmitType DEF QueueType
<1>6. BackoffType'
  BY <1>1, <1>4, BackoffGrows
<1>7. EndType'
  BY <1>1, <1>2, <1>4, ReportType DEF EndType
<1> QED
  BY <1>1, <1>3, <1>4, <1>5, <1>6, <1>7

LEMMA SucceedType ==
    ASSUME TypeOK, Succeed, emitted' \in Nat, lastGeneration' \in Nat, born' = born
    PROVE  EndType'
<1>1. mark' \in Nat /\ born' \in Nat /\ lastReconcileErr' \in Messages
      /\ lastErrMsg' \in Messages
  BY Basics DEF Succeed, TypeOK
<1>2. ReportThen("idle")
  BY DEF Succeed
<1> QED
  BY <1>1, <1>2, ReportType DEF EndType

LEMMA ConvergeType ==
    ASSUME TypeOK, Converge, emitted' \in Nat, born' = born
    PROVE  /\ EndType' /\ BackoffType' /\ lastGeneration' \in Nat
           /\ curBlockReason' \in Blocks \cup {"none"}
<1>1. lastGeneration' \in Nat /\ BackoffType' /\ curBlockReason' = "none"
  <2>1. /\ backoff' = 0 /\ held' = FALSE /\ fails' = 0 /\ issued' = FALSE
        /\ lastGeneration' = lastDesired /\ curBlockReason' = "none"
    BY DEF Converge, ResetBackoff
  <2>2. 0 \in 0 .. Cap /\ lastDesired \in Nat
    BY ReportAssumption DEF TypeOK
  <2> QED
    BY <2>1, <2>2 DEF BackoffType
<1>2. Succeed
  BY DEF Converge
<1> QED
  BY <1>1, <1>2, SucceedType

-----------------------------------------------------------------------------
(***************************************************************************)
(* Types are kept, and only reports and crashes do more than emit.         *)
(***************************************************************************)
LEMMA ApplyType ==
    ASSUME TypeOK, Apply, lastGeneration' \in Nat, lastReconcileErr' \in Messages,
           mark' \in Nat, born' \in Nat
    PROVE  /\ pc' \in Phases /\ resume' \in {"idle", "provision", "backup"}
           /\ report' \in Reports /\ at' \in 0 .. Len(Progress)
<1>1. CASE ~held' /\ Room(Most) /\ pc' = "begin" /\ UNCHANGED <<report, resume, at>>
  BY <1>1 DEF TypeOK, Phases
<1>2. CASE ReportThen("idle") /\ UNCHANGED at
  BY <1>2, ReportType DEF TypeOK
<1> QED
  BY <1>1, <1>2 DEF Apply

LEMMA OnDesiredType == ASSUME TypeOK, OnDesired PROVE TypeOK' /\ Local
<1>1. /\ UNCHANGED <<lastGeneration, lastReconcileErr, dedup, flags, retry, memory,
                      queue, cloud, lives, mark, spent>>
      /\ lastDesired' \in Nat /\ lastDesired' <= Len(generations) /\ Apply
  BY DEF OnDesired, TypeOK
<1>2. /\ pc' \in Phases /\ resume' \in {"idle", "provision", "backup"}
      /\ report' \in Reports /\ at' \in 0 .. Len(Progress)
  BY <1>1, ApplyType DEF TypeOK, lives
<1> QED
  BY <1>1, <1>2 DEF TypeOK, Local, Phases, dedup, flags, retry, memory, queue, cloud, lives

LEMMA ReapplyType == ASSUME TypeOK, Reapply PROVE TypeOK' /\ Local
<1>1. /\ UNCHANGED <<gate, dedup, flags, retry, memory, queue, cloud, lives, mark, spent>>
      /\ Apply
  BY DEF Reapply
<1>2. /\ pc' \in Phases /\ resume' \in {"idle", "provision", "backup"}
      /\ report' \in Reports /\ at' \in 0 .. Len(Progress)
  BY <1>1, ApplyType DEF TypeOK, gate, lives
<1> QED
  BY <1>1, <1>2 DEF TypeOK, Local, Phases, gate, dedup, flags, retry, memory, queue, cloud, lives

LEMMA NudgeType == ASSUME TypeOK, Nudge PROVE TypeOK' /\ Local
<1>1. /\ UNCHANGED <<gate, dedup, flags, backoff, fails, issued, memory, queue, cloud,
                      lives, mark, spent>>
      /\ held' = FALSE /\ (UNCHANGED place \/ Apply)
  BY DEF Nudge
<1>2. /\ pc' \in Phases /\ resume' \in {"idle", "provision", "backup"}
      /\ report' \in Reports /\ at' \in 0 .. Len(Progress)
  BY <1>1, ApplyType DEF TypeOK, gate, lives, place, Phases
<1> QED
  BY <1>1, <1>2 DEF TypeOK, Local, Phases, gate, dedup, flags, memory, queue, cloud, lives

LEMMA HeartbeatType == ASSUME TypeOK, HeartbeatTick PROVE TypeOK' /\ Local
<1>1. /\ UNCHANGED <<gate, dedup, flags, retry, memory, queue, cloud, lives, mark, spent, at>>
      /\ ReportThen("idle")
  BY DEF HeartbeatTick
<1>2. pc' \in Phases /\ resume' \in {"idle", "provision", "backup"} /\ report' \in Reports
  BY <1>1, ReportType DEF TypeOK, gate, lives
<1> QED
  BY <1>1, <1>2 DEF TypeOK, Local, Phases, gate, dedup, flags, retry, memory, queue, cloud, lives

LEMMA TamperedType == ASSUME TypeOK, OnTampered PROVE TypeOK' /\ Local
<1>1. /\ Emit(ErrorEvent(Forged)) /\ lastErrMsg' = Forged /\ Spend("forgery")
      /\ UNCHANGED <<curBlockReason, emittedSteps, gate, flags, retry, memory, cloud,
                      lives, mark, at>>
      /\ pc' = "report" /\ resume' = "idle"
      /\ report' = Status(lastGeneration, "ReconcileError", Forged)
  BY DEF OnTampered
<1>2. ErrorEvent(Forged) \in Seq(EventData) /\ Forged \in Messages
  BY Basics, ErrorType
<1>3. pendingEvents' \in Seq(Events) /\ emitted' \in Nat
  BY <1>1, <1>2, EmitType
<1>4. report' \in Reports
  BY <1>1, <1>2 DEF TypeOK, Status, Reports
<1>5. spent' \in [Mishaps -> Nat] /\ (spent'["answer"] = 0 => spent["answer"] = 0)
  BY <1>1, SpendType DEF Mishaps
<1>6. TypeOK'
  BY <1>1, <1>2, <1>3, <1>4, <1>5 DEF TypeOK, gate, flags, retry, memory, cloud, lives
<1> QED
  BY <1>1, <1>2, <1>5, <1>6 DEF Local, cloud, lives

LEMMA RunBackupType == ASSUME TypeOK, OnRunBackup PROVE TypeOK' /\ Local
<1>1. /\ Spend("backup")
      /\ UNCHANGED <<gate, dedup, flags, retry, memory, cloud, lives, mark, at>>
      /\ \E r \in {"BackupSkipped", "BackupStarted"} : Emit(<<Event(r, NoError)>>)
      /\ \E next \in {"idle", "backup"} : ReportThen(next)
  BY DEF OnRunBackup
<1>2. PICK events \in Seq(EventData) : Emit(events)
  <2>1. PICK r \in {"BackupSkipped", "BackupStarted"} : Emit(<<Event(r, NoError)>>)
    BY <1>1
  <2>2. <<Event(r, NoError)>> \in Seq(EventData)
    BY SingleType DEF EventReasons
  <2> QED
    BY <2>1, <2>2
<1>3. pendingEvents' \in Seq(Events) /\ emitted' \in Nat
  BY <1>2, EmitType
<1>4. pc' \in Phases /\ resume' \in {"idle", "provision", "backup"} /\ report' \in Reports
  BY <1>1, ReportType DEF TypeOK, gate, lives
<1>5. spent' \in [Mishaps -> Nat] /\ (spent'["answer"] = 0 => spent["answer"] = 0)
  BY <1>1, SpendType DEF Mishaps
<1>6. TypeOK'
  BY <1>1, <1>3, <1>4, <1>5 DEF TypeOK, Phases, gate, dedup, flags, retry, memory, cloud, lives
<1> QED
  BY <1>1, <1>2, <1>5, <1>6 DEF Local, cloud, lives

(* The event of a backup that has ended. *)
LEMMA BackupEvent ==
    ASSUME TypeOK, \E r \in {"BackupComplete", "BackupFailed"} : Emit(<<Event(r, NoError)>>)
    PROVE  QueueType' /\ \E events \in Seq(EventData) : Emit(events)
<1>1. PICK r \in {"BackupComplete", "BackupFailed"} : Emit(<<Event(r, NoError)>>)
  OBVIOUS
<1>2. <<Event(r, NoError)>> \in Seq(EventData)
  BY SingleType DEF EventReasons
<1> QED
  BY <1>1, <1>2, EmitType DEF QueueType

LEMMA BackupDoneType == ASSUME TypeOK, BackupDone PROVE TypeOK' /\ Local
<1>1. /\ UNCHANGED <<gate, dedup, flags, retry, memory, cloud, lives, mark, spent, at>>
      /\ \E r \in {"BackupComplete", "BackupFailed"} : Emit(<<Event(r, NoError)>>)
      /\ ReportThen("idle")
  BY DEF BackupDone
<1>2. QueueType' /\ \E events \in Seq(EventData) : Emit(events)
  BY <1>1, BackupEvent
<1>3. pc' \in Phases /\ resume' \in {"idle", "provision", "backup"} /\ report' \in Reports
  BY <1>1, ReportType DEF TypeOK, gate, lives
<1>4. TypeOK'
  BY <1>1, <1>2, <1>3
  DEF TypeOK, QueueType, Phases, gate, dedup, flags, retry, memory, cloud, lives
<1> QED
  BY <1>1, <1>2, <1>4 DEF Local, cloud, lives

LEMMA BackupTickType == ASSUME TypeOK, BackupTick PROVE TypeOK' /\ Local
<1>1. /\ Spend("backup")
      /\ UNCHANGED <<gate, dedup, flags, retry, memory, place, cloud, lives, mark>>
      /\ \E r \in {"BackupComplete", "BackupFailed"} : Emit(<<Event(r, NoError)>>)
  BY DEF BackupTick
<1>2. QueueType' /\ \E events \in Seq(EventData) : Emit(events)
  BY <1>1, BackupEvent
<1>3. spent' \in [Mishaps -> Nat] /\ (spent'["answer"] = 0 => spent["answer"] = 0)
  BY <1>1, SpendType DEF Mishaps
<1>4. TypeOK'
  BY <1>1, <1>2, <1>3
  DEF TypeOK, QueueType, gate, dedup, flags, retry, memory, place, cloud, lives
<1> QED
  BY <1>1, <1>2, <1>3, <1>4 DEF Local, cloud, lives

LEMMA StopStackType == ASSUME TypeOK, StopStack PROVE TypeOK' /\ Local
<1> DEFINE stopping == IF stopped THEN {} ELSE {"StoppingDeployment"}
           before == IF stopped THEN <<>> ELSE StepEvent("StoppingDeployment")
<1>1. /\ UNCHANGED <<lastDesired, flags, hadCert, at, cloud, lives, spent>>
      /\ \/ /\ Emit(before \o StepEvent("DeploymentStopped"))
            /\ Stepped(stopping \cup {"DeploymentStopped"})
            /\ stopped' = TRUE
            /\ Converge
         \/ /\ Stepped(stopping)
            /\ UNCHANGED <<stopped, curBlockReason>>
            /\ Fail(before)
  BY DEF StopStack
<1>2. /\ before \in Seq(EventData)
      /\ before \o StepEvent("DeploymentStopped") \in Seq(EventData)
  <2>1. /\ StepEvent("StoppingDeployment") \in Seq(EventData)
        /\ StepEvent("DeploymentStopped") \in Seq(EventData)
    BY StepType DEF Steps
  <2> QED
    BY <2>1
<1>3. emittedSteps' \in [Steps -> Nat] /\ born' = born
  BY <1>1, SteppedType DEF lives
<1>4. CASE /\ Emit(before \o StepEvent("DeploymentStopped"))
           /\ stopped' = TRUE /\ Converge
  <2>1. QueueType' /\ \E events \in Seq(EventData) : Emit(events)
    BY <1>2, <1>4, EmitType DEF QueueType
  <2>2. /\ EndType' /\ BackoffType' /\ lastGeneration' \in Nat
        /\ curBlockReason' \in Blocks \cup {"none"}
    BY <1>3, <1>4, <2>1, ConvergeType DEF QueueType
  <2> HIDE DEF before, stopping
  <2>3. TypeOK'
    BY <1>1, <1>3, <1>4, <2>1, <2>2
    DEF TypeOK, QueueType, EndType, BackoffType, Phases, flags, cloud, lives
  <2> QED
    BY <1>1, <2>1, <2>3 DEF Local, cloud, lives
<1>5. CASE UNCHANGED <<stopped, curBlockReason>> /\ Fail(before)
  <2>1. /\ EndType' /\ BackoffType' /\ QueueType' /\ lastGeneration' \in Nat
        /\ \E all \in Seq(EventData) : Emit(all)
    BY <1>2, <1>3, <1>5, FailType
  <2> HIDE DEF before, stopping
  <2>2. TypeOK'
    BY <1>1, <1>3, <1>5, <2>1
    DEF TypeOK, QueueType, EndType, BackoffType, Phases, flags, cloud, lives
  <2> QED
    BY <1>1, <2>1, <2>2 DEF Local, cloud, lives
<1> QED
  BY <1>1, <1>4, <1>5

LEMMA PrepareType == ASSUME TypeOK, Prepare PROVE TypeOK' /\ Local
<1> DEFINE starting == IF stopped THEN StepEvent("StartingDeployment") ELSE <<>>
<1>1. /\ stopped' = FALSE
      /\ UNCHANGED <<lastDesired, awaitingDns, rateLimited, curBlockReason, hadCert,
                     at, cloud, lives, spent>>
      /\ \E reasons : Stepped(reasons)
      /\ awaitingSecretStore' \in BOOLEAN
      /\ \/ Fail(starting)
         \/ Emit(starting) /\ UNCHANGED <<lastGeneration, retry>> /\ Succeed
         \/ /\ Emit(starting)
            /\ pc' = "edge"
            /\ UNCHANGED <<lastGeneration, lastReconcileErr, lastErrMsg, retry,
                           mark, report, resume>>
  BY DEF Prepare, TypeOK
<1>2. starting \in Seq(EventData)
  <2>1. StepEvent("StartingDeployment") \in Seq(EventData)
    BY StepType DEF Steps
  <2> QED
    BY <2>1
<1> HIDE DEF starting
<1>3. emittedSteps' \in [Steps -> Nat] /\ born' = born
  BY <1>1, SteppedType DEF lives
<1>4. CASE Fail(starting)
  <2>1. /\ EndType' /\ BackoffType' /\ QueueType' /\ lastGeneration' \in Nat
        /\ \E all \in Seq(EventData) : Emit(all)
    BY <1>2, <1>3, <1>4, FailType
  <2>2. TypeOK'
    BY <1>1, <1>3, <2>1 DEF TypeOK, QueueType, EndType, BackoffType, Phases, cloud, lives
  <2> QED
    BY <1>1, <2>1, <2>2 DEF Local, cloud, lives
<1>5. CASE Emit(starting) /\ UNCHANGED <<lastGeneration, retry>> /\ Succeed
  <2>1. QueueType'
    BY <1>2, <1>5, EmitType DEF QueueType
  <2>2. EndType'
    BY <1>3, <1>5, <2>1, SucceedType DEF QueueType, TypeOK
  <2>3. TypeOK'
    BY <1>1, <1>3, <1>5, <2>1, <2>2
    DEF TypeOK, QueueType, EndType, Phases, retry, cloud, lives
  <2> QED
    BY <1>1, <1>2, <1>5, <2>3 DEF Local, cloud, lives
<1>6. CASE /\ Emit(starting)
           /\ pc' = "edge"
           /\ UNCHANGED <<lastGeneration, lastReconcileErr, lastErrMsg, retry,
                          mark, report, resume>>
  <2>1. QueueType'
    BY <1>2, <1>6, EmitType DEF QueueType
  <2>2. TypeOK'
    BY <1>1, <1>3, <1>6, <2>1 DEF TypeOK, QueueType, retry, cloud, lives
  <2> QED
    BY <1>1, <1>2, <1>6, <2>2 DEF Local, cloud, lives
<1> QED
  BY <1>1, <1>4, <1>5, <1>6

LEMMA EdgeType == ASSUME TypeOK, Edge PROVE TypeOK' /\ Local
<1>1. /\ UNCHANGED <<lastDesired, awaitingSecretStore, stopped, at, cloud, lives, spent>>
      /\ born' = born
      /\ AwaitDns \/ HitRateLimit \/ NotIssued \/ Issued \/ NoEdge
  BY DEF Edge, lives
<1>2. CASE AwaitDns
  <2>1. /\ awaitingDns' = TRUE /\ rateLimited' = FALSE
        /\ Emit(StepEvent("IssuingWildcard") \o BlockEvent("AwaitingDnsDelegation"))
        /\ Stepped({"IssuingWildcard"})
        /\ curBlockReason' \in Blocks
        /\ UNCHANGED <<lastGeneration, retry, hadCert>>
        /\ Succeed
    BY <1>2 DEF AwaitDns, Blocks
  <2>2. StepEvent("IssuingWildcard") \o BlockEvent("AwaitingDnsDelegation") \in Seq(EventData)
    <3>1. /\ StepEvent("IssuingWildcard") \in Seq(EventData)
          /\ BlockEvent("AwaitingDnsDelegation") \in Seq(EventData)
      BY StepType, BlockType DEF Steps, Blocks
    <3> QED
      BY <3>1
  <2>3. QueueType' /\ emittedSteps' \in [Steps -> Nat]
    BY <2>1, <2>2, EmitType, SteppedType DEF QueueType
  <2>4. EndType'
    BY <1>1, <2>1, <2>3, SucceedType DEF QueueType, TypeOK
  <2>5. TypeOK'
    BY <1>1, <2>1, <2>3, <2>4 DEF TypeOK, QueueType, EndType, Phases, retry, cloud, lives
  <2> QED
    BY <1>1, <2>1, <2>2, <2>5 DEF Local, cloud, lives
<1>3. CASE HitRateLimit
  <2>1. /\ awaitingDns' = FALSE /\ rateLimited' = TRUE
        /\ Emit(BlockEvent("RateLimited"))
        /\ curBlockReason' \in Blocks
        /\ EnterBackoff /\ issued' \in BOOLEAN
        /\ UNCHANGED <<lastGeneration, emittedSteps, hadCert>>
        /\ Succeed
    BY <1>3 DEF HitRateLimit, Blocks, TypeOK
  <2>2. BlockEvent("RateLimited") \in Seq(EventData)
    BY BlockType DEF Blocks
  <2>3. QueueType' /\ BackoffType'
    BY <2>1, <2>2, EmitType, BackoffGrows DEF QueueType
  <2>4. EndType'
    BY <1>1, <2>1, <2>3, SucceedType DEF QueueType, TypeOK
  <2>5. TypeOK'
    BY <1>1, <2>1, <2>3, <2>4
    DEF TypeOK, QueueType, EndType, BackoffType, Phases, cloud, lives
  <2> QED
    BY <1>1, <2>1, <2>2, <2>5 DEF Local, cloud, lives
<1>4. CASE NotIssued
  <2>1. /\ UNCHANGED <<awaitingDns, rateLimited, curBlockReason, emittedSteps, hadCert>>
        /\ Fail(<<>>)
    BY <1>4 DEF NotIssued
  <2>2. /\ EndType' /\ BackoffType' /\ QueueType' /\ lastGeneration' \in Nat
        /\ \E all \in Seq(EventData) : Emit(all)
    BY <1>1, <2>1, EmptyType, FailType
  <2>3. TypeOK'
    BY <1>1, <2>1, <2>2
    DEF TypeOK, QueueType, EndType, BackoffType, Phases, cloud, lives
  <2> QED
    BY <1>1, <2>2, <2>3 DEF Local, cloud, lives
<1>5. CASE Issued
  <2>1. /\ awaitingDns' = FALSE /\ rateLimited' = FALSE /\ curBlockReason' = "none"
        /\ backoff' = 0 /\ held' = FALSE /\ issued' = TRUE /\ hadCert' = TRUE
        /\ UNCHANGED <<lastGeneration, lastReconcileErr, lastErrMsg, emittedSteps, fails, mark>>
    BY <1>5 DEF Issued, ResetBackoff
  <2>2. \E events \in Seq(EventData) : Emit(events)
    <3>1. <<Event("WildcardIssued", NoError)>> \in Seq(EventData)
      BY SingleType DEF EventReasons
    <3>2. CASE hadCert
      BY <1>5, <3>2, EmptyType DEF Issued
    <3>3. CASE ~hadCert
      BY <1>5, <3>1, <3>3 DEF Issued
    <3> QED
      BY <3>2, <3>3
  <2>3. QueueType'
    BY <2>2, EmitType DEF QueueType
  <2>4. pc' \in Phases /\ resume' \in {"idle", "provision", "backup"} /\ report' \in Reports
    <3>1. CASE pc' = "provision" /\ UNCHANGED <<report, resume>>
      BY <3>1 DEF TypeOK, Phases
    <3>2. CASE /\ pc' = "report" /\ resume' = "provision"
               /\ report' = Status(lastDesired, "Reconciling", NoError)
      BY <1>1, <3>2, Basics DEF TypeOK, Phases, Status, Reports
    <3> QED
      BY <1>5, <3>1, <3>2 DEF Issued
  <2>5. 0 \in 0 .. Cap
    BY ReportAssumption
  <2>6. TypeOK'
    BY <1>1, <2>1, <2>3, <2>4, <2>5 DEF TypeOK, QueueType, Phases, cloud, lives
  <2> QED
    BY <1>1, <2>2, <2>6 DEF Local, cloud, lives
<1>6. CASE NoEdge
  <2>1. TypeOK'
    BY <1>1, <1>6 DEF NoEdge, TypeOK, queue, retry, cloud, lives
  <2> QED
    BY <1>1, <1>6, <2>1 DEF NoEdge, Local, cloud, lives
<1> QED
  BY <1>1, <1>2, <1>3, <1>4, <1>5, <1>6

LEMMA ProvisionStepType == ASSUME TypeOK, ProvisionStep PROVE TypeOK' /\ Local
<1>1. /\ at + 1 \in 1 .. Len(Progress) /\ at' = at + 1
      /\ Emit(StepEvent(Progress[at + 1])) /\ Stepped({Progress[at + 1]})
      /\ UNCHANGED <<gate, lastErrMsg, curBlockReason, flags, retry, memory, pc, report,
                     resume, cloud, lives, mark, spent>>
  BY Basics DEF ProvisionStep, TypeOK
<1>2. StepEvent(Progress[at + 1]) \in Seq(EventData)
  BY <1>1, Basics, StepType
<1>3. QueueType' /\ emittedSteps' \in [Steps -> Nat]
  BY <1>1, <1>2, EmitType, SteppedType DEF QueueType
<1>4. at' \in 0 .. Len(Progress)
  BY <1>1, Basics
<1>5. TypeOK'
  BY <1>1, <1>3, <1>4 DEF TypeOK, QueueType, gate, flags, retry, memory, cloud, lives
<1> QED
  BY <1>1, <1>2, <1>5 DEF Local, cloud, lives

LEMMA ProvisionFailsType == ASSUME TypeOK, ProvisionFails PROVE TypeOK' /\ Local
<1>1. /\ UNCHANGED <<lastDesired, curBlockReason, emittedSteps, flags, memory, cloud, lives,
                     spent>>
      /\ at' = 0 /\ Fail(<<>>) /\ born' = born
  BY DEF ProvisionFails, lives
<1>2. /\ EndType' /\ BackoffType' /\ QueueType' /\ lastGeneration' \in Nat
      /\ \E all \in Seq(EventData) : Emit(all)
  BY <1>1, EmptyType, FailType
<1>3. 0 \in 0 .. Len(Progress)
  BY Basics
<1>4. TypeOK'
  BY <1>1, <1>2, <1>3
  DEF TypeOK, QueueType, EndType, BackoffType, Phases, flags, memory, cloud, lives
<1> QED
  BY <1>1, <1>2, <1>4 DEF Local, cloud, lives

LEMMA CompleteType == ASSUME TypeOK, Complete PROVE TypeOK' /\ Local
<1>1. /\ Emit(StepEvent("ReconcileComplete")) /\ Stepped({"ReconcileComplete"})
      /\ UNCHANGED <<lastDesired, flags, memory, cloud, lives, spent>>
      /\ at' = 0 /\ Converge /\ born' = born
  BY DEF Complete, lives
<1>2. StepEvent("ReconcileComplete") \in Seq(EventData)
  BY StepType DEF Steps
<1>3. QueueType' /\ emittedSteps' \in [Steps -> Nat]
  BY <1>1, <1>2, EmitType, SteppedType DEF QueueType
<1>4. /\ EndType' /\ BackoffType' /\ lastGeneration' \in Nat
      /\ curBlockReason' \in Blocks \cup {"none"}
  BY <1>1, <1>3, ConvergeType DEF QueueType
<1>5. 0 \in 0 .. Len(Progress)
  BY Basics
<1>6. TypeOK'
  BY <1>1, <1>3, <1>4, <1>5
  DEF TypeOK, QueueType, EndType, BackoffType, Phases, flags, memory, cloud, lives
<1> QED
  BY <1>1, <1>2, <1>6 DEF Local, cloud, lives

LEMMA PublishType == ASSUME TypeOK, Publish PROVE TypeOK' /\ Local
<1>1. PICK h \in Histories : /\ Len(generations) < Len(h)
                             /\ generations' = Append(generations, h[Len(generations) + 1])
  BY DEF Publish
<1>2. h \in Seq(Modes) /\ generations \in Seq(Modes)
  BY ReportAssumption DEF TypeOK
<1>3. h[Len(generations) + 1] \in Modes
  BY <1>1, <1>2
<1>4. generations' \in Seq(Modes) /\ Len(generations') = Len(generations) + 1
  BY <1>1, <1>2, <1>3
<1>5. lastDesired <= Len(generations')
  BY <1>2, <1>4 DEF TypeOK
<1>6. UNCHANGED <<dedup, flags, gate, retry, memory, queue, place, timeline, status,
                  lives, mark, spent>>
  BY DEF Publish
<1> QED
  BY <1>4, <1>5, <1>6
  DEF TypeOK, Local, dedup, flags, gate, retry, memory, queue, place, lives

LEMMA WindowType == ASSUME TypeOK, WindowPasses PROVE TypeOK' /\ Local
BY DEF WindowPasses, TypeOK, Local, dedup, flags, gate, memory, queue, place, cloud, lives

-----------------------------------------------------------------------------
(***************************************************************************)
(* Reports and crashes.                                                    *)
(***************************************************************************)
LEMMA SendingType ==
    ASSUME TypeOK, Sending, pendingEvents' \in Seq(Events), timeline' \in Seq(Events),
           status' \in Reports, spent' \in [Mishaps -> Nat]
    PROVE  TypeOK'
<1>1. Nothing \in Reports
  BY Basics DEF Nothing, Reports
<1> QED
  BY <1>1 DEF Sending, TypeOK, gate, dedup, flags, retry, memory, lives

LEMMA DeliverType ==
    ASSUME TypeOK, Deliver
    PROVE  timeline' \in Seq(Events) /\ status' \in Reports
<1>1. timeline \in Seq(Events) /\ pendingEvents \in Seq(Events)
  BY DEF TypeOK
<1> QED
  BY <1>1 DEF Deliver, TypeOK

LEMMA ArrivesType == ASSUME TypeOK, Arrives PROVE TypeOK'
<1>1. Sending /\ Deliver /\ pendingEvents' \in Seq(Events) /\ spent' \in [Mishaps -> Nat]
  BY DEF Arrives, TypeOK
<1> QED
  BY <1>1, SendingType, DeliverType

LEMMA NotSentType == ASSUME TypeOK, NotSent PROVE TypeOK'
<1>1. /\ Sending /\ pendingEvents' \in Seq(Events) /\ timeline' \in Seq(Events)
      /\ status' \in Reports /\ spent' \in [Mishaps -> Nat]
  BY DEF NotSent, TypeOK
<1> QED
  BY <1>1, SendingType

LEMMA AnswerLostType == ASSUME TypeOK, AnswerLost PROVE TypeOK'
<1>1. Sending /\ Deliver /\ pendingEvents' \in Seq(Events) /\ Spend("answer")
  BY DEF AnswerLost, TypeOK
<1>2. spent' \in [Mishaps -> Nat]
  BY <1>1, SpendType DEF Mishaps
<1> QED
  BY <1>1, <1>2, SendingType, DeliverType

LEMMA CrashType == ASSUME TypeOK, Crash PROVE TypeOK'
<1>1. /\ Nothing \in Reports /\ NoError \in Messages
      /\ 0 \in 0 .. Len(Progress) /\ 0 \in 0 .. Cap
  BY Basics, ReportAssumption DEF Nothing, Reports
<1>2. lost' \subseteq Nat
  <2>1. pendingEvents \in Seq(Events) /\ lost \subseteq Nat
    BY DEF TypeOK
  <2>2. \A e \in Events : e.n \in Nat
    BY DEF Events
  <2>3. \A i \in 1 .. Len(pendingEvents) : pendingEvents[i].n \in Nat
    BY <2>1, <2>2
  <2> QED
    BY <2>1, <2>3 DEF Crash, Numbers
<1>3. spent' \in [Mishaps -> Nat]
  BY SpendType DEF Crash, Mishaps
<1>4. pendingEvents' \in Seq(Events) /\ emittedSteps' \in [Steps -> Nat]
  BY DEF Crash
<1>5. /\ born' \in Nat /\ mark' \in Nat /\ lastDesired' <= Len(generations')
      /\ UNCHANGED <<emitted, cloud>>
  BY DEF Crash, TypeOK, cloud
<1>6. /\ lastDesired' \in Nat /\ lastGeneration' \in Nat
      /\ lastReconcileErr' \in Messages /\ lastErrMsg' \in Messages
      /\ curBlockReason' \in Blocks \cup {"none"}
      /\ awaitingSecretStore' \in BOOLEAN /\ awaitingDns' \in BOOLEAN
      /\ rateLimited' \in BOOLEAN /\ hadCert' \in BOOLEAN /\ stopped' \in BOOLEAN
      /\ backoff' \in 0 .. Cap /\ held' \in BOOLEAN /\ fails' \in 0 .. Cap
      /\ issued' \in BOOLEAN /\ pc' = "idle" /\ resume' = "idle"
      /\ at' \in 0 .. Len(Progress) /\ report' \in Reports
  BY <1>1 DEF Crash
<1> QED
  BY <1>2, <1>3, <1>4, <1>5, <1>6 DEF TypeOK, cloud

-----------------------------------------------------------------------------
(***************************************************************************)
(* What has been told: the timeline followed by the buffer.                *)
(***************************************************************************)
LEMMA ToldIs ==
    ASSUME TypeOK
    PROVE  /\ Told \in Seq(Events) /\ emitted \in Nat
           /\ Len(timeline) \in Nat /\ Len(pendingEvents) \in Nat
           /\ Len(Told) = Len(timeline) + Len(pendingEvents)
           /\ \A i \in 1 .. Len(timeline) : Told[i] = timeline[i]
           /\ \A i \in 1 .. Len(pendingEvents) : Told[Len(timeline) + i] = pendingEvents[i]
           /\ \A i \in 1 .. Len(Told) : Told[i].n \in Nat \ {0}
<1>1. timeline \in Seq(Events) /\ pendingEvents \in Seq(Events) /\ emitted \in Nat
  BY DEF TypeOK
<1>2. Told \in Seq(Events)
  BY <1>1 DEF Told
<1>3. \A e \in Events : e.n \in Nat \ {0}
  BY DEF Events
<1>4. \A i \in 1 .. Len(Told) : Told[i].n \in Nat \ {0}
  BY <1>2, <1>3
<1> QED
  BY <1>1, <1>2, <1>4 DEF Told

LEMMA Joined ==
    ASSUME NEW S, NEW s \in Seq(S), NEW t \in Seq(S)
    PROVE  /\ Len(s \o t) = Len(s) + Len(t)
           /\ \A i \in 1 .. Len(s) : (s \o t)[i] = s[i]
           /\ \A i \in 1 .. Len(t) : (s \o t)[Len(s) + i] = t[i]
OBVIOUS

LEMMA Beyond ==
    ASSUME NEW a \in Nat, NEW b \in Nat, NEW i \in 1 .. (a + b), i \notin 1 .. a
    PROVE  i - a \in 1 .. b /\ i > a /\ a + (i - a) = i
OBVIOUS

(* Emitting adds to the end. *)
LEMMA ToldGrows ==
    ASSUME TypeOK, TypeOK', NEW events \in Seq(EventData), Emit(events), UNCHANGED timeline
    PROVE  /\ emitted' = emitted + Len(events) /\ Len(events) \in Nat
           /\ Len(Told') = Len(Told) + Len(events)
           /\ \A i \in 1 .. Len(Told) : Told'[i] = Told[i]
           /\ \A i \in 1 .. Len(events) :
                /\ Told'[Len(Told) + i].n = emitted + i
                /\ Told'[Len(Told) + i].event = events[i]
<1> DEFINE new == [i \in 1 .. Len(events) |-> [n |-> emitted + i, event |-> events[i]]]
<1>1. pendingEvents \in Seq(Events) /\ timeline \in Seq(Events) /\ emitted \in Nat
      /\ Len(events) \in Nat
  BY DEF TypeOK
<1>2. \A i \in 1 .. Len(events) : [n |-> emitted + i, event |-> events[i]] \in Events
  BY <1>1 DEF Events
<1>3. new \in Seq(Events) /\ Len(new) = Len(events)
  BY <1>1, <1>2
<1>4. emitted' = emitted + Len(events) /\ pendingEvents' = pendingEvents \o new
  BY DEF Emit
<1>5. \A i \in 1 .. Len(events) : new[i].n = emitted + i /\ new[i].event = events[i]
  OBVIOUS
<1> HIDE DEF new
<1>6. Told' = timeline \o (pendingEvents \o new) /\ Told = timeline \o pendingEvents
  <2>1. timeline' = timeline
    OBVIOUS
  <2>2. Told' = timeline' \o pendingEvents'
    BY DEF Told
  <2> QED
    BY <1>4, <2>1, <2>2 DEF Told
<1>7. Len(Told') = Len(Told) + Len(new) /\ Len(Told) = Len(timeline) + Len(pendingEvents)
  <2>1. pendingEvents \o new \in Seq(Events)
        /\ Len(pendingEvents \o new) = Len(pendingEvents) + Len(new)
    BY <1>1, <1>3
  <2> QED
    BY <1>1, <1>3, <1>6, <2>1
<1>8. \A i \in 1 .. Len(Told) : Told'[i] = Told[i]
  BY <1>1, <1>3, <1>6
<1>9. \A i \in 1 .. Len(new) : Told'[Len(Told) + i] = new[i]
  BY <1>1, <1>3, <1>6, <1>7
<1> QED
  BY <1>1, <1>3, <1>4, <1>5, <1>7, <1>8, <1>9

(* A report that arrives changes nothing; one whose answer is lost adds a  *)
(* copy of the buffer.                                                     *)
LEMMA ToldArrives == ASSUME TypeOK, Arrives PROVE Told' = Told /\ timeline' = Told
<1>1. timeline \in Seq(Events) /\ pendingEvents \in Seq(Events)
  BY DEF TypeOK
<1>2. timeline' = timeline \o pendingEvents /\ pendingEvents' = <<>>
  BY DEF Arrives, Deliver
<1>3. timeline' \in Seq(Events)
  BY <1>1, <1>2
<1>4. timeline' \o <<>> = timeline'
  BY <1>3
<1> QED
  BY <1>2, <1>4 DEF Told

LEMMA ToldRepeats ==
    ASSUME TypeOK, AnswerLost
    PROVE  /\ timeline' = Told
           /\ Len(Told') = Len(Told) + Len(pendingEvents)
           /\ \A i \in 1 .. Len(Told) : Told'[i] = Told[i]
           /\ \A i \in 1 .. Len(pendingEvents) :
                /\ Told'[Len(Told) + i] = Told[Len(timeline) + i]
                /\ Told'[Len(Told) + i] = pendingEvents[i]
<1>1. timeline \in Seq(Events) /\ pendingEvents \in Seq(Events)
  BY DEF TypeOK
<1>2. /\ timeline' = timeline \o pendingEvents /\ pendingEvents' = pendingEvents
      /\ Told' = (timeline \o pendingEvents) \o pendingEvents
      /\ Told = timeline \o pendingEvents
  BY DEF AnswerLost, Deliver, Told
<1>3. Told \in Seq(Events) /\ Len(timeline) \in Nat
      /\ \A i \in 1 .. Len(pendingEvents) : Told[Len(timeline) + i] = pendingEvents[i]
  BY ToldIs
<1>4. Told' = Told \o pendingEvents /\ timeline' = Told
  BY <1>2
<1>5. /\ Len(Told') = Len(Told) + Len(pendingEvents)
      /\ \A i \in 1 .. Len(Told) : Told'[i] = Told[i]
      /\ \A i \in 1 .. Len(pendingEvents) : Told'[Len(Told) + i] = pendingEvents[i]
  <2>1. pendingEvents \in Seq(Events) /\ Told \in Seq(Events)
    BY <1>1, <1>3
  <2> QED
    BY <2>1, <1>4, Joined
<1> QED
  BY <1>3, <1>4, <1>5

-----------------------------------------------------------------------------
(***************************************************************************)
(* Nothing is skipped, and only lost answers repeat.                       *)
(***************************************************************************)
LEMMA EmitKeeps ==
    ASSUME TypeOK, TypeOK', ToldInv, NEW events \in Seq(EventData), Emit(events),
           UNCHANGED <<timeline, lost>>, spent'["answer"] = 0 => spent["answer"] = 0
    PROVE  ToldInv'
<1>1. /\ emitted' = emitted + Len(events) /\ Len(events) \in Nat
      /\ Len(Told') = Len(Told) + Len(events)
      /\ \A i \in 1 .. Len(Told) : Told'[i] = Told[i]
      /\ \A i \in 1 .. Len(events) : Told'[Len(Told) + i].n = emitted + i
  <2>1. UNCHANGED timeline
    OBVIOUS
  <2> QED
    BY <2>1, ToldGrows
<1>2. Len(Told) \in Nat /\ emitted \in Nat
  BY ToldIs
<1>3. \A i \in 1 .. Len(Told') : i \notin 1 .. Len(Told) =>
        i - Len(Told) \in 1 .. Len(events) /\ i > Len(Told) /\ Len(Told) + (i - Len(Told)) = i
  <2> SUFFICES ASSUME NEW i \in 1 .. Len(Told'), i \notin 1 .. Len(Told)
               PROVE  i - Len(Told) \in 1 .. Len(events) /\ i > Len(Told)
                      /\ Len(Told) + (i - Len(Told)) = i
    OBVIOUS
  <2>1. Len(Told') = Len(Told) + Len(events) /\ Len(events) \in Nat
    BY <1>1
  <2>2. i \in 1 .. (Len(Told) + Len(events))
    BY <2>1
  <2> QED
    BY <1>2, <2>1, <2>2, Beyond
<1>4. \A i \in 1 .. Len(Told') : i \notin 1 .. Len(Told) => Told'[i].n = emitted + (i - Len(Told))
  <2> SUFFICES ASSUME NEW i \in 1 .. Len(Told'), i \notin 1 .. Len(Told)
               PROVE  Told'[i].n = emitted + (i - Len(Told))
    OBVIOUS
  <2>1. Told'[Len(Told) + (i - Len(Told))].n = emitted + (i - Len(Told))
    BY <1>1, <1>3
  <2> QED
    BY <1>3, <2>1
<1>5. Numbered'
  <2> SUFFICES ASSUME NEW i \in 1 .. Len(Told') PROVE Told'[i].n \in 1 .. emitted'
    BY DEF Numbered
  <2>1. emitted' = emitted + Len(events) /\ Len(events) \in Nat
    BY <1>1
  <2>2. CASE i \in 1 .. Len(Told)
    <3>1. Told'[i].n \in 1 .. emitted
      BY <1>1, <2>2 DEF ToldInv, Numbered
    <3> QED
      BY <1>2, <2>1, <3>1
  <2>3. CASE i \notin 1 .. Len(Told)
    <3>1. Told'[i].n = emitted + (i - Len(Told)) /\ i - Len(Told) \in 1 .. Len(events)
      BY <1>3, <1>4, <2>3
    <3> QED
      BY <1>2, <2>1, <3>1
  <2> QED
    BY <2>2, <2>3
<1>6. \A n \in 1 .. emitted : n \in lost \/ \E j \in 1 .. Len(Told) : Told[j].n = n
  BY DEF ToldInv, NothingIsSkipped, Numbers
<1>a. \A n \in 1 .. emitted : n \in lost \/ \E j \in 1 .. Len(Told) : Told'[j].n = n
  <2>1. \A i \in 1 .. Len(Told) : Told'[i] = Told[i]
    BY <1>1
  <2> QED
    BY <1>6, <2>1
<1>b. /\ 1 .. Len(Told) \subseteq 1 .. Len(Told')
      /\ \A k \in 1 .. Len(events) : Len(Told) + k \in 1 .. Len(Told')
  <2>1. Len(Told') = Len(Told) + Len(events) /\ Len(events) \in Nat
    BY <1>1
  <2> QED
    BY <1>2, <2>1
<1>7. \A n \in 1 .. emitted' : n \in lost \/ \E j \in 1 .. Len(Told') : Told'[j].n = n
  <2> TAKE n \in 1 .. emitted'
  <2>1. CASE n \in 1 .. emitted
    BY <1>a, <1>b, <2>1
  <2>2. CASE n \notin 1 .. emitted
    <3>1. emitted' = emitted + Len(events) /\ Len(events) \in Nat
      BY <1>1
    <3>2. n - emitted \in 1 .. Len(events) /\ emitted + (n - emitted) = n
      BY <1>2, <2>2, <3>1, Beyond
    <3>3. Told'[Len(Told) + (n - emitted)].n = n
      BY <1>1, <3>2
    <3> QED
      BY <1>b, <3>2, <3>3
  <2> QED
    BY <2>1, <2>2
<1>8. \A i \in 1 .. Len(Told') : \A n \in 1 .. (Told'[i].n - 1) :
        n \in lost \/ \E j \in 1 .. (i - 1) : Told'[j].n = n
  <2> TAKE i \in 1 .. Len(Told')
  <2> TAKE n \in 1 .. (Told'[i].n - 1)
  <2>1. CASE i \in 1 .. Len(Told)
    <3>1. n \in lost \/ \E j \in 1 .. (i - 1) : Told[j].n = n
      BY <1>1, <2>1 DEF ToldInv, NothingIsSkipped
    <3>2. \A j \in 1 .. (i - 1) : Told'[j] = Told[j]
      <4>1. 1 .. (i - 1) \subseteq 1 .. Len(Told)
        BY <1>2, <2>1
      <4> QED
        BY <1>1, <4>1
    <3> QED
      BY <3>1, <3>2
  <2>2. CASE i \notin 1 .. Len(Told)
    <3>1. Told'[i].n = emitted + (i - Len(Told)) /\ i > Len(Told) /\ i \in Nat
          /\ Len(Told) + (i - Len(Told)) = i
      BY <1>3, <1>4, <2>2
    <3>2. CASE n \in 1 .. emitted
      <4>1. 1 .. Len(Told) \subseteq 1 .. (i - 1)
        BY <1>2, <3>1
      <4> QED
        BY <1>a, <3>2, <4>1
    <3>3. CASE n \notin 1 .. emitted
      <4> DEFINE k == n - emitted
      <4>1. k \in Nat \ {0} /\ k < i - Len(Told) /\ emitted + k = n
        BY <1>2, <3>1, <3>3
      <4>2. k \in 1 .. Len(events)
        <5>1. i - Len(Told) \in 1 .. Len(events) /\ Len(events) \in Nat
          BY <1>1, <1>3, <2>2
        <5> QED
          BY <4>1, <5>1
      <4>3. Told'[Len(Told) + k].n = emitted + k
        BY <1>1, <4>2
      <4>4. Len(Told) + k \in 1 .. (i - 1)
        BY <1>2, <3>1, <4>1
      <4> QED
        BY <4>1, <4>3, <4>4
    <3> QED
      BY <3>2, <3>3
  <2> QED
    BY <2>1, <2>2
<1>9. NothingIsSkipped'
  BY <1>7, <1>8 DEF NothingIsSkipped, Numbers
<1>10. OnlyLostAnswersRepeat'
  <2> SUFFICES ASSUME spent'["answer"] = 0,
                      NEW i \in 1 .. Len(Told'), NEW j \in 1 .. Len(Told'),
                      Told'[i].n = Told'[j].n
               PROVE  i = j
    BY DEF OnlyLostAnswersRepeat
  <2>1. \A k \in 1 .. Len(Told) : Told'[k].n \in 1 .. emitted
    BY <1>1 DEF ToldInv, Numbered
  <2>2. CASE i \in 1 .. Len(Told) /\ j \in 1 .. Len(Told)
    BY <1>1, <2>2 DEF ToldInv, OnlyLostAnswersRepeat
  <2>3. /\ i \notin 1 .. Len(Told) => Told'[i].n = emitted + (i - Len(Told)) /\ i > Len(Told)
        /\ j \notin 1 .. Len(Told) => Told'[j].n = emitted + (j - Len(Told)) /\ j > Len(Told)
    BY <1>3, <1>4
  <2>4. /\ i \in 1 .. Len(Told) => Told'[i].n <= emitted
        /\ j \in 1 .. Len(Told) => Told'[j].n <= emitted
    BY <2>1
  <2>5. i \in Nat /\ j \in Nat /\ emitted \in Nat /\ Len(Told) \in Nat
    BY <1>2
  <2>6. CASE i \in 1 .. Len(Told) /\ j \notin 1 .. Len(Told)
    <3>1. emitted + (j - Len(Told)) <= emitted
      BY <2>3, <2>4, <2>6
    <3> QED
      BY <2>3, <2>5, <2>6, <3>1
  <2>7. CASE i \notin 1 .. Len(Told) /\ j \in 1 .. Len(Told)
    <3>1. emitted + (i - Len(Told)) <= emitted
      BY <2>3, <2>4, <2>7
    <3> QED
      BY <2>3, <2>5, <2>7, <3>1
  <2>8. CASE i \notin 1 .. Len(Told) /\ j \notin 1 .. Len(Told)
    <3>1. emitted + (j - Len(Told)) = emitted + (i - Len(Told))
      BY <2>3, <2>8
    <3> QED
      BY <2>5, <3>1
  <2> QED
    BY <2>2, <2>6, <2>7, <2>8
<1> QED
  BY <1>5, <1>9, <1>10 DEF ToldInv

LEMMA LocalKeeps == ASSUME TypeOK, TypeOK', ToldInv, Local PROVE ToldInv'
<1>1. CASE UNCHANGED queue
  <2>1. Told' = Told /\ UNCHANGED <<emitted, lost>>
    BY <1>1 DEF Local, queue, Told
  <2>2. spent'["answer"] = 0 => spent["answer"] = 0
    BY DEF Local
  <2> QED
    BY <2>1, <2>2
    DEF ToldInv, Numbered, NothingIsSkipped, OnlyLostAnswersRepeat, Numbers
<1>2. CASE \E events \in Seq(EventData) : Emit(events)
  BY <1>2, EmitKeeps DEF Local
<1> QED
  BY <1>1, <1>2 DEF Local

LEMMA SentKeeps == ASSUME TypeOK, ToldInv, Arrives \/ NotSent PROVE ToldInv'
<1>1. Told' = Told
  BY ToldArrives DEF NotSent, Told
<1>2. UNCHANGED <<emitted, lost, spent>>
  BY DEF Arrives, NotSent, Sending, lives
<1> QED
  BY <1>1, <1>2 DEF ToldInv, Numbered, NothingIsSkipped, OnlyLostAnswersRepeat, Numbers

LEMMA RepeatKeeps == ASSUME TypeOK, ToldInv, AnswerLost PROVE ToldInv'
<1>1. /\ UNCHANGED <<emitted, lost>> /\ spent'["answer"] # 0
  BY SpendType DEF AnswerLost, Sending, lives, Mishaps
<1>2. /\ Len(Told') = Len(Told) + Len(pendingEvents)
      /\ \A i \in 1 .. Len(Told) : Told'[i] = Told[i]
      /\ \A i \in 1 .. Len(pendingEvents) : Told'[Len(Told) + i] = Told[Len(timeline) + i]
  BY ToldRepeats
<1>3. /\ Len(Told) \in Nat /\ Len(pendingEvents) \in Nat /\ Len(timeline) \in Nat
      /\ Len(Told) = Len(timeline) + Len(pendingEvents)
  BY ToldIs
<1>4. \A i \in 1 .. Len(Told') : \E k \in 1 .. Len(Told) : k <= i /\ Told'[i] = Told[k]
  <2> TAKE i \in 1 .. Len(Told')
  <2>1. CASE i \in 1 .. Len(Told)
    BY <1>2, <1>3, <2>1
  <2>2. CASE i \notin 1 .. Len(Told)
    <3>1. i - Len(Told) \in 1 .. Len(pendingEvents)
      BY <1>2, <1>3, <2>2
    <3>2. Told'[Len(Told) + (i - Len(Told))] = Told[Len(timeline) + (i - Len(Told))]
      BY <1>2, <3>1
    <3>3. /\ Len(timeline) + (i - Len(Told)) \in 1 .. Len(Told)
          /\ Len(timeline) + (i - Len(Told)) <= i
          /\ Len(Told) + (i - Len(Told)) = i
      BY <1>3, <3>1
    <3> QED
      BY <3>2, <3>3
  <2> QED
    BY <2>1, <2>2
<1>5. Numbered'
  BY <1>1, <1>4 DEF ToldInv, Numbered
<1>6. \A n \in 1 .. emitted' : n \in lost' \/ \E j \in 1 .. Len(Told') : Told'[j].n = n
  <2>1. \A n \in 1 .. emitted : n \in lost \/ \E j \in 1 .. Len(Told) : Told[j].n = n
    BY DEF ToldInv, NothingIsSkipped, Numbers
  <2> QED
    BY <1>1, <1>2, <1>3, <2>1
<1>7. \A i \in 1 .. Len(Told') : \A n \in 1 .. (Told'[i].n - 1) :
        n \in lost' \/ \E j \in 1 .. (i - 1) : Told'[j].n = n
  <2> TAKE i \in 1 .. Len(Told')
  <2>1. PICK k \in 1 .. Len(Told) : k <= i /\ Told'[i] = Told[k]
    BY <1>4
  <2> TAKE n \in 1 .. (Told'[i].n - 1)
  <2>2. n \in lost \/ \E j \in 1 .. (k - 1) : Told[j].n = n
    BY <2>1 DEF ToldInv, NothingIsSkipped
  <2> QED
    BY <1>1, <1>2, <1>3, <2>1, <2>2
<1> QED
  BY <1>1, <1>5, <1>6, <1>7
  DEF ToldInv, NothingIsSkipped, OnlyLostAnswersRepeat, Numbers

LEMMA CrashKeeps == ASSUME TypeOK, TypeOK', ToldInv, Crash PROVE ToldInv'
<1>1. /\ UNCHANGED <<emitted, timeline>> /\ pendingEvents' = <<>>
      /\ lost' = lost \cup (Numbers(pendingEvents) \ Numbers(timeline))
      /\ spent'["answer"] = 0 => spent["answer"] = 0
  BY SpendType DEF Crash, cloud, Mishaps
<1>2. /\ Len(timeline) \in Nat /\ Len(pendingEvents) \in Nat
      /\ Len(Told) = Len(timeline) + Len(pendingEvents)
      /\ \A i \in 1 .. Len(timeline) : Told[i] = timeline[i]
      /\ \A i \in 1 .. Len(pendingEvents) : Told[Len(timeline) + i] = pendingEvents[i]
  BY ToldIs
<1>3. timeline \in Seq(Events)
  BY DEF TypeOK
<1>4. Told' = timeline
  BY <1>1, <1>3 DEF Told
<1>5. 1 .. Len(timeline) \subseteq 1 .. Len(Told)
  BY <1>2
<1>6. Numbered'
  BY <1>1, <1>2, <1>4, <1>5 DEF ToldInv, Numbered
<1>7. \A n \in 1 .. emitted' : n \in lost' \cup Numbers(Told')
  <2> TAKE n \in 1 .. emitted'
  <2>1. n \in lost \/ \E j \in 1 .. Len(Told) : Told[j].n = n
    BY <1>1 DEF ToldInv, NothingIsSkipped, Numbers
  <2>2. ASSUME NEW j \in 1 .. Len(Told), Told[j].n = n
        PROVE  n \in Numbers(pendingEvents) \cup Numbers(timeline)
    <3>1. CASE j \in 1 .. Len(timeline)
      BY <1>2, <2>2, <3>1 DEF Numbers
    <3>2. CASE j \notin 1 .. Len(timeline)
      <4>1. j - Len(timeline) \in 1 .. Len(pendingEvents)
        BY <1>2, <3>2
      <4>2. Told[Len(timeline) + (j - Len(timeline))] = pendingEvents[j - Len(timeline)]
        BY <1>2, <4>1
      <4> QED
        BY <1>2, <2>2, <4>1, <4>2 DEF Numbers
    <3> QED
      BY <3>1, <3>2
  <2> QED
    BY <1>1, <1>4, <2>1, <2>2
<1>8. \A i \in 1 .. Len(Told') : \A n \in 1 .. (Told'[i].n - 1) :
        n \in lost' \/ \E j \in 1 .. (i - 1) : Told'[j].n = n
  <2> TAKE i \in 1 .. Len(Told')
  <2> TAKE n \in 1 .. (Told'[i].n - 1)
  <2>1. i \in 1 .. Len(Told) /\ i \in 1 .. Len(timeline) /\ Told'[i] = Told[i]
    BY <1>2, <1>4, <1>5
  <2>2. n \in lost \/ \E j \in 1 .. (i - 1) : Told[j].n = n
    BY <2>1 DEF ToldInv, NothingIsSkipped
  <2> QED
    BY <1>1, <1>2, <1>4, <2>1, <2>2
<1>9. OnlyLostAnswersRepeat'
  BY <1>1, <1>2, <1>4, <1>5 DEF ToldInv, OnlyLostAnswersRepeat
<1> QED
  BY <1>6, <1>7, <1>8, <1>9 DEF ToldInv, NothingIsSkipped

-----------------------------------------------------------------------------
(***************************************************************************)
(* Types and the queue, for every behaviour.                               *)
(***************************************************************************)
LEMMA InitTold == Init => ToldInv
BY DEF Init, ToldInv, Numbered, NothingIsSkipped, OnlyLostAnswersRepeat, Told, Numbers

LEMMA StepTypes ==
    ASSUME TypeOK, [Next]_vars
    PROVE  /\ TypeOK'
           /\ Local \/ Arrives \/ NotSent \/ AnswerLost \/ Crash
<1>1. CASE Handlers
  BY <1>1, OnDesiredType, ReapplyType, NudgeType, HeartbeatType, TamperedType,
     RunBackupType, BackupDoneType, BackupTickType DEF Handlers
<1>2. CASE Reconcile
  BY <1>2, StopStackType, PrepareType, EdgeType, ProvisionStepType, ProvisionFailsType,
     CompleteType DEF Reconcile
<1>3. CASE Report
  BY <1>3, ArrivesType, NotSentType, AnswerLostType DEF Report
<1>4. CASE Publish \/ WindowPasses
  BY <1>4, PublishType, WindowType
<1>5. CASE Crash
  BY <1>5, CrashType
<1>6. CASE UNCHANGED vars
  BY <1>6 DEF vars, TypeOK, Local, dedup, flags, gate, retry, memory, queue, place,
     cloud, lives
<1> QED
  BY <1>1, <1>2, <1>3, <1>4, <1>5, <1>6 DEF Next

LEMMA StepTold == ASSUME TypeOK, ToldInv, [Next]_vars PROVE ToldInv'
BY StepTypes, LocalKeeps, SentKeeps, RepeatKeeps, CrashKeeps

(* Types of the agent's memory, its handlers, the cloud and the history.   *)
THEOREM ReportTypeCorrect == Spec => []TypeOK
<1>1. TypeOK /\ [Next]_vars => TypeOK'
  BY StepTypes
<1> QED
  BY InitType, <1>1, PTL DEF Spec

LEMMA ToldCorrect == Spec => []ToldInv
<1>1. TypeOK /\ ToldInv /\ [Next]_vars => ToldInv'
  BY StepTold
<1> QED
  BY InitTold, <1>1, ReportTypeCorrect, PTL DEF Spec

(* Whatever reports fail and however often, no event is dropped or         *)
(* overtaken but by the death of the agent (report, agent.go:1210).        *)
THEOREM TimelineIsComplete == Spec => []NothingIsSkipped
BY ToldCorrect, PTL DEF ToldInv

(* An event is on the timeline twice only if the answer to a report was    *)
(* lost (report, agent.go:1210).                                           *)
THEOREM TimelineIsExact == Spec => []OnlyLostAnswersRepeat
BY ToldCorrect, PTL DEF ToldInv

-----------------------------------------------------------------------------
(***************************************************************************)
(* The status is explained.  What the agent remembers as said has been     *)
(* said, and a report says no more than that.                              *)
(***************************************************************************)
Heard == {Told[i] : i \in 1 .. Len(Told)}

OnTimeline == {timeline[i] : i \in 1 .. Len(timeline)}

ErrorHeard(msg) ==
    \E e \in Heard : e.n > mark /\ e.event.reason = "ReconcileError" /\ e.event.msg = msg

BlockHeard(reason) == \E e \in Heard : e.n > born /\ e.event.reason = reason

StepHeard(reason, gen) ==
    \E e \in Heard : e.n > born /\ e.event.reason = reason /\ e.event.gen = gen

ErrorsHeard ==
    /\ lastErrMsg # NoError => ErrorHeard(lastErrMsg)
    /\ lastReconcileErr # NoError => ErrorHeard(lastReconcileErr)

BlocksHeard ==
    /\ curBlockReason \in Blocks => BlockHeard(curBlockReason)
    /\ awaitingDns => BlockHeard("AwaitingDnsDelegation")
    /\ rateLimited => BlockHeard("RateLimited")

StepsHeard == \A r \in Steps : emittedSteps[r] # 0 => StepHeard(r, emittedSteps[r])

SyncHeard ==
    lastGeneration # 0 => \E r \in {"ReconcileComplete", "DeploymentStopped"} :
                            StepHeard(r, lastGeneration)

Remembered == ErrorsHeard /\ BlocksHeard /\ StepsHeard /\ SyncHeard

Backed(s, events) ==
    \/ s.reason \in {"none", "AwaitingSecretStore"}
    \/ s.reason = "InSync" /\ s.gen = 0
    \/ \E e \in events : Explains(e, s)

Grounds ==
    /\ mark <= emitted /\ born <= emitted
    /\ Remembered
    /\ pc = "report" => Backed(report, Heard)
    /\ Backed(status, OnTimeline)

LEMMA BackedMore ==
    ASSUME NEW s, NEW E, NEW F, E \subseteq F, Backed(s, E)
    PROVE  Backed(s, F)
BY DEF Backed

LEMMA StillRemembered ==
    ASSUME Remembered, Heard \subseteq Heard',
           UNCHANGED <<lastErrMsg, lastReconcileErr, curBlockReason, awaitingDns, rateLimited,
                       emittedSteps, lastGeneration, mark, born>>
    PROVE  Remembered'
<1>1. /\ lastErrMsg' = lastErrMsg /\ lastReconcileErr' = lastReconcileErr
      /\ curBlockReason' = curBlockReason /\ awaitingDns' = awaitingDns
      /\ rateLimited' = rateLimited /\ emittedSteps' = emittedSteps
      /\ lastGeneration' = lastGeneration /\ mark' = mark /\ born' = born
  OBVIOUS
<1>2. ErrorsHeard'
  BY <1>1 DEF Remembered, ErrorsHeard, ErrorHeard
<1>3. BlocksHeard'
  BY <1>1 DEF Remembered, BlocksHeard, BlockHeard
<1>4. StepsHeard' /\ SyncHeard'
  BY <1>1 DEF Remembered, StepsHeard, SyncHeard, StepHeard
<1> QED
  BY <1>2, <1>3, <1>4 DEF Remembered

LEMMA HeardGrows ==
    ASSUME TypeOK, TypeOK', NEW events \in Seq(EventData), Emit(events), UNCHANGED timeline
    PROVE  /\ Heard \subseteq Heard' /\ emitted <= emitted'
           /\ \A i \in 1 .. Len(events) :
                \E e \in Heard' : e.n \in Nat /\ e.n > emitted /\ e.event = events[i]
<1>1. /\ emitted' = emitted + Len(events) /\ Len(events) \in Nat
      /\ Len(Told') = Len(Told) + Len(events)
      /\ \A i \in 1 .. Len(Told) : Told'[i] = Told[i]
      /\ \A i \in 1 .. Len(events) : /\ Told'[Len(Told) + i].n = emitted + i
                                     /\ Told'[Len(Told) + i].event = events[i]
  <2>1. UNCHANGED timeline
    OBVIOUS
  <2> QED
    BY <2>1, ToldGrows
<1>2. Len(Told) \in Nat /\ emitted \in Nat
  BY ToldIs
<1>3. Heard \subseteq Heard'
  BY <1>1, <1>2 DEF Heard
<1>4. \A i \in 1 .. Len(events) : \E e \in Heard' : e.n \in Nat /\ e.n > emitted /\ e.event = events[i]
  <2> TAKE i \in 1 .. Len(events)
  <2>1. Len(Told) + i \in 1 .. Len(Told')
    BY <1>1, <1>2
  <2>2. Told'[Len(Told) + i] \in Heard'
    BY <2>1 DEF Heard
  <2>3. /\ Told'[Len(Told) + i].n > emitted /\ Told'[Len(Told) + i].n \in Nat
        /\ Told'[Len(Told) + i].event = events[i]
    BY <1>1, <1>2
  <2> QED
    BY <2>2, <2>3
<1> QED
  BY <1>1, <1>2, <1>3, <1>4

LEMMA HeardStays == ASSUME UNCHANGED <<timeline, pendingEvents>> PROVE Heard' = Heard
BY DEF Heard, Told

LEMMA TimelineStays == ASSUME UNCHANGED timeline PROVE OnTimeline' = OnTimeline
BY DEF OnTimeline

(* A report of the current conditions has grounds if the memory has. *)
LEMMA ReportBacked ==
    ASSUME TypeOK', Remembered', NEW next, ReportThen(next)
    PROVE  Backed(report, Heard)'
<1>1. /\ report'.reason = Ready' /\ report'.gen = lastGeneration'
      /\ report'.msg = lastReconcileErr'
      /\ report'.since = IF Ready' = "ReconcileError" THEN mark' ELSE born'
  BY DEF ReportThen, Status
<1>2. CASE lastReconcileErr' # NoError
  <2>1. Ready' = "ReconcileError"
    BY <1>2 DEF Ready
  <2>2. PICK e \in Heard' : /\ e.n > mark' /\ e.event.reason = "ReconcileError"
                            /\ e.event.msg = lastReconcileErr'
    BY <1>2 DEF Remembered, ErrorsHeard, ErrorHeard
  <2>3. Explains(e, report')
    BY <1>1, <2>1, <2>2 DEF Explains
  <2> QED
    BY <2>2, <2>3 DEF Backed
<1>3. CASE lastReconcileErr' = NoError /\ awaitingSecretStore'
  BY <1>1, <1>3 DEF Ready, Backed
<1>4. CASE lastReconcileErr' = NoError /\ ~awaitingSecretStore' /\ (rateLimited' \/ awaitingDns')
  <2>1. Ready' \in Blocks /\ BlockHeard(Ready)'
    BY <1>4 DEF Ready, Blocks, Remembered, BlocksHeard
  <2>2. PICK e \in Heard' : e.n > born' /\ e.event.reason = Ready'
    BY <2>1 DEF BlockHeard
  <2>3. Explains(e, report')
    BY <1>1, <2>1, <2>2 DEF Explains, Blocks
  <2> QED
    BY <2>2, <2>3 DEF Backed
<1>5. CASE /\ lastReconcileErr' = NoError /\ ~awaitingSecretStore'
           /\ ~rateLimited' /\ ~awaitingDns'
  <2>1. Ready' = "InSync"
    BY <1>5 DEF Ready
  <2>2. CASE lastGeneration' = 0
    BY <1>1, <2>1, <2>2 DEF Backed
  <2>3. CASE lastGeneration' # 0
    <3>1. PICK e \in Heard' : /\ e.n > born' /\ e.event.gen = lastGeneration'
                              /\ e.event.reason \in {"ReconcileComplete", "DeploymentStopped"}
      BY <2>3 DEF Remembered, SyncHeard, StepHeard
    <3>2. Explains(e, report')
      BY <1>1, <2>1, <3>1 DEF Explains, Blocks
    <3> QED
      BY <3>1, <3>2 DEF Backed
  <2> QED
    BY <2>2, <2>3
<1> QED
  BY <1>2, <1>3, <1>4, <1>5

LEMMA LocalHeard ==
    ASSUME TypeOK, TypeOK', Local
    PROVE  /\ Heard \subseteq Heard' /\ OnTimeline' = OnTimeline
           /\ emitted <= emitted' /\ emitted \in Nat
<1>1. UNCHANGED timeline /\ emitted \in Nat
  BY DEF Local, TypeOK
<1>2. CASE UNCHANGED queue
  <2>1. UNCHANGED <<timeline, pendingEvents>> /\ emitted' = emitted
    BY <1>1, <1>2 DEF queue
  <2> QED
    BY <1>1, <2>1, HeardStays, TimelineStays
<1>3. CASE \E events \in Seq(EventData) : Emit(events)
  BY <1>1, <1>3, HeardGrows, TimelineStays
<1> QED
  BY <1>2, <1>3 DEF Local

(* How a step that only emits may leave the report. *)
Reported ==
    \/ \E next : ReportThen(next)
    \/ pc' # "report"
    \/ UNCHANGED <<pc, report>>

LEMMA LocalGrounds ==
    ASSUME TypeOK, TypeOK', Grounds, Local, Remembered', UNCHANGED <<status, born>>,
           mark' <= emitted', Reported \/ Backed(report, Heard)'
    PROVE  Grounds'
<1>1. /\ Heard \subseteq Heard' /\ OnTimeline' = OnTimeline
      /\ emitted <= emitted' /\ emitted \in Nat
  BY LocalHeard
<1>2. born' <= emitted'
  <2>1. born \in Nat /\ emitted' \in Nat /\ born <= emitted /\ born' = born
    BY DEF TypeOK, Grounds
  <2> QED
    BY <1>1, <2>1
<1>3. Backed(status, OnTimeline)'
  BY <1>1 DEF Grounds
<1>4. pc' = "report" => Backed(report, Heard)'
  <2>1. CASE \E next : ReportThen(next)
    BY <2>1, ReportBacked
  <2>2. CASE UNCHANGED <<pc, report>>
    <3>1. ASSUME pc' = "report"
          PROVE  Backed(report, Heard') /\ report' = report
      BY <1>1, <2>2, <3>1, BackedMore DEF Grounds
    <3> QED
      BY <3>1
  <2> QED
    BY <2>1, <2>2 DEF Reported
<1> QED
  BY <1>2, <1>3, <1>4 DEF Grounds

(* Handlers that change nothing of what the agent remembers as said. *)
LEMMA PlainGrounds ==
    ASSUME TypeOK, TypeOK', Grounds, Local, Reported,
           UNCHANGED <<lastErrMsg, lastReconcileErr, curBlockReason, awaitingDns, rateLimited,
                       emittedSteps, lastGeneration, mark, born, status>>
    PROVE  Grounds'
<1>1. Heard \subseteq Heard' /\ emitted <= emitted' /\ emitted \in Nat
  BY LocalHeard
<1>2. Remembered'
  BY <1>1, StillRemembered DEF Grounds
<1>3. mark' <= emitted'
  BY <1>1 DEF Grounds, TypeOK
<1> QED
  BY <1>2, <1>3, LocalGrounds

LEMMA HandlerGrounds ==
    ASSUME TypeOK, Grounds,
           \/ OnDesired \/ Reapply \/ Nudge \/ HeartbeatTick \/ OnRunBackup \/ BackupDone
           \/ BackupTick \/ Publish \/ WindowPasses
    PROVE  Grounds'
<1>1. TypeOK' /\ Local
  BY OnDesiredType, ReapplyType, NudgeType, HeartbeatType, RunBackupType, BackupDoneType,
     BackupTickType, PublishType, WindowType
<1>2. UNCHANGED <<lastErrMsg, lastReconcileErr, curBlockReason, awaitingDns, rateLimited,
                  emittedSteps, lastGeneration, mark, born, status>>
  BY DEF OnDesired, Reapply, Nudge, HeartbeatTick, OnRunBackup, BackupDone, BackupTick,
     Publish, WindowPasses, gate, dedup, flags, cloud, lives
<1>3. Reported
  BY DEF OnDesired, Reapply, Nudge, HeartbeatTick, OnRunBackup, BackupDone, BackupTick,
     Publish, WindowPasses, Apply, place, Reported
<1> QED
  BY <1>1, <1>2, <1>3, PlainGrounds

-----------------------------------------------------------------------------
(* An error that is remembered has been said since the last success. *)
LEMMA ErrorSaid ==
    ASSUME TypeOK, TypeOK', Grounds, NEW msg \in Messages, msg # NoError,
           NEW before \in Seq(EventData), Emit(before \o ErrorEvent(msg)),
           UNCHANGED <<timeline, mark>>
    PROVE  /\ ErrorHeard(msg)' /\ Heard \subseteq Heard' /\ emitted <= emitted'
           /\ \A i \in 1 .. Len(before) :
                \E e \in Heard' : e.n \in Nat /\ e.n > emitted /\ e.event = before[i]
<1> DEFINE all == before \o ErrorEvent(msg)
<1>1. ErrorEvent(msg) \in Seq(EventData)
  BY ErrorType
<1>2. all \in Seq(EventData) /\ Len(all) = Len(before) + Len(ErrorEvent(msg))
      /\ Len(before) \in Nat /\ Len(ErrorEvent(msg)) \in Nat
      /\ \A i \in 1 .. Len(before) : all[i] = before[i]
  BY <1>1
<1> HIDE DEF all
<1>3. /\ Heard \subseteq Heard' /\ emitted <= emitted'
      /\ \A i \in 1 .. Len(all) : \E e \in Heard' : e.n \in Nat /\ e.n > emitted /\ e.event = all[i]
  <2>1. UNCHANGED timeline /\ Emit(all)
    BY DEF all
  <2> QED
    BY <1>2, <2>1, HeardGrows
<1>4. mark' = mark /\ mark <= emitted /\ emitted \in Nat /\ mark \in Nat
  BY DEF Grounds, TypeOK
<1>5. ErrorHeard(msg)'
  <2>1. CASE msg = lastErrMsg
    <3>1. PICK e \in Heard : /\ e.n > mark /\ e.event.reason = "ReconcileError"
                             /\ e.event.msg = msg
      BY <2>1 DEF Grounds, Remembered, ErrorsHeard, ErrorHeard
    <3> QED
      BY <1>3, <1>4, <3>1 DEF ErrorHeard
  <2>2. CASE msg # lastErrMsg
    <3>1. ErrorEvent(msg) = <<Event("ReconcileError", msg)>>
      BY <2>2 DEF ErrorEvent
    <3>2. Len(before) + 1 \in 1 .. Len(all)
      BY <1>2, <3>1
    <3>3. all[Len(before) + 1] = Event("ReconcileError", msg)
      <4> DEFINE x == Event("ReconcileError", msg)
      <4> HIDE DEF x
      <4>1. all = before \o <<x>>
        BY <3>1 DEF all, x
      <4>2. (before \o <<x>>)[Len(before) + 1] = x
        OBVIOUS
      <4> QED
        BY <4>1, <4>2 DEF x
    <3>4. PICK e \in Heard' : /\ e.n \in Nat /\ e.n > emitted
                              /\ e.event = Event("ReconcileError", msg)
      BY <1>3, <3>2, <3>3
    <3>5. e.event.reason = "ReconcileError" /\ e.event.msg = msg
      BY <3>4 DEF Event
    <3> QED
      BY <1>4, <3>4, <3>5 DEF ErrorHeard
  <2> QED
    BY <2>1, <2>2
<1>6. \A i \in 1 .. Len(before) :
        \E e \in Heard' : e.n \in Nat /\ e.n > emitted /\ e.event = before[i]
  <2> TAKE i \in 1 .. Len(before)
  <2>1. i \in 1 .. Len(all) /\ all[i] = before[i]
    BY <1>2
  <2> QED
    BY <1>3, <2>1
<1> QED
  BY <1>3, <1>5, <1>6

(* An event of this very step. *)
Fresh(x) == \E e \in Heard' : e.n \in Nat /\ e.n > emitted /\ e.event = x

AllFresh(events) == \A i \in 1 .. Len(events) : Fresh(events[i])

LEMMA EmitFresh ==
    ASSUME TypeOK, TypeOK', NEW events \in Seq(EventData), Emit(events), UNCHANGED timeline
    PROVE  Heard \subseteq Heard' /\ AllFresh(events)
<1>1. UNCHANGED timeline
  OBVIOUS
<1> QED
  BY <1>1, HeardGrows DEF AllFresh, Fresh

LEMMA ConcatFresh ==
    ASSUME NEW a \in Seq(EventData), NEW b \in Seq(EventData), AllFresh(a \o b)
    PROVE  AllFresh(a) /\ AllFresh(b)
<1>1. /\ Len(a) \in Nat /\ Len(b) \in Nat /\ Len(a \o b) = Len(a) + Len(b)
      /\ \A i \in 1 .. Len(a) : (a \o b)[i] = a[i]
      /\ \A i \in 1 .. Len(b) : (a \o b)[Len(a) + i] = b[i]
  OBVIOUS
<1>2. \A i \in 1 .. Len(a) : Fresh(a[i])
  <2> TAKE i \in 1 .. Len(a)
  <2>1. i \in 1 .. Len(a \o b) /\ (a \o b)[i] = a[i]
    BY <1>1
  <2>2. Fresh((a \o b)[i])
    BY <2>1 DEF AllFresh
  <2> QED
    BY <2>1, <2>2
<1>3. \A i \in 1 .. Len(b) : Fresh(b[i])
  <2> TAKE i \in 1 .. Len(b)
  <2>1. Len(a) + i \in 1 .. Len(a \o b) /\ (a \o b)[Len(a) + i] = b[i]
    BY <1>1
  <2>2. Fresh((a \o b)[Len(a) + i])
    BY <2>1 DEF AllFresh
  <2> QED
    BY <2>1, <2>2
<1> QED
  BY <1>2, <1>3 DEF AllFresh

LEMMA SingleFresh == ASSUME NEW x, AllFresh(<<x>>) PROVE Fresh(x)
<1>1. Len(<<x>>) = 1 /\ <<x>>[1] = x
  OBVIOUS
<1>2. 1 \in 1 .. Len(<<x>>)
  BY <1>1
<1> QED
  BY <1>1, <1>2 DEF AllFresh

(* A step that is made now has been said, now or before. *)
LEMMA StepSaid ==
    ASSUME TypeOK, Grounds, Heard \subseteq Heard', UNCHANGED <<lastDesired, born>>,
           NEW r \in Steps, AllFresh(StepEvent(r)), lastDesired # 0
    PROVE  StepHeard(r, lastDesired)'
<1>1. born' = born /\ lastDesired' = lastDesired
  OBVIOUS
<1>2. CASE emittedSteps[r] = lastDesired
  <2>1. PICK e \in Heard : /\ e.n > born /\ e.event.reason = r
                           /\ e.event.gen = lastDesired
    BY <1>2 DEF Grounds, Remembered, StepsHeard, StepHeard
  <2> QED
    BY <1>1, <2>1 DEF StepHeard
<1>3. CASE emittedSteps[r] # lastDesired
  <2>1. Fresh(Event(r, NoError))
    BY <1>3, SingleFresh DEF StepEvent
  <2>2. PICK e \in Heard' : e.n \in Nat /\ e.n > emitted /\ e.event = Event(r, NoError)
    BY <2>1 DEF Fresh
  <2>3. e.event.reason = r /\ e.event.gen = lastDesired
    BY <2>2 DEF Event
  <2>4. e.n > born
    BY <2>2 DEF Grounds, TypeOK
  <2> QED
    BY <1>1, <2>3, <2>4 DEF StepHeard
<1> QED
  BY <1>2, <1>3

LEMMA StepsSaid ==
    ASSUME TypeOK, Grounds, Heard \subseteq Heard', UNCHANGED <<lastDesired, born>>,
           NEW reasons \in SUBSET Steps, Stepped(reasons),
           \A r \in reasons : AllFresh(StepEvent(r))
    PROVE  StepsHeard'
<1>1. born' = born /\ lastDesired' = lastDesired
  OBVIOUS
<1> SUFFICES ASSUME NEW r \in Steps, emittedSteps'[r] # 0
             PROVE  StepHeard(r, emittedSteps[r])'
  BY DEF StepsHeard
<1>2. CASE r \in reasons
  <2>1. emittedSteps'[r] = lastDesired
    BY <1>2 DEF Stepped
  <2>2. StepHeard(r, lastDesired)'
    BY <1>1, <1>2, <2>1, StepSaid
  <2> QED
    BY <1>1, <2>1, <2>2 DEF StepHeard
<1>3. CASE r \notin reasons
  <2>1. emittedSteps'[r] = emittedSteps[r]
    BY <1>3 DEF Stepped
  <2>2. PICK e \in Heard : /\ e.n > born /\ e.event.reason = r
                           /\ e.event.gen = emittedSteps[r]
    BY <2>1 DEF Grounds, Remembered, StepsHeard, StepHeard
  <2> QED
    BY <1>1, <2>1, <2>2 DEF StepHeard
<1> QED
  BY <1>2, <1>3

LEMMA BlockSaid ==
    ASSUME TypeOK, Grounds, Heard \subseteq Heard', UNCHANGED born,
           NEW reason \in Blocks, AllFresh(BlockEvent(reason))
    PROVE  BlockHeard(reason)'
<1>1. born' = born
  OBVIOUS
<1>2. CASE curBlockReason = reason
  BY <1>1, <1>2 DEF Grounds, Remembered, BlocksHeard, BlockHeard
<1>3. CASE curBlockReason # reason
  <2>1. Fresh(Event(reason, NoError))
    BY <1>3, SingleFresh DEF BlockEvent
  <2>2. PICK e \in Heard' : e.n \in Nat /\ e.n > emitted /\ e.event = Event(reason, NoError)
    BY <2>1 DEF Fresh
  <2>3. e.event.reason = reason
    BY <2>2 DEF Event
  <2>4. e.n > born
    BY <2>2 DEF Grounds, TypeOK
  <2> QED
    BY <1>1, <2>3, <2>4 DEF BlockHeard
<1> QED
  BY <1>2, <1>3

(* What a step leaves alone stays said. *)
LEMMA ErrorsKept ==
    ASSUME Grounds, Heard \subseteq Heard',
           UNCHANGED <<lastErrMsg, lastReconcileErr, mark>>
    PROVE  ErrorsHeard'
BY DEF Grounds, Remembered, ErrorsHeard, ErrorHeard

LEMMA BlocksKept ==
    ASSUME Grounds, Heard \subseteq Heard', UNCHANGED born,
           curBlockReason' = curBlockReason \/ curBlockReason' = "none",
           awaitingDns' = awaitingDns \/ awaitingDns' = FALSE,
           rateLimited' = rateLimited \/ rateLimited' = FALSE
    PROVE  BlocksHeard'
<1>1. born' = born /\ "none" \notin Blocks
  BY DEF Blocks
<1>2. \A b : BlockHeard(b) => \E e \in Heard' : e.n > born' /\ e.event.reason = b
  BY <1>1 DEF BlockHeard
<1> QED
  BY <1>1, <1>2 DEF Grounds, Remembered, BlocksHeard, BlockHeard

LEMMA StepsKept ==
    ASSUME Grounds, Heard \subseteq Heard', UNCHANGED <<emittedSteps, born>>
    PROVE  StepsHeard'
BY DEF Grounds, Remembered, StepsHeard, StepHeard

LEMMA SyncKept ==
    ASSUME Grounds, Heard \subseteq Heard', UNCHANGED <<lastGeneration, born>>
    PROVE  SyncHeard'
BY DEF Grounds, Remembered, SyncHeard, StepHeard

-----------------------------------------------------------------------------
(* The ends of a reconcile. *)
LEMMA FailSays ==
    ASSUME TypeOK, TypeOK', Grounds, NEW events \in Seq(EventData), Fail(events),
           UNCHANGED timeline
    PROVE  /\ ErrorsHeard' /\ Heard \subseteq Heard' /\ AllFresh(events)
           /\ mark' <= emitted' /\ UNCHANGED lastGeneration /\ ReportThen("idle")
<1>1. PICK m \in Errors : /\ Emit(events \o ErrorEvent(m))
                          /\ lastErrMsg' = m /\ lastReconcileErr' = m
                          /\ UNCHANGED <<lastGeneration, mark>>
                          /\ ReportThen("idle")
  BY DEF Fail
<1>2. m \in Messages /\ m # NoError
  BY Basics, ReportAssumption
<1>3. UNCHANGED <<timeline, mark>>
  BY <1>1
<1>4. /\ ErrorHeard(m)' /\ Heard \subseteq Heard' /\ emitted <= emitted'
      /\ \A i \in 1 .. Len(events) :
           \E e \in Heard' : e.n \in Nat /\ e.n > emitted /\ e.event = events[i]
  BY <1>1, <1>2, <1>3, ErrorSaid
<1>5. ErrorsHeard'
  BY <1>1, <1>4 DEF ErrorsHeard, ErrorHeard
<1>6. mark' <= emitted'
  BY <1>1, <1>4 DEF Grounds, TypeOK
<1> QED
  BY <1>1, <1>4, <1>5, <1>6 DEF AllFresh, Fresh

LEMMA SucceedSays ==
    ASSUME TypeOK', Succeed
    PROVE  ErrorsHeard' /\ mark' <= emitted' /\ ReportThen("idle")
<1>1. lastErrMsg' = NoError /\ lastReconcileErr' = NoError /\ mark' = emitted'
  BY DEF Succeed
<1>2. ErrorsHeard'
  BY <1>1 DEF ErrorsHeard
<1> QED
  BY <1>1, <1>2 DEF Succeed, TypeOK

LEMMA ConvergeSays ==
    ASSUME TypeOK, TypeOK', Grounds, Converge, Heard \subseteq Heard',
           UNCHANGED <<lastDesired, born>>,
           NEW r \in {"ReconcileComplete", "DeploymentStopped"}, AllFresh(StepEvent(r))
    PROVE  ErrorsHeard' /\ SyncHeard' /\ mark' <= emitted' /\ ReportThen("idle")
<1>1. Succeed /\ lastGeneration' = lastDesired /\ lastDesired' = lastDesired
  BY DEF Converge
<1>2. r \in Steps
  BY DEF Steps
<1>3. lastDesired # 0 => StepHeard(r, lastDesired)'
  <2>1. UNCHANGED <<lastDesired, born>>
    OBVIOUS
  <2> QED
    BY <1>2, <2>1, StepSaid
<1>4. SyncHeard'
  BY <1>1, <1>3 DEF SyncHeard, StepHeard
<1> QED
  BY <1>1, <1>4, SucceedSays

-----------------------------------------------------------------------------
(* Every handler leaves grounds for what it reports. *)
LEMMA TamperedGrounds == ASSUME TypeOK, Grounds, OnTampered PROVE Grounds'
<1>1. TypeOK' /\ Local
  BY TamperedType
<1>2. /\ Emit(ErrorEvent(Forged)) /\ lastErrMsg' = Forged
      /\ UNCHANGED <<curBlockReason, emittedSteps, gate, flags, retry, memory, cloud,
                     lives, mark, at>>
      /\ pc' = "report" /\ report' = Status(lastGeneration, "ReconcileError", Forged)
  BY DEF OnTampered
<1>3. Forged \in Messages /\ Forged # NoError
  BY Basics, ReportAssumption
<1>4. Emit(<<>> \o ErrorEvent(Forged))
  <2>1. ErrorEvent(Forged) \in Seq(EventData)
    BY <1>3, ErrorType
  <2>2. <<>> \o ErrorEvent(Forged) = ErrorEvent(Forged)
    BY <2>1
  <2> QED
    BY <1>2, <2>2
<1>5. UNCHANGED <<timeline, mark>>
  BY <1>2 DEF cloud
<1>6. ErrorHeard(Forged)' /\ Heard \subseteq Heard' /\ emitted <= emitted'
  BY <1>1, <1>3, <1>4, <1>5, EmptyType, ErrorSaid
<1>7. ErrorsHeard'
  BY <1>2, <1>6 DEF Grounds, Remembered, ErrorsHeard, ErrorHeard, gate
<1>8. BlocksHeard' /\ StepsHeard' /\ SyncHeard'
  <2>1. /\ UNCHANGED born /\ UNCHANGED <<emittedSteps, born>>
        /\ UNCHANGED <<lastGeneration, born>> /\ curBlockReason' = curBlockReason
        /\ awaitingDns' = awaitingDns /\ rateLimited' = rateLimited
    BY <1>2 DEF lives, flags, gate
  <2> QED
    BY <1>6, <2>1, BlocksKept, StepsKept, SyncKept
<1>9. Backed(report, Heard)'
  <2>1. PICK e \in Heard' : /\ e.n > mark' /\ e.event.reason = "ReconcileError"
                            /\ e.event.msg = Forged
    BY <1>6 DEF ErrorHeard
  <2>2. Explains(e, report')
    BY <1>2, <2>1 DEF Explains, Status
  <2> QED
    BY <2>1, <2>2 DEF Backed
<1>10. mark' <= emitted' /\ UNCHANGED <<status, born>>
  BY <1>1, <1>2, <1>6 DEF Grounds, TypeOK, cloud, lives
<1> QED
  BY <1>1, <1>7, <1>8, <1>9, <1>10, LocalGrounds DEF Remembered

LEMMA StopStackGrounds == ASSUME TypeOK, Grounds, StopStack PROVE Grounds'
<1>1. TypeOK' /\ Local
  BY StopStackType
<1> DEFINE stopping == IF stopped THEN {} ELSE {"StoppingDeployment"}
           before == IF stopped THEN <<>> ELSE StepEvent("StoppingDeployment")
<1>2. /\ UNCHANGED <<lastDesired, flags, hadCert, at, cloud, lives, spent>>
      /\ \/ /\ Emit(before \o StepEvent("DeploymentStopped"))
            /\ Stepped(stopping \cup {"DeploymentStopped"})
            /\ Converge
         \/ /\ Stepped(stopping) /\ UNCHANGED curBlockReason /\ Fail(before)
  BY DEF StopStack
<1>3. /\ UNCHANGED timeline /\ UNCHANGED <<status, born>> /\ UNCHANGED born
      /\ UNCHANGED <<lastDesired, born>>
      /\ awaitingDns' = awaitingDns /\ rateLimited' = rateLimited
  BY <1>2 DEF cloud, lives, flags
<1>4. before \in Seq(EventData) /\ StepEvent("DeploymentStopped") \in Seq(EventData)
  <2>1. /\ StepEvent("StoppingDeployment") \in Seq(EventData)
        /\ StepEvent("DeploymentStopped") \in Seq(EventData)
    BY StepType DEF Steps
  <2> QED
    BY <2>1
<1>5. stopping \cup {"DeploymentStopped"} \in SUBSET Steps /\ stopping \in SUBSET Steps
  BY DEF Steps
<1>6. AllFresh(before) => \A r \in stopping : AllFresh(StepEvent(r))
  OBVIOUS
<1> HIDE DEF before, stopping
<1>7. CASE /\ Emit(before \o StepEvent("DeploymentStopped"))
           /\ Stepped(stopping \cup {"DeploymentStopped"}) /\ Converge
  <2>1. before \o StepEvent("DeploymentStopped") \in Seq(EventData)
    BY <1>4
  <2>2. Heard \subseteq Heard' /\ AllFresh(before \o StepEvent("DeploymentStopped"))
    BY <1>1, <1>3, <1>7, <2>1, EmitFresh
  <2>3. AllFresh(before) /\ AllFresh(StepEvent("DeploymentStopped"))
    BY <1>4, <2>2, ConcatFresh
  <2>4. StepsHeard'
    <3>1. \A r \in stopping \cup {"DeploymentStopped"} : AllFresh(StepEvent(r))
      BY <1>6, <2>3
    <3> QED
      BY <1>3, <1>5, <1>7, <2>2, <3>1, StepsSaid
  <2>5. ErrorsHeard' /\ SyncHeard' /\ mark' <= emitted' /\ ReportThen("idle")
    BY <1>1, <1>3, <1>7, <2>2, <2>3, ConvergeSays
  <2>6. BlocksHeard'
    <3>1. curBlockReason' = "none"
      BY <1>7 DEF Converge
    <3> QED
      BY <1>3, <2>2, <3>1, BlocksKept
  <2> QED
    BY <1>1, <1>3, <2>4, <2>5, <2>6, LocalGrounds DEF Remembered, Reported
<1>8. CASE Stepped(stopping) /\ UNCHANGED curBlockReason /\ Fail(before)
  <2>1. /\ ErrorsHeard' /\ Heard \subseteq Heard' /\ AllFresh(before)
        /\ mark' <= emitted' /\ UNCHANGED lastGeneration /\ ReportThen("idle")
    BY <1>1, <1>3, <1>4, <1>8, FailSays
  <2>2. StepsHeard'
    BY <1>3, <1>5, <1>6, <1>8, <2>1, StepsSaid
  <2>3. BlocksHeard' /\ SyncHeard'
    <3>1. UNCHANGED <<lastGeneration, born>> /\ curBlockReason' = curBlockReason
      BY <1>3, <1>8, <2>1
    <3> QED
      BY <1>3, <2>1, <3>1, BlocksKept, SyncKept
  <2> QED
    BY <1>1, <1>3, <2>1, <2>2, <2>3, LocalGrounds DEF Remembered, Reported
<1> QED
  BY <1>2, <1>7, <1>8

LEMMA PrepareGrounds == ASSUME TypeOK, Grounds, Prepare PROVE Grounds'
<1>1. TypeOK' /\ Local
  BY PrepareType
<1> DEFINE starting == IF stopped THEN StepEvent("StartingDeployment") ELSE <<>>
           reasons == IF stopped THEN {"StartingDeployment"} ELSE {}
<1>2. /\ UNCHANGED <<lastDesired, awaitingDns, rateLimited, curBlockReason, cloud, lives>>
      /\ Stepped(reasons)
      /\ \/ Fail(starting)
         \/ Emit(starting) /\ UNCHANGED lastGeneration /\ Succeed
         \/ /\ Emit(starting) /\ pc' = "edge"
            /\ UNCHANGED <<lastGeneration, lastReconcileErr, lastErrMsg, mark>>
  BY DEF Prepare
<1>3. /\ UNCHANGED timeline /\ UNCHANGED <<status, born>> /\ UNCHANGED born
      /\ UNCHANGED <<lastDesired, born>> /\ curBlockReason' = curBlockReason
      /\ awaitingDns' = awaitingDns /\ rateLimited' = rateLimited
  BY <1>2 DEF cloud, lives
<1>4. starting \in Seq(EventData)
  <2>1. StepEvent("StartingDeployment") \in Seq(EventData)
    BY StepType DEF Steps
  <2> QED
    BY <2>1
<1>5. reasons \in SUBSET Steps
  BY DEF Steps
<1>6. AllFresh(starting) => \A r \in reasons : AllFresh(StepEvent(r))
  OBVIOUS
<1> HIDE DEF starting, reasons
<1>7. SUFFICES ASSUME Heard \subseteq Heard', AllFresh(starting), ErrorsHeard',
                      UNCHANGED lastGeneration, mark' <= emitted', Reported
               PROVE  Grounds'
  <2>1. CASE Fail(starting)
    BY <1>1, <1>3, <1>4, <2>1, FailSays DEF Reported
  <2>2. CASE Emit(starting) /\ UNCHANGED lastGeneration /\ Succeed
    <3>1. Heard \subseteq Heard' /\ AllFresh(starting)
      BY <1>1, <1>3, <1>4, <2>2, EmitFresh
    <3>2. ErrorsHeard' /\ mark' <= emitted' /\ ReportThen("idle")
      BY <1>1, <2>2, SucceedSays
    <3> QED
      BY <2>2, <3>1, <3>2 DEF Reported
  <2>3. CASE /\ Emit(starting) /\ pc' = "edge"
             /\ UNCHANGED <<lastGeneration, lastReconcileErr, lastErrMsg, mark>>
    <3>1. Heard \subseteq Heard' /\ AllFresh(starting)
      BY <1>1, <1>3, <1>4, <2>3, EmitFresh
    <3>2. UNCHANGED <<lastErrMsg, lastReconcileErr, mark>>
      BY <2>3
    <3>3. ErrorsHeard'
      BY <3>1, <3>2, ErrorsKept
    <3>4. mark' <= emitted'
      <4>1. emitted <= emitted' /\ emitted \in Nat
        BY <1>1, LocalHeard
      <4> QED
        BY <1>1, <3>2, <4>1 DEF Grounds, TypeOK
    <3>5. UNCHANGED lastGeneration /\ Reported
      BY <2>3 DEF Reported
    <3> QED
      BY <3>1, <3>3, <3>4, <3>5
  <2> QED
    BY <1>2, <2>1, <2>2, <2>3
<1>8. StepsHeard'
  BY <1>2, <1>3, <1>5, <1>6, <1>7, StepsSaid
<1>9. BlocksHeard' /\ SyncHeard'
  <2>1. UNCHANGED <<lastGeneration, born>>
    BY <1>3, <1>7
  <2> QED
    BY <1>3, <1>7, <2>1, BlocksKept, SyncKept
<1> QED
  BY <1>1, <1>3, <1>7, <1>8, <1>9, LocalGrounds DEF Remembered

LEMMA EdgeGrounds == ASSUME TypeOK, Grounds, Edge PROVE Grounds'
<1>1. TypeOK' /\ Local
  BY EdgeType
<1>2. /\ UNCHANGED <<lastDesired, cloud, lives>>
      /\ AwaitDns \/ HitRateLimit \/ NotIssued \/ Issued \/ NoEdge
  BY DEF Edge
<1>3. /\ UNCHANGED timeline /\ UNCHANGED <<status, born>> /\ UNCHANGED born
      /\ UNCHANGED <<lastDesired, born>>
  BY <1>2 DEF cloud, lives
<1>4. Heard \subseteq Heard' /\ emitted <= emitted' /\ emitted \in Nat /\ "none" \notin Blocks
  BY <1>1, LocalHeard DEF Blocks
<1>5. mark' = mark => mark' <= emitted'
  BY <1>1, <1>4 DEF Grounds, TypeOK
<1>6. CASE AwaitDns
  <2>1. /\ awaitingDns' = TRUE /\ rateLimited' = FALSE
        /\ Emit(StepEvent("IssuingWildcard") \o BlockEvent("AwaitingDnsDelegation"))
        /\ Stepped({"IssuingWildcard"})
        /\ curBlockReason' = "AwaitingDnsDelegation"
        /\ UNCHANGED <<lastGeneration, born>>
        /\ Succeed
    BY <1>3, <1>6 DEF AwaitDns
  <2>2. /\ StepEvent("IssuingWildcard") \in Seq(EventData)
        /\ BlockEvent("AwaitingDnsDelegation") \in Seq(EventData)
        /\ {"IssuingWildcard"} \in SUBSET Steps /\ "AwaitingDnsDelegation" \in Blocks
    BY StepType, BlockType DEF Steps, Blocks
  <2>3. StepEvent("IssuingWildcard") \o BlockEvent("AwaitingDnsDelegation") \in Seq(EventData)
    BY <2>2
  <2>4. AllFresh(StepEvent("IssuingWildcard") \o BlockEvent("AwaitingDnsDelegation"))
    BY <1>1, <1>3, <2>1, <2>3, EmitFresh
  <2>5. /\ AllFresh(StepEvent("IssuingWildcard"))
        /\ AllFresh(BlockEvent("AwaitingDnsDelegation"))
    BY <2>2, <2>4, ConcatFresh
  <2>6. StepsHeard'
    <3>1. \A r \in {"IssuingWildcard"} : AllFresh(StepEvent(r))
      BY <2>5
    <3> QED
      BY <1>3, <1>4, <2>1, <2>2, <3>1, StepsSaid
  <2>7. BlocksHeard'
    <3>1. BlockHeard("AwaitingDnsDelegation")'
      BY <1>3, <1>4, <2>2, <2>5, BlockSaid
    <3> QED
      BY <2>1, <3>1 DEF BlocksHeard, BlockHeard
  <2>8. ErrorsHeard' /\ mark' <= emitted' /\ ReportThen("idle") /\ SyncHeard'
    BY <1>1, <1>4, <2>1, SucceedSays, SyncKept
  <2> QED
    BY <1>1, <1>3, <2>6, <2>7, <2>8, LocalGrounds DEF Remembered, Reported
<1>7. CASE HitRateLimit
  <2>1. /\ awaitingDns' = FALSE /\ rateLimited' = TRUE
        /\ Emit(BlockEvent("RateLimited"))
        /\ curBlockReason' = "RateLimited"
        /\ UNCHANGED <<lastGeneration, born>> /\ UNCHANGED <<emittedSteps, born>>
        /\ Succeed
    BY <1>3, <1>7 DEF HitRateLimit
  <2>2. BlockEvent("RateLimited") \in Seq(EventData) /\ "RateLimited" \in Blocks
    BY BlockType DEF Blocks
  <2>3. AllFresh(BlockEvent("RateLimited"))
    BY <1>1, <1>3, <2>1, <2>2, EmitFresh
  <2>4. BlocksHeard'
    <3>1. BlockHeard("RateLimited")'
      BY <1>3, <1>4, <2>2, <2>3, BlockSaid
    <3> QED
      BY <2>1, <3>1 DEF BlocksHeard, BlockHeard
  <2>5. /\ ErrorsHeard' /\ mark' <= emitted' /\ ReportThen("idle")
        /\ StepsHeard' /\ SyncHeard'
    BY <1>1, <1>4, <2>1, SucceedSays, StepsKept, SyncKept
  <2> QED
    BY <1>1, <1>3, <2>4, <2>5, LocalGrounds DEF Remembered, Reported
<1>8. CASE NotIssued
  <2>1. /\ awaitingDns' = awaitingDns /\ rateLimited' = rateLimited
        /\ curBlockReason' = curBlockReason
        /\ UNCHANGED <<emittedSteps, born>> /\ Fail(<<>>)
    BY <1>3, <1>8 DEF NotIssued
  <2>2. /\ ErrorsHeard' /\ mark' <= emitted' /\ UNCHANGED lastGeneration
        /\ ReportThen("idle")
    BY <1>1, <1>3, <2>1, EmptyType, FailSays
  <2>3. BlocksHeard' /\ StepsHeard' /\ SyncHeard'
    <3>1. UNCHANGED <<lastGeneration, born>>
      BY <1>3, <2>2
    <3> QED
      BY <1>3, <1>4, <2>1, <3>1, BlocksKept, StepsKept, SyncKept
  <2> QED
    BY <1>1, <1>3, <2>2, <2>3, LocalGrounds DEF Remembered, Reported
<1>9. CASE Issued \/ NoEdge
  <2>1. /\ awaitingDns' = FALSE /\ rateLimited' = FALSE /\ curBlockReason' = "none"
        /\ UNCHANGED <<lastErrMsg, lastReconcileErr, mark>>
        /\ UNCHANGED <<emittedSteps, born>> /\ UNCHANGED <<lastGeneration, born>>
        /\ mark' = mark
    BY <1>3, <1>9 DEF Issued, NoEdge
  <2>2. Remembered'
    BY <1>3, <1>4, <2>1, ErrorsKept, BlocksKept, StepsKept, SyncKept DEF Remembered
  <2>3. CASE pc' # "report"
    BY <1>1, <1>3, <1>5, <2>1, <2>2, <2>3, LocalGrounds DEF Reported
  <2>4. CASE pc' = "report"
    <3>1. /\ ~hadCert /\ Emit(<<Event("WildcardIssued", NoError)>>)
          /\ report' = Status(lastDesired, "Reconciling", NoError)
      BY <1>9, <2>4 DEF Issued, NoEdge
    <3>2. <<Event("WildcardIssued", NoError)>> \in Seq(EventData)
      BY SingleType DEF EventReasons
    <3>3. Fresh(Event("WildcardIssued", NoError))
      BY <1>1, <1>3, <3>1, <3>2, EmitFresh, SingleFresh
    <3>4. PICK e \in Heard' : /\ e.n \in Nat /\ e.n > emitted
                              /\ e.event = Event("WildcardIssued", NoError)
      BY <3>3 DEF Fresh
    <3>5. /\ e.event.reason = "WildcardIssued" /\ e.event.gen = lastDesired
          /\ e.n > born' /\ report'.since = born' /\ report'.gen = lastDesired
          /\ report'.reason = "Reconciling"
      BY <1>3, <3>1, <3>4 DEF Event, Status, Grounds, TypeOK
    <3>6. Explains(e, report')
      BY <3>5 DEF Explains, Blocks
    <3>7. Backed(report, Heard)'
      BY <3>4, <3>6 DEF Backed
    <3> QED
      BY <1>1, <1>3, <1>5, <2>1, <2>2, <3>7, LocalGrounds
  <2> QED
    BY <2>3, <2>4
<1> QED
  BY <1>2, <1>6, <1>7, <1>8, <1>9

LEMMA ProvisionGrounds ==
    ASSUME TypeOK, Grounds, ProvisionStep \/ ProvisionFails \/ Complete
    PROVE  Grounds'
<1>1. TypeOK' /\ Local
  BY ProvisionStepType, ProvisionFailsType, CompleteType
<1>2. /\ UNCHANGED timeline /\ UNCHANGED <<status, born>> /\ UNCHANGED born
      /\ UNCHANGED <<lastDesired, born>>
      /\ awaitingDns' = awaitingDns /\ rateLimited' = rateLimited
  BY DEF ProvisionStep, ProvisionFails, Complete, gate, flags, cloud, lives
<1>3. Heard \subseteq Heard' /\ emitted <= emitted' /\ emitted \in Nat
  BY <1>1, LocalHeard
<1>4. CASE ProvisionStep
  <2>1. /\ Progress[at + 1] \in Steps
        /\ Emit(StepEvent(Progress[at + 1])) /\ Stepped({Progress[at + 1]})
        /\ curBlockReason' = curBlockReason
        /\ UNCHANGED <<lastErrMsg, lastReconcileErr, mark>>
        /\ UNCHANGED <<lastGeneration, born>> /\ UNCHANGED <<pc, report>>
    <3>1. at + 1 \in 1 .. Len(Progress)
      BY <1>4, Basics DEF ProvisionStep, TypeOK
    <3> QED
      BY <1>2, <1>4, <3>1, Basics DEF ProvisionStep, gate
  <2>2. StepEvent(Progress[at + 1]) \in Seq(EventData)
    BY <2>1, StepType
  <2>3. AllFresh(StepEvent(Progress[at + 1]))
    BY <1>1, <1>2, <2>1, <2>2, EmitFresh
  <2>4. StepsHeard'
    <3>1. /\ {Progress[at + 1]} \in SUBSET Steps
          /\ \A r \in {Progress[at + 1]} : AllFresh(StepEvent(r))
      BY <2>1, <2>3
    <3> QED
      BY <1>2, <1>3, <2>1, <3>1, StepsSaid
  <2>5. ErrorsHeard' /\ BlocksHeard' /\ SyncHeard'
    BY <1>2, <1>3, <2>1, ErrorsKept, BlocksKept, SyncKept
  <2>6. mark' <= emitted'
    BY <1>1, <1>3, <2>1 DEF Grounds, TypeOK
  <2> QED
    BY <1>1, <1>2, <2>1, <2>4, <2>5, <2>6, LocalGrounds DEF Remembered, Reported
<1>5. CASE ProvisionFails
  <2>1. /\ curBlockReason' = curBlockReason
        /\ UNCHANGED <<emittedSteps, born>> /\ Fail(<<>>)
    BY <1>2, <1>5 DEF ProvisionFails
  <2>2. /\ ErrorsHeard' /\ mark' <= emitted' /\ UNCHANGED lastGeneration
        /\ ReportThen("idle")
    BY <1>1, <1>2, <2>1, EmptyType, FailSays
  <2>3. BlocksHeard' /\ StepsHeard' /\ SyncHeard'
    <3>1. UNCHANGED <<lastGeneration, born>>
      BY <1>2, <2>2
    <3> QED
      BY <1>2, <1>3, <2>1, <3>1, BlocksKept, StepsKept, SyncKept
  <2> QED
    BY <1>1, <1>2, <2>2, <2>3, LocalGrounds DEF Remembered, Reported
<1>6. CASE Complete
  <2>1. /\ Emit(StepEvent("ReconcileComplete")) /\ Stepped({"ReconcileComplete"})
        /\ Converge /\ curBlockReason' = "none"
    BY <1>6 DEF Complete, Converge
  <2>2. /\ StepEvent("ReconcileComplete") \in Seq(EventData)
        /\ {"ReconcileComplete"} \in SUBSET Steps
    BY StepType DEF Steps
  <2>3. AllFresh(StepEvent("ReconcileComplete"))
    BY <1>1, <1>2, <2>1, <2>2, EmitFresh
  <2>4. StepsHeard'
    <3>1. \A r \in {"ReconcileComplete"} : AllFresh(StepEvent(r))
      BY <2>3
    <3> QED
      BY <1>2, <1>3, <2>1, <2>2, <3>1, StepsSaid
  <2>5. ErrorsHeard' /\ SyncHeard' /\ mark' <= emitted' /\ ReportThen("idle")
    BY <1>1, <1>2, <1>3, <2>1, <2>3, ConvergeSays
  <2>6. BlocksHeard'
    BY <1>2, <1>3, <2>1, BlocksKept
  <2> QED
    BY <1>1, <1>2, <2>4, <2>5, <2>6, LocalGrounds DEF Remembered, Reported
<1> QED
  BY <1>4, <1>5, <1>6

(* A report that is sent comes with what explains it. *)
LEMMA ReportGrounds == ASSUME TypeOK, Grounds, Report PROVE Grounds'
<1>1. /\ pc = "report" /\ report' = Nothing
      /\ UNCHANGED <<lastErrMsg, lastReconcileErr, curBlockReason, awaitingDns, rateLimited,
                     emittedSteps, lastGeneration, mark, born>>
      /\ UNCHANGED <<emitted, mark, born>>
  BY DEF Report, Arrives, NotSent, AnswerLost, Sending, gate, dedup, flags, lives
<1>2. Backed(report, Heard) /\ Backed(status, OnTimeline)
  BY <1>1 DEF Grounds
<1>3. CASE NotSent
  <2>1. UNCHANGED <<timeline, pendingEvents>> /\ status' = status /\ UNCHANGED timeline
    BY <1>3 DEF NotSent
  <2>2. Heard' = Heard /\ OnTimeline' = OnTimeline
    BY <2>1, HeardStays, TimelineStays
  <2>3. Remembered'
    BY <1>1, <2>2, StillRemembered DEF Grounds
  <2>4. Backed(report, Heard)' /\ Backed(status, OnTimeline)'
    BY <1>1, <1>2, <2>1, <2>2 DEF Backed, Nothing
  <2> QED
    BY <1>1, <2>3, <2>4 DEF Grounds
<1>4. CASE Arrives \/ AnswerLost
  <2>1. timeline' = Told /\ status' = report
    BY <1>4, ToldArrives, ToldRepeats DEF Arrives, AnswerLost, Deliver
  <2>2. OnTimeline' = Heard
    BY <2>1 DEF OnTimeline, Heard
  <2>3. Heard \subseteq Heard'
    <3>1. CASE Arrives
      BY <3>1, ToldArrives DEF Heard
    <3>2. CASE AnswerLost
      <4>1. /\ Len(Told') = Len(Told) + Len(pendingEvents)
            /\ \A i \in 1 .. Len(Told) : Told'[i] = Told[i]
            /\ Len(Told) \in Nat /\ Len(pendingEvents) \in Nat
        BY <3>2, ToldRepeats, ToldIs
      <4> QED
        BY <4>1 DEF Heard
    <3> QED
      BY <1>4, <3>1, <3>2
  <2>4. Remembered'
    BY <1>1, <2>3, StillRemembered DEF Grounds
  <2>5. Backed(status, OnTimeline)'
    BY <1>2, <2>1, <2>2 DEF Backed
  <2>6. Backed(report, Heard)'
    BY <1>1 DEF Backed, Nothing
  <2> QED
    BY <1>1, <2>4, <2>5, <2>6 DEF Grounds
<1> QED
  BY <1>3, <1>4 DEF Report

LEMMA CrashGrounds == ASSUME TypeOK, Grounds, Crash PROVE Grounds'
<1>1. /\ lastErrMsg' = NoError /\ lastReconcileErr' = NoError /\ curBlockReason' = "none"
      /\ awaitingDns' = FALSE /\ rateLimited' = FALSE /\ lastGeneration' = 0
      /\ emittedSteps' = [r \in Steps |-> 0]
      /\ born' = emitted /\ mark' = emitted /\ emitted' = emitted
      /\ timeline' = timeline /\ status' = status /\ pc' = "idle"
  BY DEF Crash, cloud
<1>2. Remembered'
  BY <1>1 DEF Remembered, ErrorsHeard, BlocksHeard, StepsHeard, SyncHeard, Blocks
<1>3. Backed(status, OnTimeline)'
  BY <1>1 DEF Grounds, OnTimeline, Backed
<1>4. mark' <= emitted' /\ born' <= emitted'
  BY <1>1 DEF TypeOK
<1> QED
  BY <1>1, <1>2, <1>3, <1>4 DEF Grounds

LEMMA InitGrounds == Init => Grounds
<1> SUFFICES ASSUME Init PROVE Grounds
  OBVIOUS
<1>1. Remembered
  BY DEF Init, Remembered, ErrorsHeard, BlocksHeard, StepsHeard, SyncHeard, Blocks
<1>2. Backed(status, OnTimeline)
  BY DEF Init, Backed, Nothing
<1> QED
  BY <1>1, <1>2 DEF Init, Grounds

LEMMA StepGrounds == ASSUME TypeOK, Grounds, [Next]_vars PROVE Grounds'
<1>1. CASE UNCHANGED vars
  <2>1. TypeOK' /\ Local
    BY StepTypes, <1>1 DEF vars, TypeOK, Local, dedup, flags, gate, retry, memory, queue,
       place, cloud, lives
  <2>2. UNCHANGED <<lastErrMsg, lastReconcileErr, curBlockReason, awaitingDns, rateLimited,
                    emittedSteps, lastGeneration, mark, born, status>>
    BY <1>1 DEF vars, dedup, flags, gate, cloud, lives
  <2>3. Reported
    BY <1>1 DEF vars, place, Reported
  <2> QED
    BY <2>1, <2>2, <2>3, PlainGrounds
<1>2. CASE Next
  BY <1>2, HandlerGrounds, TamperedGrounds, StopStackGrounds, PrepareGrounds, EdgeGrounds,
     ProvisionGrounds, ReportGrounds, CrashGrounds DEF Next, Handlers, Reconcile
<1> QED
  BY <1>1, <1>2

(* The status the cloud has been sent comes with the event that explains   *)
(* it, however events are kept from being repeated (emitError, emitBlock   *)
(* and step, agent.go:589-687).                                            *)
THEOREM StatusHasGrounds == Spec => []StatusIsExplained
<1>1. TypeOK /\ Grounds /\ [Next]_vars => Grounds'
  BY StepGrounds
<1>2. Grounds => StatusIsExplained
  BY DEF Grounds, Backed, OnTimeline, StatusIsExplained
<1> QED
  BY InitGrounds, <1>1, <1>2, ReportTypeCorrect, PTL DEF Spec

-----------------------------------------------------------------------------
(***************************************************************************)
(* The backoff.                                                            *)
(***************************************************************************)
(* A set of numbers has a least one: intervals are ordered by inclusion.   *)
LEMMA LeastNatural ==
    ASSUME NEW T \in SUBSET Nat, T # {}
    PROVE  \E m \in T : \A x \in T : m <= x
<1> DEFINE Below == {0 .. x : x \in T}
<1>1. Below \subseteq FiniteSubsetsOf(Nat)
  <2> SUFFICES ASSUME NEW x \in T PROVE 0 .. x \in FiniteSubsetsOf(Nat)
    OBVIOUS
  <2>1. IsFiniteSet(0 .. x)
    BY FS_Interval
  <2> QED
    BY <2>1 DEF FiniteSubsetsOf
<1>2. Below # {}
  OBVIOUS
<1>3. PICK b \in Below : \A c \in Below : ~(<<c, b>> \in StrictSubsetOrdering(Nat))
  <2> HIDE DEF Below
  <2> QED
    BY <1>1, <1>2, FS_StrictSubsetOrderingWellFounded, WFMin
<1>4. PICK m \in T : b = 0 .. m
  OBVIOUS
<1>5. ASSUME NEW x \in T, x < m PROVE FALSE
  <2>1. 0 .. x \subseteq Nat /\ 0 .. m \subseteq Nat
    OBVIOUS
  <2>2. 0 .. x \subseteq 0 .. m /\ m \in 0 .. m /\ m \notin 0 .. x
    BY <1>5
  <2>3. <<0 .. x, 0 .. m>> \in StrictSubsetOrdering(Nat)
    BY <2>1, <2>2 DEF StrictSubsetOrdering
  <2> QED
    BY <1>3, <1>4, <2>3
<1> QED
  BY <1>5

(* f counts up in powers of two as far as n. *)
Doubles(f, n) ==
    f \in [0 .. n -> Nat \ {0}] /\ \A i \in 0 .. n : f[i] = IF i = 0 THEN 1 ELSE 2 * f[i - 1]

(* The recursive definition defines a function: of the lengths no function *)
(* reaches, the least would be one more than a length some function does.  *)
LEMMA DoublesReach ==
    ASSUME NEW n \in Nat
    PROVE  \E f : Doubles(f, n)
<1> DEFINE Missed == {k \in Nat : ~ \E f : Doubles(f, k)}
<1> SUFFICES ASSUME Missed # {} PROVE FALSE
  OBVIOUS
<1>1. PICK m \in Missed : \A k \in Missed : m <= k
  <2> Missed \in SUBSET Nat
    OBVIOUS
  <2> HIDE DEF Missed
  <2> QED
    BY LeastNatural
<1>2. m # 0
  <2>1. Doubles([i \in 0 .. 0 |-> 1], 0)
    BY DEF Doubles
  <2> QED
    BY <1>1, <2>1
<1>3. m - 1 \in Nat /\ m - 1 \notin Missed
  BY <1>1, <1>2
<1>4. PICK f : Doubles(f, m - 1)
  BY <1>3
<1> DEFINE g == [i \in 0 .. m |-> IF i = m THEN 2 * f[m - 1] ELSE f[i]]
<1>5. f[m - 1] \in Nat \ {0}
  BY <1>3, <1>4 DEF Doubles
<1>6. g \in [0 .. m -> Nat \ {0}]
  BY <1>3, <1>4, <1>5 DEF Doubles
<1>7. ASSUME NEW i \in 0 .. m PROVE g[i] = IF i = 0 THEN 1 ELSE 2 * g[i - 1]
  <2>1. CASE i = m
    BY <1>2, <1>3, <2>1
  <2>2. CASE i # m
    <3>1. i \in 0 .. (m - 1)
      BY <1>3, <2>2
    <3>2. f[i] = IF i = 0 THEN 1 ELSE 2 * f[i - 1]
      BY <1>4, <3>1 DEF Doubles
    <3> QED
      BY <1>3, <3>1, <3>2
  <2> QED
    BY <2>1, <2>2
<1>8. Doubles(g, m)
  BY <1>6, <1>7 DEF Doubles
<1> QED
  BY <1>1, <1>8

(* PowerOfTwo is that function. *)
LEMMA PowersDouble ==
    /\ \A i \in 0 .. Cap : PowerOfTwo[i] \in Nat \ {0}
    /\ \A i \in 0 .. Cap : PowerOfTwo[i] = IF i = 0 THEN 1 ELSE 2 * PowerOfTwo[i - 1]
<1> DEFINE Defines(f) == f = [i \in 0 .. Cap |-> IF i = 0 THEN 1 ELSE 2 * f[i - 1]]
<1>1. PICK f : Doubles(f, Cap)
  BY DoublesReach, ReportAssumption
<1>2. Defines(f)
  BY <1>1 DEF Doubles
<1>3. PowerOfTwo = CHOOSE g : Defines(g)
  BY DEF PowerOfTwo
<1>4. Defines(PowerOfTwo)
  <2> HIDE DEF Defines
  <2> QED
    BY <1>2, <1>3
<1>5. ASSUME NEW i \in 0 .. Cap
      PROVE  /\ f[i] = IF i = 0 THEN 1 ELSE 2 * f[i - 1]
             /\ PowerOfTwo[i] = IF i = 0 THEN 1 ELSE 2 * PowerOfTwo[i - 1]
  BY <1>1, <1>4 DEF Doubles
<1> HIDE DEF Defines
<1> DEFINE Differ == {i \in 0 .. Cap : PowerOfTwo[i] # f[i]}
<1>6. Differ = {}
  <2> SUFFICES ASSUME Differ # {} PROVE FALSE
    OBVIOUS
  <2>1. PICK m \in Differ : \A k \in Differ : m <= k
    <3> Differ \in SUBSET Nat
      OBVIOUS
    <3> HIDE DEF Differ
    <3> QED
      BY LeastNatural
  <2>2. m # 0
    BY <1>5, <2>1
  <2>3. m - 1 \in 0 .. Cap /\ PowerOfTwo[m - 1] = f[m - 1]
    BY <2>1, <2>2, ReportAssumption
  <2> QED
    BY <1>5, <2>1, <2>2, <2>3
<1>7. \A i \in 0 .. Cap : PowerOfTwo[i] = f[i] /\ f[i] \in Nat \ {0}
  BY <1>1, <1>6 DEF Doubles
<1> QED
  BY <1>4, <1>5, <1>7

(* A further failure doubles what is asked for, up to the cap. *)
LEMMA AtLeastDoubles ==
    ASSUME NEW n \in 1 .. Cap
    PROVE  /\ AtLeast(n) \in 1 .. Cap /\ AtLeast(1) = 1
           /\ n < Cap => AtLeast(n + 1) <= Doubled(AtLeast(n))
<1>1. Cap \in Nat \ {0} /\ n - 1 \in 0 .. Cap /\ n \in 0 .. Cap /\ n - 1 \in Nat
  BY ReportAssumption
<1>2. PowerOfTwo[0] = 1 /\ PowerOfTwo[n] = 2 * PowerOfTwo[n - 1]
  BY <1>1, PowersDouble
<1>3. PowerOfTwo[n - 1] \in Nat \ {0}
  BY <1>1, PowersDouble
<1> QED
  BY <1>1, <1>2, <1>3 DEF AtLeast, Doubled

(* enterBackoff keeps the order of two backoffs, and shortens none. *)
LEMMA DoubledGrows ==
    ASSUME NEW a \in 0 .. Cap, NEW b \in 0 .. Cap, a <= b
    PROVE  Doubled(a) <= Doubled(b) /\ 1 <= Doubled(a) /\ b <= Doubled(b)
BY ReportAssumption DEF Doubled

(* A further failure. *)
LEMMA EntersBackoff ==
    ASSUME TypeOK, FailuresBackOff, EnterBackoff, issued' = issued
    PROVE  FailuresBackOff'
<1>1. Cap \in Nat \ {0} /\ backoff \in 0 .. Cap /\ fails \in 0 .. Cap
  BY ReportAssumption DEF TypeOK
<1>2. backoff' = Doubled(backoff) /\ fails' = Grown(fails)
  BY DEF EnterBackoff
<1> SUFFICES ASSUME ~issued PROVE backoff' >= AtLeast(fails')
  BY DEF FailuresBackOff
<1>3. Doubled(backoff) \in 0 .. Cap
  BY <1>1 DEF Doubled
<1>4. CASE fails = 0
  <2>1. AtLeast(fails') = 1
    BY <1>1, <1>2, <1>4, AtLeastDoubles DEF Grown
  <2> QED
    BY <1>1, <1>2, <1>3, <2>1, DoubledGrows
<1>5. CASE fails # 0
  <2>1. fails \in 1 .. Cap /\ backoff >= AtLeast(fails) /\ AtLeast(fails) \in 1 .. Cap
    BY <1>1, <1>5, AtLeastDoubles DEF FailuresBackOff
  <2>2. Doubled(backoff) >= Doubled(AtLeast(fails)) /\ Doubled(backoff) >= backoff
    BY <1>1, <2>1, DoubledGrows
  <2>3. Doubled(AtLeast(fails)) \in 0 .. Cap
    BY <1>1, <2>1 DEF Doubled
  <2>4. CASE fails < Cap
    BY <1>1, <1>2, <1>3, <2>1, <2>2, <2>3, <2>4, AtLeastDoubles DEF Grown
  <2>5. CASE fails = Cap
    BY <1>1, <1>2, <1>3, <2>1, <2>2, <2>5 DEF Grown
  <2> QED
    BY <1>1, <2>4, <2>5
<1> QED
  BY <1>4, <1>5

(* No failure, the end of them, or a certificate. *)
LEMMA LeavesBackoff ==
    ASSUME FailuresBackOff,
           \/ UNCHANGED <<backoff, fails, issued>>
           \/ fails' = 0 \/ issued'
    PROVE  FailuresBackOff'
BY DEF FailuresBackOff

LEMMA StepBacksOff == ASSUME TypeOK, FailuresBackOff, [Next]_vars PROVE FailuresBackOff'
<1>1. CASE UNCHANGED vars
  BY <1>1, LeavesBackoff DEF vars, retry
<1>2. CASE Handlers
  BY <1>2, LeavesBackoff
     DEF Handlers, OnDesired, Reapply, Nudge, HeartbeatTick, OnTampered, OnRunBackup,
         BackupDone, BackupTick, retry
<1>3. CASE StopStack
  BY <1>3, LeavesBackoff, EntersBackoff DEF StopStack, Converge, Fail
<1>4. CASE Prepare
  BY <1>4, LeavesBackoff, EntersBackoff DEF Prepare, Fail, retry
<1>5. CASE Edge
  <2>1. CASE AwaitDns \/ Issued \/ NoEdge
    BY <2>1, LeavesBackoff DEF AwaitDns, Issued, NoEdge, retry
  <2>2. CASE HitRateLimit \/ NotIssued
    BY <2>2, EntersBackoff DEF HitRateLimit, NotIssued, Fail
  <2> QED
    BY <1>5, <2>1, <2>2 DEF Edge
<1>6. CASE ProvisionStep \/ ProvisionFails \/ Complete
  BY <1>6, LeavesBackoff, EntersBackoff
     DEF ProvisionStep, ProvisionFails, Complete, Converge, Fail, retry
<1>7. CASE Report
  BY <1>7, LeavesBackoff DEF Report, Arrives, NotSent, AnswerLost, Sending, retry
<1>8. CASE Publish \/ WindowPasses \/ Crash
  BY <1>8, LeavesBackoff DEF Publish, WindowPasses, Crash, retry
<1> QED
  BY <1>1, <1>2, <1>3, <1>4, <1>5, <1>6, <1>7, <1>8 DEF Next, Reconcile

(* Attempts that go on failing are made at intervals that double up to the *)
(* cap (enterBackoff), also when an operator or a blocked edge comes in    *)
(* between, as long as no certificate is issued or found valid on the way. *)
THEOREM FailuresKeepDistance == Spec => []FailuresBackOff
<1>1. Init => FailuresBackOff
  BY DEF Init, FailuresBackOff
<1> QED
  BY <1>1, StepBacksOff, ReportTypeCorrect, PTL DEF Spec

-----------------------------------------------------------------------------
(***************************************************************************)
(* The log manager.                                                        *)
(***************************************************************************)
(* A tail that waits in its select has room in the batch.                  *)
BatchHasRoom == \A n \in Tails : tail[n].at = "loop" => tail[n].batch < BatchMax

(* Where the lines of tail record a are: a line it took is in the batch, at *)
(* the cloud or in a push that failed, and unless baseCtx is dead none is   *)
(* missing.                                                                *)
Accounted(a, dead) ==
    /\ a.taken + a.lines <= MaxLines
    /\ a.batch + a.landed + a.refused <= a.taken
    /\ dead \/ a.batch + a.landed + a.refused = a.taken

LinesAccounted == \A n \in Tails : Accounted(tail[n], shutdown)

TailsInv == TailsTypeOK /\ BatchHasRoom /\ LinesAccounted

Commands == [kind : {"start", "stop"}, target : Targets]

-----------------------------------------------------------------------------
(***************************************************************************)
(* The record of one tail.                                                 *)
(***************************************************************************)
LEMMA NewTailType ==
    ASSUME NEW t \in Targets
    PROVE  /\ NewTail(t) \in TailRecord
           /\ NewTail(t).target = t /\ ~NewTail(t).cancelled
           /\ NewTail(t).at = "resolve" /\ NewTail(t).batch = 0 /\ Accounted(NewTail(t), shutdown)
BY TailsAssumption DEF NewTail, TailRecord, Places, Accounted

(* Replacing one record leaves the others.                                 *)
LEMMA Replaced ==
    ASSUME TailsInv, NEW n \in Tails, NEW r \in TailRecord, tail' = [tail EXCEPT ![n] = r]
    PROVE  /\ tail' \in Seq(TailRecord) /\ Len(tail') = Len(tail)
           /\ tail'[n] = r /\ \A k \in Tails : k # n => tail'[k] = tail[k]
<1>1. tail \in Seq(TailRecord) /\ n \in 1 .. Len(tail)
  BY DEF TailsInv, TailsTypeOK, Tails
<1> QED
  BY <1>1, ExceptSeq DEF Tails

(* How a step of run or FollowLogs takes a record from a to b, the deferred *)
(* delete apart: it neither stops nor ends the tail, and leaves the loop   *)
(* with the batch pushed.                                                  *)
Goes(a, b) ==
    /\ b \in TailRecord /\ Accounted(b, shutdown)
    /\ b.target = a.target /\ b.cancelled = a.cancelled
    /\ b.at = "loop" => b.batch < BatchMax
    /\ \/ b.at = a.at /\ b.batch = a.batch
       \/ b.at \in {"loop", "push", "final"}
       \/ b.at = "unwind" /\ b.batch = 0
       \/ b.at = "unwind" /\ a.at = "resolve" /\ b.batch = a.batch

(* The records that run assigns when it changes several fields at once.    *)
LEMMA FeedStarts ==
    ASSUME NEW a \in TailRecord, NEW q \in Places
    PROVE  [a EXCEPT !.at = q, !.feed = "opening"] \in TailRecord
<1>1. [a EXCEPT !.at = q] \in TailRecord
  BY DEF TailRecord
<1> QED
  BY <1>1 DEF TailRecord

(* Receiving a line, also when it fills the batch. *)
LEMMA LineTaken ==
    ASSUME NEW a \in TailRecord, NEW q \in {"loop", "push"}, Accounted(a, shutdown),
           a.lines > 0, a.batch < BatchMax, q = "loop" => a.batch + 1 < BatchMax
    PROVE  Goes(a, [a EXCEPT !.lines = @ - 1, !.taken = @ + 1, !.batch = @ + 1, !.at = q])
<1> DEFINE b == [a EXCEPT !.lines = @ - 1, !.taken = @ + 1, !.batch = @ + 1, !.at = q]
<1>1. /\ a.lines \in 0 .. LinesCap /\ a.batch \in 0 .. BatchMax /\ a.taken \in 0 .. MaxLines
      /\ a.landed \in 0 .. MaxLines /\ a.refused \in 0 .. MaxLines
  BY DEF TailRecord
<1>2. /\ a.lines - 1 \in 0 .. LinesCap /\ a.batch + 1 \in 0 .. BatchMax
      /\ a.taken + 1 \in 0 .. MaxLines
  BY <1>1, TailsAssumption DEF Accounted
<1>3. /\ b.lines = a.lines - 1 /\ b.taken = a.taken + 1 /\ b.batch = a.batch + 1
      /\ b.at = q /\ b.target = a.target /\ b.cancelled = a.cancelled
      /\ b.landed = a.landed /\ b.refused = a.refused
  BY DEF TailRecord
<1>4. b \in TailRecord
  BY <1>2 DEF TailRecord, Places
<1>5. Accounted(b, shutdown)
  BY <1>1, <1>3, TailsAssumption DEF Accounted
<1> HIDE DEF b
<1>6. Goes(a, b)
  BY <1>3, <1>4, <1>5 DEF Goes
<1> QED
  BY <1>6 DEF b

(* A flush in the base context: the batch lands, is refused, or is cut off *)
(* by the end of the process; no line leaves the account but by the last.  *)
LEMMA FlushGoes ==
    ASSUME TailsInv, NEW n \in Tails, NEW from,
           NEW to \in {"loop", "unwind"}, Flush(n, shutdown, from, to)
    PROVE  /\ UNCHANGED <<watched, commands, tails, shutdown>>
           /\ \E r : Goes(tail[n], r) /\ tail' = [tail EXCEPT ![n] = r]
<1> DEFINE a == tail[n]
           e == [a EXCEPT !.batch = 0, !.at = to]
<1> USE TailsAssumption
<1>1. /\ a \in TailRecord /\ Accounted(a, shutdown)
      /\ a.batch \in 0 .. BatchMax /\ a.taken \in 0 .. MaxLines /\ a.lines \in 0 .. LinesCap
      /\ a.landed \in 0 .. MaxLines /\ a.refused \in 0 .. MaxLines
  <2>1. a \in TailRecord
    BY ElementOfSeq DEF TailsInv, TailsTypeOK, Tails
  <2> QED
    BY <2>1 DEF TailRecord, TailsInv, LinesAccounted
<1>2. /\ e \in TailRecord /\ e.batch = 0 /\ e.at = to /\ e.lines = a.lines
      /\ e.target = a.target /\ e.cancelled = a.cancelled
      /\ e.taken = a.taken /\ e.landed = a.landed /\ e.refused = a.refused
  <2>1. to \in Places /\ 0 \in 0 .. BatchMax
    BY DEF Places
  <2> HIDE DEF a
  <2>2. [a EXCEPT !.batch = 0] \in TailRecord
    BY <1>1, <2>1 DEF TailRecord
  <2>3. e \in TailRecord
    BY <2>1, <2>2 DEF TailRecord
  <2> QED
    BY <1>1, <2>3 DEF TailRecord
<1>3. a.landed + a.batch \in 0 .. MaxLines /\ a.refused + a.batch \in 0 .. MaxLines
  BY <1>1 DEF Accounted
<1> HIDE DEF a, e
<1>4. Goes(a, [e EXCEPT !.landed = @ + a.batch])
  <2> DEFINE b == [e EXCEPT !.landed = @ + a.batch]
  <2>1. b \in TailRecord
    BY <1>2, <1>3 DEF TailRecord
  <2>2. /\ b.batch = 0 /\ b.at = to /\ b.lines = a.lines /\ b.target = a.target
        /\ b.cancelled = a.cancelled /\ b.taken = a.taken
        /\ b.landed = a.landed + a.batch /\ b.refused = a.refused
    BY <1>2 DEF TailRecord
  <2> HIDE DEF b
  <2>3. Accounted(b, shutdown)
    BY <1>1, <2>2 DEF Accounted
  <2>4. Goes(a, b)
    BY <2>1, <2>2, <2>3 DEF Goes
  <2> QED
    BY <2>4 DEF b
<1>5. Goes(a, [e EXCEPT !.refused = @ + a.batch])
  <2> DEFINE b == [e EXCEPT !.refused = @ + a.batch]
  <2>1. b \in TailRecord
    BY <1>2, <1>3 DEF TailRecord
  <2>2. /\ b.batch = 0 /\ b.at = to /\ b.lines = a.lines /\ b.target = a.target
        /\ b.cancelled = a.cancelled /\ b.taken = a.taken
        /\ b.landed = a.landed /\ b.refused = a.refused + a.batch
    BY <1>2 DEF TailRecord
  <2> HIDE DEF b
  <2>3. Accounted(b, shutdown)
    BY <1>1, <2>2 DEF Accounted
  <2>4. Goes(a, b)
    BY <2>1, <2>2, <2>3 DEF Goes
  <2> QED
    BY <2>4 DEF b
<1>6. ASSUME shutdown PROVE Goes(a, e)
  <2>1. Accounted(e, shutdown)
    BY <1>1, <1>2, <1>6 DEF Accounted
  <2> QED
    BY <1>2, <2>1 DEF Goes
<1> QED
  BY <1>4, <1>5, <1>6 DEF a, e, Flush, Step

TailStep(n) ==
    \/ Resolve(n) \/ Take(n) \/ Tick(n) \/ Push(n) \/ Leave(n) \/ FinalFlush(n)
    \/ FeedOpens(n) \/ FeedSends(n) \/ FeedEnds(n)

(* A tail that resolves its container has taken no line.                   *)
Resolving == \A n \in Tails : tail[n].at = "resolve" => tail[n].batch = 0

LEMMA TailSteps ==
    ASSUME TailsInv, Resolving, NEW n \in Tails, TailStep(n)
    PROVE  /\ UNCHANGED <<watched, commands, tails, shutdown>>
           /\ \E r : Goes(tail[n], r) /\ tail' = [tail EXCEPT ![n] = r]
<1> DEFINE a == tail[n]
<1> USE TailsAssumption
<1>1. a \in TailRecord
  BY ElementOfSeq DEF TailsInv, TailsTypeOK, Tails
<1>a. Accounted(a, shutdown)
  BY DEF TailsInv, LinesAccounted
<1>2. a.at = "loop" => a.batch < BatchMax
  BY DEF TailsInv, BatchHasRoom
<1>3. a.at = "resolve" => a.batch = 0
  BY DEF Resolving
<1>4. ASSUME NEW from, NEW r, Step(n, from, r), Goes(a, r)
      PROVE  /\ UNCHANGED <<watched, commands, tails, shutdown>>
             /\ \E q : Goes(a, q) /\ tail' = [tail EXCEPT ![n] = q]
  BY <1>4 DEF Step
<1>b. ASSUME NEW b \in TailRecord, b.target = a.target, b.cancelled = a.cancelled,
             b.batch = a.batch, b.lines = a.lines, b.taken = a.taken,
             b.landed = a.landed, b.refused = a.refused,
             \/ b.at = a.at \/ b.at \in {"push", "final"}
             \/ b.at \in {"loop", "unwind"} /\ a.at = "resolve"
      PROVE  Goes(a, b)
  <2>1. Accounted(b, shutdown)
    BY <1>a, <1>b DEF Accounted
  <2> QED
    BY <1>2, <1>3, <1>b, <2>1 DEF Goes
<1>5. CASE Resolve(n)
  <2> DEFINE b == [a EXCEPT !.at = "loop", !.feed = "opening"]
             c == [a EXCEPT !.at = "unwind"]
  <2>1. a.at = "resolve" => Goes(a, b)
    <3>1. b \in TailRecord
      BY <1>1, FeedStarts DEF Places
    <3> QED
      BY <1>1, <1>b, <3>1 DEF TailRecord
  <2>2. a.at = "resolve" => Goes(a, c)
    <3>1. c \in TailRecord
      BY <1>1 DEF TailRecord, Places
    <3> QED
      BY <1>1, <1>b, <3>1 DEF TailRecord
  <2> QED
    BY <1>4, <1>5, <2>1, <2>2 DEF Resolve, Step
<1>6. CASE Take(n)
  <2> DEFINE q == IF a.batch + 1 >= BatchMax THEN "push" ELSE "loop"
             b == [a EXCEPT !.lines = @ - 1, !.taken = @ + 1, !.batch = @ + 1, !.at = q]
  <2>1. a.at = "loop" /\ a.lines > 0 /\ Step(n, "loop", b)
    BY <1>6 DEF Take, Step
  <2>2. q \in {"loop", "push"} /\ (q = "loop" => a.batch + 1 < BatchMax)
    BY <1>1 DEF TailRecord
  <2> HIDE DEF q
  <2>3. Goes(a, b)
    BY <1>1, <1>2, <1>a, <2>1, <2>2, LineTaken
  <2> QED
    BY <1>4, <2>1, <2>3
<1>7. CASE Tick(n)
  <2>1. Goes(a, [a EXCEPT !.at = "push"])
    BY <1>1, <1>b DEF TailRecord, Places
  <2> QED
    BY <1>4, <1>7, <2>1 DEF Tick
<1>8. CASE Push(n)
  BY <1>8, FlushGoes DEF Push
<1>9. CASE Leave(n)
  <2>1. Goes(a, [a EXCEPT !.at = "final"])
    BY <1>1, <1>b DEF TailRecord, Places
  <2> QED
    BY <1>4, <1>9, <2>1 DEF Leave
<1>10. CASE FinalFlush(n)
  BY <1>10, FlushGoes DEF FinalFlush
<1>11. CASE FeedOpens(n)
  <2>1. Goes(a, [a EXCEPT !.feed = "open"])
    BY <1>1, <1>b DEF TailRecord
  <2>2. Goes(a, [a EXCEPT !.feed = "closed"])
    BY <1>1, <1>b DEF TailRecord
  <2> QED
    BY <1>4, <1>11, <2>1, <2>2 DEF FeedOpens, Feed
<1>12. CASE FeedSends(n)
  <2> DEFINE b == [a EXCEPT !.lines = @ + 1]
  <2>1. a.lines < LinesCap /\ a.taken + a.lines < MaxLines /\ Step(n, a.at, b)
    BY <1>12 DEF FeedSends, Feed
  <2>2. b \in TailRecord
    BY <1>1, <2>1 DEF TailRecord
  <2>3. /\ b.lines = a.lines + 1 /\ b.target = a.target /\ b.cancelled = a.cancelled
        /\ b.at = a.at /\ b.batch = a.batch /\ b.taken = a.taken
        /\ b.landed = a.landed /\ b.refused = a.refused
    BY <1>1 DEF TailRecord
  <2>4. Accounted(b, shutdown)
    BY <1>1, <1>a, <2>1, <2>3 DEF Accounted, TailRecord
  <2> HIDE DEF b
  <2>5. Goes(a, b)
    BY <1>2, <2>2, <2>3, <2>4 DEF Goes
  <2> QED
    BY <1>4, <2>1, <2>5
<1>13. CASE FeedEnds(n)
  <2>1. Goes(a, [a EXCEPT !.feed = "closed"])
    BY <1>1, <1>b DEF TailRecord
  <2> QED
    BY <1>4, <1>13, <2>1 DEF FeedEnds, Feed
<1> QED
  BY <1>5, <1>6, <1>7, <1>8, <1>9, <1>10, <1>11, <1>12, <1>13 DEF TailStep

-----------------------------------------------------------------------------
(***************************************************************************)
(* What every step does to the manager and its tails.                      *)
(***************************************************************************)
(* StartLogs registers a tail of its own. *)
Registers(t) ==
    /\ tails[t] = 0
    /\ tail' = Append(tail, NewTail(t))
    /\ tails' = [tails EXCEPT ![t] = Len(tail) + 1]

(* StopLogs cancels the registered tail, and forgets it. *)
Cancels(t) ==
    /\ tails[t] \in Tails
    /\ tails' = [tails EXCEPT ![t] = 0]
    /\ tail' = [tail EXCEPT ![tails[t]] = [tail[tails[t]] EXCEPT !.cancelled = TRUE]]

Moves(n) ==
    /\ tails' = tails
    /\ \E r : Goes(tail[n], r) /\ tail' = [tail EXCEPT ![n] = r]

(* No line of a tail has moved. *)
SameLines(a, b) ==
    /\ b.batch = a.batch /\ b.lines = a.lines /\ b.taken = a.taken
    /\ b.landed = a.landed /\ b.refused = a.refused

(* The deferred delete. *)
Unwinds(n) ==
    /\ tail[n].at = "unwind"
    /\ tails' = [tails EXCEPT ![tail[n].target] = 0]
    /\ tail' = [tail EXCEPT ![n] = [tail[n] EXCEPT !.at = "gone"]]

LEMMA Effects ==
    ASSUME TailsInv, Resolving, [TailsNext]_tailsVars
    PROVE  /\ watched' \subseteq Targets /\ commands' \in Seq(Commands)
           /\ \/ UNCHANGED <<tails, tail>> /\ shutdown' \in {shutdown, TRUE}
              \/ /\ UNCHANGED shutdown
                 /\ \/ \E t \in Targets : Registers(t) \/ Cancels(t)
                    \/ \E n \in Tails : Moves(n) \/ Unwinds(n)
<1>1. /\ watched \subseteq Targets /\ commands \in Seq(Commands)
      /\ tails \in [Targets -> 0 .. Len(tail)] /\ Len(tail) \in Nat
      /\ tail \in [Tails -> TailRecord]
  BY LenProperties DEF TailsInv, TailsTypeOK, Commands, Tails
<1>2. CASE \E t \in Targets : Watch(t) \/ Unwatch(t)
  <2>1. PICK t \in Targets : Watch(t) \/ Unwatch(t)
    BY <1>2
  <2>2. \A k \in {"start", "stop"} : [kind |-> k, target |-> t] \in Commands
    BY DEF Commands
  <2>3. \A k \in {"start", "stop"} :
           Append(commands, [kind |-> k, target |-> t]) \in Seq(Commands)
    BY <1>1, <2>2, AppendProperties
  <2> QED
    BY <1>1, <2>1, <2>3 DEF Watch, Unwatch
<1>3. commands # <<>> => Tail(commands) \in Seq(Commands) /\ Head(commands).target \in Targets
  <2> SUFFICES ASSUME commands # <<>>
               PROVE  Tail(commands) \in Seq(Commands) /\ Head(commands) \in Commands
    BY DEF Commands
  <2> QED
    BY <1>1, HeadTailProperties
<1>4. CASE Start
  BY <1>1, <1>3, <1>4 DEF Start, Registers
<1>5. CASE Stop
  <2> DEFINE t == Head(commands).target
  <2>1. /\ t \in Targets /\ watched' = watched /\ commands' \in Seq(Commands)
        /\ shutdown' = shutdown
    BY <1>3, <1>5 DEF Stop
  <2>2. CASE tails[t] = 0
    <3>1. tails' = tails
      BY <1>1, <1>5, <2>1, <2>2 DEF Stop
    <3>2. tail' = tail
      BY <1>5, <2>2 DEF Stop
    <3> QED
      BY <1>1, <2>1, <3>1, <3>2
  <2>3. CASE tails[t] # 0
    <3>1. tails[t] \in Tails
      BY <1>1, <2>1, <2>3 DEF Tails
    <3>2. Cancels(t)
      BY <1>5, <2>3, <3>1 DEF Stop, Cancels
    <3> QED
      BY <1>1, <2>1, <3>2
  <2> QED
    BY <2>2, <2>3
<1>6. CASE \E n \in Tails : TailStep(n)
  BY <1>1, <1>6, TailSteps DEF Moves
<1>7. CASE \E n \in Tails : Unwind(n)
  BY <1>1, <1>7 DEF Unwind, Unwinds
<1>8. CASE UNCHANGED tailsVars
  BY <1>1, <1>8 DEF tailsVars
<1>9. CASE Shutdown
  BY <1>1, <1>9 DEF Shutdown
<1> QED
  BY <1>2, <1>4, <1>5, <1>6, <1>7, <1>8, <1>9 DEF TailsNext, Run, TailStep

(* The records after a registration, a cancellation or an unwinding.       *)
LEMMA RegistersEffect ==
    ASSUME TailsInv, NEW t \in Targets, Registers(t)
    PROVE  /\ tail' \in Seq(TailRecord) /\ Len(tail') = Len(tail) + 1 /\ Len(tail) \in Nat
           /\ \A k \in Tails : tail'[k] = tail[k]
           /\ tail'[Len(tail) + 1] = NewTail(t)
<1>1. tail \in Seq(TailRecord) /\ NewTail(t) \in TailRecord
  BY NewTailType DEF TailsInv, TailsTypeOK
<1> QED
  BY <1>1, AppendProperties, LenProperties DEF Registers, Tails

LEMMA CancelsEffect ==
    ASSUME TailsInv, NEW t \in Targets, Cancels(t)
    PROVE  /\ tail' \in Seq(TailRecord) /\ Len(tail') = Len(tail)
           /\ \A k \in Tails :
                /\ tail'[k].at = tail[k].at /\ SameLines(tail[k], tail'[k])
                /\ k # tails[t] => tail'[k] = tail[k]
<1> DEFINE n == tails[t]
           r == [tail[n] EXCEPT !.cancelled = TRUE]
<1>1. n \in Tails /\ tail[n] \in TailRecord
  BY ElementOfSeq DEF TailsInv, TailsTypeOK, Tails, Cancels
<1>2. r \in TailRecord /\ r.at = tail[n].at /\ SameLines(tail[n], r)
  BY <1>1 DEF TailRecord, SameLines
<1>3. tail' = [tail EXCEPT ![n] = r]
  BY DEF Cancels
<1> HIDE DEF n, r
<1>4. /\ tail' \in Seq(TailRecord) /\ Len(tail') = Len(tail)
      /\ tail'[n] = r /\ \A k \in Tails : k # n => tail'[k] = tail[k]
  BY <1>1, <1>2, <1>3, Replaced
<1> QED
  BY <1>2, <1>4 DEF n, SameLines

LEMMA UnwindsEffect ==
    ASSUME TailsInv, NEW n \in Tails, Unwinds(n)
    PROVE  /\ tail' \in Seq(TailRecord) /\ Len(tail') = Len(tail)
           /\ tail[n].target \in Targets
           /\ tail'[n].at = "gone" /\ SameLines(tail[n], tail'[n])
           /\ \A k \in Tails : k # n => tail'[k] = tail[k]
<1> DEFINE r == [tail[n] EXCEPT !.at = "gone"]
<1>1. tail[n] \in TailRecord
  BY ElementOfSeq DEF TailsInv, TailsTypeOK, Tails
<1>2. r \in TailRecord /\ r.at = "gone" /\ SameLines(tail[n], r) /\ tail[n].target \in Targets
  BY <1>1 DEF TailRecord, Places, SameLines
<1>3. tail' = [tail EXCEPT ![n] = r]
  BY DEF Unwinds
<1> HIDE DEF r
<1> QED
  BY <1>2, <1>3, Replaced

LEMMA MovesEffect ==
    ASSUME TailsInv, NEW n \in Tails, Moves(n)
    PROVE  /\ tail' \in Seq(TailRecord) /\ Len(tail') = Len(tail)
           /\ Goes(tail[n], tail'[n])
           /\ \A k \in Tails : k # n => tail'[k] = tail[k]
<1>1. PICK r : Goes(tail[n], r) /\ tail' = [tail EXCEPT ![n] = r]
  BY DEF Moves
<1>2. r \in TailRecord
  BY <1>1 DEF Goes
<1> QED
  BY <1>1, <1>2, Replaced

-----------------------------------------------------------------------------
(***************************************************************************)
(* Types, and batches                                                      *)
(***************************************************************************)
(* A tail that has ended holds no line. *)
EndedEmpty == \A n \in Tails : tail[n].at \in {"unwind", "gone"} => tail[n].batch = 0

BatchInv == TailsInv /\ Resolving /\ EndedEmpty

(* What BatchInv asks of one record. *)
RecordOK(a) ==
    /\ a.at = "loop" => a.batch < BatchMax
    /\ a.at \in {"resolve", "unwind", "gone"} => a.batch = 0
    /\ Accounted(a, shutdown)

LEMMA InitBatches == TailsInit => BatchInv
<1> SUFFICES ASSUME TailsInit PROVE BatchInv
  OBVIOUS
<1>1. tail = <<>> /\ Tails = {}
  BY DEF TailsInit, Tails
<1>2. TailsTypeOK
  <2>1. tail \in Seq(TailRecord) /\ Len(tail) = 0
    BY <1>1
  <2>2. watched \subseteq Targets /\ commands \in Seq([kind : {"start", "stop"}, target : Targets])
    BY DEF TailsInit
  <2>3. tails \in [Targets -> 0 .. Len(tail)]
    BY <2>1 DEF TailsInit
  <2>4. shutdown \in BOOLEAN
    BY DEF TailsInit
  <2> QED
    BY <2>1, <2>2, <2>3, <2>4 DEF TailsTypeOK
<1> QED
  BY <1>1, <1>2 DEF BatchInv, TailsInv, BatchHasRoom, LinesAccounted, Resolving, EndedEmpty

LEMMA StepBatches == BatchInv /\ [TailsNext]_tailsVars => BatchInv'
<1> SUFFICES ASSUME BatchInv, [TailsNext]_tailsVars PROVE BatchInv'
  OBVIOUS
<1> USE DEF BatchInv
<1>1. /\ watched' \subseteq Targets /\ commands' \in Seq(Commands)
      /\ shutdown' \in {shutdown, TRUE} /\ shutdown' \in BOOLEAN
  BY Effects DEF TailsInv, TailsTypeOK
<1>2. tails \in [Targets -> 0 .. Len(tail)] /\ Len(tail) \in Nat /\ tail \in Seq(TailRecord)
  BY LenProperties DEF TailsInv, TailsTypeOK
<1>3. ASSUME tail' \in Seq(TailRecord), tails' \in [Targets -> 0 .. Len(tail')],
             \A n \in 1 .. Len(tail') : RecordOK(tail'[n])
      PROVE  BatchInv'
  <2>1. \A n \in 1 .. Len(tail') : Accounted(tail'[n], shutdown')
    <3> SUFFICES ASSUME NEW n \in 1 .. Len(tail') PROVE Accounted(tail'[n], shutdown')
      OBVIOUS
    <3>1. Accounted(tail'[n], shutdown)
      BY <1>3 DEF RecordOK
    <3>2. CASE shutdown'
      BY <3>1, <3>2 DEF Accounted
    <3>3. CASE ~shutdown'
      <4>1. ~shutdown
        BY <1>1, <3>3
      <4> QED
        BY <3>1, <3>3, <4>1 DEF Accounted
    <3> QED
      BY <3>2, <3>3
  <2>2. LinesAccounted'
    BY <2>1 DEF LinesAccounted, Tails
  <2>3. TailsTypeOK'
    BY <1>1, <1>3 DEF TailsTypeOK, Commands
  <2>4. BatchHasRoom' /\ Resolving' /\ EndedEmpty'
    BY <1>3 DEF BatchHasRoom, Resolving, EndedEmpty, Tails, RecordOK
  <2> QED
    BY <2>2, <2>3, <2>4 DEF TailsInv
<1>4. \A n \in 1 .. Len(tail) : RecordOK(tail[n])
  BY DEF TailsInv, BatchHasRoom, Resolving, EndedEmpty, LinesAccounted, RecordOK, Tails
<1>5. CASE UNCHANGED <<tails, tail>>
  BY <1>2, <1>3, <1>4, <1>5
<1>6. ASSUME NEW t \in Targets, Registers(t) PROVE BatchInv'
  <2>1. tails' \in [Targets -> 0 .. Len(tail')]
    BY <1>2, <1>6, RegistersEffect DEF Registers
  <2>2. \A n \in 1 .. Len(tail') : n \in Tails \/ n = Len(tail) + 1
    BY <1>2, <1>6, RegistersEffect DEF Tails
  <2>3. RecordOK(NewTail(t))
    BY NewTailType DEF RecordOK
  <2> QED
    BY <1>3, <1>4, <1>6, <2>1, <2>2, <2>3, RegistersEffect DEF Tails
<1>7. ASSUME NEW t \in Targets, Cancels(t) PROVE BatchInv'
  <2>1. tails' \in [Targets -> 0 .. Len(tail')]
    BY <1>2, <1>7, CancelsEffect DEF Cancels
  <2>2. \A n \in Tails : RecordOK(tail'[n])
    BY <1>4, <1>7, CancelsEffect DEF RecordOK, Accounted, SameLines, Tails
  <2> QED
    BY <1>3, <1>7, <2>1, <2>2, CancelsEffect DEF Tails
<1>8. ASSUME NEW n \in Tails, Moves(n) PROVE BatchInv'
  <2>1. /\ tail' \in Seq(TailRecord) /\ Len(tail') = Len(tail)
        /\ Goes(tail[n], tail'[n]) /\ \A k \in Tails : k # n => tail'[k] = tail[k]
    BY <1>8, MovesEffect
  <2>2. tails' \in [Targets -> 0 .. Len(tail')]
    BY <1>2, <1>8, <2>1 DEF Moves
  <2>3. RecordOK(tail'[n])
    BY <1>4, <2>1 DEF Goes, Tails, RecordOK
  <2> QED
    BY <1>3, <1>4, <2>1, <2>2, <2>3 DEF Tails
<1>9. ASSUME NEW n \in Tails, Unwinds(n) PROVE BatchInv'
  <2>1. tails' \in [Targets -> 0 .. Len(tail')]
    <3>1. tails' = [tails EXCEPT ![tail[n].target] = 0] /\ Len(tail') = Len(tail)
      BY <1>9, UnwindsEffect DEF Unwinds
    <3> QED
      BY <1>2, <1>9, <3>1, UnwindsEffect
  <2>2. RecordOK(tail'[n])
    BY <1>4, <1>9, UnwindsEffect DEF Unwinds, Tails, RecordOK, SameLines, Accounted
  <2> QED
    BY <1>3, <1>4, <1>9, <2>1, <2>2, UnwindsEffect DEF Tails
<1> QED
  BY <1>5, <1>6, <1>7, <1>8, <1>9, Effects

(* Every reachable state is well typed: in particular a batch never        *)
(* outgrows logBatchMax nor the channel its capacity.                      *)
THEOREM TailsTypeCorrect == TailsSpec => []TailsTypeOK
<1>1. TailsSpec => []BatchInv
  BY InitBatches, StepBatches, PTL DEF TailsSpec
<1>2. BatchInv => TailsTypeOK
  BY DEF BatchInv, TailsInv
<1> QED
  BY <1>1, <1>2, PTL

(* As long as the agent lives, a tail that has ended, stopped or not, has  *)
(* brought every line it took to the cloud, but for those of pushes that   *)
(* failed of themselves: neither the cancellation of its context, at any   *)
(* moment, nor the end of the feed cuts anything off.                      *)
THEOREM NothingIsCut == TailsSpec => []StopCutsNothing
<1>1. TailsSpec => []BatchInv
  BY InitBatches, StepBatches, PTL DEF TailsSpec
<1>2. BatchInv => StopCutsNothing
  <2> SUFFICES ASSUME BatchInv, ~shutdown, NEW n \in Tails, tail[n].at \in {"unwind", "gone"}
               PROVE  tail[n].taken = tail[n].landed + tail[n].refused
    BY DEF StopCutsNothing
  <2>1. tail[n] \in TailRecord /\ Accounted(tail[n], shutdown) /\ tail[n].batch = 0
    BY ElementOfSeq DEF BatchInv, TailsInv, TailsTypeOK, LinesAccounted, EndedEmpty, Tails
  <2> QED
    BY <2>1 DEF Accounted, TailRecord
<1> QED
  BY <1>1, <1>2, PTL

-----------------------------------------------------------------------------
(***************************************************************************)
(* Registered tails are live.                                              *)
(***************************************************************************)
LEMMA StepRegistered == BatchInv /\ RegisteredIsLive /\ [TailsNext]_tailsVars => RegisteredIsLive'
<1> SUFFICES ASSUME BatchInv, RegisteredIsLive, [TailsNext]_tailsVars PROVE RegisteredIsLive'
  OBVIOUS
<1> USE DEF BatchInv
<1>1. tails \in [Targets -> 0 .. Len(tail)] /\ Len(tail) \in Nat
  BY LenProperties DEF TailsInv, TailsTypeOK
<1>2. \A u \in Targets : tails[u] # 0 => tails[u] \in Tails
  BY <1>1 DEF Tails
<1>3. CASE UNCHANGED <<tails, tail>>
  BY <1>3 DEF RegisteredIsLive
<1>4. ASSUME NEW t \in Targets, Registers(t) PROVE RegisteredIsLive'
  BY <1>1, <1>2, <1>4, RegistersEffect, NewTailType DEF RegisteredIsLive, Registers
<1>5. ASSUME NEW t \in Targets, Cancels(t) PROVE RegisteredIsLive'
  <2> SUFFICES ASSUME NEW u \in Targets, tails'[u] # 0
               PROVE  tails'[u] = tails[u] /\ tail'[tails[u]] = tail[tails[u]]
    BY DEF RegisteredIsLive
  <2>1. u # t /\ tails'[u] = tails[u]
    BY <1>1, <1>5 DEF Cancels
  <2>2. tails[t] # tails[u]
    \* They are tails of different targets.
    BY <1>5, <2>1 DEF RegisteredIsLive, Cancels, Tails
  <2> QED
    BY <1>2, <1>5, <2>1, <2>2, CancelsEffect
<1>6. ASSUME NEW n \in Tails, Moves(n) PROVE RegisteredIsLive'
  <2>1. \A k \in Tails :
           /\ tail'[k].target = tail[k].target /\ tail'[k].cancelled = tail[k].cancelled
           /\ tail[k].at # "gone" => tail'[k].at # "gone"
    BY <1>6, MovesEffect DEF Goes
  <2> QED
    BY <1>2, <1>6, <2>1 DEF Moves, RegisteredIsLive
<1>7. ASSUME NEW n \in Tails, Unwinds(n) PROVE RegisteredIsLive'
  <2> SUFFICES ASSUME NEW u \in Targets, tails'[u] # 0
               PROVE  tails'[u] = tails[u] /\ tail'[tails[u]] = tail[tails[u]]
    BY DEF RegisteredIsLive
  <2>1. u # tail[n].target /\ tails'[u] = tails[u]
    BY <1>1, <1>7, UnwindsEffect DEF Unwinds
  <2>2. tails[u] # n
    BY <2>1 DEF RegisteredIsLive, Tails
  <2> QED
    BY <1>2, <1>7, <2>1, <2>2, UnwindsEffect
<1> QED
  BY <1>3, <1>4, <1>5, <1>6, <1>7, Effects

(* Whatever tails overlap, an entry of the manager is a tail of its target *)
(* that nobody has stopped and that has not ended.                         *)
THEOREM EntriesAreLive == TailsSpec => []RegisteredIsLive
<1>1. TailsSpec => []BatchInv
  BY InitBatches, StepBatches, PTL DEF TailsSpec
<1>2. TailsInit => RegisteredIsLive
  BY DEF TailsInit, RegisteredIsLive
<1> QED
  BY <1>1, <1>2, StepRegistered, PTL DEF TailsSpec
=============================================================================
