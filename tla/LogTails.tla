------------------------------ MODULE LogTails ------------------------------
(***************************************************************************)
(* The log manager (internal/agent/logs.go): the Run loop starts and stops *)
(* tails, each tail is a goroutine of its own that batches the lines of    *)
(* one container and pushes them to the cloud, and the cloud asks for a    *)
(* tail while somebody watches.  What feeds the lines channel is the       *)
(* subject of FollowLogs.tla; here it is a producer that ends when the     *)
(* tail's context is cancelled, or at once when the logs cannot be opened. *)
(* A tail's context is a child of the Run loop's, which ends with the      *)
(* process (SIGTERM).  The names of the specification begin with Tails:    *)
(* Reporting_proof extends EventReport too.                                *)
(***************************************************************************)
EXTENDS Naturals, Sequences, FiniteSets

CONSTANTS
    Targets,       \* containers that can be watched
    MaxTails,      \* bound: tails ever started
    LinesCap,      \* capacity of the lines channel (128 in the code)
    BatchMax,      \* logBatchMax (200 in the code)
    MaxCommands,   \* bound: commands on their way
    MaxLines,      \* bound: lines of one tail
    MayFail        \* resolving, opening and pushing may fail

ASSUME TailsAssumption ==
    /\ MaxTails \in Nat /\ MaxCommands \in Nat /\ MaxLines \in Nat
    /\ LinesCap \in Nat \ {0} /\ BatchMax \in Nat \ {0}
    /\ MayFail \in BOOLEAN

VARIABLES
    watched,       \* the cloud: targets with a viewer
    commands,      \* StartLogs and StopLogs on their way, in order
    tails,         \* target -> the tail whose cancel is registered, 0 if none
    tail,          \* the tails started so far, one record each
    shutdown       \* baseCtx, the context of the Run loop, is cancelled

tailsVars == <<watched, commands, tails, tail, shutdown>>

(* at: where the goroutine run is; feed: the goroutine around FollowLogs;   *)
(* lines: how many lines the channel between them holds.  History: taken,  *)
(* the lines received from the channel; landed, those that reached the     *)
(* cloud; refused, those of a push that failed of itself.                  *)
NewTail(t) ==
    [target |-> t, at |-> "resolve", cancelled |-> FALSE, feed |-> "none",
     lines |-> 0, batch |-> 0, taken |-> 0, landed |-> 0, refused |-> 0]

Tails == 1 .. Len(tail)

Places == {"resolve", "loop", "push", "final", "unwind", "gone"}

TailsInit ==
    /\ watched = {} /\ commands = <<>>
    /\ tails = [t \in Targets |-> 0] /\ tail = <<>> /\ shutdown = FALSE

(* The context of tail n, a child of baseCtx. *)
Done(n) == tail[n].cancelled \/ shutdown

-----------------------------------------------------------------------------
(***************************************************************************)
(* The cloud counts viewers and asks for a tail while there is one.        *)
(***************************************************************************)
Watch(t) ==
    /\ t \notin watched /\ Len(commands) < MaxCommands
    /\ watched' = watched \cup {t}
    /\ commands' = Append(commands, [kind |-> "start", target |-> t])
    /\ UNCHANGED <<tails, tail, shutdown>>

Unwatch(t) ==
    /\ t \in watched /\ Len(commands) < MaxCommands
    /\ watched' = watched \ {t}
    /\ commands' = Append(commands, [kind |-> "stop", target |-> t])
    /\ UNCHANGED <<tails, tail, shutdown>>

(* SIGTERM: from here on the process may end at any moment. *)
Shutdown ==
    /\ ~shutdown /\ shutdown' = TRUE
    /\ UNCHANGED <<watched, commands, tails, tail>>

-----------------------------------------------------------------------------
(***************************************************************************)
(* logManager.start and stop, called by the Run loop.                      *)
(***************************************************************************)
(* Mutant of Start: an earlier tail of the target that still unwinds counts *)
(* as running.                                                             *)
MutWaitsForOld ==
    /\ commands # <<>> /\ Head(commands).kind = "start"
    /\ commands' = Tail(commands)
    /\ LET t == Head(commands).target
       IN IF \E n \in Tails : tail[n].target = t /\ tail[n].at # "gone"
          THEN UNCHANGED <<tails, tail>>
          ELSE /\ Len(tail) < MaxTails
               /\ tail' = Append(tail, NewTail(t))
               /\ tails' = [tails EXCEPT ![t] = Len(tail) + 1]
    /\ UNCHANGED <<watched, shutdown>>

Start ==
    /\ commands # <<>> /\ Head(commands).kind = "start"
    /\ commands' = Tail(commands)
    /\ LET t == Head(commands).target
       IN IF tails[t] # 0
          THEN UNCHANGED <<tails, tail>>
          ELSE /\ Len(tail) < MaxTails
               /\ tail' = Append(tail, NewTail(t))
               /\ tails' = [tails EXCEPT ![t] = Len(tail) + 1]
    /\ UNCHANGED <<watched, shutdown>>

Stop ==
    /\ commands # <<>> /\ Head(commands).kind = "stop"
    /\ commands' = Tail(commands)
    /\ LET t == Head(commands).target
       IN /\ tails' = [tails EXCEPT ![t] = 0]
          /\ tail' = IF tails[t] = 0 THEN tail
                     ELSE [tail EXCEPT ![tails[t]].cancelled = TRUE]
    /\ UNCHANGED <<watched, shutdown>>

-----------------------------------------------------------------------------
(***************************************************************************)
(* logManager.run, tail n.                                                 *)
(***************************************************************************)
Step(n, from, to) ==
    /\ tail[n].at = from
    /\ tail' = [tail EXCEPT ![n] = to]
    /\ UNCHANGED <<watched, commands, tails, shutdown>>

(* Cancellation reaches Docker: resolving fails in a cancelled context. *)
Resolve(n) ==
    \/ Step(n, "resolve", [tail[n] EXCEPT !.at = "loop", !.feed = "opening"])
    \/ /\ MayFail \/ Done(n)
       /\ Step(n, "resolve", [tail[n] EXCEPT !.at = "unwind"])

(* FollowLogs opens the stream or fails; once open it returns only after   *)
(* the cancellation, and until then it may still choose to send.           *)
Feed(n, from, to) == tail[n].feed = from /\ Step(n, tail[n].at, to)

FeedOpens(n) ==
    \/ Feed(n, "opening", [tail[n] EXCEPT !.feed = "open"])
    \/ /\ MayFail \/ Done(n)
       /\ Feed(n, "opening", [tail[n] EXCEPT !.feed = "closed"])

FeedSends(n) ==
    /\ tail[n].lines < LinesCap /\ tail[n].taken + tail[n].lines < MaxLines
    /\ Feed(n, "open", [tail[n] EXCEPT !.lines = @ + 1])

FeedEnds(n) == Done(n) /\ Feed(n, "open", [tail[n] EXCEPT !.feed = "closed"])

Take(n) ==
    /\ tail[n].lines > 0
    /\ Step(n, "loop",
            [tail[n] EXCEPT !.lines = @ - 1, !.taken = @ + 1, !.batch = @ + 1,
                            !.at = IF tail[n].batch + 1 >= BatchMax THEN "push" ELSE "loop"])

Tick(n) ==
    /\ tail[n].batch > 0
    /\ Step(n, "loop", [tail[n] EXCEPT !.at = "push"])

(* flush, whose context is done or not.  The batch reaches the cloud (its  *)
(* answer may be lost, or the context end too late to matter), PushLogs    *)
(* fails of itself, or the context cuts it off; run only warns, and forgets *)
(* the batch in each case.                                                 *)
Flush(n, done, from, to) ==
    LET emptied == [tail[n] EXCEPT !.batch = 0, !.at = to]
    IN \/ Step(n, from, [emptied EXCEPT !.landed = @ + tail[n].batch])
       \/ MayFail /\ Step(n, from, [emptied EXCEPT !.refused = @ + tail[n].batch])
       \/ done /\ Step(n, from, emptied)

Push(n) == Flush(n, shutdown, "push", "loop")

Drained(n) == tail[n].feed = "closed" /\ tail[n].lines = 0

(* Mutant of Leave: the loop ends only when the channel is closed. *)
MutDeafToCancel(n) == Drained(n) /\ Step(n, "loop", [tail[n] EXCEPT !.at = "final"])

(* The channel is closed and drained, or the context is cancelled; lines   *)
(* still in the channel are dropped.                                       *)
Leave(n) ==
    (Done(n) \/ Drained(n)) /\ Step(n, "loop", [tail[n] EXCEPT !.at = "final"])

(* Mutant of FinalFlush: the deferred flush runs in the context of the tail. *)
MutFlushInCtx(n) == Flush(n, Done(n), "final", "unwind")

(* The deferred flush, in the base context. *)
FinalFlush(n) == Flush(n, shutdown, "final", "unwind")

(* Mutant of Unwind: the deferred delete is missing. *)
MutEntryLeft(n) == Step(n, "unwind", [tail[n] EXCEPT !.at = "gone"])

(* The deferred delete, whoever's entry it is. *)
Unwind(n) ==
    /\ tail[n].at = "unwind"
    /\ tail' = [tail EXCEPT ![n].at = "gone"]
    /\ tails' = [tails EXCEPT ![tail[n].target] = 0]
    /\ UNCHANGED <<watched, commands, shutdown>>

Run(n) ==
    \/ Resolve(n) \/ Take(n) \/ Tick(n) \/ Push(n) \/ Leave(n)
    \/ FinalFlush(n) \/ Unwind(n)

TailsNext ==
    \/ \E t \in Targets : Watch(t) \/ Unwatch(t)
    \/ Start \/ Stop \/ Shutdown
    \/ \E n \in Tails : Run(n) \/ FeedOpens(n) \/ FeedSends(n) \/ FeedEnds(n)

TailsSpec == TailsInit /\ [][TailsNext]_tailsVars

(* Goroutines are scheduled, the Run loop serves its stream, and a select  *)
(* that is ready again and again for ctx.Done takes it in the end - as long *)
(* as the process is not told to stop.  Nothing is assumed of FollowLogs,  *)
(* which may never return.                                                 *)
Fairness ==
    /\ WF_tailsVars(~shutdown /\ Start) /\ WF_tailsVars(~shutdown /\ Stop)
    /\ \A n \in 1 .. MaxTails :
         /\ WF_tailsVars(~shutdown /\ n \in Tails /\ Run(n))
         /\ SF_tailsVars(~shutdown /\ n \in Tails /\ Leave(n))

TailsFairSpec == TailsSpec /\ Fairness

-----------------------------------------------------------------------------
TailRecord ==
    [target : Targets, at : Places, cancelled : BOOLEAN,
     feed : {"none", "opening", "open", "closed"}, lines : 0 .. LinesCap,
     batch : 0 .. BatchMax, taken : 0 .. MaxLines, landed : 0 .. MaxLines,
     refused : 0 .. MaxLines]

(* Types; a batch never outgrows logBatchMax nor the channel its capacity. *)
TailsTypeOK ==
    /\ watched \subseteq Targets
    /\ commands \in Seq([kind : {"start", "stop"}, target : Targets])
    /\ tail \in Seq(TailRecord)
    /\ tails \in [Targets -> 0 .. Len(tail)]
    /\ shutdown \in BOOLEAN

(* StartLogs for a registered target is ignored, so what is registered     *)
(* must be a tail of that target that nobody has stopped and that has not  *)
(* ended: otherwise a viewer would look at nothing.                        *)
RegisteredIsLive ==
    \A t \in Targets : tails[t] # 0 =>
        /\ tail[tails[t]].target = t
        /\ ~tail[tails[t]].cancelled /\ tail[tails[t]].at # "gone"

(* StopLogs cuts nothing off: when a tail has ended while the agent lives, *)
(* every line it ever took from the channel has reached the cloud, but for *)
(* those of pushes that failed of themselves ("on StopLogs we still want   *)
(* the final batch to land", logs.go:88).                                  *)
StopCutsNothing ==
    ~shutdown => \A n \in Tails :
        tail[n].at \in {"unwind", "gone"} => tail[n].taken = tail[n].landed + tail[n].refused

(* A stopped tail ends, even if FollowLogs never returns, unless the whole *)
(* agent is told to stop.                                                  *)
StoppedEnds ==
    \A n \in 1 .. MaxTails :
        (n \in Tails /\ tail[n].cancelled)
            ~> (shutdown \/ (n \in Tails /\ tail[n].at = "gone"))

Live(n) == tail[n].at \notin {"unwind", "gone"} /\ ~tail[n].cancelled

(* While somebody keeps watching, the target is being tailed: whatever of  *)
(* an earlier tail is still to unwind does not take the viewer's away.      *)
(* Asked of runs where no tail ends by itself, as one whose container      *)
(* cannot be resolved does, where the agent lives, and where MaxTails does *)
(* not hold up the commands.                                               *)
EndsOnlyWhenStopped ==
    \A n \in Tails : tail[n].at \in {"unwind", "gone"} => tail[n].cancelled

WatchedIsTailed ==
    ([]EndsOnlyWhenStopped /\ []<>(commands = <<>>)) =>
        \A t \in Targets :
            <>[](t \in watched /\ ~shutdown) =>
                <>[](\E n \in Tails : tail[n].target = t /\ Live(n))
=============================================================================
