----------------------------- MODULE FollowLogs -----------------------------
(***************************************************************************)
(* dockerx.FollowLogs and its caller's loop: one goroutine demultiplexes   *)
(* Docker's stream into two synchronous pipes (StdCopy), one scanner per   *)
(* pipe turns it into lines and sends them to a bounded channel, the       *)
(* function itself waits for the cancellation, closes the connection and   *)
(* waits for the scanners.  A frame of the stream stands for one line, and *)
(* lines are numbered per stream.  A line is "long" when it outgrows the   *)
(* 1 MB buffer of the scanner, which then gives up.  The goroutines exist  *)
(* once the logs are open; until then copier and scanner keep their first  *)
(* value and can do nothing.  The names of the specification begin with    *)
(* Follow: Dockerx_proof extends DockerApply too.                          *)
(***************************************************************************)
EXTENDS Naturals, Sequences

CONSTANTS
    Streams,       \* "stdout" and "stderr"
    LinesCap,      \* capacity of the lines channel
    MaxFrames,     \* bound: frames of each stream
    LongLines      \* some line may be longer than the scanner's buffer

ASSUME FollowAssumption ==
    /\ LinesCap \in Nat \ {0} /\ MaxFrames \in Nat /\ LongLines \in BOOLEAN

VARIABLES
    cancelled,     \* the tail's context
    conn,          \* rc: "none", "open", "over" (ended by Docker or closed by us)
    copier,        \* StdCopy: "read", "write", "gone"
    frame,         \* the frame it writes: its stream, and whether it is long
    frames,        \* stream -> frames it has read
    pipe,          \* stream -> the writing end of its pipe is open
    scanner,       \* stream -> "read", "send" or "gone"
    sent,          \* stream -> lines its scanner has sent
    lines,         \* the lines channel
    main,          \* FollowLogs: "open", "wait", "join", "returned"
    closed,        \* close(lines) has happened
    reader         \* the loop of logManager.run: "reading" or "gone"

copying == <<copier, frame, frames, pipe>>
scanning == <<scanner, sent>>
followVars == <<cancelled, conn, copying, scanning, lines, main, closed, reader>>

Frames == [stream : Streams, long : BOOLEAN]

FollowInit ==
    /\ cancelled = FALSE /\ conn = "none"
    /\ copier = "read" /\ frame \in Frames /\ frames = [s \in Streams |-> 0]
    /\ pipe = [s \in Streams |-> TRUE]
    /\ scanner = [s \in Streams |-> "read"] /\ sent = [s \in Streams |-> 0]
    /\ lines = <<>> /\ main = "open" /\ closed = FALSE /\ reader = "reading"

-----------------------------------------------------------------------------
(***************************************************************************)
(* Docker and the cloud: the stream ends when the container does, and      *)
(* StopLogs cancels the tail.                                              *)
(***************************************************************************)
StreamEnds ==
    /\ conn = "open" /\ conn' = "over"
    /\ UNCHANGED <<cancelled, copying, scanning, lines, main, closed, reader>>

Cancel ==
    /\ ~cancelled /\ cancelled' = TRUE
    /\ UNCHANGED <<conn, copying, scanning, lines, main, closed, reader>>

-----------------------------------------------------------------------------
(***************************************************************************)
(* StdCopy: a write to a pipe blocks until its scanner has read it all, so *)
(* CopyRead and ScanRead below are the two ends of a rendezvous.           *)
(***************************************************************************)
CopyRead ==
    /\ copier = "read" /\ conn = "open"
    /\ \E f \in Frames :
         /\ f.long => LongLines
         /\ frames[f.stream] < MaxFrames
         /\ frames' = [frames EXCEPT ![f.stream] = @ + 1]
         /\ frame' = f
    /\ copier' = "write"
    /\ UNCHANGED <<cancelled, conn, pipe, scanning, lines, main, closed, reader>>

(* Mutant of CopyEnds: the pipes stay open. *)
MutPipesLeftOpen ==
    /\ copier = "read" /\ conn = "over" /\ copier' = "gone"
    /\ UNCHANGED <<cancelled, conn, frame, frames, pipe, scanning, lines, main, closed, reader>>

CopyEnds ==
    /\ copier = "read" /\ conn = "over"
    /\ copier' = "gone" /\ pipe' = [s \in Streams |-> FALSE]
    /\ UNCHANGED <<cancelled, conn, frame, frames, scanning, lines, main, closed, reader>>

-----------------------------------------------------------------------------
(***************************************************************************)
(* The scanner of stream s.                                                *)
(***************************************************************************)
ScanRead(s) ==
    /\ scanner[s] = "read" /\ copier = "write" /\ frame.stream = s
    /\ scanner' = [scanner EXCEPT ![s] = IF frame.long THEN "gone" ELSE "send"]
    /\ copier' = "read"
    /\ UNCHANGED <<cancelled, conn, frame, frames, pipe, sent, lines, main, closed, reader>>

(* Mutant of ScanSend: the scanner's loop runs once. *)
MutScansOnce(s) ==
    /\ scanner[s] = "send" /\ Len(lines) < LinesCap
    /\ scanner' = [scanner EXCEPT ![s] = "gone"]
    /\ sent' = [sent EXCEPT ![s] = @ + 1]
    /\ lines' = Append(lines, <<s, sent[s] + 1>>)
    /\ UNCHANGED <<cancelled, conn, copying, main, closed, reader>>

ScanSend(s) ==
    /\ scanner[s] = "send" /\ Len(lines) < LinesCap
    /\ scanner' = [scanner EXCEPT ![s] = "read"]
    /\ sent' = [sent EXCEPT ![s] = @ + 1]
    /\ lines' = Append(lines, <<s, sent[s] + 1>>)
    /\ UNCHANGED <<cancelled, conn, copying, main, closed, reader>>

(* ctx.Done while it waits to send: the scanner leaves, its pipe is not    *)
(* closed for reading.                                                     *)
ScanLeaves(s) ==
    /\ scanner[s] = "send" /\ cancelled
    /\ scanner' = [scanner EXCEPT ![s] = "gone"]
    /\ UNCHANGED <<cancelled, conn, copying, sent, lines, main, closed, reader>>

ScanEnds(s) ==
    /\ scanner[s] = "read" /\ ~pipe[s]
    /\ scanner' = [scanner EXCEPT ![s] = "gone"]
    /\ UNCHANGED <<cancelled, conn, copying, sent, lines, main, closed, reader>>

Scan(s) == ScanRead(s) \/ ScanSend(s) \/ ScanLeaves(s) \/ ScanEnds(s)

-----------------------------------------------------------------------------
(***************************************************************************)
(* FollowLogs itself, and the goroutine that closes the channel after it.  *)
(***************************************************************************)
OpenLogs ==
    /\ main = "open" /\ main' = "wait" /\ conn' = "open"
    /\ UNCHANGED <<cancelled, copying, scanning, lines, closed, reader>>

(* ContainerLogs fails - the container is gone, Docker does not answer, the *)
(* context is cancelled - and FollowLogs returns at once.                  *)
OpenFails ==
    /\ main = "open" /\ main' = "returned"
    /\ UNCHANGED <<cancelled, conn, copying, scanning, lines, closed, reader>>

CloseConn ==
    /\ main = "wait" /\ cancelled
    /\ main' = "join" /\ conn' = "over"
    /\ UNCHANGED <<cancelled, copying, scanning, lines, closed, reader>>

(* Mutant of Join: the scanners are not waited for. *)
MutNoJoin ==
    /\ main = "join" /\ main' = "returned"
    /\ UNCHANGED <<cancelled, conn, copying, scanning, lines, closed, reader>>

Join ==
    /\ main = "join" /\ \A s \in Streams : scanner[s] = "gone"
    /\ main' = "returned"
    /\ UNCHANGED <<cancelled, conn, copying, scanning, lines, closed, reader>>

CloseLines ==
    /\ main = "returned" /\ ~closed /\ closed' = TRUE
    /\ UNCHANGED <<cancelled, conn, copying, scanning, lines, main, reader>>

-----------------------------------------------------------------------------
(***************************************************************************)
(* The reader of the channel: logManager.run.                              *)
(***************************************************************************)
Take ==
    /\ reader = "reading" /\ lines # <<>> /\ lines' = Tail(lines)
    /\ UNCHANGED <<cancelled, conn, copying, scanning, main, closed, reader>>

Leave ==
    /\ reader = "reading" /\ (cancelled \/ (closed /\ lines = <<>>))
    /\ reader' = "gone"
    /\ UNCHANGED <<cancelled, conn, copying, scanning, lines, main, closed>>

FollowNext ==
    \/ StreamEnds \/ Cancel \/ CopyRead \/ CopyEnds
    \/ \E s \in Streams : Scan(s)
    \/ OpenLogs \/ OpenFails \/ CloseConn \/ Join \/ CloseLines \/ Take \/ Leave

FollowSpec == FollowInit /\ [][FollowNext]_followVars

(* The goroutines are scheduled; Docker may be silent for ever.            *)
Fairness ==
    /\ WF_followVars(CopyEnds) /\ WF_followVars(CloseConn)
    /\ WF_followVars(Join) /\ WF_followVars(CloseLines)
    /\ WF_followVars(Take) /\ WF_followVars(Leave)
    /\ \A s \in Streams : WF_followVars(Scan(s))

FollowFairSpec == FollowSpec /\ Fairness

-----------------------------------------------------------------------------
(* Types, the capacity of the channel, and nothing sent that was not read. *)
FollowTypeOK ==
    /\ cancelled \in BOOLEAN /\ closed \in BOOLEAN
    /\ conn \in {"none", "open", "over"}
    /\ copier \in {"read", "write", "gone"} /\ frame \in Frames
    /\ frames \in [Streams -> 0 .. MaxFrames] /\ sent \in [Streams -> 0 .. MaxFrames]
    /\ \A s \in Streams : sent[s] <= frames[s]
    /\ pipe \in [Streams -> BOOLEAN]
    /\ scanner \in [Streams -> {"read", "send", "gone"}]
    /\ lines \in Seq(Streams \X (1 .. MaxFrames)) /\ Len(lines) <= LinesCap
    /\ main \in {"open", "wait", "join", "returned"} /\ reader \in {"reading", "gone"}

(* What logManager.run relies on: see LogFeed.tla. *)
Feed == INSTANCE LogFeed WITH opened <- conn # "none"
FeedIsHonoured == Feed!Spec

(* Every line that reached the agent is on its way to the cloud, whatever  *)
(* the other stream does, unless the tail is cancelled - as long as no line *)
(* outgrows the scanner: the scanner of such a line stops, and StdCopy with *)
(* it.                                                                     *)
LinesAreDelivered ==
    [](copier = "write" => ~frame.long) =>
        \A s \in Streams : \A n \in 1 .. MaxFrames :
            (frames[s] >= n) ~> (sent[s] >= n \/ cancelled)

(* Once Docker has ended the stream, a cancelled tail returns and its      *)
(* channel is closed.  While StdCopy is still copying it may never: see    *)
(* the README.                                                             *)
EndedReturns == (copier = "gone" /\ cancelled) ~> closed
=============================================================================
