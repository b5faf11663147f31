------------------------------ MODULE LogFeed -------------------------------
(***************************************************************************)
(* What the log manager may rely on when it reads the lines channel that   *)
(* dockerx.FollowLogs fills (internal/agent/logs.go): lines come only once *)
(* the logs have been opened, each of the two streams arrives in order and *)
(* without a gap, the channel holds at most its capacity, and it is closed *)
(* once - at once when the logs could not be opened, and otherwise only    *)
(* after the tail was cancelled - and nothing is sent on it afterwards (a  *)
(* send on a closed channel panics).                                       *)
(***************************************************************************)
EXTENDS Naturals, Sequences

CONSTANTS
    Streams,       \* "stdout" and "stderr"
    LinesCap       \* capacity of the channel

VARIABLES
    lines,         \* the channel: the lines in it, <<stream, number>>
    sent,          \* stream -> how many of its lines were ever sent
    opened,        \* Docker has opened the logs
    cancelled,     \* the context of the tail
    closed         \* the channel has been closed

feedVars == <<lines, sent, opened, cancelled, closed>>

Init ==
    /\ lines = <<>> /\ sent = [s \in Streams |-> 0]
    /\ opened = FALSE /\ cancelled = FALSE /\ closed = FALSE

Open ==
    /\ ~opened /\ ~closed /\ opened' = TRUE
    /\ UNCHANGED <<lines, sent, cancelled, closed>>

Send(s) ==
    /\ opened /\ ~closed /\ Len(lines) < LinesCap
    /\ sent' = [sent EXCEPT ![s] = @ + 1]
    /\ lines' = Append(lines, <<s, sent[s] + 1>>)
    /\ UNCHANGED <<opened, cancelled, closed>>

Take ==
    /\ lines # <<>> /\ lines' = Tail(lines)
    /\ UNCHANGED <<sent, opened, cancelled, closed>>

Cancel == cancelled' = TRUE /\ UNCHANGED <<lines, sent, opened, closed>>

Close ==
    /\ ~closed /\ (opened => cancelled) /\ closed' = TRUE
    /\ UNCHANGED <<lines, sent, opened, cancelled>>

Next == Open \/ Take \/ Cancel \/ Close \/ \E s \in Streams : Send(s)

Spec == Init /\ [][Next]_feedVars
=============================================================================
