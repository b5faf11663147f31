----------------------------- MODULE WebBundles -----------------------------
(***************************************************************************)
(* deploy.SyncWebBundles, and what EnsureNginx makes of its result: the    *)
(* static bundles of the edge are pulled from a registry and extracted     *)
(* under the web root, each with a marker file that records the digest     *)
(* last extracted.  A digest is the position of its push in the registry's *)
(* history.  The destinations of two bundles do not overlap.               *)
(***************************************************************************)
EXTENDS Naturals, Sequences

CONSTANTS
    Order,         \* the bundles of the desired state, in its order
    Host,          \* the one extracted at the root, without wiping it first
    MaxDigest,     \* bound: pushes of a bundle
    MaxMoves,      \* bound: moves of a tag
    MaxFaults,     \* bound: calls that fail
    MaxCrashes,    \* bound: crashes of the agent
    MaxReverts     \* bound: moves of a tag back to an older push

Bundles == {Order[i] : i \in 1 .. Len(Order)}

ASSUME BundlesAssumption ==
    /\ Order \in Seq(Bundles) /\ Host \in Bundles
    /\ MaxDigest \in Nat \ {0}
    /\ \A n \in {MaxMoves, MaxReverts, MaxFaults, MaxCrashes} : n \in Nat

VARIABLES
    tag,           \* registry: bundle -> digest its reference resolves to
    tree,          \* disk: bundle -> digest extracted, Partial if not all of it
    marker,        \* disk: bundle -> digest recorded
    pc, at,        \* memory: the step of the sync, and the bundle it is at
    desc, got,     \* memory: the digest resolved, and the one pulled
    resolved,      \* bundle -> digest its last resolve returned
    ok,            \* the last sync has returned without an error
    up,            \* nginx has been started
    spent          \* bounds used up

disk == <<tree, marker>>
memory == <<desc, got>>
vars == <<tag, disk, pc, at, memory, resolved, ok, up, spent>>

None == 0
Partial == MaxDigest + 1   \* of a tree
Torn == MaxDigest + 1      \* of a marker: it exists, and equals no digest

Init ==
    /\ tag = [b \in Bundles |-> 1]
    /\ tree = [b \in Bundles |-> None] /\ marker = tree
    /\ pc = "idle" /\ at = 1 /\ desc = None /\ got = None
    /\ resolved = [b \in Bundles |-> None] /\ ok = FALSE /\ up = FALSE
    /\ spent = [moves |-> 0, reverts |-> 0, faults |-> 0, crashes |-> 0]

Spend(what, limit) ==
    spent[what] < limit /\ spent' = [spent EXCEPT ![what] = @ + 1]

Cur == Order[at]

-----------------------------------------------------------------------------
(***************************************************************************)
(* SyncWebBundles and syncWebBundle.                                       *)
(***************************************************************************)
NextBundle ==
    IF at < Len(Order) THEN pc' = "resolve" /\ at' = at + 1
                       ELSE pc' = "done" /\ UNCHANGED at

(* Mutant of Begin: bundles are synced until nginx is up, then no more. *)
MutSyncsOnce ==
    /\ pc = "idle"
    /\ IF up
       THEN UNCHANGED vars
       ELSE /\ pc' = "resolve" /\ at' = 1 /\ ok' = FALSE
            /\ UNCHANGED <<tag, disk, memory, resolved, up, spent>>

Begin ==
    /\ pc = "idle" /\ pc' = "resolve" /\ at' = 1 /\ ok' = FALSE
    /\ UNCHANGED <<tag, disk, memory, resolved, up, spent>>

(* The digest is compared with the marker; equal, the bundle is skipped. *)
Resolve ==
    /\ pc = "resolve"
    /\ desc' = tag[Cur] /\ resolved' = [resolved EXCEPT ![Cur] = tag[Cur]]
    /\ IF marker[Cur] = tag[Cur] THEN NextBundle
       ELSE pc' = "pull" /\ UNCHANGED at
    /\ UNCHANGED <<tag, disk, got, ok, up, spent>>

(* By reference, not by the digest resolved. *)
Pull ==
    /\ pc = "pull" /\ pc' = "replace" /\ got' = tag[Cur]
    /\ UNCHANGED <<tag, disk, at, desc, resolved, ok, up, spent>>

(* From here until Extract the destination holds part of a bundle: wiped   *)
(* and refilled, or, for the host, overwritten file by file.               *)
Replace ==
    /\ pc = "replace" /\ pc' = "extract"
    /\ tree' = [tree EXCEPT ![Cur] = Partial]
    /\ UNCHANGED <<tag, marker, at, memory, resolved, ok, up, spent>>

(* Mutant of Extract: the marker is written before the bundle is complete. *)
MutMarksFirst ==
    /\ pc = "extract" /\ marker[Cur] # desc
    /\ marker' = [marker EXCEPT ![Cur] = desc]
    /\ UNCHANGED <<tag, tree, pc, at, memory, resolved, ok, up, spent>>
    \/ /\ pc = "extract" /\ marker[Cur] = desc /\ pc' = "mark"
       /\ tree' = [tree EXCEPT ![Cur] = got]
       /\ UNCHANGED <<tag, marker, at, memory, resolved, ok, up, spent>>

Extract ==
    /\ pc = "extract" /\ pc' = "mark"
    /\ tree' = [tree EXCEPT ![Cur] = got]
    /\ UNCHANGED <<tag, marker, at, memory, resolved, ok, up, spent>>

Mark ==
    /\ pc = "mark" /\ marker' = [marker EXCEPT ![Cur] = desc]
    /\ NextBundle
    /\ UNCHANGED <<tag, tree, memory, resolved, ok, up, spent>>

(* Permissions, and EnsureNginx goes on. *)
Finish ==
    /\ pc = "done" /\ pc' = "idle" /\ ok' = TRUE /\ up' = TRUE
    /\ UNCHANGED <<tag, disk, at, memory, resolved, spent>>

(* A marker being written may be cut short. *)
MarkerLeft ==
    \E n \in {marker[Cur]} \cup (IF pc = "mark" THEN {Torn} ELSE {}) :
        marker' = [marker EXCEPT ![Cur] = n]

HostBundleReady == marker'[Host] # None

(* Mutant of Fail: always best-effort. *)
MutAlwaysBestEffort ==
    /\ pc # "idle" /\ pc' = "idle" /\ Spend("faults", MaxFaults)
    /\ MarkerLeft /\ up' = TRUE
    /\ UNCHANGED <<tag, tree, at, memory, resolved, ok>>

(* Any call may fail.  EnsureNginx goes on if the host bundle is there. *)
Fail ==
    /\ pc # "idle" /\ pc' = "idle" /\ Spend("faults", MaxFaults)
    /\ MarkerLeft /\ up' = (up \/ HostBundleReady)
    /\ UNCHANGED <<tag, tree, at, memory, resolved, ok>>

-----------------------------------------------------------------------------
(***************************************************************************)
(* A crash of the agent, and the registry.                                 *)
(***************************************************************************)
Crash ==
    /\ Spend("crashes", MaxCrashes)
    /\ pc' = "idle" /\ ok' = FALSE /\ MarkerLeft
    /\ UNCHANGED <<tag, tree, at, memory, resolved, up>>

Retag(b, d) ==
    /\ tag' = [tag EXCEPT ![b] = d]
    /\ UNCHANGED <<disk, pc, at, memory, resolved, ok, up>>

Move ==
    /\ Spend("moves", MaxMoves)
    /\ \E b \in Bundles : \E d \in (tag[b] + 1) .. MaxDigest : Retag(b, d)

Revert ==
    /\ Spend("reverts", MaxReverts)
    /\ \E b \in Bundles : \E d \in 1 .. (tag[b] - 1) : Retag(b, d)

Sync == Begin \/ Resolve \/ Pull \/ Replace \/ Extract \/ Mark \/ Finish

Next == Sync \/ Fail \/ Crash \/ Move \/ Revert

Spec == Init /\ [][Next]_vars

(* The reconcile runs again at every resync. *)
FairSpec == Spec /\ WF_vars(Sync)

-----------------------------------------------------------------------------
(* A sync that returns without an error leaves every bundle whole, at the  *)
(* digest it resolved or at a later one the tag has moved to meanwhile,    *)
(* whatever crashed or failed before.  A tag moved back to the digest of   *)
(* an old marker is taken for extracted, whatever is in the tree.          *)
SyncedIsWhole ==
    ok /\ spent.reverts = 0 =>
        \A b \in Bundles : tree[b] # Partial /\ tree[b] >= resolved[b]

(* nginx is not started on an empty web root: the host bundle has been     *)
(* extracted once, although later pulls may fail.                          *)
NginxHasHost == up => marker[Host] # None

(* When the registry settles, the web root follows it - unless a tag was   *)
(* moved back.                                                             *)
WebRootFollows ==
    [](spent.reverts = 0) => \A b \in Bundles : <>[](tree[b] = tag[b])
=============================================================================
