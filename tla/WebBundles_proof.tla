-------------------------- MODULE WebBundles_proof --------------------------
(***************************************************************************)
(* Proofs about the web bundles, for every list of bundles and any number  *)
(* of pushes, moves of a tag, failing calls and crashes.                   *)
(***************************************************************************)
EXTENDS WebBundles, TLAPS

Steps == {"idle", "resolve", "pull", "replace", "extract", "mark", "done"}

(* Past the resolve of a bundle that is not skipped. *)
Renewing == {"pull", "replace", "extract", "mark"}

Spending == [moves : Nat, reverts : Nat, faults : Nat, crashes : Nat]

TypeInv ==
    /\ tag \in [Bundles -> 1 .. MaxDigest]
    /\ tree \in [Bundles -> 0 .. Partial] /\ marker \in [Bundles -> 0 .. Torn]
    /\ resolved \in [Bundles -> 0 .. MaxDigest]
    /\ pc \in Steps /\ at \in 1 .. Len(Order)
    /\ desc \in 0 .. MaxDigest /\ got \in 0 .. MaxDigest
    /\ ok \in BOOLEAN /\ up \in BOOLEAN
    /\ spent \in Spending

(* The numbers behind the types. *)
LEMMA Numbers ==
    /\ MaxDigest \in Nat \ {0} /\ Partial = MaxDigest + 1 /\ Torn = MaxDigest + 1
    /\ Len(Order) \in Nat /\ None = 0
    /\ \A i \in 1 .. Len(Order) : Order[i] \in Bundles
    /\ \A b \in Bundles : \E i \in 1 .. Len(Order) : b = Order[i]
    /\ Host \in Bundles
BY BundlesAssumption DEF Partial, Torn, None, Bundles

(* The bundle the sync is at. *)
LEMMA CurType == TypeInv => Cur \in Bundles
BY Numbers DEF TypeInv, Cur

(* A bound is used up, and never given back. *)
LEMMA SpendType ==
    ASSUME spent \in Spending, NEW what \in {"moves", "reverts", "faults", "crashes"},
           NEW limit, Spend(what, limit)
    PROVE  /\ spent' \in Spending
           /\ spent'.reverts = 0 => spent.reverts = 0 /\ what # "reverts"
<1>1. CASE what = "moves"
  BY <1>1 DEF Spend, Spending
<1>2. CASE what = "reverts"
  BY <1>2 DEF Spend, Spending
<1>3. CASE what = "faults"
  BY <1>3 DEF Spend, Spending
<1>4. CASE what = "crashes"
  BY <1>4 DEF Spend, Spending
<1> QED
  BY <1>1, <1>2, <1>3, <1>4

(* The sync goes on with the bundle after this one, or is through. *)
LEMMA NextBundleType ==
    ASSUME TypeInv, NextBundle
    PROVE  /\ pc' \in {"resolve", "done"} /\ at' \in 1 .. Len(Order)
           /\ pc' = "resolve" => at' = at + 1
           /\ pc' = "done" => at' = at /\ at = Len(Order)
BY Numbers DEF NextBundle, TypeInv

(* A failure or a crash leaves markers that are there. *)
LEMMA MarkerLeftType ==
    ASSUME TypeInv, MarkerLeft
    PROVE  /\ marker' \in [Bundles -> 0 .. Torn]
           /\ \A b \in Bundles : marker'[b] \in {marker[b], Torn}
BY Numbers, CurType DEF MarkerLeft, TypeInv

(* Nothing is on disk, and nothing has gone wrong. *)
LEMMA InitTypes == Init => TypeInv
<1> SUFFICES ASSUME Init PROVE TypeInv
  OBVIOUS
<1>1. spent \in Spending
  BY DEF Init, Spending
<1>2. 1 \in 1 .. Len(Order) /\ 1 \in 1 .. MaxDigest /\ 0 \in 0 .. MaxDigest
      /\ 0 \in 0 .. MaxDigest + 1
  BY Numbers
<1> QED
  BY <1>1, <1>2, Numbers DEF Init, TypeInv, Steps

(* Every step keeps the types. *)
LEMMA StepTypes == TypeInv /\ [Next]_vars => TypeInv'
<1> SUFFICES ASSUME TypeInv, [Next]_vars PROVE TypeInv'
  OBVIOUS
<1>n. /\ MaxDigest \in Nat \ {0} /\ Partial = MaxDigest + 1 /\ Torn = MaxDigest + 1
      /\ Len(Order) \in Nat /\ None = 0 /\ Cur \in Bundles
      /\ 1 .. MaxDigest \subseteq 0 .. MaxDigest
      /\ 0 .. MaxDigest \subseteq 0 .. MaxDigest + 1
      /\ MaxDigest + 1 \in 0 .. MaxDigest + 1
  BY Numbers, CurType
<1> USE DEF TypeInv, Steps, disk, memory
<1>1. CASE Begin
  <2>1. 1 \in 1 .. Len(Order)
    BY <1>n
  <2> QED
    BY <1>1, <2>1 DEF Begin
<1>2. CASE Resolve
  <2>1. /\ pc' \in Steps /\ at' \in 1 .. Len(Order)
    BY <1>2, NextBundleType DEF Resolve
  <2>2. /\ desc' \in 0 .. MaxDigest /\ resolved' \in [Bundles -> 0 .. MaxDigest]
    BY <1>2, <1>n DEF Resolve
  <2> QED
    BY <1>2, <2>1, <2>2 DEF Resolve
<1>3. CASE Pull
  BY <1>3, <1>n DEF Pull
<1>4. CASE Replace
  BY <1>4, <1>n DEF Replace
<1>5. CASE Extract
  BY <1>5, <1>n DEF Extract
<1>6. CASE Mark
  <2>1. /\ pc' \in Steps /\ at' \in 1 .. Len(Order)
    BY <1>6, NextBundleType DEF Mark
  <2>2. marker' \in [Bundles -> 0 .. Torn]
    BY <1>6, <1>n DEF Mark
  <2> QED
    BY <1>6, <2>1, <2>2 DEF Mark
<1>7. CASE Finish
  BY <1>7 DEF Finish
<1>8. CASE Fail
  BY <1>8, SpendType, MarkerLeftType DEF Fail, HostBundleReady
<1>9. CASE Crash
  BY <1>9, SpendType, MarkerLeftType DEF Crash
<1>10. CASE Move
  <2>1. PICK b \in Bundles : \E d \in (tag[b] + 1) .. MaxDigest : Retag(b, d)
    BY <1>10 DEF Move
  <2>2. PICK d \in (tag[b] + 1) .. MaxDigest : Retag(b, d)
    BY <2>1
  <2>3. d \in 1 .. MaxDigest
    BY <1>n
  <2>4. spent' \in Spending
    BY <1>10, SpendType DEF Move
  <2> QED
    BY <2>2, <2>3, <2>4 DEF Retag
<1>11. CASE Revert
  <2>1. PICK b \in Bundles : \E d \in 1 .. (tag[b] - 1) : Retag(b, d)
    BY <1>11 DEF Revert
  <2>2. PICK d \in 1 .. (tag[b] - 1) : Retag(b, d)
    BY <2>1
  <2>3. d \in 1 .. MaxDigest
    BY <1>n
  <2>4. spent' \in Spending
    BY <1>11, SpendType DEF Revert
  <2> QED
    BY <2>2, <2>3, <2>4 DEF Retag
<1>12. CASE UNCHANGED vars
  BY <1>12 DEF vars
<1> QED
  BY <1>1, <1>2, <1>3, <1>4, <1>5, <1>6, <1>7, <1>8, <1>9, <1>10, <1>11, <1>12
     DEF Next, Sync

(* The sync keeps its types through faults and crashes. *)
LEMMA TypeInvariant == Spec => []TypeInv
BY InitTypes, StepTypes, PTL DEF Spec

-----------------------------------------------------------------------------
(***************************************************************************)
(* The host bundle.  A sync leaves no bundle behind without a marker, and  *)
(* no marker is ever removed.                                              *)
(***************************************************************************)
MarkersInv ==
    /\ pc \in Renewing => desc # None
    /\ pc \in {"resolve"} \cup Renewing =>
         \A i \in 1 .. (at - 1) : marker[Order[i]] # None
    /\ pc = "done" => \A b \in Bundles : marker[b] # None
    /\ NginxHasHost

(* Only the sync writes markers, and it writes digests. *)
LEMMA StepMarkers == TypeInv /\ MarkersInv /\ [Next]_vars => MarkersInv'
<1> SUFFICES ASSUME TypeInv, MarkersInv, [Next]_vars PROVE MarkersInv'
  OBVIOUS
<1>n. /\ MaxDigest \in Nat \ {0} /\ Torn # None /\ Cur \in Bundles /\ Cur = Order[at]
      /\ Len(Order) \in Nat /\ at \in 1 .. Len(Order) /\ Host \in Bundles
      /\ \A i \in 1 .. Len(Order) : Order[i] \in Bundles
      /\ \A b \in Bundles : tag[b] # None
      /\ \A i \in 1 .. (at - 1) : i \in 1 .. Len(Order)
  BY Numbers, CurType DEF TypeInv, Cur
(* Markers stay or are written; the sync moves past a bundle that has one. *)
<1>a. ASSUME \A b \in Bundles : marker[b] # None => marker'[b] # None,
             marker'[Cur] # None, NextBundle,
             pc \in {"resolve"} \cup Renewing
      PROVE  /\ pc' = "resolve" => \A i \in 1 .. (at' - 1) : marker'[Order[i]] # None
             /\ pc' = "done" => \A b \in Bundles : marker'[b] # None
             /\ pc' \in {"resolve", "done"}
  <2>1. \A i \in 1 .. at : marker'[Order[i]] # None
    <3> SUFFICES ASSUME NEW i \in 1 .. at PROVE marker'[Order[i]] # None
      OBVIOUS
    <3>1. i \in 1 .. (at - 1) \/ i = at
      BY <1>n
    <3> QED
      BY <1>a, <1>n, <3>1 DEF MarkersInv
  <2>2. /\ pc' \in {"resolve", "done"}
        /\ pc' = "resolve" => at' - 1 = at
        /\ pc' = "done" => at = Len(Order)
    BY <1>a, <1>n, NextBundleType
  <2> QED
    BY <2>1, <2>2, Numbers
<1> USE DEF Renewing, NginxHasHost
<1>1. CASE Begin
  <2>1. 1 .. (1 - 1) = {}
    OBVIOUS
  <2> QED
    BY <1>1, <2>1 DEF Begin, MarkersInv, disk, memory
<1>2. CASE Resolve
  <2>1. CASE marker[Cur] = tag[Cur]
    BY <1>2, <1>a, <1>n, <2>1 DEF Resolve, MarkersInv, disk
  <2>2. CASE marker[Cur] # tag[Cur]
    BY <1>2, <1>n, <2>2 DEF Resolve, MarkersInv, disk
  <2> QED
    BY <2>1, <2>2
<1>3. CASE Pull \/ Replace \/ Extract
  BY <1>3 DEF Pull, Replace, Extract, MarkersInv, disk, memory
<1>4. CASE Mark
  <2>1. \A b \in Bundles : marker'[b] = IF b = Cur THEN desc ELSE marker[b]
    BY <1>4 DEF Mark, TypeInv
  <2>2. desc # None
    BY <1>4 DEF Mark, MarkersInv
  <2> QED
    BY <1>4, <1>a, <1>n, <2>1, <2>2 DEF Mark, MarkersInv, memory
<1>5. CASE Finish
  BY <1>5, <1>n DEF Finish, MarkersInv, disk, memory
<1>6. CASE Fail
  BY <1>6, <1>n, MarkerLeftType DEF Fail, HostBundleReady, MarkersInv
<1>7. CASE Crash
  BY <1>7, <1>n, MarkerLeftType DEF Crash, MarkersInv
<1>8. CASE Move \/ Revert
  BY <1>8 DEF Move, Revert, Retag, MarkersInv, disk, memory
<1>9. CASE UNCHANGED vars
  BY <1>9 DEF vars, MarkersInv, disk, memory
<1> QED
  BY <1>1, <1>2, <1>3, <1>4, <1>5, <1>6, <1>7, <1>8, <1>9 DEF Next, Sync

(* EnsureNginx never starts nginx on a web root without the host bundle,   *)
(* whatever pulls failed, markers were cut short and tags moved.           *)
THEOREM HostIsThere == Spec => []NginxHasHost
<1>1. Init => MarkersInv
  BY DEF Init, MarkersInv, NginxHasHost, Renewing
<1>2. MarkersInv => NginxHasHost
  BY DEF MarkersInv
<1> QED
  BY <1>1, <1>2, StepMarkers, TypeInvariant, PTL DEF Spec

-----------------------------------------------------------------------------
(***************************************************************************)
(* Whole bundles.  As long as no tag moves back, a marker is never ahead   *)
(* of what its tree holds, so a marker equal to the tag vouches for it.    *)
(***************************************************************************)
Intact == {b \in Bundles : tree[b] # Partial /\ tree[b] >= resolved[b]}

MarkerInv ==
    \A b \in Bundles :
        /\ marker[b] = Torn \/ (marker[b] <= tag[b] /\ marker[b] <= tree[b])
        /\ resolved[b] <= tag[b]
        /\ tree[b] = Partial => marker[b] # tag[b]

(* What is renewed is older than the digest resolved, which the pull meets *)
(* or exceeds.                                                             *)
RenewInv ==
    /\ pc \in Renewing =>
         (marker[Cur] = Torn \/ marker[Cur] < desc) /\ desc = resolved[Cur]
    /\ pc \in Renewing \ {"pull"} => desc <= got /\ got <= tag[Cur]
    /\ pc = "mark" => tree[Cur] = got

(* The bundles the sync has passed; a list may name one twice. *)
BehindInv ==
    /\ pc \in {"resolve"} \cup Renewing =>
         \A i \in 1 .. (at - 1) :
            Order[i] \in Intact \/ (pc \in Renewing /\ Order[i] = Cur)
    /\ pc = "done" => Bundles \subseteq Intact
    /\ ok => pc = "idle" /\ Bundles \subseteq Intact

WholeInv == spent.reverts = 0 => MarkerInv /\ RenewInv /\ BehindInv

(* A sync that moves on has left this bundle whole, and those before it.   *)
LEMMA MovesOn ==
    ASSUME TypeInv, BehindInv, NextBundle, pc \in {"resolve"} \cup Renewing,
           ok' = ok, Intact \cup {Cur} \subseteq Intact'
    PROVE  BehindInv' /\ RenewInv'
<1>n. /\ at \in 1 .. Len(Order) /\ Len(Order) \in Nat /\ Cur = Order[at]
      /\ \A i \in 1 .. Len(Order) : Order[i] \in Bundles
  BY Numbers DEF TypeInv, Cur
<1>1. \A i \in 1 .. at : Order[i] \in Intact'
  <2> SUFFICES ASSUME NEW i \in 1 .. at PROVE Order[i] \in Intact'
    OBVIOUS
  <2>1. i \in 1 .. (at - 1) \/ i = at
    BY <1>n
  <2> QED
    BY <1>n, <2>1 DEF BehindInv
<1>2. /\ pc' \in {"resolve", "done"}
      /\ pc' = "resolve" => at' - 1 = at
      /\ pc' = "done" => at = Len(Order)
  BY <1>n, NextBundleType
<1>3. pc' = "done" => Bundles \subseteq Intact'
  BY <1>1, <1>2, Numbers
<1>4. ~ok /\ pc' \notin Renewing /\ "done" # "idle"
  BY <1>2 DEF BehindInv, Renewing
<1>5. BehindInv'
  BY <1>1, <1>2, <1>3, <1>4 DEF BehindInv
<1> QED
  BY <1>4, <1>5 DEF RenewInv, Renewing

(* Every step but a tag moved back keeps it. *)
LEMMA StepWhole == TypeInv /\ WholeInv /\ [Next]_vars => WholeInv'
<1> SUFFICES ASSUME TypeInv, WholeInv, [Next]_vars, spent'.reverts = 0
             PROVE  MarkerInv' /\ RenewInv' /\ BehindInv'
  BY DEF WholeInv
<1>n. /\ MaxDigest \in Nat \ {0} /\ Torn = MaxDigest + 1 /\ Partial = MaxDigest + 1
      /\ Cur \in Bundles /\ Cur = Order[at] /\ at \in 1 .. Len(Order)
      /\ None = 0 /\ Len(Order) \in Nat
  BY Numbers, CurType DEF TypeInv, Cur
<1>t. /\ \A b \in Bundles : /\ tag[b] \in 1 .. MaxDigest /\ tree[b] \in 0 .. MaxDigest + 1
                            /\ marker[b] \in 0 .. MaxDigest + 1
                            /\ resolved[b] \in 0 .. MaxDigest
      /\ desc \in 0 .. MaxDigest /\ got \in 0 .. MaxDigest /\ spent \in Spending
  BY <1>n DEF TypeInv
<1>r. spent.reverts = 0 /\ ~Revert
  <2>1. CASE Sync \/ UNCHANGED vars
    BY <2>1 DEF Sync, Begin, Resolve, Pull, Replace, Extract, Mark, Finish, vars,
                Revert, Spend, Spending, TypeInv
  <2>2. CASE Fail
    BY <2>2, <1>t, SpendType DEF Fail, Revert, Spend
  <2>3. CASE Crash
    BY <2>3, <1>t, SpendType DEF Crash, Revert, Spend
  <2>4. CASE Move
    BY <2>4, <1>t, SpendType DEF Move, Revert, Spend
  <2>5. CASE Revert
    BY <2>5, <1>t, SpendType DEF Revert, Spend
  <2> QED
    BY <2>1, <2>2, <2>3, <2>4, <2>5 DEF Next
<1>i. MarkerInv /\ RenewInv /\ BehindInv
  BY <1>r DEF WholeInv
<1> HIDE DEF Cur
<1>1. CASE Begin
  <2>1. 1 .. (1 - 1) = {}
    OBVIOUS
  <2> QED
    BY <1>1, <1>i, <2>1 DEF Begin, MarkerInv, RenewInv, BehindInv, Intact, Renewing, disk, memory
<1>2. CASE Resolve
  <2>1. /\ tree' = tree /\ marker' = marker /\ tag' = tag /\ ok' = ok
        /\ \A b \in Bundles : resolved'[b] = IF b = Cur THEN tag[Cur] ELSE resolved[b]
    BY <1>2 DEF Resolve, TypeInv, disk
  <2>2. MarkerInv'
    BY <1>i, <1>t, <1>n, <2>1 DEF MarkerInv
  <2>3. CASE marker[Cur] = tag[Cur]
    <3>1. Intact \cup {Cur} \subseteq Intact'
      BY <1>i, <1>t, <1>n, <2>1, <2>3 DEF MarkerInv, Intact
    <3>2. NextBundle /\ pc = "resolve"
      BY <1>2, <2>3 DEF Resolve
    <3> QED
      BY <2>1, <2>2, <3>1, <3>2, <1>i, MovesOn
  <2>4. CASE marker[Cur] # tag[Cur]
    <3>1. pc = "resolve" /\ pc' = "pull" /\ at' = at /\ desc' = tag[Cur] /\ Cur' = Cur
      BY <1>2, <2>4 DEF Resolve, Cur
    <3>2. Intact \ {Cur} \subseteq Intact'
      BY <1>i, <2>1 DEF Intact
    <3>3. RenewInv'
      BY <1>i, <1>t, <1>n, <2>1, <2>4, <3>1 DEF RenewInv, MarkerInv, Renewing
    <3>4. BehindInv'
      BY <1>i, <2>1, <3>1, <3>2 DEF BehindInv, Renewing
    <3> QED
      BY <2>2, <3>3, <3>4
  <2> QED
    BY <2>3, <2>4
<1>3. CASE Pull
  <2>1. /\ tree' = tree /\ marker' = marker /\ tag' = tag /\ ok' = ok /\ at' = at
        /\ resolved' = resolved /\ desc' = desc /\ pc = "pull" /\ pc' = "replace"
        /\ got' = tag[Cur] /\ Cur' = Cur
    BY <1>3 DEF Pull, disk, Cur
  <2>2. MarkerInv' /\ BehindInv'
    BY <1>i, <2>1 DEF MarkerInv, BehindInv, Intact, Renewing
  <2>3. RenewInv'
    BY <1>i, <1>t, <1>n, <2>1 DEF RenewInv, MarkerInv, Renewing
  <2> QED
    BY <2>2, <2>3
<1>4. CASE Replace
  <2>1. /\ marker' = marker /\ tag' = tag /\ ok' = ok /\ at' = at
        /\ resolved' = resolved /\ desc' = desc /\ pc = "replace" /\ pc' = "extract"
        /\ got' = got /\ Cur' = Cur
        /\ \A b \in Bundles : tree'[b] = IF b = Cur THEN Partial ELSE tree[b]
    BY <1>4 DEF Replace, memory, Cur, TypeInv
  <2>2. MarkerInv'
    BY <1>i, <1>t, <1>n, <2>1 DEF MarkerInv, RenewInv, Renewing
  <2>3. Intact \ {Cur} \subseteq Intact'
    BY <2>1 DEF Intact
  <2>4. RenewInv' /\ BehindInv'
    BY <1>i, <2>1, <2>3 DEF RenewInv, BehindInv, Renewing
  <2> QED
    BY <2>2, <2>4
<1>5. CASE Extract
  <2>1. /\ marker' = marker /\ tag' = tag /\ ok' = ok /\ at' = at
        /\ resolved' = resolved /\ desc' = desc /\ pc = "extract" /\ pc' = "mark"
        /\ got' = got /\ Cur' = Cur
        /\ \A b \in Bundles : tree'[b] = IF b = Cur THEN got ELSE tree[b]
    BY <1>5 DEF Extract, memory, Cur, TypeInv
  <2>2. MarkerInv'
    BY <1>i, <1>t, <1>n, <2>1 DEF MarkerInv, RenewInv, Renewing
  <2>3. Intact \ {Cur} \subseteq Intact'
    BY <2>1 DEF Intact
  <2>4. RenewInv' /\ BehindInv'
    BY <1>i, <1>n, <2>1, <2>3 DEF RenewInv, BehindInv, Renewing
  <2> QED
    BY <2>2, <2>4
<1>6. CASE Mark
  <2>1. /\ tree' = tree /\ tag' = tag /\ ok' = ok /\ resolved' = resolved
        /\ pc = "mark" /\ NextBundle
        /\ \A b \in Bundles : marker'[b] = IF b = Cur THEN desc ELSE marker[b]
    BY <1>6 DEF Mark, memory, TypeInv
  <2>2. MarkerInv'
    BY <1>i, <1>t, <1>n, <2>1 DEF MarkerInv, RenewInv, Renewing
  <2>3. Intact \cup {Cur} \subseteq Intact'
    BY <1>i, <1>t, <1>n, <2>1 DEF Intact, RenewInv, Renewing
  <2>4. pc \in {"resolve"} \cup Renewing
    BY <2>1 DEF Renewing
  <2> QED
    BY <1>i, <2>1, <2>2, <2>3, <2>4, MovesOn
<1>7. CASE Finish
  BY <1>7, <1>i DEF Finish, MarkerInv, RenewInv, BehindInv, Intact, Renewing, disk, memory
<1>8. ASSUME MarkerLeft, pc' = "idle", ok' = FALSE \/ (ok' = ok /\ pc # "idle"),
             UNCHANGED <<tag, tree, resolved>>
      PROVE  MarkerInv' /\ RenewInv' /\ BehindInv'
  <2>1. \A b \in Bundles : marker'[b] \in {marker[b], Torn}
    BY <1>8, MarkerLeftType
  <2>2. MarkerInv'
    BY <1>8, <1>i, <1>t, <1>n, <2>1 DEF MarkerInv
  <2> QED
    BY <1>8, <1>i, <2>2 DEF RenewInv, BehindInv, Intact, Renewing
<1>9. CASE Fail
  BY <1>8, <1>9 DEF Fail
<1>10. CASE Crash
  BY <1>8, <1>10 DEF Crash
<1>11. CASE Move
  <2>1. PICK b \in Bundles : \E d \in (tag[b] + 1) .. MaxDigest : Retag(b, d)
    BY <1>11 DEF Move
  <2>2. PICK d \in (tag[b] + 1) .. MaxDigest : Retag(b, d)
    BY <2>1
  <2>3. /\ UNCHANGED <<tree, marker, pc, at, desc, got, resolved, ok>> /\ Cur' = Cur
        /\ \A c \in Bundles : tag'[c] = IF c = b THEN d ELSE tag[c]
        /\ d \in Nat /\ d > tag[b] /\ d <= MaxDigest
    BY <2>2, <1>t, <1>n DEF Retag, disk, memory, TypeInv, Cur
  <2>4. MarkerInv'
    BY <1>i, <1>t, <1>n, <2>3 DEF MarkerInv
  <2>5. \A c \in Bundles : tag'[c] \in Nat /\ tag[c] <= tag'[c]
    BY <1>t, <1>n, <2>3
  <2>6. RenewInv'
    BY <1>i, <1>t, <1>n, <2>3, <2>5 DEF RenewInv, Renewing
  <2>7. BehindInv'
    BY <1>i, <2>3 DEF BehindInv, Intact, Renewing
  <2> QED
    BY <2>4, <2>6, <2>7
<1>12. CASE UNCHANGED vars
  <2>1. Cur' = Cur /\ UNCHANGED <<tree, marker, tag, pc, at, desc, got, resolved, ok>>
    BY <1>12 DEF vars, disk, memory, Cur
  <2> QED
    BY <1>i, <2>1 DEF MarkerInv, RenewInv, BehindInv, Intact
<1> QED
  BY <1>1, <1>2, <1>3, <1>4, <1>5, <1>6, <1>7, <1>9, <1>10, <1>11, <1>12, <1>r
     DEF Next, Sync

(* A sync that returns without an error leaves every bundle whole, at the  *)
(* digest it resolved or a later one, after any crashes and failures - as  *)
(* long as no tag has been moved back.                                     *)
THEOREM SyncLeavesWhole == Spec => []SyncedIsWhole
<1>1. Init => WholeInv
  <2> SUFFICES ASSUME Init PROVE MarkerInv /\ RenewInv /\ BehindInv
    BY DEF WholeInv
  <2>1. MarkerInv
    BY Numbers DEF Init, MarkerInv
  <2> QED
    BY <2>1 DEF Init, RenewInv, BehindInv, Renewing
<1>2. WholeInv => SyncedIsWhole
  BY DEF WholeInv, BehindInv, SyncedIsWhole, Intact
<1> QED
  BY <1>1, <1>2, StepWhole, TypeInvariant, PTL DEF Spec
=============================================================================
