---------------------------- MODULE Backups_proof ----------------------------
(***************************************************************************)
(* Proofs about the backups, for any retention, any number of backups and  *)
(* of mishaps, whatever secrets and desired-states the agent meets.        *)
(***************************************************************************)
EXTENDS Backups, FiniteSetTheorems, WellFoundedInduction, TLAPS

Places == {"idle", "final", "prepare", "conf", "postgres", "stanza", "initial",
           "settle", "rest", "refresh"}

Types == {"full", "diff", "incr"}

BackupSet == [label : 0 .. (Labels - 1), full : BOOLEAN]

TypeInv ==
    /\ plan \in Plans /\ pc \in Places
    /\ archiving \in BOOLEAN /\ hadFullBackup \in BOOLEAN /\ stopped \in BOOLEAN
    /\ postgres \in {"down", "plain", "archiving"}
    /\ running \in Types \cup {"none"}
    /\ conf \in Topologies \cup {"none", "torn"}
    /\ stanza \in BOOLEAN /\ chained \in BOOLEAN
    /\ repo \in Seq(BackupSet) /\ last \in 0 .. (Labels - 1)
    /\ spent \in [Mishaps -> Nat]

-----------------------------------------------------------------------------
(***************************************************************************)
(* What the operators of the model do.                                     *)
(***************************************************************************)
(* A set of numbers has a least one: intervals are ordered by inclusion.   *)
LEMMA LeastNatural ==
    ASSUME NEW T \in SUBSET Nat, T # {}
    PROVE  \E m \in T : \A x \in T : m <= x
<1> DEFINE Below == {0 .. x : x \in T}
<1>1. Below \subseteq FiniteSubsetsOf(Nat)
  <2> SUFFICES ASSUME NEW x \in T PROVE 0 .. x \in FiniteSubsetsOf(Nat)
    OBVIOUS
  <2>1. IsFiniteSet(0 .. x)
    BY FS_Interval
  <2> QED
    BY <2>1 DEF FiniteSubsetsOf
<1>2. Below # {}
  OBVIOUS
<1>3. PICK b \in Below : \A c \in Below : ~(<<c, b>> \in StrictSubsetOrdering(Nat))
  <2> HIDE DEF Below
  <2> QED
    BY <1>1, <1>2, FS_StrictSubsetOrderingWellFounded, WFMin
<1>4. PICK m \in T : b = 0 .. m
  OBVIOUS
<1>5. ASSUME NEW x \in T, x < m PROVE FALSE
  <2>1. 0 .. x \subseteq Nat /\ 0 .. m \subseteq Nat
    OBVIOUS
  <2>2. 0 .. x \subseteq 0 .. m /\ m \in 0 .. m /\ m \notin 0 .. x
    BY <1>5
  <2>3. <<0 .. x, 0 .. m>> \in StrictSubsetOrdering(Nat)
    BY <2>1, <2>2 DEF StrictSubsetOrdering
  <2> QED
    BY <1>3, <1>4, <2>3
<1> QED
  BY <1>5

(* Seen from n downwards, the greatest is the least. *)
LEMMA GreatestNatural ==
    ASSUME NEW n \in Nat, NEW T \in SUBSET (1 .. n), T # {}
    PROVE  \E m \in T : \A x \in T : x <= m
<1> DEFINE U == {k \in Nat : n - k \in T}
<1>1. \A x \in T : n - x \in U
  OBVIOUS
<1>2. PICK k \in U : \A x \in U : k <= x
  <2>1. U # {} /\ U \in SUBSET Nat
    BY <1>1
  <2> HIDE DEF U
  <2> QED
    BY <2>1, LeastNatural
<1>3. n - k \in T /\ k \in Nat
  OBVIOUS
<1>4. ASSUME NEW x \in T PROVE x <= n - k
  <2>1. k <= n - x
    BY <1>1, <1>2
  <2> QED
    BY <2>1, <1>3
<1> QED
  BY <1>3, <1>4

(* Min is the least element. *)
LEMMA MinIsLeast ==
    ASSUME NEW T \in SUBSET Nat, T # {}
    PROVE  Min(T) \in T /\ \A x \in T : Min(T) <= x
BY LeastNatural DEF Min

(* However many backups expire, a full one stays, and the first of those   *)
(* left is a full one.                                                     *)
LEMMA ExpireKeepsFull ==
    ASSUME NEW r \in Seq(BackupSet), Fulls(r) # {}
    PROVE  Expire(r) \in Seq(BackupSet) /\ Fulls(Expire(r)) # {}
<1>1. CASE Cardinality(Fulls(r)) <= Kept
  BY <1>1 DEF Expire
<1>2. CASE ~(Cardinality(Fulls(r)) <= Kept)
  <2>1. /\ Len(r) \in Nat /\ Fulls(r) \in SUBSET (1 .. Len(r))
        /\ KeptFulls(r) \subseteq Fulls(r)
    BY DEF Fulls, KeptFulls
  <2>2. PICK m \in Fulls(r) : \A x \in Fulls(r) : x <= m
    BY <2>1, GreatestNatural
  <2>3. {j \in Fulls(r) : j > m} = {}
    BY <2>1, <2>2
  <2>4. Kept \in Nat \ {0}
    BY BackupsAssumption DEF Kept
  <2>5. m \in KeptFulls(r)
    BY <2>2, <2>3, <2>4, FS_EmptySet DEF KeptFulls
  <2> DEFINE i == Min(KeptFulls(r))
  <2>6. i \in Fulls(r)
    BY <2>1, <2>5, MinIsLeast
  <2>7. i \in 1 .. Len(r) /\ r[i].full
    BY <2>6 DEF Fulls
  <2> HIDE DEF i
  <2> DEFINE e == SubSeq(r, i, Len(r))
  <2>8. e \in Seq(BackupSet) /\ Len(e) = Len(r) - i + 1 /\ e[1] = r[i]
    BY <2>1, <2>7
  <2>9. Expire(r) = e
    BY <1>2 DEF Expire, i
  <2>10. 1 \in 1 .. Len(e) /\ e[1].full
    BY <2>1, <2>7, <2>8
  <2> HIDE DEF e
  <2> QED
    BY <2>8, <2>9, <2>10 DEF Fulls
<1> QED
  BY <1>1, <1>2

(* A backup that is made is, or has, a full one. *)
LEMMA MadeType ==
    ASSUME TypeInv, NEW type \in Types, Made(type)
    PROVE  /\ repo' \in Seq(BackupSet) /\ last' \in 0 .. (Labels - 1)
           /\ Fulls(repo') # {} /\ chained' = TRUE /\ stanza' = stanza
<1>1. last' \in 0 .. (Labels - 1)
  <2>1. last \in Nat /\ Labels \in Nat \ {0} /\ last' = (last + 1) % Labels
    BY BackupsAssumption DEF TypeInv, Made
  <2> QED
    BY <2>1
<1> DEFINE new == [label |-> last', full |-> type = "full" \/ Fulls(repo) = {}]
           r == Append(repo, new)
<1>2. new \in BackupSet
  BY <1>1 DEF BackupSet
<1>3. new.full = (type = "full" \/ Fulls(repo) = {})
  OBVIOUS
<1>4. repo' = Expire(r)
  BY DEF Made
<1>5. repo \in Seq(BackupSet)
  BY DEF TypeInv
<1> HIDE DEF new
<1>6. /\ r \in Seq(BackupSet) /\ Len(r) = Len(repo) + 1 /\ Len(repo) \in Nat
      /\ r[Len(repo) + 1] = new /\ \A i \in 1 .. Len(repo) : r[i] = repo[i]
  BY <1>2, <1>5
<1> HIDE DEF r
<1>7. Fulls(r) # {}
  <2>1. CASE new.full
    BY <1>6, <2>1 DEF Fulls
  <2>2. CASE Fulls(repo) # {}
    <3>1. PICK i \in 1 .. Len(repo) : repo[i].full
      BY <2>2 DEF Fulls
    <3>2. i \in 1 .. Len(r) /\ r[i].full
      BY <1>6, <3>1
    <3> QED
      BY <3>2 DEF Fulls
  <2> QED
    BY <1>3, <2>1, <2>2
<1>8. repo' \in Seq(BackupSet) /\ Fulls(repo') # {}
  BY <1>4, <1>6, <1>7, ExpireKeepsFull
<1> QED
  BY <1>1, <1>8 DEF Made

(* Mishaps are counted, and never forgotten. *)
LEMMA SpendType ==
    ASSUME spent \in [Mishaps -> Nat], NEW m \in Mishaps, Spend(m)
    PROVE  /\ spent' \in [Mishaps -> Nat] /\ spent'[m] # 0
           /\ \A k \in Mishaps : spent'[k] = 0 => spent[k] = 0
BY DEF Spend

Recalled == \A k \in Mishaps : spent'[k] = 0 => spent[k] = 0

(* A backup the agent runs, well or not. *)
LEMMA RunBackupType ==
    ASSUME TypeInv, NEW type \in Types, NEW ok \in BOOLEAN, RunBackup(type, ok)
    PROVE  /\ running' \in Types \cup {"none"} /\ spent' \in [Mishaps -> Nat]
           /\ repo' \in Seq(BackupSet) /\ last' \in 0 .. (Labels - 1)
           /\ stanza' = stanza /\ chained' \in BOOLEAN /\ Recalled
           /\ \/ repo' = repo /\ chained' = chained
              \/ Works /\ Fulls(repo') # {} /\ chained'
           /\ spent'["cut"] = 0 => running' = running
           /\ ok => Works
           /\ ok /\ spent'["cut"] = 0 => Fulls(repo') # {} /\ chained'
<1>m. {"fault", "cut"} \subseteq Mishaps
  BY DEF Mishaps
<1>t. /\ spent \in [Mishaps -> Nat] /\ running \in Types \cup {"none"}
      /\ repo \in Seq(BackupSet) /\ last \in 0 .. (Labels - 1)
      /\ chained \in BOOLEAN /\ stanza \in BOOLEAN
  BY DEF TypeInv
<1>1. CASE ok /\ Works /\ Made(type) /\ UNCHANGED <<running, spent>>
  BY <1>1, <1>t, MadeType DEF Recalled
<1>2. CASE ok /\ Works /\ Spend("cut") /\ running' = type /\ UNCHANGED repository
  BY <1>2, <1>m, <1>t, SpendType DEF Recalled, repository
<1>3. CASE ~ok /\ ~Works /\ UNCHANGED <<running, repository, spent>>
  BY <1>3, <1>t DEF Recalled, repository
<1>4. CASE ~ok /\ Works /\ Spend("fault") /\ Made(type) /\ UNCHANGED running
  BY <1>4, <1>m, <1>t, MadeType, SpendType DEF Recalled
<1>5. CASE ~ok /\ Works /\ Spend("fault") /\ UNCHANGED repository /\ UNCHANGED running
  BY <1>5, <1>m, <1>t, SpendType DEF Recalled, repository
<1> QED
  BY <1>1, <1>2, <1>3, <1>4, <1>5 DEF RunBackup

(* The inventory is read, or it is not. *)
LEMMA CollectType ==
    ASSUME TypeInv, CollectBackupInfo
    PROVE  /\ spent' \in [Mishaps -> Nat] /\ Recalled
           /\ \/ spent'["refresh"] # 0
              \/ backupInfo' = {IF conf \in Topologies THEN repo ELSE <<>>}
              \/ conf \notin Topologies /\ backupInfo' = backupInfo
<1>m. "refresh" \in Mishaps /\ spent \in [Mishaps -> Nat]
  BY DEF Mishaps, TypeInv
<1>1. CASE UNCHANGED spent
  <2>1. spent'["refresh"] # 0 \/ ~Spend("refresh")
    BY <1>m, SpendType
  <2> QED
    BY <1>1, <1>m, <2>1 DEF CollectBackupInfo, Recalled
<1>2. CASE Spend("refresh")
  BY <1>2, <1>m, SpendType DEF Recalled
<1> QED
  BY <1>1, <1>2 DEF CollectBackupInfo

-----------------------------------------------------------------------------
(* Nothing has been written, and nothing has gone wrong. *)
LEMMA InitTypes == Init => TypeInv
<1>1. Init => 0 \in 0 .. (Labels - 1) /\ [m \in Mishaps |-> 0] \in [Mishaps -> Nat]
              /\ <<>> \in Seq(BackupSet)
  BY BackupsAssumption
<1> QED
  BY <1>1 DEF Init, TypeInv, Plans, Places

(* Every step keeps the types, and remembers the mishaps. *)
LEMMA StepTypes == TypeInv /\ [Next]_vars => TypeInv' /\ Recalled
<1> SUFFICES ASSUME TypeInv, [Next]_vars PROVE TypeInv' /\ Recalled
  OBVIOUS
<1>m. Mishaps = {"fault", "torn", "refresh", "cut", "lapse", "crash", "plan", "folder"}
  BY DEF Mishaps
<1>s. \A m \in Mishaps : Spend(m) => spent' \in [Mishaps -> Nat] /\ Recalled
  BY SpendType DEF TypeInv, Recalled
<1>u. UNCHANGED spent => spent' \in [Mishaps -> Nat] /\ Recalled
  BY DEF TypeInv, Recalled
<1>c. CollectBackupInfo => spent' \in [Mishaps -> Nat] /\ Recalled
  BY CollectType
<1>r. \A s \in Folders : Rendered(s) \in Topologies
  BY DEF Rendered, Topologies
<1> HIDE DEF Recalled
<1> USE DEF TypeInv, Places, flags, memory, repository, world
<1>1. CASE Stop
  BY <1>1, <1>m, <1>s, <1>u, <1>c DEF Stop, Down
<1>2. CASE Begin
  BY <1>2, <1>u DEF Begin
<1>3. CASE Held
  BY <1>3, <1>u DEF Held
<1>4. CASE Prepared
  BY <1>4, <1>m, <1>s, <1>u DEF Prepared
<1>5. CASE FinalBackup
  <2>1. PICK ok \in BOOLEAN : RunBackup("full", ok)
    BY <1>5 DEF FinalBackup
  <2> QED
    BY <1>5, <2>1, RunBackupType DEF FinalBackup, Types
<1>6. CASE WriteConf
  BY <1>6, <1>m, <1>s, <1>u DEF WriteConf, Topologies, Rendered
<1>7. CASE ApplyPostgres
  BY <1>7, <1>m, <1>s, <1>u DEF ApplyPostgres
<1>8. CASE EnsureStanza
  BY <1>8, <1>m, <1>s, <1>u DEF EnsureStanza
<1>9. CASE InitialBackup
  <2>1. PICK ok \in BOOLEAN : /\ RunBackup("full", ok)
                              /\ hadFullBackup' = ok /\ pc' = IF ok THEN "settle" ELSE "idle"
    BY <1>9 DEF InitialBackup
  <2> QED
    BY <1>9, <2>1, RunBackupType DEF InitialBackup, Types
<1>10. CASE Settle
  BY <1>10, <1>c, <1>u DEF Settle
<1>11. CASE Rest
  BY <1>11, <1>m, <1>s, <1>u DEF Rest, Down
<1>12. CASE RefreshBackupInfo
  BY <1>12, <1>c DEF RefreshBackupInfo
<1>13. CASE BackupTick
  <2>1. PICK ok \in BOOLEAN : RunBackup(IF tick' = 0 THEN "full" ELSE "incr", ok)
    BY <1>13 DEF BackupTick
  <2>2. (IF tick' = 0 THEN "full" ELSE "incr") \in Types
    BY DEF Types
  <2> QED
    BY <1>13, <2>1, <2>2, RunBackupType DEF BackupTick
<1>14. ASSUME NEW type \in {"full", "diff", "incr"}, OnDemandBackup(type)
       PROVE  TypeInv' /\ Recalled
  <2>1. PICK ok \in BOOLEAN : RunBackup(type, ok)
    BY <1>14 DEF OnDemandBackup
  <2> QED
    BY <1>14, <2>1, RunBackupType DEF OnDemandBackup, Types
<1>15. CASE BackgroundEnds
  <2>1. CASE Made(running)
    BY <1>15, <2>1, <1>u, MadeType DEF BackgroundEnds
  <2>2. CASE UNCHANGED repository
    BY <1>15, <2>2, <1>u DEF BackgroundEnds
  <2> QED
    BY <1>15, <2>1, <2>2 DEF BackgroundEnds
<1>16. CASE Crash
  BY <1>16, <1>m, <1>s DEF Crash, Types
<1>17. CASE Change
  BY <1>17, <1>m, <1>s DEF Change
<1>18. CASE UNCHANGED vars
  BY <1>18, <1>u DEF vars
<1> QED
  BY <1>1, <1>2, <1>3, <1>4, <1>5, <1>6, <1>7, <1>8, <1>9, <1>10, <1>11, <1>12,
     <1>13, <1>14, <1>15, <1>16, <1>17, <1>18 DEF Next, Steps

(* Every reachable state is well typed. *)
LEMMA TypeInvariant == Spec => []TypeInv
BY InitTypes, StepTypes, PTL DEF Spec

-----------------------------------------------------------------------------
(***************************************************************************)
(* The flags.  The agent counts on backups only after it has settled, and  *)
(* settles only after a full backup; a stopped deployment is at rest.      *)
(***************************************************************************)
ControlInv ==
    /\ archiving => hadFullBackup
    /\ pc \in {"conf", "stanza", "initial"} => plan = "on"
    /\ pc = "postgres" => plan \in {"on", "off"}
    /\ pc = "settle" /\ plan = "on" => hadFullBackup
    /\ pc = "initial" => ~hadFullBackup
    /\ pc = "refresh" => archiving
    /\ pc = "final" => ~archiving
    /\ stopped => pc = "idle" /\ ~archiving

(* Every step of the agent keeps it; the world does not see the flags.     *)
LEMMA StepControl == TypeInv /\ ControlInv /\ [Next]_vars => ControlInv'
<1> SUFFICES ASSUME TypeInv, ControlInv, [Next]_vars PROVE ControlInv'
  OBVIOUS
<1>t. archiving \in BOOLEAN /\ hadFullBackup \in BOOLEAN /\ stopped \in BOOLEAN
  BY DEF TypeInv
<1> USE DEF ControlInv, flags, memory, world
<1>1. CASE Stop \/ Begin \/ Held \/ Prepared
  BY <1>1 DEF Stop, Begin, Held, Prepared, TypeInv, Plans
<1>2. CASE FinalBackup \/ WriteConf
  BY <1>2, <1>t DEF FinalBackup, WriteConf
<1>8. CASE ApplyPostgres
  BY <1>8, <1>t DEF ApplyPostgres
<1>9. CASE EnsureStanza
  BY <1>9, <1>t DEF EnsureStanza
<1>3. CASE InitialBackup
  BY <1>3 DEF InitialBackup
<1>4. CASE Settle
  BY <1>4, <1>t DEF Settle
<1>10. CASE Rest \/ RefreshBackupInfo
  BY <1>10, <1>t DEF Rest, RefreshBackupInfo
<1>5. CASE BackupTick \/ \E type \in {"full", "diff", "incr"} : OnDemandBackup(type)
  BY <1>5 DEF BackupTick, OnDemandBackup
<1>6. CASE BackgroundEnds \/ Crash \/ Change
  BY <1>6 DEF BackgroundEnds, Crash, Change
<1>7. CASE UNCHANGED vars
  BY <1>7 DEF vars
<1> QED
  BY <1>1, <1>2, <1>3, <1>4, <1>5, <1>6, <1>7, <1>8, <1>9, <1>10 DEF Next, Steps

-----------------------------------------------------------------------------
(***************************************************************************)
(* The base.  Only the step between a Postgres that runs without archiving *)
(* and the reset of hadFullBackup is exempt.                               *)
(***************************************************************************)
Lapsing == pc = "settle" /\ plan = "off"

Base == stanza /\ Fulls(repo) # {} /\ chained /\ postgres # "plain"

BaseInv == spent["lapse"] = 0 /\ spent["cut"] = 0 /\ hadFullBackup /\ ~Lapsing => Base

(* Every step keeps the base: what is added to the repository leaves a    *)
(* full backup in it, and only a lapse leaves a Postgres without archiving. *)
LEMMA StepBase == TypeInv /\ ControlInv /\ BaseInv /\ [Next]_vars => BaseInv'
<1> SUFFICES ASSUME TypeInv, ControlInv, BaseInv, [Next]_vars,
                    spent'["lapse"] = 0, spent'["cut"] = 0, hadFullBackup', ~Lapsing'
             PROVE  Base'
  BY DEF BaseInv
<1>m. {"lapse", "cut", "fault"} \subseteq Mishaps /\ spent \in [Mishaps -> Nat]
  BY DEF Mishaps, TypeInv
<1>s. spent["lapse"] = 0 /\ spent["cut"] = 0
  BY <1>m, StepTypes DEF Recalled
<1>l. ~Spend("lapse") /\ ~Spend("cut")
  BY <1>m, SpendType
<1>b. hadFullBackup /\ ~Lapsing => Base
  BY <1>s DEF BaseInv
<1> USE DEF flags, memory, world, repository
(* A backup may be added, and the rest stays. *)
<1>r. ASSUME NEW type \in Types, NEW ok \in BOOLEAN, RunBackup(type, ok), Base,
             postgres' = postgres
      PROVE  Base'
  <2>1. /\ stanza' = stanza
        /\ \/ repo' = repo /\ chained' = chained
           \/ Fulls(repo') # {} /\ chained'
    BY <1>r, RunBackupType
  <2> QED
    BY <1>r, <2>1 DEF Base
<1>t. stanza \in BOOLEAN /\ chained \in BOOLEAN /\ hadFullBackup \in BOOLEAN
  BY DEF TypeInv
<1>1. CASE Stop
  BY <1>1, <1>b DEF Stop, Down, Base, Lapsing
<1>14. CASE Begin \/ Held
  <2>1. Base /\ UNCHANGED world
    BY <1>14, <1>b DEF Begin, Held, Lapsing
  <2> QED
    BY <2>1 DEF Base
<1>15. CASE Prepared
  BY <1>15, <1>b DEF Prepared, Base, Lapsing
<1>2. CASE FinalBackup
  <2>1. PICK ok \in BOOLEAN : RunBackup("full", ok)
    BY <1>2 DEF FinalBackup
  <2>2. Base /\ postgres' = postgres
    BY <1>2, <1>b DEF FinalBackup, Lapsing
  <2> QED
    BY <1>r, <2>1, <2>2 DEF Types
<1>3. CASE WriteConf
  BY <1>3, <1>b DEF WriteConf, Base, Lapsing
<1>4. CASE ApplyPostgres
  <2>1. Base /\ hadFullBackup
    BY <1>4, <1>b DEF ApplyPostgres, Lapsing
  <2>2. postgres' # "plain"
    BY <1>4, <1>l, <2>1 DEF ApplyPostgres, Base, Lapsing, ControlInv
  <2> QED
    BY <1>4, <2>1, <2>2 DEF ApplyPostgres, Base
<1>5. CASE EnsureStanza
  <2>1. Base /\ postgres' = postgres /\ repo' = repo /\ chained' = chained
    BY <1>5, <1>b DEF EnsureStanza, Lapsing
  <2>2. stanza' = TRUE
    BY <1>5, <1>t, <2>1 DEF EnsureStanza, Base
  <2> QED
    BY <2>1, <2>2 DEF Base
<1>6. CASE InitialBackup
  <2>1. PICK ok \in BOOLEAN : RunBackup("full", ok) /\ hadFullBackup' = ok
    BY <1>6 DEF InitialBackup
  <2>2. Works /\ Fulls(repo') # {} /\ chained' /\ stanza' = stanza
    BY <2>1, RunBackupType DEF Types
  <2> QED
    BY <1>6, <2>2 DEF InitialBackup, Works, Base
<1>7. CASE Settle
  <2>1. hadFullBackup /\ archiving'
    BY <1>7 DEF Settle
  <2>2. plan = "on"
    BY <1>7, <2>1 DEF Settle
  <2> QED
    BY <1>7, <1>b, <2>1, <2>2 DEF Settle, Base, Lapsing
<1>16. CASE Rest
  BY <1>16, <1>b DEF Rest, Down, Base, Lapsing
<1>8. CASE RefreshBackupInfo
  BY <1>8, <1>b DEF RefreshBackupInfo, Base, Lapsing
<1>9. CASE BackupTick
  <2>1. PICK ok \in BOOLEAN : RunBackup(IF tick' = 0 THEN "full" ELSE "incr", ok)
    BY <1>9 DEF BackupTick
  <2>2. (IF tick' = 0 THEN "full" ELSE "incr") \in Types
    BY DEF Types
  <2>3. Base /\ postgres' = postgres
    BY <1>9, <1>b DEF BackupTick, Lapsing
  <2> QED
    BY <1>r, <2>1, <2>2, <2>3
<1>10. ASSUME NEW type \in {"full", "diff", "incr"}, OnDemandBackup(type)
       PROVE  Base'
  <2>1. PICK ok \in BOOLEAN : RunBackup(type, ok)
    BY <1>10 DEF OnDemandBackup
  <2>2. Base /\ postgres' = postgres
    BY <1>10, <1>b DEF OnDemandBackup, Lapsing
  <2> QED
    BY <1>r, <2>1, <2>2 DEF Types
<1>11. CASE BackgroundEnds
  <2>1. Base /\ postgres' = postgres
    BY <1>11, <1>b DEF BackgroundEnds, Lapsing
  <2>2. CASE Made(running)
    <3>1. running \in Types
      BY <1>11 DEF BackgroundEnds, TypeInv
    <3> QED
      BY <2>1, <2>2, <3>1, MadeType DEF Base
  <2>3. CASE UNCHANGED repository
    BY <2>1, <2>3 DEF Base
  <2> QED
    BY <1>11, <2>2, <2>3 DEF BackgroundEnds
<1>12. CASE Crash
  BY <1>12 DEF Crash
<1>17. CASE Change
  BY <1>17, <1>b DEF Change, Base, Lapsing
<1>13. CASE UNCHANGED vars
  BY <1>13, <1>b DEF vars, Base, Lapsing
<1> QED
  BY <1>1, <1>2, <1>3, <1>4, <1>5, <1>6, <1>7, <1>8, <1>9, <1>10, <1>11, <1>12,
     <1>13, <1>14, <1>15, <1>16, <1>17 DEF Next, Steps

(* Both hold before the first reconcile. *)
LEMMA InitBase == Init => ControlInv /\ BaseInv
BY DEF Init, ControlInv, BaseInv

(* The flags go together. *)
LEMMA ControlInvariant == Spec => []ControlInv
BY InitBase, StepControl, TypeInvariant, PTL DEF Spec

(* While the agent counts on backups there is a stanza, a full backup that *)
(* has not expired, and an unbroken chain of WAL since some backup - for   *)
(* any retention, any failures, crashes and changes of the secrets and of  *)
(* the desired-state, except a lost connection to a command and a          *)
(* reconcile that fails right after it turned archiving off.               *)
THEOREM BaseStaysFresh == Spec => []BaseIsFresh
<1>1. ControlInv /\ BaseInv => BaseIsFresh
  BY DEF ControlInv, BaseInv, BaseIsFresh, Base, Lapsing
<1> QED
  BY <1>1, InitBase, StepBase, TypeInvariant, ControlInvariant, PTL DEF Spec

-----------------------------------------------------------------------------
(***************************************************************************)
(* The inventory.  It is read when backups are turned on and after each    *)
(* one; what the agent counts on never runs unattended.                    *)
(***************************************************************************)
Readable == conf \in Topologies

Followed ==
    /\ archiving => /\ Readable /\ running = "none"
                    /\ pc # "refresh" => backupInfo = {repo}
    /\ pc \in {"stanza", "initial"} \/ (pc \in {"postgres", "settle"} /\ plan = "on")
         => Readable
    /\ pc = "initial" \/ (pc = "settle" /\ plan = "on") => running = "none"
    /\ stopped => running = "none" /\ (conf # "torn" => backupInfo \in {{}, {repo}})
    /\ conf = "none" => repo = <<>> /\ running = "none" /\ backupInfo \in {{}, {<<>>}}

InventoryInv == (\A m \in {"refresh", "cut", "torn"} : spent[m] = 0) => Followed

(* Every step keeps the inventory, or begins a handler that reads it.      *)
LEMMA StepInventory == TypeInv /\ ControlInv /\ InventoryInv /\ [Next]_vars => InventoryInv'
<1> SUFFICES ASSUME TypeInv, ControlInv, InventoryInv, [Next]_vars,
                    \A m \in {"refresh", "cut", "torn"} : spent'[m] = 0
             PROVE  Followed'
  BY DEF InventoryInv
<1>m. {"refresh", "cut", "torn"} \subseteq Mishaps /\ spent \in [Mishaps -> Nat]
  BY DEF Mishaps, TypeInv
<1>f. Followed
  BY <1>m, StepTypes DEF Recalled, InventoryInv
<1>l. ~Spend("refresh") /\ ~Spend("cut") /\ ~Spend("torn")
  BY <1>m, SpendType
<1>c. CollectBackupInfo =>
        \/ backupInfo' = {IF Readable THEN repo ELSE <<>>}
        \/ ~Readable /\ backupInfo' = backupInfo
  BY CollectType DEF Readable
<1>n. "none" \notin Topologies /\ "torn" \notin Topologies /\ conf \in Topologies \cup {"none", "torn"}
  BY DEF Topologies, TypeInv
<1>b. \A type \in Types, ok \in BOOLEAN : RunBackup(type, ok) =>
        running' = running /\ (repo' = repo \/ Works) /\ (ok => Works)
  BY RunBackupType
<1> HIDE DEF Topologies
<1> USE DEF flags, memory, world, repository
<1>1. CASE Stop
  BY <1>1, <1>f, <1>c, <1>n DEF Stop, Down, Followed, Readable
<1>2. CASE Begin \/ Held \/ Prepared
  BY <1>2, <1>f, <1>n DEF Begin, Held, Prepared, Followed, Readable, ControlInv
<1>3. CASE FinalBackup
  <2>1. PICK ok \in BOOLEAN : RunBackup("full", ok)
    BY <1>3 DEF FinalBackup
  <2>2. running' = running /\ (repo' = repo \/ Works)
    BY <1>b, <2>1 DEF Types
  <2> QED
    BY <1>3, <1>f, <1>n, <2>2 DEF FinalBackup, Followed, Readable, ControlInv, Works
<1>4. CASE WriteConf
  <2>1. Rendered(folder) \in Topologies
    BY DEF Rendered, Topologies
  <2> QED
    BY <1>4, <1>f, <1>l, <1>n, <2>1 DEF WriteConf, Followed, Readable, ControlInv
<1>5. CASE ApplyPostgres
  BY <1>5, <1>f, <1>n DEF ApplyPostgres, Followed, Readable, ControlInv
<1>6. CASE EnsureStanza
  BY <1>6, <1>f, <1>n DEF EnsureStanza, Followed, Readable, ControlInv
<1>7. CASE InitialBackup
  <2>1. PICK ok \in BOOLEAN : RunBackup("full", ok)
    BY <1>7 DEF InitialBackup
  <2>2. running' = running /\ (repo' = repo \/ Works)
    BY <1>b, <2>1 DEF Types
  <2> QED
    BY <1>7, <1>f, <1>n, <2>2 DEF InitialBackup, Followed, Readable, ControlInv, Works
<1>8. CASE Settle
  BY <1>8, <1>f, <1>c, <1>n DEF Settle, Followed, Readable, ControlInv
<1>9. CASE Rest
  BY <1>9, <1>f, <1>n DEF Rest, Down, Followed, Readable, ControlInv
<1>10. CASE RefreshBackupInfo
  BY <1>10, <1>f, <1>c, <1>n DEF RefreshBackupInfo, Followed, Readable, ControlInv
<1>11. CASE BackupTick
  <2>1. PICK ok \in BOOLEAN : RunBackup(IF tick' = 0 THEN "full" ELSE "incr", ok)
    BY <1>11 DEF BackupTick
  <2>2. (IF tick' = 0 THEN "full" ELSE "incr") \in Types
    BY DEF Types
  <2>3. running' = running
    BY <1>b, <2>1, <2>2
  <2> QED
    BY <1>11, <1>f, <1>n, <2>3 DEF BackupTick, Followed, Readable, ControlInv
<1>12. ASSUME NEW type \in {"full", "diff", "incr"}, OnDemandBackup(type)
       PROVE  Followed'
  <2>1. PICK ok \in BOOLEAN : RunBackup(type, ok)
    BY <1>12 DEF OnDemandBackup
  <2>2. running' = running
    BY <1>b, <2>1 DEF Types
  <2> QED
    BY <1>12, <1>f, <1>n, <2>2 DEF OnDemandBackup, Followed, Readable, ControlInv
<1>13. CASE BackgroundEnds
  BY <1>13, <1>f, <1>n DEF BackgroundEnds, Followed, Readable, ControlInv
<1>14. CASE Crash
  BY <1>14, <1>f, <1>n DEF Crash, Followed, Readable, ControlInv, Works
<1>15. CASE Change
  BY <1>15, <1>f, <1>n DEF Change, Followed, Readable, ControlInv
<1>16. CASE UNCHANGED vars
  BY <1>16, <1>f DEF vars, Followed, Readable
<1> QED
  BY <1>1, <1>2, <1>3, <1>4, <1>5, <1>6, <1>7, <1>8, <1>9, <1>10, <1>11, <1>12,
     <1>13, <1>14, <1>15, <1>16 DEF Next, Steps

(* Between two handlers the inventory that heartbeats report is the        *)
(* repository's, and of a stopped deployment that or nothing - also after  *)
(* backups that failed, ran on after a crash or expired, as long as the    *)
(* inventory can be read, no write of the configuration stops half-way and *)
(* no connection to a command is lost.                                     *)
THEOREM InventoryStaysCurrent == Spec => []InventoryIsCurrent
<1>1. Init => InventoryInv
  BY DEF Init, InventoryInv, Followed
<1>2. InventoryInv => InventoryIsCurrent
  BY DEF InventoryInv, Followed, InventoryIsCurrent
<1> QED
  BY <1>1, <1>2, StepInventory, TypeInvariant, ControlInvariant, PTL DEF Spec
=============================================================================
