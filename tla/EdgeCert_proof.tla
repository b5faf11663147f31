--------------------------- MODULE EdgeCert_proof ---------------------------
(***************************************************************************)
(* Proofs about the managed edge, for every set of base domains and every  *)
(* number of orders, faults, crashes, rebases and expiries.                *)
(***************************************************************************)
EXTENDS EdgeCert, FiniteSetTheorems, TLAPS

Budgets == {"faults", "crashes", "rebases", "expiries", "disk"}

(* Orders are numbered, and what is spent is counted. *)
Counted ==
    /\ orders \in Nat /\ orders <= MaxOrders
    /\ wasted \in Nat /\ wasted <= orders
    /\ spent \in [Budgets -> Nat]

TypeInv == TypeOK /\ Counted

(* Spending keeps the counts. *)
LEMMA SpendStep ==
    ASSUME spent \in [Budgets -> Nat], NEW what \in Budgets, NEW limit, Spend(what, limit)
    PROVE  spent' \in [Budgets -> Nat]
BY DEF Spend

(* What has happened has happened: no step takes a mishap back, and only   *)
(* the mishap itself adds to its count.                                    *)
LEMMA SpendGrows ==
    ASSUME spent \in [Budgets -> Nat], NEW what \in Budgets, NEW limit, Spend(what, limit)
    PROVE  /\ spent'[what] # 0
           /\ \A other \in Budgets \ {what} : spent'[other] = spent[other]
BY DEF Spend

(* What nginx may load is a certificate of the current configuration. *)
LEMMA LoadedType ==
    ASSUME TypeOK
    PROVE  Loaded \in [conf : Bases \cup {None}, serial : 0 .. MaxOrders]
BY EdgeAssumption DEF TypeOK, Loaded, Loadable, Torn

(* The operator is shown delegations only. *)
LEMMA KnownType ==
    ASSUME TypeOK, NEW t \in Bases \cup {None}
    PROVE  Known(t) \in Delegations \cup {None}
BY DEF TypeOK, Known, DelegationFor, Delegations

(* The pre-flight looks for accounts only. *)
LEMMA TargetsType ==
    ASSUME TypeOK
    PROVE  Targets \subseteq Bases \cup {None}
BY DEF TypeOK, Targets, Delegations

(* Every step keeps the types. *)
LEMMA TypeStep ==
    ASSUME TypeInv, [Next]_vars
    PROVE  TypeInv'
<1> USE EdgeAssumption DEF TypeInv, Counted, TypeOK, Steps
<1>1. CASE StillValid
  BY <1>1 DEF StillValid, dns, pair, acme
<1>2. CASE AwaitDns
  <2>1. prev' \in Delegations \cup {None}
    BY <1>2, KnownType, TargetsType DEF AwaitDns
  <2> QED
    BY <1>2, <2>1 DEF AwaitDns, dns, pair, acme
<1>3. CASE Preflight
  <2>1. target' \in Bases \cup {None}
    BY <1>3, TargetsType DEF Preflight
  <2> QED
    BY <1>3, <2>1 DEF Preflight, dns, pair, acme
<1>4. CASE BadAccountKey
  BY <1>4 DEF BadAccountKey, dns, pair, acme
<1>5. CASE AccountKey
  BY <1>5 DEF AccountKey, dns, pair
<1>6. CASE Register
  BY <1>6 DEF Register, Obtain, DelegationFor, Delegations, dns, pair
<1>7. CASE Obtained
  BY <1>7 DEF Obtained, Obtain, dns, pair, acme
<1>8. CASE NotPropagated
  <2>1. prev' \in Delegations \cup {None}
    BY <1>8, KnownType DEF NotPropagated
  <2> QED
    BY <1>8, <2>1 DEF NotPropagated, Obtain, dns, pair, acme
<1>9. CASE WriteChain
  BY <1>9 DEF WriteChain, Torn, dns, acme
<1>10. CASE WriteKey
  BY <1>10 DEF WriteKey, Torn, dns, acme
<1>11. CASE Issued
  BY <1>11 DEF Issued, dns, pair, acme
<1>12. CASE WriteConf
  BY <1>12 DEF WriteConf, dns, pair, acme
<1>13. CASE ApplyNginx
  <2>1. nginx' \in [conf : Bases \cup {None}, serial : 0 .. MaxOrders]
    BY <1>13, LoadedType DEF ApplyNginx
  <2> QED
    BY <1>13, <2>1 DEF ApplyNginx, dns, pair, acme
<1>14. CASE Reload
  BY <1>14, LoadedType DEF Reload, dns, pair, acme
<1>15. CASE Refused
  <2>1. spent' \in [Budgets -> Nat]
    BY <1>15, SpendStep DEF Refused, Budgets
  <2> QED
    BY <1>15, <2>1 DEF Refused, Obtain, dns, pair, acme
<1>24. CASE RateLimited
  BY <1>24 DEF RateLimited, dns, pair, acme
<1>16. CASE Failure
  <2>1. PICK at \in {"order", "issued", "conf", "apply", "reload"} : Fails(at)
    BY <1>16 DEF Failure
  <2>2. spent' \in [Budgets -> Nat]
    BY <2>1, SpendStep DEF Fails, Budgets
  <2> QED
    BY <2>1, <2>2 DEF Fails, dns, pair, acme
<1>17. CASE DiskFailure
  <2>1. spent' \in [Budgets -> Nat]
    BY <1>17, SpendStep DEF DiskFailure, Budgets
  <2>2. /\ chain' \in [Bases -> 0 .. Torn] /\ key' \in [Bases -> 0 .. Torn]
        /\ cut' \subseteq Bases
    BY <1>17 DEF DiskFailure, Interrupted, Torn
  <2> QED
    BY <1>17, <2>1, <2>2 DEF DiskFailure, dns, acme
<1>18. CASE NginxRestarts
  <2>1. nginx' \in [conf : Bases \cup {None}, serial : 0 .. MaxOrders]
    BY <1>18, LoadedType DEF NginxRestarts, Down
  <2> QED
    BY <1>18, <2>1 DEF NginxRestarts, dns, pair, acme
<1>19. CASE OperatorAdds
  BY <1>19 DEF OperatorAdds, Delegations, pair, acme
<1>20. CASE Rebase
  <2>1. spent' \in [Budgets -> Nat]
    BY <1>20, SpendStep DEF Rebase, Budgets
  <2> QED
    BY <1>20, <2>1 DEF Rebase, dns, pair, acme
<1>21. CASE FallsDue
  <2>1. spent' \in [Budgets -> Nat]
    BY <1>21, SpendStep DEF FallsDue, Budgets
  <2> QED
    BY <1>21, <2>1 DEF FallsDue, dns, acme
<1>22. CASE Crash
  <2>1. spent' \in [Budgets -> Nat]
    BY <1>22, SpendStep DEF Crash, Budgets
  <2>2. /\ chain' \in [Bases -> 0 .. Torn] /\ key' \in [Bases -> 0 .. Torn]
        /\ cut' \subseteq Bases
    BY <1>22 DEF Crash, Interrupted, Torn
  <2>3. accountKey' \in {"missing", "whole", "torn"}
    BY <1>22 DEF Crash
  <2> QED
    BY <1>22, <2>1, <2>2, <2>3 DEF Crash, dns
<1>23. CASE UNCHANGED vars
  BY <1>23 DEF vars, dns, pair, acme
<1> QED
  BY <1>1, <1>2, <1>3, <1>4, <1>5, <1>6, <1>7, <1>8, <1>9, <1>10, <1>11, <1>12,
     <1>13, <1>14, <1>15, <1>16, <1>17, <1>18, <1>19, <1>20, <1>21, <1>22, <1>23, <1>24
     DEF Next, Reconcile

(* A freshly installed edge has its types. *)
LEMMA TypeInit == Init => TypeInv
<1> SUFFICES ASSUME Init PROVE TypeInv
  OBVIOUS
<1>1. MaxOrders \in Nat /\ 0 \in 0 .. MaxOrders /\ 0 \in 0 .. Torn
  BY EdgeAssumption DEF Torn
<1>2. Counted
  BY <1>1 DEF Init, Counted, Budgets
<1>3. TypeOK
  BY <1>1 DEF Init, TypeOK, Steps, Down
<1> QED
  BY <1>2, <1>3 DEF TypeInv

(* The inductive form of TypeOK: the types, and the numbering of orders. *)
THEOREM TypeInvariant == Spec => []TypeInv
<1>1. TypeInv /\ [Next]_vars => TypeInv'
  BY TypeStep
<1> QED
  BY <1>1, TypeInit, PTL DEF Spec

(* The state of the edge keeps its types through faults and crashes. *)
THEOREM EdgeTypeCorrect == Spec => []TypeOK
BY TypeInvariant, PTL DEF TypeInv

-----------------------------------------------------------------------------
(***************************************************************************)
(* The certificate and its key.                                            *)
(***************************************************************************)
Intact == spent["crashes"] = 0 /\ spent["disk"] = 0

PairInv ==
    /\ PairMatches
    /\ pc = "writeKey" => chain[base] = orders
    /\ Intact => cut = {}

(* Up to the first crash or disk fault the count of them stays.            *)
LEMMA IntactStep ==
    ASSUME TypeInv, [Next]_vars, Intact'
    PROVE  Intact /\ ~Crash /\ ~DiskFailure
<1> USE DEF Intact, TypeInv, Counted
<1>1. ~Crash
  BY SpendGrows DEF Crash, Budgets
<1>2. ~DiskFailure
  BY SpendGrows DEF DiskFailure, Budgets
<1>3. UNCHANGED spent => Intact
  OBVIOUS
<1>4. CASE Refused \/ Rebase \/ FallsDue
  BY <1>1, <1>2, <1>4, SpendGrows DEF Refused, Rebase, FallsDue, Budgets
<1>5. CASE Failure
  <2>1. PICK at \in {"order", "issued", "conf", "apply", "reload"} : Fails(at)
    BY <1>5 DEF Failure
  <2> QED
    BY <2>1, <1>2, <1>1, SpendGrows DEF Fails, Budgets
<1>6. CASE Reconcile
  BY <1>1, <1>2, <1>3, <1>6 DEF Reconcile, StillValid, AwaitDns, Preflight, BadAccountKey,
     AccountKey, Register, Obtained, NotPropagated, WriteChain, WriteKey, Issued,
     WriteConf, ApplyNginx, Reload
<1>7. CASE RateLimited \/ NginxRestarts \/ OperatorAdds
  BY <1>1, <1>2, <1>3, <1>7 DEF RateLimited, NginxRestarts, OperatorAdds
<1>8. CASE UNCHANGED vars
  BY <1>1, <1>2, <1>3, <1>8 DEF vars
<1> QED
  BY <1>1, <1>2, <1>4, <1>5, <1>6, <1>7, <1>8 DEF Next

(* An interrupted write disturbs the pair of its own base only. *)
LEMMA InterruptedStep ==
    ASSUME TypeInv, PairInv, Interrupted, pc' = "idle"
    PROVE  PairMatches'
BY DEF TypeInv, TypeOK, PairInv, PairMatches, Interrupted

(* A key that is written is the key of the chain before it, and a pair     *)
(* comes apart only where writeCert is interrupted.                        *)
LEMMA PairStep ==
    ASSUME TypeInv, PairInv, [Next]_vars
    PROVE  PairInv'
<1>1. (Intact => cut = {})'
  <2> SUFFICES ASSUME Intact' PROVE cut' = {}
    OBVIOUS
  <2>1. Intact /\ ~Crash /\ ~DiskFailure
    BY IntactStep
  <2> QED
    BY <2>1 DEF PairInv, Next, Reconcile, StillValid, AwaitDns, Preflight, BadAccountKey, AccountKey,
       Register, Obtained, NotPropagated, WriteChain, WriteKey, Issued, WriteConf, ApplyNginx,
       Reload, Refused, RateLimited, Failure, Fails, NginxRestarts, OperatorAdds, Rebase, FallsDue,
       vars, pair
<1>a. SUFFICES PairMatches' /\ (pc = "writeKey" => chain[base] = orders)'
  BY <1>1 DEF PairInv
<1> USE DEF PairInv, PairMatches, TypeInv, TypeOK, Counted
<1>b. ASSUME pc # "writeKey", pc' # "writeKey", UNCHANGED <<chain, key, cut>>
      PROVE  PairMatches'
  BY <1>b
<1>2. CASE WriteChain
  BY <1>2 DEF WriteChain
<1>3. CASE WriteKey
  BY <1>3 DEF WriteKey
<1>5. CASE UNCHANGED vars
  BY <1>5 DEF vars, pair
<1>6. CASE StillValid \/ AwaitDns \/ Preflight \/ BadAccountKey \/ AccountKey
  BY <1>b, <1>6 DEF StillValid, AwaitDns, Preflight, BadAccountKey, AccountKey, pair
<1>7. CASE Register \/ Obtained \/ NotPropagated
  BY <1>b, <1>7 DEF Register, Obtained, NotPropagated, Obtain, pair
<1>8. CASE Issued \/ WriteConf \/ ApplyNginx \/ Reload
  BY <1>b, <1>8 DEF Issued, WriteConf, ApplyNginx, Reload, pair
<1>9. CASE Refused \/ RateLimited \/ Failure
  BY <1>b, <1>9 DEF Refused, RateLimited, Obtain, Failure, Fails, pair
<1>10. CASE NginxRestarts \/ OperatorAdds
  BY <1>10 DEF NginxRestarts, OperatorAdds, pair
<1>11. CASE Rebase \/ FallsDue
  BY <1>b, <1>11 DEF Rebase, FallsDue, pair
<1>12. CASE DiskFailure
  BY <1>12, InterruptedStep DEF DiskFailure
<1>13. CASE Crash
  <2>1. CASE pc \in {"writeChain", "writeKey"}
    BY <1>13, <2>1, InterruptedStep DEF Crash
  <2>2. CASE pc \notin {"writeChain", "writeKey"}
    BY <1>b, <1>13, <2>2 DEF Crash
  <2> QED
    BY <2>1, <2>2
<1> QED
  BY <1>2, <1>3, <1>5, <1>6, <1>7, <1>8, <1>9, <1>10, <1>11, <1>12, <1>13 DEF Next, Reconcile

(* The pairing holds from an empty disk on. *)
LEMMA PairInvariant == Spec => []PairInv
<1>1. Init => PairInv
  BY DEF Init, PairInv, PairMatches
<1>2. TypeInv /\ PairInv /\ [Next]_vars => PairInv'
  BY PairStep
<1> QED
  BY <1>1, <1>2, TypeInvariant, PTL DEF Spec

(* Whatever crashes, fails, expires or changes: the certificate and the    *)
(* key of a base domain differ only while its key is being written, or if  *)
(* the last writeCert of that base was interrupted; an issuance that       *)
(* completes mends the pair it finds.                                      *)
THEOREM CertificateHasKey == Spec => []PairMatches
BY PairInvariant, PTL DEF PairInv

-----------------------------------------------------------------------------
(***************************************************************************)
(* What nginx serves.  A reconcile names a certificate in the              *)
(* configuration only when it is whole, and until the reload that follows  *)
(* it knows that one is due: from changed, or because nginx is down.       *)
(***************************************************************************)
Quiet == Intact /\ spent["faults"] = 0

Whole(b) == chain[b] \notin {0, Torn}

Serving ==
    \/ nginx.conf = conf
    \/ nginx = Down /\ conf = base /\ pc \in {"writeKey", "issued", "conf", "apply"}
    \/ pc = "apply" /\ changed
    \/ pc = "reload"

ServedInv ==
    Quiet =>
      /\ conf # None => Whole(conf)
      /\ pc \in {"writeChain", "writeKey"} => orders # 0
      /\ pc \in {"issued", "conf", "apply", "reload"} => Whole(base)
      /\ pc \in {"apply", "reload"} => conf = base
      /\ Serving

(* It was quiet before if it is quiet now, and no call failed. *)
LEMMA QuietStep ==
    ASSUME TypeInv, [Next]_vars, Quiet'
    PROVE  Quiet /\ ~Crash /\ ~DiskFailure /\ ~Failure /\ ~Refused
<1> USE DEF Quiet, TypeInv, Counted
<1>1. Intact /\ ~Crash /\ ~DiskFailure
  BY IntactStep
<1>2. ~Refused
  BY SpendGrows DEF Refused, Budgets
<1>3. ~Failure
  <2> SUFFICES ASSUME NEW at \in {"order", "issued", "conf", "apply", "reload"}, Fails(at)
               PROVE  FALSE
    BY DEF Failure
  <2> QED
    BY SpendGrows DEF Fails, Budgets
<1>4. CASE Rebase \/ FallsDue
  BY <1>1, <1>2, <1>3, <1>4, SpendGrows DEF Rebase, FallsDue, Budgets
<1>5. CASE UNCHANGED spent
  BY <1>1, <1>2, <1>3, <1>5
<1> QED
  BY <1>1, <1>2, <1>3, <1>4, <1>5 DEF Next, Reconcile, StillValid, AwaitDns, Preflight, BadAccountKey,
     AccountKey, Register, Obtained, NotPropagated, WriteChain, WriteKey, Issued,
     WriteConf, ApplyNginx, Reload, RateLimited, NginxRestarts, OperatorAdds, vars

(* A configuration that is on disk can be loaded, unless the certificate   *)
(* it names is being replaced.                                             *)
LEMMA ConfLoadable ==
    ASSUME PairInv, ServedInv, Quiet, TypeInv, conf # None, ~(pc = "writeKey" /\ conf = base)
    PROVE  Loadable /\ Loaded.conf = conf
BY DEF PairInv, PairMatches, Intact, Quiet, ServedInv, Whole, Loadable, Loaded, TypeInv, TypeOK

(* The reload is never lost between the write of the configuration and it. *)
LEMMA ServedStep ==
    ASSUME TypeInv, PairInv, ServedInv, [Next]_vars
    PROVE  ServedInv'
<1> SUFFICES ASSUME Quiet' PROVE ServedInv'
  BY DEF ServedInv
<1>0. Quiet /\ ~Crash /\ ~DiskFailure /\ ~Failure /\ ~Refused
  BY QuietStep
<1>i. /\ conf # None => Whole(conf)
      /\ pc \in {"writeChain", "writeKey"} => orders # 0
      /\ pc \in {"issued", "conf", "apply", "reload"} => Whole(base)
      /\ pc \in {"apply", "reload"} => conf = base
      /\ Serving
  BY <1>0 DEF ServedInv
<1>t. /\ base \in Bases /\ conf \in Bases \cup {None} /\ None \notin Bases /\ base # None
      /\ chain \in [Bases -> 0 .. Torn] /\ pc \in Steps
      /\ orders \in 0 .. MaxOrders /\ MaxOrders \in Nat /\ Torn = MaxOrders + 1
      /\ nginx.conf \in Bases \cup {None}
  BY EdgeAssumption DEF TypeInv, TypeOK, Torn
(* No file is touched and nginx is left alone, or nothing was served. *)
<1>a. ASSUME UNCHANGED <<base, chain, conf, nginx, changed>>,
             pc \in {"idle", "order"}, pc' \in {"idle", "order", "issued", "writeChain"},
             pc' = "issued" => Whole(base), pc' = "writeChain" => orders' # 0
      PROVE  ServedInv'
  BY <1>a, <1>i DEF ServedInv, Serving, Whole
<1>1. CASE StillValid
  BY <1>a, <1>1 DEF StillValid, NeedsIssue, pair, Whole
<1>2. CASE AwaitDns \/ Preflight \/ BadAccountKey \/ AccountKey \/ Register \/ NotPropagated
           \/ RateLimited
  BY <1>a, <1>2 DEF AwaitDns, Preflight, BadAccountKey, AccountKey, Register, NotPropagated,
     RateLimited, Obtain, pair
<1>3. CASE Obtained
  <2>1. orders' # 0
    BY <1>3, <1>t DEF Obtained, Obtain
  <2> QED
    BY <1>a, <1>3, <2>1 DEF Obtained, Obtain, pair
<1>4. CASE WriteChain
  <2>1. orders \notin {0, Torn}
    BY <1>4, <1>i, <1>t DEF WriteChain
  <2>2. \A b \in Bases : chain'[b] = chain[b] \/ chain'[b] = orders
    BY <1>4, <1>t DEF WriteChain
  <2>3. conf' = conf /\ (conf # None => Whole(conf)')
    BY <1>4, <1>i, <1>t, <2>1, <2>2 DEF WriteChain, Whole
  <2> QED
    BY <1>4, <1>i, <2>3 DEF WriteChain, ServedInv, Serving, Whole
<1>5. CASE WriteKey
  <2>1. chain[base] = orders /\ orders \notin {0, Torn}
    BY <1>0, <1>5, <1>i, <1>t DEF WriteKey, PairInv, Quiet
  <2> QED
    BY <1>5, <1>i, <2>1 DEF WriteKey, ServedInv, Serving, Whole
<1>6. CASE Issued
  BY <1>6, <1>i DEF Issued, ServedInv, Serving, Whole, pair
<1>7. CASE WriteConf
  BY <1>7, <1>i, <1>t DEF WriteConf, ServedInv, Serving, Whole, pair
<1>8. CASE ApplyNginx
  <2>1. Loadable /\ Loaded.conf = conf /\ conf = base
    BY <1>0, <1>8, <1>i, <1>t, ConfLoadable DEF ApplyNginx
  <2> QED
    BY <1>8, <1>i, <2>1 DEF ApplyNginx, ServedInv, Serving, Whole, pair
<1>9. CASE Reload
  <2>1. Loadable /\ Loaded.conf = conf /\ conf = base
    BY <1>0, <1>9, <1>i, <1>t, ConfLoadable DEF Reload
  <2> QED
    BY <1>9, <1>i, <2>1 DEF Reload, ServedInv, Serving, Whole, pair
<1>10. CASE NginxRestarts
  <2>1. /\ nginx # Down /\ nginx' = IF Loadable THEN Loaded ELSE Down
        /\ UNCHANGED <<base, chain, conf, changed, pc, orders>>
    BY <1>10 DEF NginxRestarts, pair
  <2>2. CASE Loadable
    BY <1>i, <2>1, <2>2 DEF Loaded, ServedInv, Serving, Whole
  <2>3. CASE ~Loadable /\ conf # None
    <3>1. pc = "writeKey" /\ conf = base
      BY <1>0, <2>3, ConfLoadable
    <3> QED
      BY <1>i, <2>1, <2>3, <3>1 DEF ServedInv, Serving, Whole
  <2>4. CASE ~Loadable /\ conf = None
    BY <1>i, <2>1, <2>4 DEF ServedInv, Serving, Whole, Down
  <2> QED
    BY <2>2, <2>3, <2>4
<1>11. CASE OperatorAdds \/ FallsDue \/ UNCHANGED vars
  BY <1>11, <1>i DEF OperatorAdds, FallsDue, vars, pair, ServedInv, Serving, Whole
<1>12. CASE Rebase
  BY <1>12, <1>i DEF Rebase, ServedInv, Serving, Whole, pair
<1> QED
  BY <1>0, <1>1, <1>2, <1>3, <1>4, <1>5, <1>6, <1>7, <1>8, <1>9, <1>10, <1>11, <1>12
     DEF Next, Reconcile

(* EnsureNginx reloads on any change: between reconciles nginx serves the  *)
(* configuration on disk, through renewals, changes of the base domain and *)
(* restarts of nginx in the middle of a renewal - unless a call fails.     *)
THEOREM ConfigurationIsServed == Spec => []ConfIsServed
<1>1. Init => ServedInv
  BY DEF Init, ServedInv, Serving, Down
<1>2. TypeInv /\ PairInv /\ ServedInv /\ [Next]_vars => ServedInv'
  BY ServedStep
<1>3. ServedInv => ConfIsServed
  BY DEF ServedInv, ConfIsServed, Serving, Quiet, Intact
<1> QED
  BY <1>1, <1>2, <1>3, TypeInvariant, PairInvariant, PTL DEF Spec

-----------------------------------------------------------------------------
(***************************************************************************)
(* Orders while the base domain stays the same: one account, and nothing   *)
(* in DNS but records that point to it.                                    *)
(***************************************************************************)
SameBase == spent["rebases"] = 0

OneAccount ==
    /\ accounts \subseteq {base}
    /\ wasted <= 1
    /\ accounts = {} => wasted = 0
    /\ prev # None => (prev.target = base /\ accounts # {})
    /\ \A b \in Bases : cname[b] \in {base, None}
    /\ pc = "order" => (accounts = {} \/ DelegationReady(base))

OrdersInv == SameBase => OneAccount

(* As long as it has stayed the same, no rebase has been counted. *)
LEMMA SameBaseStep ==
    ASSUME TypeInv, [Next]_vars, SameBase'
    PROVE  SameBase /\ ~Rebase
<1> USE DEF SameBase, TypeInv, Counted
<1>1. ~Rebase
  BY SpendGrows DEF Rebase, Budgets
<1>2. UNCHANGED spent => SameBase
  OBVIOUS
<1>3. CASE Refused \/ FallsDue \/ Crash \/ DiskFailure
  BY <1>1, <1>3, SpendGrows DEF Refused, FallsDue, Crash, DiskFailure, Budgets
<1>4. CASE Failure
  <2>1. PICK at \in {"order", "issued", "conf", "apply", "reload"} : Fails(at)
    BY <1>4 DEF Failure
  <2> QED
    BY <1>1, <2>1, SpendGrows DEF Fails, Budgets
<1>5. CASE Reconcile
  BY <1>1, <1>2, <1>5 DEF Reconcile, StillValid, AwaitDns, Preflight, BadAccountKey,
     AccountKey, Register, Obtained, NotPropagated, WriteChain, WriteKey, Issued,
     WriteConf, ApplyNginx, Reload
<1>6. CASE RateLimited \/ NginxRestarts \/ OperatorAdds
  BY <1>1, <1>2, <1>6 DEF RateLimited, NginxRestarts, OperatorAdds
<1>7. CASE UNCHANGED vars
  BY <1>1, <1>2, <1>7 DEF vars
<1> QED
  BY <1>1, <1>3, <1>4, <1>5, <1>6, <1>7 DEF Next

(* A pre-flight that passes has found the records of the one account, or   *)
(* there is no account yet.                                                *)
LEMMA OrdersStep ==
    ASSUME TypeInv, OrdersInv, [Next]_vars
    PROVE  OrdersInv'
<1> SUFFICES ASSUME SameBase' PROVE OneAccount'
  BY DEF OrdersInv
<1>11. SameBase /\ ~Rebase
  BY SameBaseStep
<1>a. OneAccount
  BY <1>11 DEF OrdersInv
<1> USE <1>a DEF OneAccount, TypeInv, TypeOK, Counted, DelegationReady
<1>1. ASSUME UNCHANGED <<base, zones, cname, accounts, wasted>>, prev' \in {prev, None},
             pc' # "order" \/ pc = "order"
      PROVE  OneAccount'
  BY <1>1
<1>2. CASE StillValid \/ BadAccountKey \/ AccountKey \/ Obtained
  BY <1>1, <1>2 DEF StillValid, BadAccountKey, AccountKey, Obtained, dns, acme
<1>3. CASE AwaitDns
  <2>1. PICK t \in Targets : t # None /\ prev' = Known(t)
    BY <1>3 DEF AwaitDns
  <2>2. t = base /\ accounts # {}
    BY <2>1 DEF Targets, Delegations
  <2>3. Known(t).target = base
    BY <2>1, <2>2, EdgeAssumption DEF Known, DelegationFor
  <2> QED
    BY <1>3, <2>1, <2>2, <2>3 DEF AwaitDns, dns, acme
<1>4. CASE Preflight
  <2>1. PICK t \in Targets : t = None \/ DelegationReady(t)
    BY <1>4 DEF Preflight
  <2>2. accounts = {} \/ t = base
    BY <2>1, EdgeAssumption DEF Targets, Delegations
  <2>3. t = None => accounts = {}
    BY <2>1, <2>2, EdgeAssumption
  <2> QED
    BY <1>4, <2>1, <2>2, <2>3 DEF Preflight, dns, acme
<1>5. CASE Register
  BY <1>5, EdgeAssumption DEF Register, Obtain, DelegationFor, dns
<1>6. CASE NotPropagated
  BY <1>6 DEF NotPropagated, Obtain
<1>7. CASE WriteChain \/ WriteKey \/ Issued \/ WriteConf \/ ApplyNginx \/ Reload
  BY <1>1, <1>7 DEF WriteChain, WriteKey, Issued, WriteConf, ApplyNginx, Reload, dns, acme
<1>8. CASE Refused \/ RateLimited \/ Failure \/ DiskFailure
  BY <1>1, <1>8 DEF Refused, RateLimited, Obtain, Failure, Fails, DiskFailure, dns, acme
<1>9. CASE NginxRestarts \/ FallsDue
  BY <1>1, <1>9 DEF NginxRestarts, FallsDue, dns, acme
<1>10. CASE OperatorAdds
  BY <1>10 DEF OperatorAdds, Delegations, acme
<1>12. CASE Crash
  BY <1>1, <1>12 DEF Crash, dns
<1>13. CASE UNCHANGED vars
  BY <1>1, <1>13 DEF vars, dns, acme
<1> QED
  BY <1>2, <1>3, <1>4, <1>5, <1>6, <1>7, <1>8, <1>9, <1>10, <1>11, <1>12, <1>13
     DEF Next, Reconcile

(* While the base domain stays the same, Let's Encrypt is asked in vain at *)
(* most once - by the order that registers the acme-dns account - whatever *)
(* fails, crashes or expires.                                              *)
THEOREM PreflightPreparesOrders == Spec => []OrdersArePrepared
<1>1. Init => OrdersInv
  BY DEF Init, OrdersInv, OneAccount
<1>2. TypeInv /\ OrdersInv /\ [Next]_vars => OrdersInv'
  BY OrdersStep
<1>3. TypeInv /\ OrdersInv => OrdersArePrepared
  <2> SUFFICES ASSUME TypeInv, OneAccount PROVE wasted <= Cardinality(accounts)
    BY DEF OrdersInv, OrdersArePrepared, SameBase
  <2>1. CASE accounts = {}
    BY <2>1, FS_EmptySet DEF OneAccount
  <2>2. CASE accounts = {base}
    BY <2>2, FS_Singleton DEF OneAccount
  <2> QED
    BY <2>1, <2>2 DEF OneAccount
<1> QED
  BY <1>1, <1>2, <1>3, TypeInvariant, PTL DEF Spec
=============================================================================
