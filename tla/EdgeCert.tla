------------------------------ MODULE EdgeCert ------------------------------
(***************************************************************************)
(* The managed edge in detail: deploy.EnsureWildcard, IssueWildcard and    *)
(* writeCert (the single wildcard certificate), deploy.EnsureNginx (the    *)
(* configuration that names it), the operator who wires the delegation     *)
(* records the agent surfaces, and nginx, which reads certificate and      *)
(* configuration only when it starts or is told to reload.  AgentLoop.tla  *)
(* keeps only the outcomes of this component.                              *)
(*                                                                         *)
(* A certificate and its private key are known by the serial of the order  *)
(* that produced them; the acme-dns account of a base domain, whose        *)
(* fulldomain is the target of the CNAME, by that base domain.             *)
(***************************************************************************)
EXTENDS Naturals, FiniteSets

CONSTANTS
    Bases,         \* base domains the cloud may publish
    None,          \* no base, no account, no delegation
    MaxOrders,     \* bound: orders placed with Let's Encrypt
    MaxFaults,     \* bound: calls that fail
    MaxCrashes,    \* bound: crashes of the agent
    MaxRebases,    \* bound: changes of the base domain
    MaxExpiries,   \* bound: certificates that enter the renew window
    MaxDiskFaults  \* bound: writes of chain or key that fail

ASSUME EdgeAssumption ==
    /\ None \notin Bases
    /\ MaxOrders \in Nat /\ MaxFaults \in Nat /\ MaxCrashes \in Nat
    /\ MaxRebases \in Nat /\ MaxExpiries \in Nat /\ MaxDiskFaults \in Nat

VARIABLES
    base,          \* ds.BaseDomain of the desired state being applied
    zones,         \* DNS: bases whose ns and acme records are live
    cname,         \* DNS: base -> account _acme-challenge points to
    chain, key,    \* disk: base -> serial in fullchain.pem and privkey.pem
    due,           \* disk: base -> its certificate is in the renew window
    accounts,      \* disk: bases with an acme-dns account in acmedns.json
    accountKey,    \* disk: account.key is "missing", "whole" or "torn"
    conf,          \* disk: the base vritti.conf names
    nginx,         \* what the running nginx has loaded
    prev,          \* memory: a.acmeDelegation
    target,        \* memory: the account the pre-flight looked for
    changed,       \* memory: the conf was rewritten in this reconcile
    pc,            \* memory: the step of the reconcile
    orders,        \* orders placed with Let's Encrypt
    wasted,        \* those that could not succeed: the records were not live
    cut,           \* history: bases whose last writeCert was interrupted
    spent          \* bounds used up

dns == <<zones, cname>>
pair == <<chain, key, due, cut>>
acme == <<accounts, accountKey>>
vars == <<base, dns, pair, acme, conf, nginx, prev, target, changed, pc, orders, wasted, spent>>

Torn == MaxOrders + 1   \* a file cut short by a crash: it does not parse
Delegations == [name : Bases, target : Bases]
Down == [conf |-> None, serial |-> 0]

Init ==
    /\ base \in Bases
    /\ zones = {} /\ cname = [b \in Bases |-> None]
    /\ chain = [b \in Bases |-> 0] /\ key = chain /\ due = [b \in Bases |-> FALSE]
    /\ cut = {}
    /\ accounts = {} /\ accountKey = "missing"
    /\ conf = None /\ nginx = Down
    /\ prev = None /\ target = None /\ changed = FALSE /\ pc = "idle"
    /\ orders = 0 /\ wasted = 0
    /\ spent = [faults |-> 0, crashes |-> 0, rebases |-> 0, expiries |-> 0, disk |-> 0]

Spend(what, limit) ==
    spent[what] < limit /\ spent' = [spent EXCEPT ![what] = @ + 1]

-----------------------------------------------------------------------------
(***************************************************************************)
(* EnsureWildcard.                                                         *)
(***************************************************************************)
NeedsIssue == chain[base] \in {0, Torn} \/ due[base]

(* The CNAME target the pre-flight looks for: from the delegation of the   *)
(* last attempt, else from any account acme-dns has stored.                *)
Targets == IF prev # None THEN {prev.target}
           ELSE IF accounts # {} THEN accounts
           ELSE {None}

DelegationFor(b, t) == [name |-> b, target |-> t]

(* The delegation that goes with target t. *)
Known(t) == IF prev # None THEN prev
            ELSE IF t # None THEN DelegationFor(base, t)
            ELSE None

DelegationReady(t) == base \in zones /\ cname[base] = t

(* A call fails: the reconcile returns the error. *)
Fails(at) ==
    /\ pc = at /\ pc' = "idle"
    /\ Spend("faults", MaxFaults)
    /\ UNCHANGED <<base, dns, pair, acme, conf, nginx, prev, target, changed, orders, wasted>>

StillValid ==
    /\ pc = "idle" /\ ~NeedsIssue /\ pc' = "issued"
    /\ UNCHANGED <<base, dns, pair, acme, conf, nginx, prev, target, changed, orders, wasted, spent>>

(* Mutant of AwaitDns: the records are not surfaced. *)
MutDelegationLost ==
    /\ pc = "idle" /\ NeedsIssue
    /\ \E t \in Targets : t # None /\ ~DelegationReady(t)
    /\ prev' = None
    /\ UNCHANGED <<base, dns, pair, acme, conf, nginx, target, changed, pc, orders, wasted, spent>>

AwaitDns ==
    /\ pc = "idle" /\ NeedsIssue
    /\ \E t \in Targets : t # None /\ ~DelegationReady(t) /\ prev' = Known(t)
    /\ UNCHANGED <<base, dns, pair, acme, conf, nginx, target, changed, pc, orders, wasted, spent>>

(* Mutant of Preflight: Let's Encrypt is asked in any case. *)
MutNoPreflight ==
    /\ pc = "idle" /\ NeedsIssue
    /\ target' \in Targets /\ pc' = "order"
    /\ UNCHANGED <<base, dns, pair, acme, conf, nginx, prev, changed, orders, wasted, spent>>

(* del is recomputed by every attempt; only an outcome stores it. *)
Preflight ==
    /\ pc = "idle" /\ NeedsIssue
    /\ target' \in {t \in Targets : t = None \/ DelegationReady(t)}
    /\ pc' = "order"
    /\ UNCHANGED <<base, dns, pair, acme, conf, nginx, prev, changed, orders, wasted, spent>>

-----------------------------------------------------------------------------
(***************************************************************************)
(* IssueWildcard: account key, then lego's Obtain.                         *)
(***************************************************************************)
BadAccountKey ==
    /\ pc = "order" /\ accountKey = "torn" /\ pc' = "idle"
    /\ UNCHANGED <<base, dns, pair, acme, conf, nginx, prev, target, changed, orders, wasted, spent>>

AccountKey ==
    /\ pc = "order" /\ accountKey = "missing" /\ accountKey' = "whole"
    /\ UNCHANGED <<base, dns, pair, accounts, conf, nginx, prev, target, changed, pc, orders, wasted, spent>>

Obtain ==
    /\ pc = "order" /\ accountKey = "whole"
    /\ orders < MaxOrders /\ orders' = orders + 1

(* The first order of a base registers its acme-dns account and asks for   *)
(* the CNAME.                                                              *)
Register ==
    /\ Obtain /\ base \notin accounts
    /\ accounts' = accounts \cup {base} /\ wasted' = wasted + 1
    /\ prev' = DelegationFor(base, base) /\ pc' = "idle"
    /\ UNCHANGED <<base, dns, pair, accountKey, conf, nginx, target, changed, spent>>

Obtained ==
    /\ Obtain /\ base \in accounts /\ DelegationReady(base) /\ pc' = "writeChain"
    /\ UNCHANGED <<base, dns, pair, acme, conf, nginx, prev, target, changed, wasted, spent>>

(* The propagation self-check of lego times out. *)
NotPropagated ==
    /\ Obtain /\ base \in accounts /\ ~DelegationReady(base)
    /\ wasted' = wasted + 1
    /\ prev' = Known(target) /\ pc' = "idle"
    /\ UNCHANGED <<base, dns, pair, acme, conf, nginx, target, changed, spent>>

(* A hard error, or Let's Encrypt's rate limit, which MaxOrders stands     *)
(* for: the delegation is left as it was.                                  *)
Refused ==
    /\ Obtain /\ pc' = "idle" /\ Spend("faults", MaxFaults)
    /\ UNCHANGED <<base, dns, pair, acme, conf, nginx, prev, target, changed, wasted>>

RateLimited ==
    /\ pc = "order" /\ accountKey = "whole" /\ orders = MaxOrders /\ pc' = "idle"
    /\ UNCHANGED <<base, dns, pair, acme, conf, nginx, prev, target, changed, orders, wasted, spent>>

(* writeCert: the chain, then the key. *)
WriteChain ==
    /\ pc = "writeChain" /\ pc' = "writeKey"
    /\ chain' = [chain EXCEPT ![base] = orders] /\ due' = [due EXCEPT ![base] = FALSE]
    /\ UNCHANGED <<base, dns, key, cut, acme, conf, nginx, prev, target, changed, orders, wasted, spent>>

(* Mutant of WriteKey: an existing key file is kept. *)
MutKeyKept ==
    /\ pc = "writeKey" /\ pc' = "issued"
    /\ key' = [key EXCEPT ![base] = IF @ = 0 THEN orders ELSE @] /\ cut' = cut \ {base}
    /\ UNCHANGED <<base, dns, chain, due, acme, conf, nginx, prev, target, changed, orders, wasted, spent>>

WriteKey ==
    /\ pc = "writeKey" /\ pc' = "issued"
    /\ key' = [key EXCEPT ![base] = orders] /\ cut' = cut \ {base}
    /\ UNCHANGED <<base, dns, chain, due, acme, conf, nginx, prev, target, changed, orders, wasted, spent>>

-----------------------------------------------------------------------------
(***************************************************************************)
(* WildcardOutcomeIssued, the stack, and EnsureNginx.                      *)
(***************************************************************************)
Issued ==
    /\ pc = "issued" /\ pc' = "conf" /\ prev' = None
    /\ UNCHANGED <<base, dns, pair, acme, conf, nginx, target, changed, orders, wasted, spent>>

(* Mutant of WriteConf: the comparison comes after the write. *)
MutComparesLate ==
    /\ pc = "conf" /\ pc' = "apply" /\ conf' = base /\ changed' = FALSE
    /\ UNCHANGED <<base, dns, pair, acme, nginx, prev, target, orders, wasted, spent>>

WriteConf ==
    /\ pc = "conf" /\ pc' = "apply"
    /\ conf' = base /\ changed' = (conf # base)
    /\ UNCHANGED <<base, dns, pair, acme, nginx, prev, target, orders, wasted, spent>>

(* nginx refuses a configuration whose key does not fit its certificate,   *)
(* and a reload that is refused leaves what was loaded.                    *)
Loadable == conf # None /\ chain[conf] \notin {0, Torn} /\ chain[conf] = key[conf]

Loaded == IF Loadable THEN [conf |-> conf, serial |-> chain[conf]] ELSE nginx

(* The container is created once; while it is up, Apply leaves it alone. *)
ApplyNginx ==
    /\ pc = "apply"
    /\ pc' = IF changed THEN "reload" ELSE "idle"
    /\ nginx' = IF nginx = Down THEN Loaded ELSE nginx
    /\ UNCHANGED <<base, dns, pair, acme, conf, prev, target, changed, orders, wasted, spent>>

Reload ==
    /\ pc = "reload" /\ pc' = "idle" /\ nginx' = Loaded
    /\ UNCHANGED <<base, dns, pair, acme, conf, prev, target, changed, orders, wasted, spent>>

(* Any other call may fail, and end the reconcile with an error. *)
Failure == \E at \in {"order", "issued", "conf", "apply", "reload"} : Fails(at)

(* writeCert ends early: the file it is writing is left as it was, or cut   *)
(* short.                                                                  *)
Interrupted ==
    /\ \E n \in {chain[base]} \cup (IF pc = "writeChain" THEN {Torn} ELSE {}) :
         chain' = [chain EXCEPT ![base] = n]
    /\ \E n \in {key[base]} \cup (IF pc = "writeKey" THEN {Torn} ELSE {}) :
         key' = [key EXCEPT ![base] = n]
    /\ cut' = cut \cup {base}

(* A full disk. *)
DiskFailure ==
    /\ pc \in {"writeChain", "writeKey"} /\ pc' = "idle"
    /\ Spend("disk", MaxDiskFaults)
    /\ Interrupted
    /\ UNCHANGED <<base, dns, due, acme, conf, nginx, prev, target, changed, orders, wasted>>

-----------------------------------------------------------------------------
(***************************************************************************)
(* The operator, the cloud, time, and crashes.                             *)
(***************************************************************************)
(* The operator wires the records that are surfaced. *)
OperatorAdds ==
    /\ prev # None
    /\ zones' = zones \cup {prev.name} /\ cname' = [cname EXCEPT ![prev.name] = prev.target]
    /\ UNCHANGED <<base, pair, acme, conf, nginx, prev, target, changed, pc, orders, wasted, spent>>

Rebase ==
    /\ pc = "idle" /\ \E b \in Bases \ {base} : base' = b
    /\ Spend("rebases", MaxRebases)
    /\ UNCHANGED <<dns, pair, acme, conf, nginx, prev, target, changed, pc, orders, wasted>>

FallsDue ==
    /\ pc = "idle" /\ \E b \in Bases :
         chain[b] \notin {0, Torn} /\ ~due[b] /\ due' = [due EXCEPT ![b] = TRUE]
    /\ Spend("expiries", MaxExpiries)
    /\ UNCHANGED <<base, dns, chain, key, cut, acme, conf, nginx, prev, target, changed, pc, orders, wasted>>

(* Docker restarts nginx, which may find nothing it can load. *)
NginxRestarts ==
    /\ nginx # Down
    /\ nginx' = IF Loadable THEN Loaded ELSE Down
    /\ UNCHANGED <<base, dns, pair, acme, conf, prev, target, changed, pc, orders, wasted, spent>>

(* A crash forgets the delegation and may cut short the file being written. *)
Crash ==
    /\ Spend("crashes", MaxCrashes)
    /\ pc' = "idle" /\ prev' = None /\ target' = None /\ changed' = FALSE
    /\ IF pc \in {"writeChain", "writeKey"} THEN Interrupted ELSE UNCHANGED <<chain, key, cut>>
    /\ accountKey' \in {accountKey}
         \cup (IF pc = "order" /\ accountKey = "missing" THEN {"torn"} ELSE {})
    /\ UNCHANGED <<base, dns, due, accounts, conf, nginx, orders, wasted>>

Reconcile ==
    \/ StillValid \/ AwaitDns \/ Preflight \/ BadAccountKey \/ AccountKey
    \/ Register \/ Obtained \/ NotPropagated \/ WriteChain \/ WriteKey
    \/ Issued \/ WriteConf \/ ApplyNginx \/ Reload

Next ==
    \/ Reconcile \/ Refused \/ RateLimited \/ Failure \/ DiskFailure
    \/ NginxRestarts \/ OperatorAdds \/ Rebase \/ FallsDue \/ Crash

Spec == Init /\ [][Next]_vars

(* The resync ticker starts a reconcile again and again, and the operator  *)
(* does what the wizard shows.                                             *)
Fairness == WF_vars(Reconcile) /\ WF_vars(OperatorAdds)

FairSpec == Spec /\ Fairness

-----------------------------------------------------------------------------
Steps == {"idle", "order", "writeChain", "writeKey", "issued", "conf", "apply", "reload"}

TypeOK ==
    /\ base \in Bases /\ zones \subseteq Bases /\ cname \in [Bases -> Bases \cup {None}]
    /\ chain \in [Bases -> 0 .. Torn] /\ key \in [Bases -> 0 .. Torn]
    /\ due \in [Bases -> BOOLEAN] /\ cut \subseteq Bases
    /\ accounts \subseteq Bases /\ accountKey \in {"missing", "whole", "torn"}
    /\ conf \in Bases \cup {None}
    /\ nginx \in [conf : Bases \cup {None}, serial : 0 .. MaxOrders]
    /\ prev \in Delegations \cup {None} /\ target \in Bases \cup {None}
    /\ changed \in BOOLEAN /\ pc \in Steps
    /\ orders \in 0 .. MaxOrders /\ wasted \in 0 .. MaxOrders

(* writeCert (acme.go:415-425) pairs what it writes: the certificate and   *)
(* the key of a base domain differ only while its key is being written, or *)
(* if the last writeCert of that very base was interrupted.  Failing       *)
(* calls, crashes at any other step and changes of the base domain never   *)
(* part a pair, and an issuance that completes mends the one it finds.     *)
PairMatches ==
    \A b \in Bases : b \notin cut /\ ~(pc = "writeKey" /\ b = base) => chain[b] = key[b]

(* EnsureNginx reloads on any change: between reconciles nginx serves the  *)
(* configuration on disk.  A reconcile that ends early after writing it    *)
(* loses the reload.                                                       *)
ConfIsServed ==
    pc = "idle" /\ spent.crashes = 0 /\ spent.faults = 0 /\ spent.disk = 0
        => nginx.conf = conf

(* The pre-flight keeps the agent from asking Let's Encrypt in vain: while *)
(* the base domain stays the same, only the order that registers the       *)
(* account goes out without live records.                                  *)
OrdersArePrepared == spent.rebases = 0 => wasted <= Cardinality(accounts)

(* An operator who does what the wizard shows gets the edge: nginx serves  *)
(* the certificate on disk, for good, however many calls failed.  Asked of *)
(* a first installation: the disagreements README.md lists begin with a    *)
(* crash, a full disk, another base domain or a renewal.                   *)
FirstInstallation ==
    /\ spent.crashes = 0 /\ spent.disk = 0
    /\ spent.rebases = 0 /\ spent.expiries = 0

EdgeIsServed ==
    []FirstInstallation =>
        <>[](nginx.conf = base /\ nginx.serial = chain[base] /\ chain[base] = key[base])

=============================================================================
