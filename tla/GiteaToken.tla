----------------------------- MODULE GiteaToken -----------------------------
(***************************************************************************)
(* internal/gitea: the agent creates Gitea's admin and mints the one admin *)
(* API token that core-server is given in its environment.  The token      *)
(* lives in three places: in Gitea (whose tables are in the deployment's   *)
(* Postgres), in the agent's gitea-state.json, and in core-server's        *)
(* environment.  A token is known by its serial.                           *)
(***************************************************************************)
EXTENDS Naturals

CONSTANTS
    MaxTokens,     \* bound: tokens minted
    MaxFaults,     \* bound: calls that fail
    MaxCuts,       \* bound: execs whose output is cut short
    MaxCrashes,    \* bound: crashes of the agent
    MaxWipes,      \* bound: wipes of the agent's state directory (re-enrollment)
    MaxRestores    \* bound: restores of the database

ASSUME GiteaAssumption ==
    \A n \in {MaxTokens, MaxFaults, MaxCuts, MaxCrashes, MaxWipes, MaxRestores} : n \in Nat

VARIABLES
    admin,         \* Gitea: the admin user exists
    valid,         \* Gitea: the serial of the token of our name, None if none
    backup,        \* a backup of Gitea's tables: admin and valid as they were
    file,          \* disk: the token in gitea-state.json, None, Torn, Garbled
    env,           \* core-server: the token it runs with
    pc, token,     \* memory: the step, and the token it carries
    minted,        \* tokens minted so far
    spent          \* bounds used up

gitea == <<admin, valid, backup>>
vars == <<gitea, file, env, pc, token, minted, spent>>

None == 0
Torn == MaxTokens + 1       \* a file that does not parse
Garbled == MaxTokens + 2    \* what was read of a token whose line was cut short

Init ==
    /\ admin = FALSE /\ valid = None /\ backup = [admin |-> FALSE, valid |-> None]
    /\ file = None /\ env = None
    /\ pc = "idle" /\ token = None /\ minted = 0
    /\ spent = [faults |-> 0, cuts |-> 0, crashes |-> 0, wipes |-> 0, restores |-> 0]

Spend(what, limit) ==
    spent[what] < limit /\ spent' = [spent EXCEPT ![what] = @ + 1]

-----------------------------------------------------------------------------
(***************************************************************************)
(* ProvisionAdminToken.                                                    *)
(***************************************************************************)
Usable(f) == f \notin {None, Torn}

(* Mutant of Cached: any file counts, readable or not. *)
MutReadsTorn ==
    /\ pc = "idle" /\ file # None /\ pc' = "core" /\ token' = file
    /\ UNCHANGED <<gitea, file, env, minted, spent>>

Cached ==
    /\ pc = "idle" /\ Usable(file) /\ pc' = "core" /\ token' = file
    /\ UNCHANGED <<gitea, file, env, minted, spent>>

(* "already exists" is success. *)
EnsureAdmin ==
    /\ pc = "idle" /\ ~Usable(file) /\ pc' = "delete" /\ admin' = TRUE
    /\ UNCHANGED <<valid, backup, file, env, token, minted, spent>>

(* Mutant of Delete: only a missing token is dealt with. *)
MutNoDelete ==
    /\ pc = "delete" /\ pc' = "generate"
    /\ UNCHANGED <<gitea, file, env, token, minted, spent>>

(* 404 is success. *)
Delete ==
    /\ pc = "delete" /\ pc' = "generate" /\ valid' = None
    /\ UNCHANGED <<admin, backup, file, env, token, minted, spent>>

(* Gitea refuses a second token of the same name. *)
Generate ==
    /\ pc = "generate" /\ minted < MaxTokens
    /\ IF valid = None
       THEN /\ minted' = minted + 1 /\ valid' = minted + 1 /\ token' = minted + 1
            /\ pc' = "save"
       ELSE pc' = "idle" /\ UNCHANGED <<minted, valid, token>>
    /\ UNCHANGED <<admin, backup, file, env, spent>>

Save ==
    /\ pc = "save" /\ file' = token /\ pc' = "core"
    /\ UNCHANGED <<gitea, env, token, minted, spent>>

(* core-server is recreated when its environment changes. *)
ApplyCore ==
    /\ pc = "core" /\ env' = token /\ pc' = "idle"
    /\ UNCHANGED <<gitea, file, token, minted, spent>>

(* A call fails, before it has had its effect or after. *)
LostDelete ==
    /\ pc = "delete" /\ pc' = "idle" /\ valid' \in {valid, None}
    /\ Spend("faults", MaxFaults)
    /\ UNCHANGED <<admin, backup, file, env, token, minted>>

LostGenerate ==
    /\ pc = "generate" /\ valid = None /\ minted < MaxTokens /\ pc' = "idle"
    /\ minted' = minted + 1 /\ valid' \in {None, minted + 1}
    /\ Spend("faults", MaxFaults)
    /\ UNCHANGED <<admin, backup, file, env, token>>

(* Exec ignores an error of the stream it copies (dockerx.go:708), and a   *)
(* command that still runs has exit code 0: what was read of the output is *)
(* taken for the token, while Gitea goes on to store the whole of it.  No  *)
(* output at all is an error, as in LostGenerate.                          *)
CutGenerate ==
    /\ pc = "generate" /\ valid = None /\ minted < MaxTokens /\ pc' = "save"
    /\ minted' = minted + 1 /\ valid' = minted + 1 /\ token' = Garbled
    /\ Spend("cuts", MaxCuts)
    /\ UNCHANGED <<admin, backup, file, env>>

LostSave ==
    /\ pc = "save" /\ pc' = "idle" /\ file' \in {file, Torn}
    /\ Spend("faults", MaxFaults)
    /\ UNCHANGED <<gitea, env, token, minted>>

NotApplied ==
    /\ pc = "core" /\ pc' = "idle" /\ Spend("faults", MaxFaults)
    /\ UNCHANGED <<gitea, file, env, token, minted>>

-----------------------------------------------------------------------------
(***************************************************************************)
(* Crashes of the agent; re-enrollment; backup and restore of Postgres.    *)
(***************************************************************************)
Crash ==
    /\ Spend("crashes", MaxCrashes) /\ pc' = "idle" /\ token' = None
    /\ file' \in {file} \cup (IF pc = "save" THEN {Torn} ELSE {})
    /\ UNCHANGED <<gitea, env, minted>>

WipeState ==
    /\ Spend("wipes", MaxWipes) /\ pc = "idle" /\ file' = None
    /\ UNCHANGED <<gitea, env, pc, token, minted>>

Backup ==
    /\ pc = "idle" /\ backup' = [admin |-> admin, valid |-> valid]
    /\ UNCHANGED <<admin, valid, file, env, pc, token, minted, spent>>

Restore ==
    /\ Spend("restores", MaxRestores) /\ pc = "idle"
    /\ admin' = backup.admin /\ valid' = backup.valid
    /\ UNCHANGED <<backup, file, env, pc, token, minted>>

Provision ==
    Cached \/ EnsureAdmin \/ Delete \/ Generate \/ Save \/ ApplyCore

Next ==
    \/ Provision \/ LostDelete \/ LostGenerate \/ CutGenerate \/ LostSave \/ NotApplied
    \/ Crash \/ WipeState \/ Backup \/ Restore

Spec == Init /\ [][Next]_vars

(* The reconcile runs again at every resync. *)
FairSpec == Spec /\ WF_vars(Provision)

-----------------------------------------------------------------------------
TypeOK ==
    /\ admin \in BOOLEAN /\ valid \in 0 .. MaxTokens
    /\ backup \in [admin : BOOLEAN, valid : 0 .. MaxTokens]
    /\ file \in 0 .. Garbled /\ {env, token} \subseteq (0 .. MaxTokens) \cup {Garbled}
    /\ minted \in 0 .. MaxTokens
    /\ pc \in {"idle", "delete", "generate", "save", "core"}

(* Nothing took Gitea's tables back in time or cut a token short: the      *)
(* cached token would be wrong for good.                                   *)
OwnToken == spent.restores = 0 /\ spent.cuts = 0

(* What core-server is about to be given works in Gitea, after lost        *)
(* answers, crashes and a wiped state directory too.                       *)
TokenWorks == pc = "core" /\ OwnToken => (admin /\ token = valid)

(* Core ends up with the token Gitea knows.                                *)
CoreIsConnected == []OwnToken => <>[](env # None /\ env = valid)
=============================================================================
