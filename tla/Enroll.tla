------------------------------- MODULE Enroll -------------------------------
(***************************************************************************)
(* How an agent comes up: it loads or creates its key pairs                *)
(* (internal/agentcrypto/keys.go), exchanges the one-time token for a      *)
(* credential or reuses the one it has (internal/enroll/enroll.go), and    *)
(* enters the Run loop.  Two files survive it, agent-keys.json and         *)
(* enrollment.json; either may be cut short while it is written.           *)
(*                                                                         *)
(* The cloud is external: it accepts a token once, and binds a credential  *)
(* to the keys that were sent with it.  A credential is known by the token *)
(* it was given for, a key pair by its serial.                             *)
(***************************************************************************)
EXTENDS Naturals

CONSTANTS
    MaxTokens,    \* bound: tokens the operator obtains
    MaxKeys,      \* bound: key pairs generated
    Limit         \* bound: how often each kind of mishap happens

(* read: a file that is there cannot be read; torn_keys: agent-keys.json   *)
(* is cut short; fault: any other failing call; wipe: the operator clears  *)
(* the data directory.                                                     *)
Mishaps == {"read", "torn_keys", "fault", "crash", "wipe"}

ASSUME EnrollAssumption ==
    MaxTokens \in Nat /\ MaxKeys \in Nat /\ Limit \in [Mishaps -> Nat]

VARIABLES
    keyFile,       \* disk: agent-keys.json
    enrollment,    \* disk: enrollment.json
    token,         \* VRITTI_ENROLL_TOKEN, None if empty
    bound,         \* the cloud: token -> the keys it was used with, None if unused
    pc, keys, credential,    \* the agent
    generated, issued, spent

disk == <<keyFile, enrollment>>
vars == <<disk, token, bound, pc, keys, credential, generated, issued, spent>>

None == 0
TornKeys == MaxKeys + 1
TornEnrollment == MaxTokens + 1

Spend(m) == spent[m] < Limit[m] /\ spent' = [spent EXCEPT ![m] = @ + 1]

Init ==
    /\ keyFile = None /\ enrollment = None /\ token = None
    /\ bound = [t \in 1 .. MaxTokens |-> None]
    /\ pc = "down" /\ keys = None /\ credential = None
    /\ generated = 0 /\ issued = 0 /\ spent = [m \in Mishaps |-> 0]

Exit == pc' = "down" /\ keys' = None /\ credential' = None

-----------------------------------------------------------------------------
(***************************************************************************)
(* LoadOrCreate.                                                           *)
(***************************************************************************)
LoadKeys ==
    /\ pc = "down" /\ keyFile \in 1 .. MaxKeys
    /\ keys' = keyFile /\ pc' = "enroll"
    /\ UNCHANGED <<disk, token, bound, credential, generated, issued, spent>>

NewKeys ==
    /\ pc = "down" /\ generated < MaxKeys
    /\ generated' = generated + 1 /\ keys' = generated + 1 /\ pc' = "write_keys"
    /\ UNCHANGED <<disk, token, bound, credential, issued>>

(* Mutants of Generate: every start makes new keys; the keys are used      *)
(* before they are written.                                                *)
MutKeysEachStart == NewKeys /\ UNCHANGED spent

MutWritesLater ==
    /\ pc = "down" /\ keyFile = None /\ generated < MaxKeys
    /\ generated' = generated + 1 /\ keys' = generated + 1 /\ pc' = "enroll"
    /\ UNCHANGED <<disk, token, bound, credential, issued, spent>>

Generate == keyFile = None /\ NewKeys /\ UNCHANGED spent

(* Any error of the read counts as a first run. *)
KeysUnreadable == keyFile # None /\ NewKeys /\ Spend("read")

WriteKeys ==
    /\ pc = "write_keys" /\ keyFile' = keys /\ pc' = "enroll"
    /\ UNCHANGED <<enrollment, token, bound, keys, credential, generated, issued, spent>>

-----------------------------------------------------------------------------
(***************************************************************************)
(* enroll.Run.                                                             *)
(***************************************************************************)
Usable(e) == e \in 1 .. MaxTokens

Reuse ==
    /\ pc = "enroll" /\ Usable(enrollment)
    /\ credential' = enrollment /\ pc' = "running"
    /\ UNCHANGED <<disk, token, bound, keys, generated, issued, spent>>

Present ==
    /\ IF token = None THEN Exit ELSE pc' = "handshake" /\ UNCHANGED <<keys, credential>>
    /\ UNCHANGED <<disk, token, bound, generated, issued>>

(* Mutant of NotEnrolled: a cached enrollment that does not parse is fatal. *)
MutParseErrorFatal ==
    /\ pc = "enroll" /\ ~Usable(enrollment) /\ UNCHANGED spent
    /\ IF enrollment = None THEN Present
       ELSE Exit /\ UNCHANGED <<disk, token, bound, generated, issued>>

(* The cached enrollment is not there or does not parse. *)
NotEnrolled == pc = "enroll" /\ ~Usable(enrollment) /\ Present /\ UNCHANGED spent

EnrollmentUnreadable == pc = "enroll" /\ Usable(enrollment) /\ Present /\ Spend("read")

Bind == bound' = [bound EXCEPT ![token] = keys]

(* The cloud answers with the credential, its public key and a nonce that  *)
(* verifies against it.                                                    *)
Accepted ==
    /\ pc = "handshake" /\ bound[token] = None
    /\ Bind /\ credential' = token /\ pc' = "save"
    /\ UNCHANGED <<disk, token, keys, generated, issued, spent>>

(* A token that has been used is refused. *)
Refused ==
    /\ pc = "handshake" /\ bound[token] # None
    /\ Exit
    /\ UNCHANGED <<disk, token, bound, generated, issued, spent>>

(* The cloud is not reached, its answer is lost, or the nonce's signature  *)
(* does not verify.                                                        *)
NoAnswer ==
    /\ pc = "handshake" /\ bound[token] = None /\ Spend("fault") /\ Exit
    /\ Bind \/ UNCHANGED bound
    /\ UNCHANGED <<disk, token, generated, issued>>

Save ==
    /\ pc = "save" /\ enrollment' = credential /\ pc' = "running"
    /\ UNCHANGED <<keyFile, token, bound, keys, credential, generated, issued, spent>>

-----------------------------------------------------------------------------
(***************************************************************************)
(* Failing writes, crashes and restarts, and the operator.                 *)
(***************************************************************************)
(* A write fails, or the agent ends in it: os.WriteFile truncates first.   *)
KeysNotWritten ==
    /\ pc = "write_keys" /\ Exit
    /\ \/ Spend("fault") /\ UNCHANGED keyFile
       \/ Spend("torn_keys") /\ keyFile' = TornKeys
    /\ UNCHANGED <<enrollment, token, bound, generated, issued>>

NotSaved ==
    /\ pc = "save" /\ Spend("fault") /\ Exit
    /\ enrollment' \in {enrollment, TornEnrollment}
    /\ UNCHANGED <<keyFile, token, bound, generated, issued>>

Crash ==
    /\ pc # "down" /\ Spend("crash") /\ Exit
    /\ UNCHANGED <<disk, token, bound, generated, issued>>

(* The operator starts the agent with a token of the admin interface when  *)
(* it does not come up with the one it has.                                *)
Stranded ==
    /\ pc = "down" /\ ~Usable(enrollment)
    /\ IF token = None THEN TRUE ELSE bound[token] # None

PasteToken ==
    /\ Stranded /\ issued < MaxTokens
    /\ issued' = issued + 1 /\ token' = issued + 1
    /\ UNCHANGED <<disk, bound, pc, keys, credential, generated, spent>>

WipeData ==
    /\ pc = "down" /\ Spend("wipe")
    /\ keyFile' = None /\ enrollment' = None
    /\ UNCHANGED <<token, bound, pc, keys, credential, generated, issued>>

Boot == LoadKeys \/ Generate \/ WriteKeys \/ Reuse \/ NotEnrolled \/ Accepted \/ Refused \/ Save

Next ==
    \/ Boot \/ KeysUnreadable \/ EnrollmentUnreadable \/ NoAnswer
    \/ KeysNotWritten \/ NotSaved \/ Crash \/ PasteToken \/ WipeData

Spec == Init /\ [][Next]_vars

(* The container is restarted when the agent ends, its calls return, and   *)
(* the operator does not leave it stranded.                                *)
FairSpec == Spec /\ WF_vars(Boot) /\ SF_vars(PasteToken)

-----------------------------------------------------------------------------
TypeOK ==
    /\ keyFile \in 0 .. TornKeys /\ enrollment \in 0 .. TornEnrollment
    /\ token \in 0 .. MaxTokens /\ bound \in [1 .. MaxTokens -> 0 .. MaxKeys]
    /\ pc \in {"down", "write_keys", "enroll", "handshake", "save", "running"}
    /\ keys \in 0 .. MaxKeys /\ credential \in 0 .. MaxTokens
    /\ generated \in 0 .. MaxKeys /\ issued \in 0 .. MaxTokens
    /\ spent \in [Mishaps -> Nat]

(* A running agent signs with the keys the cloud bound to its credential.  *)
(* A key file that is there but cannot be read is overwritten, and the     *)
(* cached enrollment then belongs to the keys that are gone.               *)
CredentialFitsKeys ==
    pc = "running" /\ spent["read"] = 0 => (credential # None /\ bound[credential] = keys)

(* No keys are bound that the disk could lose: what the cloud has bound    *)
(* last can be loaded again after any crash, as long as nobody clears the  *)
(* directory.                                                              *)
BoundKeysAreKept ==
    spent["read"] = 0 /\ spent["wipe"] = 0
      => \A t \in 1 .. MaxTokens : bound[t] # None => keyFile = bound[t]

(* Enrolled once is enrolled for good: an agent that has come up never     *)
(* needs another token.                                                    *)
Enrolled == pc = "running" \/ Usable(enrollment)

EnrolledForGood ==
    [][Enrolled /\ spent'["read"] = 0 /\ spent'["wipe"] = 0 => Enrolled']_vars

(* After lost answers, failing writes, a wiped directory and crashes the   *)
(* agent comes up, unless its key file was cut short: such a file fails    *)
(* every later start.                                                      *)
ComesUp == [](keyFile # TornKeys) => <>[](pc = "running")
=============================================================================
