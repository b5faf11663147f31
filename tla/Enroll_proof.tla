---------------------------- MODULE Enroll_proof ----------------------------
(***************************************************************************)
(* Proofs about Enroll, for any number of tokens, key pairs and mishaps:   *)
(* its types, that the credential of a running agent fits its keys, that   *)
(* bound keys are on disk, and that an agent enrolls for good.             *)
(***************************************************************************)
EXTENDS Enroll, TLAPS

Loaded == {"enroll", "handshake", "save", "running"}

(* What the agent holds while it comes up. *)
Holding ==
    /\ pc = "handshake" => token # None
    /\ pc = "write_keys" => keys # None
    /\ pc = "save" => credential # None /\ bound[credential] = keys
    /\ pc = "running" => Usable(enrollment) /\ credential = enrollment

(* As long as no file that is there was unreadable, disk, memory and cloud *)
(* agree on the keys.                                                      *)
Agreement ==
    spent["read"] = 0 =>
      /\ pc = "write_keys" => keyFile = None
      /\ pc \in Loaded => keys # None /\ keyFile = keys
      /\ pc \in {"handshake", "save"} => ~Usable(enrollment)
      /\ Usable(enrollment) => bound[enrollment] # None /\ bound[enrollment] = keyFile

EnrollInv == TypeOK /\ Holding /\ Agreement /\ BoundKeysAreKept

(* The bounds are numbers, and the marks of a torn file are beyond them.   *)
LEMMA Numbers ==
    /\ MaxTokens \in Nat /\ MaxKeys \in Nat
    /\ 1 .. MaxTokens \subseteq 0 .. MaxTokens
    /\ 0 .. MaxTokens \subseteq 0 .. TornEnrollment
    /\ 0 .. MaxKeys \subseteq 0 .. TornKeys
    /\ None \in 0 .. MaxKeys /\ None \in 0 .. MaxTokens /\ None \notin 1 .. MaxTokens
    /\ TornKeys \in 0 .. TornKeys /\ TornKeys \notin 0 .. MaxKeys /\ TornKeys # None
    /\ TornEnrollment \in 0 .. TornEnrollment /\ TornEnrollment \notin 1 .. MaxTokens
BY EnrollAssumption DEF None, TornKeys, TornEnrollment

(* A spent mishap counts up. *)
LEMMA SpendType ==
    ASSUME TypeOK, NEW m \in Mishaps, Spend(m)
    PROVE  /\ spent' \in [Mishaps -> Nat]
           /\ \A n \in Mishaps : spent'[n] = 0 => spent[n] = 0
           /\ spent'[m] # 0
BY DEF TypeOK, Spend

LEMMA EnrollInit == Init => EnrollInv
<1> SUFFICES ASSUME Init PROVE EnrollInv
  OBVIOUS
<1>1. bound \in [1 .. MaxTokens -> 0 .. MaxKeys] /\ spent \in [Mishaps -> Nat]
  BY Numbers DEF Init
<1>2. TypeOK
  BY <1>1, Numbers DEF Init, TypeOK
<1>3. Holding /\ Agreement /\ BoundKeysAreKept
  BY Numbers DEF Init, Holding, Agreement, BoundKeysAreKept, Loaded, Usable
<1> QED
  BY <1>2, <1>3 DEF EnrollInv

(* Every step keeps the invariant. *)
LEMMA EnrollStep == EnrollInv /\ [Next]_vars => EnrollInv'
<1> SUFFICES ASSUME EnrollInv, [Next]_vars PROVE EnrollInv'
  OBVIOUS
<1> USE DEF EnrollInv
<1>0. /\ "read" \in Mishaps /\ "torn_keys" \in Mishaps /\ "fault" \in Mishaps
      /\ "crash" \in Mishaps /\ "wipe" \in Mishaps
  BY DEF Mishaps
<1>1. CASE LoadKeys
  <2>1. TypeOK'
    BY <1>1, Numbers DEF LoadKeys, disk, TypeOK
  <2>2. Holding' /\ Agreement' /\ BoundKeysAreKept'
    BY <1>1, Numbers
       DEF LoadKeys, disk, Holding, Agreement, BoundKeysAreKept, Loaded, Usable, None
  <2> QED
    BY <2>1, <2>2
<1>2. CASE Generate
  <2>1. generated + 1 \in 0 .. MaxKeys /\ generated + 1 # None
    BY <1>2, Numbers DEF Generate, NewKeys, TypeOK, None
  <2>2. TypeOK'
    BY <1>2, <2>1 DEF Generate, NewKeys, disk, TypeOK
  <2>3. Holding' /\ Agreement' /\ BoundKeysAreKept'
    BY <1>2, <2>1
       DEF Generate, NewKeys, disk, Holding, Agreement, BoundKeysAreKept, Loaded, Usable
  <2> QED
    BY <2>2, <2>3
<1>3. CASE KeysUnreadable
  <2>1. generated + 1 \in 0 .. MaxKeys /\ generated + 1 # None
    BY <1>3, Numbers DEF KeysUnreadable, NewKeys, TypeOK, None
  <2>2. spent' \in [Mishaps -> Nat] /\ spent'["read"] # 0
    BY <1>0, <1>3, SpendType DEF KeysUnreadable
  <2>3. TypeOK'
    BY <1>3, <2>1, <2>2 DEF KeysUnreadable, NewKeys, disk, TypeOK
  <2>4. Holding' /\ Agreement' /\ BoundKeysAreKept'
    BY <1>3, <2>1, <2>2
       DEF KeysUnreadable, NewKeys, disk, Holding, Agreement, BoundKeysAreKept, Usable
  <2> QED
    BY <2>3, <2>4
<1>4. CASE WriteKeys
  <2>1. TypeOK'
    BY <1>4, Numbers DEF WriteKeys, TypeOK
  <2>2. Holding' /\ Agreement'
    BY <1>4 DEF WriteKeys, Holding, Agreement, Loaded, Usable
  <2>3. BoundKeysAreKept'
    BY <1>4, Numbers DEF WriteKeys, Agreement, BoundKeysAreKept, TypeOK
  <2> QED
    BY <2>1, <2>2, <2>3
<1>5. CASE Reuse
  <2>1. TypeOK'
    BY <1>5, Numbers DEF Reuse, Usable, disk, TypeOK
  <2>2. Holding' /\ Agreement' /\ BoundKeysAreKept'
    BY <1>5 DEF Reuse, disk, Holding, Agreement, BoundKeysAreKept, Loaded, Usable
  <2> QED
    BY <2>1, <2>2
<1>6. CASE NotEnrolled
  <2>1. TypeOK'
    BY <1>6, Numbers DEF NotEnrolled, Present, Exit, disk, TypeOK
  <2>2. Holding' /\ Agreement' /\ BoundKeysAreKept'
    BY <1>6 DEF NotEnrolled, Present, Exit, disk, Holding, Agreement, BoundKeysAreKept,
                Loaded, Usable
  <2> QED
    BY <2>1, <2>2
<1>7. CASE EnrollmentUnreadable
  <2>1. spent' \in [Mishaps -> Nat] /\ spent'["read"] # 0
    BY <1>0, <1>7, SpendType DEF EnrollmentUnreadable
  <2>2. TypeOK'
    BY <1>7, <2>1, Numbers DEF EnrollmentUnreadable, Present, Exit, disk, TypeOK
  <2>3. Holding' /\ Agreement' /\ BoundKeysAreKept'
    BY <1>7, <2>1 DEF EnrollmentUnreadable, Present, Exit, disk, Holding, Agreement,
                      BoundKeysAreKept, Usable
  <2> QED
    BY <2>2, <2>3
<1>8. ASSUME pc = "handshake", Bind
      PROVE  /\ token \in 1 .. MaxTokens /\ bound' \in [1 .. MaxTokens -> 0 .. MaxKeys]
             /\ bound'[token] = keys
             /\ \A t \in 1 .. MaxTokens : t # token => bound'[t] = bound[t]
  BY <1>8, Numbers DEF Bind, Holding, TypeOK, None
<1>9. ASSUME pc = "handshake", Bind, bound[token] = None, UNCHANGED disk,
             UNCHANGED spent \/ Spend("fault")
      PROVE  /\ BoundKeysAreKept'
             /\ spent'["read"] = 0 /\ Usable(enrollment)
                  => bound'[enrollment] # None /\ bound'[enrollment] = keyFile
  <2>1. \A n \in Mishaps : spent'[n] = 0 => spent[n] = 0
    BY <1>0, <1>9, SpendType
  <2>2. spent'["read"] = 0 => keyFile = keys /\ keys # None /\ ~Usable(enrollment)
    BY <1>0, <1>9, <2>1 DEF Agreement, Loaded
  <2>3. BoundKeysAreKept'
    BY <1>0, <1>8, <1>9, <2>1, <2>2 DEF disk, BoundKeysAreKept
  <2> QED
    BY <2>2, <2>3
<1>10. CASE Accepted
  <2>1. TypeOK'
    BY <1>8, <1>10, Numbers DEF Accepted, disk, TypeOK
  <2>2. Holding'
    BY <1>8, <1>10, Numbers DEF Accepted, disk, Holding, Usable
  <2>3. Agreement'
    BY <1>9, <1>10 DEF Accepted, disk, Agreement, Loaded, Usable
  <2> QED
    BY <1>9, <1>10, <2>1, <2>2, <2>3 DEF Accepted
<1>11. CASE Refused
  <2>1. TypeOK'
    BY <1>11, Numbers DEF Refused, Exit, disk, TypeOK
  <2>2. Holding' /\ Agreement' /\ BoundKeysAreKept'
    BY <1>11 DEF Refused, Exit, disk, Holding, Agreement, BoundKeysAreKept, Loaded, Usable
  <2> QED
    BY <2>1, <2>2
<1>12. CASE NoAnswer
  <2>1. spent' \in [Mishaps -> Nat] /\ \A n \in Mishaps : spent'[n] = 0 => spent[n] = 0
    BY <1>0, <1>12, SpendType DEF NoAnswer
  <2>2. TypeOK'
    BY <1>8, <1>12, <2>1, Numbers DEF NoAnswer, Exit, disk, TypeOK
  <2>3. Holding'
    BY <1>12 DEF NoAnswer, Exit, disk, Holding
  <2>4. CASE Bind
    <3>1. Agreement'
      BY <1>9, <1>12, <2>4 DEF NoAnswer, Exit, disk, Agreement, Loaded, Usable
    <3> QED
      BY <1>9, <1>12, <2>2, <2>3, <2>4, <3>1 DEF NoAnswer
  <2>5. CASE UNCHANGED bound
    <3>1. Agreement' /\ BoundKeysAreKept'
      BY <1>0, <1>12, <2>1, <2>5
         DEF NoAnswer, Exit, disk, Agreement, BoundKeysAreKept, Loaded, Usable
    <3> QED
      BY <2>2, <2>3, <3>1
  <2> QED
    BY <1>12, <2>4, <2>5 DEF NoAnswer
<1>13. CASE Save
  <2>1. credential \in 1 .. MaxTokens
    BY <1>13, Numbers DEF Save, Holding, TypeOK, None
  <2>2. TypeOK'
    BY <1>13, <2>1, Numbers DEF Save, TypeOK
  <2>3. Holding' /\ Agreement' /\ BoundKeysAreKept'
    BY <1>13, <2>1 DEF Save, Holding, Agreement, BoundKeysAreKept, Loaded, Usable
  <2> QED
    BY <2>2, <2>3
<1>14. CASE KeysNotWritten
  <2>1. spent' \in [Mishaps -> Nat] /\ \A n \in Mishaps : spent'[n] = 0 => spent[n] = 0
    BY <1>0, <1>14, SpendType DEF KeysNotWritten
  <2>2. TypeOK'
    BY <1>14, <2>1, Numbers DEF KeysNotWritten, Exit, TypeOK
  <2>4. spent["read"] = 0 => ~Usable(enrollment)
    BY <1>14 DEF KeysNotWritten, Agreement
  <2>5. Holding' /\ Agreement'
    BY <1>0, <1>14, <2>1, <2>4
       DEF KeysNotWritten, Exit, Holding, Agreement, Loaded, Usable
  <2>6. BoundKeysAreKept'
    BY <1>0, <1>14, <2>1 DEF KeysNotWritten, Agreement, BoundKeysAreKept
  <2> QED
    BY <2>2, <2>5, <2>6
<1>15. CASE NotSaved
  <2>1. spent' \in [Mishaps -> Nat] /\ \A n \in Mishaps : spent'[n] = 0 => spent[n] = 0
    BY <1>0, <1>15, SpendType DEF NotSaved
  <2>2. TypeOK'
    BY <1>15, <2>1, Numbers DEF NotSaved, Exit, TypeOK
  <2>3. Usable(enrollment') => enrollment' = enrollment
    BY <1>15, Numbers DEF NotSaved, Usable
  <2>4. Holding' /\ Agreement' /\ BoundKeysAreKept'
    BY <1>0, <1>15, <2>1, <2>3
       DEF NotSaved, Exit, Holding, Agreement, BoundKeysAreKept, Loaded, Usable
  <2> QED
    BY <2>2, <2>4
<1>16. CASE Crash
  <2>1. spent' \in [Mishaps -> Nat] /\ \A n \in Mishaps : spent'[n] = 0 => spent[n] = 0
    BY <1>0, <1>16, SpendType DEF Crash
  <2>2. TypeOK'
    BY <1>16, <2>1, Numbers DEF Crash, Exit, disk, TypeOK
  <2>3. Holding' /\ Agreement' /\ BoundKeysAreKept'
    BY <1>0, <1>16, <2>1
       DEF Crash, Exit, disk, Holding, Agreement, BoundKeysAreKept, Loaded, Usable
  <2> QED
    BY <2>2, <2>3
<1>17. CASE PasteToken
  <2>1. issued + 1 \in 0 .. MaxTokens
    BY <1>17, Numbers DEF PasteToken, TypeOK
  <2>2. TypeOK'
    BY <1>17, <2>1 DEF PasteToken, disk, TypeOK
  <2>3. Holding' /\ Agreement' /\ BoundKeysAreKept'
    BY <1>17 DEF PasteToken, Stranded, disk, Holding, Agreement, BoundKeysAreKept, Loaded,
                 Usable
  <2> QED
    BY <2>2, <2>3
<1>18. CASE WipeData
  <2>1. /\ spent' \in [Mishaps -> Nat] /\ \A n \in Mishaps : spent'[n] = 0 => spent[n] = 0
        /\ spent'["wipe"] # 0
    BY <1>0, <1>18, SpendType DEF WipeData
  <2>2. TypeOK'
    BY <1>18, <2>1, Numbers DEF WipeData, TypeOK
  <2>3. Holding' /\ Agreement' /\ BoundKeysAreKept'
    BY <1>18, <2>1, Numbers
       DEF WipeData, Holding, Agreement, BoundKeysAreKept, Loaded, Usable
  <2> QED
    BY <2>2, <2>3
<1>19. CASE UNCHANGED vars
  BY <1>19 DEF vars, disk, TypeOK, Holding, Agreement, BoundKeysAreKept, Loaded, Usable
<1> QED
  BY <1>1, <1>2, <1>3, <1>4, <1>5, <1>6, <1>7, <1>10, <1>11, <1>12, <1>13, <1>14,
     <1>15, <1>16, <1>17, <1>18, <1>19 DEF Next, Boot

(* The invariant holds throughout. *)
LEMMA EnrollInvariant == Spec => []EnrollInv
BY EnrollInit, EnrollStep, PTL DEF Spec

(* Every variable keeps its type. *)
THEOREM EnrollTypeCorrect == Spec => []TypeOK
<1>1. EnrollInv => TypeOK
  BY DEF EnrollInv
<1> QED
  BY <1>1, EnrollInvariant, PTL

(* A running agent signs with the keys its credential is bound to.         *)
THEOREM CredentialIsGood == Spec => []CredentialFitsKeys
<1>1. EnrollInv => CredentialFitsKeys
  <2> SUFFICES ASSUME EnrollInv, pc = "running", spent["read"] = 0
               PROVE  credential # None /\ bound[credential] = keys
    BY DEF CredentialFitsKeys
  <2>1. Usable(enrollment) /\ credential = enrollment /\ keyFile = keys
    BY DEF EnrollInv, Holding, Agreement, Loaded
  <2> QED
    BY <2>1, Numbers DEF EnrollInv, Agreement, Usable
<1> QED
  BY <1>1, EnrollInvariant, PTL

(* The keys the cloud has bound are on disk.                               *)
THEOREM KeysAreKept == Spec => []BoundKeysAreKept
<1>1. EnrollInv => BoundKeysAreKept
  BY DEF EnrollInv
<1> QED
  BY <1>1, EnrollInvariant, PTL

(* An agent that has come up never needs another token.                    *)
THEOREM OneEnrollment == Spec => EnrolledForGood
<1> DEFINE Stays == Enrolled /\ spent'["read"] = 0 /\ spent'["wipe"] = 0 => Enrolled'
<1>1. ASSUME EnrollInv, [Next]_vars PROVE [Stays]_vars
  <2> SUFFICES ASSUME Enrolled, spent'["read"] = 0, spent'["wipe"] = 0, Next
               PROVE  Usable(enrollment')
    BY <1>1 DEF Enrolled, Usable
  <2>1. /\ "read" \in Mishaps /\ "fault" \in Mishaps /\ "wipe" \in Mishaps
        /\ "torn_keys" \in Mishaps /\ "crash" \in Mishaps
    BY DEF Mishaps
  <2>2. Usable(enrollment)
    BY <1>1 DEF Enrolled, EnrollInv, Holding
  <2>3. ~WipeData
    BY <1>1, <2>1, SpendType DEF WipeData, EnrollInv
  <2>4. pc # "save" \/ UNCHANGED enrollment
    <3>1. ASSUME pc = "save" PROVE spent["read"] # 0
      BY <1>1, <2>2, <3>1 DEF EnrollInv, Agreement
    <3>2. spent["read"] # 0 => spent'["read"] # 0 \/ UNCHANGED enrollment
      <4>1. CASE Save \/ NotSaved
        BY <1>1, <2>1, <4>1, SpendType DEF Save, NotSaved, EnrollInv
      <4>2. CASE ~(Save \/ NotSaved)
        BY <2>3, <4>2 DEF Next, Boot, LoadKeys, Generate, NewKeys, KeysUnreadable, WriteKeys,
           Reuse, NotEnrolled, Present, EnrollmentUnreadable, Accepted, Refused, NoAnswer,
           KeysNotWritten, Crash, PasteToken, disk
      <4> QED
        BY <4>1, <4>2
    <3> QED
      BY <3>1, <3>2
  <2>5. UNCHANGED enrollment
    BY <2>3, <2>4 DEF Next, Boot, LoadKeys, Generate, NewKeys, KeysUnreadable, WriteKeys,
       Reuse, NotEnrolled, Present, EnrollmentUnreadable, Accepted, Refused, NoAnswer,
       KeysNotWritten, Crash, PasteToken, Save, NotSaved, disk
  <2> QED
    BY <2>2, <2>5
<1> QED
  BY <1>1, EnrollInvariant, PTL DEF Spec, EnrolledForGood
=============================================================================
