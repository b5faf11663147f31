--------------------------- MODULE GiteaToken_proof ---------------------------
(***************************************************************************)
(* Proofs about the token of Gitea's admin, for any number of tokens,      *)
(* failing calls, crashes, wipes and restores.                             *)
(***************************************************************************)
EXTENDS GiteaToken, TLAPS

Spending == [faults : Nat, cuts : Nat, crashes : Nat, wipes : Nat, restores : Nat]

TypeInv == TypeOK /\ spent \in Spending

(* A bound is used up, and never given back. *)
LEMMA SpendType ==
    ASSUME spent \in Spending, NEW what \in {"faults", "cuts", "crashes", "wipes", "restores"},
           NEW limit, Spend(what, limit)
    PROVE  /\ spent' \in Spending
           /\ OwnToken' => OwnToken /\ what \notin {"restores", "cuts"}
<1>1. CASE what = "faults"
  BY <1>1 DEF Spend, Spending, OwnToken
<1>2. CASE what = "crashes"
  BY <1>2 DEF Spend, Spending, OwnToken
<1>3. CASE what = "wipes"
  BY <1>3 DEF Spend, Spending, OwnToken
<1>4. CASE what = "restores"
  BY <1>4 DEF Spend, Spending, OwnToken
<1>5. CASE what = "cuts"
  BY <1>5 DEF Spend, Spending, OwnToken
<1> QED
  BY <1>1, <1>2, <1>3, <1>4, <1>5

-----------------------------------------------------------------------------
LEMMA InitTypes == Init => TypeInv
<1> SUFFICES ASSUME Init PROVE TypeInv
  OBVIOUS
<1>1. spent \in Spending
  BY DEF Init, Spending
<1>2. MaxTokens \in Nat /\ 0 \in 0 .. MaxTokens /\ 0 \in 0 .. MaxTokens + 2
  BY GiteaAssumption
<1>3. backup \in [admin : BOOLEAN, valid : 0 .. MaxTokens]
  BY <1>2 DEF Init, None
<1> QED
  BY <1>1, <1>2, <1>3 DEF Init, TypeInv, TypeOK, None, Torn, Garbled

LEMMA StepTypes == TypeInv /\ [Next]_vars => TypeInv'
<1> SUFFICES ASSUME TypeInv, [Next]_vars PROVE TypeInv'
  OBVIOUS
<1> USE GiteaAssumption DEF TypeInv, TypeOK, None, Torn, Garbled
<1>1. CASE Cached
  BY <1>1 DEF Cached, Usable, gitea
<1>2. CASE EnsureAdmin
  BY <1>2 DEF EnsureAdmin
<1>3. CASE Delete
  BY <1>3 DEF Delete
<1>4. CASE Generate
  BY <1>4 DEF Generate
<1>5. CASE Save
  BY <1>5 DEF Save, gitea
<1>6. CASE ApplyCore
  BY <1>6 DEF ApplyCore, gitea
<1>7. CASE LostDelete
  BY <1>7, SpendType DEF LostDelete
<1>8. CASE LostGenerate
  BY <1>8, SpendType DEF LostGenerate
<1>9. CASE LostSave
  BY <1>9, SpendType DEF LostSave, gitea
<1>10. CASE NotApplied
  BY <1>10, SpendType DEF NotApplied, gitea
<1>11. CASE Crash
  BY <1>11, SpendType DEF Crash, gitea
<1>12. CASE WipeState
  BY <1>12, SpendType DEF WipeState, gitea
<1>13. CASE Backup
  BY <1>13 DEF Backup
<1>14. CASE Restore
  BY <1>14, SpendType DEF Restore
<1>15. CASE UNCHANGED vars
  BY <1>15 DEF vars, gitea
<1>16. CASE CutGenerate
  BY <1>16, SpendType DEF CutGenerate
<1> QED
  BY <1>1, <1>2, <1>3, <1>4, <1>5, <1>6, <1>7, <1>8, <1>9, <1>10, <1>11, <1>12,
     <1>13, <1>14, <1>15, <1>16 DEF Next, Provision

(* Every reachable state is well typed. *)
THEOREM GiteaTypeCorrect == Spec => []TypeOK
<1>1. Spec => []TypeInv
  BY InitTypes, StepTypes, PTL DEF Spec
<1> QED
  BY <1>1, PTL DEF TypeInv

-----------------------------------------------------------------------------
(***************************************************************************)
(* The token works.  On its way from Gitea to core-server it is the one    *)
(* Gitea knows; so is a token in the file, and the agent does not touch    *)
(* Gitea's while the file has one.                                         *)
(***************************************************************************)
Agreement ==
    OwnToken =>
        /\ Usable(file) => admin /\ valid = file
        /\ pc \in {"delete", "generate"} => admin /\ ~Usable(file)
        /\ pc \in {"save", "core"} => admin /\ token = valid

LEMMA StepAgreement == TypeInv /\ Agreement /\ [Next]_vars => Agreement'
<1> SUFFICES ASSUME TypeInv, Agreement, [Next]_vars, OwnToken'
             PROVE  Agreement'
  BY DEF Agreement
<1> USE GiteaAssumption DEF TypeInv, TypeOK, Agreement, Usable, None, Torn, Garbled
<1>0. UNCHANGED spent => OwnToken
  BY DEF OwnToken
<1>1. CASE Cached
  BY <1>0, <1>1 DEF Cached, gitea
<1>2. CASE EnsureAdmin
  BY <1>0, <1>2 DEF EnsureAdmin
<1>3. CASE Delete
  BY <1>0, <1>3 DEF Delete
<1>4. CASE Generate
  BY <1>0, <1>4 DEF Generate
<1>5. CASE Save
  BY <1>0, <1>5 DEF Save, gitea
<1>6. CASE ApplyCore
  BY <1>0, <1>6 DEF ApplyCore, gitea
<1>7. CASE LostDelete
  BY <1>7, SpendType DEF LostDelete
<1>8. CASE LostGenerate
  BY <1>8, SpendType DEF LostGenerate
<1>9. CASE LostSave
  BY <1>9, SpendType DEF LostSave, gitea
<1>10. CASE NotApplied
  BY <1>10, SpendType DEF NotApplied, gitea
<1>11. CASE Crash
  BY <1>11, SpendType DEF Crash, gitea
<1>12. CASE WipeState
  BY <1>12, SpendType DEF WipeState, gitea
<1>13. CASE Backup
  BY <1>0, <1>13 DEF Backup
<1>14. CASE Restore
  BY <1>14, SpendType DEF Restore
<1>15. CASE UNCHANGED vars
  BY <1>0, <1>15 DEF vars, gitea
<1>16. CASE CutGenerate
  BY <1>16, SpendType DEF CutGenerate
<1> QED
  BY <1>1, <1>2, <1>3, <1>4, <1>5, <1>6, <1>7, <1>8, <1>9, <1>10, <1>11, <1>12,
     <1>13, <1>14, <1>15, <1>16 DEF Next, Provision

(* Whatever answers are lost, whenever the agent crashes and its state     *)
(* directory is wiped, the token core-server is about to be given works in *)
(* Gitea, as long as the database is not restored and no token was cut     *)
(* short on its way.                                                       *)
THEOREM TokenIsGood == Spec => []TokenWorks
<1>1. Spec => []TypeInv
  BY InitTypes, StepTypes, PTL DEF Spec
<1>2. Init => Agreement
  BY DEF Init, Agreement, Usable
<1>3. Agreement => TokenWorks
  BY DEF Agreement, TokenWorks
<1> QED
  BY <1>1, <1>2, <1>3, StepAgreement, PTL DEF Spec
=============================================================================
