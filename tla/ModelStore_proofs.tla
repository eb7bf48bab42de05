---- MODULE ModelStore_proofs ----
(***************************************************************************)
(* Theorems about ModelStore, for any set of versions, with failing system *)
(* calls and a daemon that may be killed between any two of them.          *)
(***************************************************************************)
EXTENDS ModelStore, TLAPS

\* The inductive invariant: the three promises of the store, and what a
\* request that is half done relies on.
StoreInv ==
  /\ TypeOK
  /\ CurrentComplete
  /\ RollbackTargetComplete
  /\ InactiveHasNoTarget
  /\ RequestInv

\* StoreInv holds at the start, ...
LEMMA StoreInvInit == Init => StoreInv
BY NoVersionAssumption
DEF Init, StoreInv, TypeOK, CurrentComplete, RollbackTargetComplete, InactiveHasNoTarget,
    RequestInv, PC, Content, VersionState

\* ... and every system call preserves it.
LEMMA StoreInvStep ==
  ASSUME StoreInv, [Next]_vars
  PROVE  StoreInv'
<1> USE NoVersionAssumption
    DEF StoreInv, TypeOK, CurrentComplete, RollbackTargetComplete, InactiveHasNoTarget,
        RequestInv, PC, Content, VersionState
<1> USE DEF disk, request, Goes, Protected, RemoveFile, RemoveDir, Ends
<1>1. CASE UNCHANGED vars
  BY <1>1 DEF vars
<1>2. CASE Fails
  BY <1>2 DEF Fails
<1>3. CASE Restart
  BY <1>3 DEF Restart
<1>4. ASSUME NEW v \in Version, NEW act \in BOOLEAN, Install(v, act) PROVE StoreInv'
  BY <1>4 DEF Install
<1>5. ASSUME NEW v \in Version, Activate(v) PROVE StoreInv'
  BY <1>5 DEF Activate
<1>6. ASSUME NEW v \in Version, DeleteVersion(v) PROVE StoreInv'
  BY <1>6 DEF DeleteVersion
<1>7. CASE Copy
  BY <1>7 DEF Copy
<1>8. CASE Verify \/ VerifyFails
  BY <1>8 DEF Verify, VerifyFails
<1>9. CASE InstallRename
  BY <1>9 DEF InstallRename
<1>10. CASE Switch
  BY <1>10 DEF Switch
<1>11. CASE TruncateRecord
  BY <1>11 DEF TruncateRecord
<1>12. CASE WriteRecord
  BY <1>12 DEF WriteRecord
<1>13. CASE Rollback
  BY <1>13 DEF Rollback
<1>14. CASE RollbackSwitch \/ RollbackNothing
  BY <1>14 DEF RollbackSwitch, RollbackNothing
<1>15. CASE Forget
  BY <1>15 DEF Forget
<1>16. CASE RemoveVersion
  BY <1>16 DEF RemoveVersion
<1>17. CASE DeleteModel
  BY <1>17 DEF DeleteModel
<1>18. CASE RemoveModel
  BY <1>18 DEF RemoveModel
<1> HIDE DEF StoreInv
<1>19. QED
  BY <1>1, <1>2, <1>3, <1>4, <1>5, <1>6, <1>7, <1>8, <1>9, <1>10, <1>11, <1>12, <1>13,
     <1>14, <1>15, <1>16, <1>17, <1>18, Zenon
  DEF Next

\* StoreInv is an invariant of the store.
LEMMA StoreInvariant == Spec => []StoreInv
BY StoreInvInit, StoreInvStep, PTL DEF Spec

\* Types, and no unverified version.
THEOREM StoreTypeCorrect == Spec => []TypeOK
<1>1. StoreInv => TypeOK
  BY DEF StoreInv
<1>2. QED
  BY <1>1, StoreInvariant, PTL

\* Whatever fails and wherever the daemon is killed, the active version is
\* complete.
THEOREM ActiveVersionLoads == Spec => []CurrentComplete
<1>1. StoreInv => CurrentComplete
  BY DEF StoreInv
<1>2. QED
  BY <1>1, StoreInvariant, PTL

\* A readable rollback record leads to a complete version.
THEOREM RollbackLeadsSomewhere == Spec => []RollbackTargetComplete
<1>1. StoreInv => RollbackTargetComplete
  BY DEF StoreInv
<1>2. QED
  BY <1>1, StoreInvariant, PTL

\* A model without an active version has no protected version.
THEOREM InactiveModelIsDeletable == Spec => []InactiveHasNoTarget
<1>1. StoreInv => InactiveHasNoTarget
  BY DEF StoreInv
<1>2. QED
  BY <1>1, StoreInvariant, PTL

\* A request that was broken off anywhere leaves the link, the record and the
\* versions in the relation the next one relies on (InstallLocalFile,
\* ActivateVersion, RollbackLatest, DeleteVersion).
THEOREM HalfDoneRequestsAgree == Spec => []RequestInv
<1>1. StoreInv => RequestInv
  BY DEF StoreInv
<1>2. QED
  BY <1>1, StoreInvariant, PTL
====
