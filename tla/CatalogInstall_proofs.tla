---- MODULE CatalogInstall_proofs ----
(***************************************************************************)
(* Proofs about CatalogInstall, for every set of artifacts, all sizes and  *)
(* all license terms.                                                      *)
(***************************************************************************)
EXTENDS CatalogInstall, TLAPS

\* Terms on record were accepted by a request: what makes LicenseCovers
\* inductive across restarts and changes of the catalog.
RecordHonest == accepted # NoTerms => accepted \in consent

CatalogInv == TypeOK /\ StagedFileVerified /\ LicenseCovers /\ BodyWithinSize /\ RecordHonest

\* A file with a block appended is one block longer (ReceiveBlock).
LEMMA AppendLength ==
  ASSUME NEW S, NEW s \in Seq(S), NEW x \in S
  PROVE  Append(s, x) \in Seq(S) /\ Len(Append(s, x)) = Len(s) + 1 /\ Len(s) \in Nat
OBVIOUS

\* The conjunction is inductive: no step of a request, a failure, a restart
\* with another catalog or a deletion breaks it.
LEMMA CatalogInvariant == Spec => []CatalogInv
<1>1. Init => CatalogInv
  BY SizeAssumption
  DEF Init, CatalogInv, TypeOK, StagedFileVerified, LicenseCovers, BodyWithinSize, RecordHonest,
      PC, Matches
<1>2. CatalogInv /\ [Next]_vars => CatalogInv'
  <2> SUFFICES ASSUME CatalogInv, [Next]_vars PROVE CatalogInv'
    OBVIOUS
  <2> USE SizeAssumption
      DEF CatalogInv, TypeOK, StagedFileVerified, LicenseCovers, BodyWithinSize, RecordHonest,
          PC, Matches, Goes, disk
  <2>0. /\ Len(part) \in Nat
        /\ Size[catalog] \in Nat /\ Size[catalog] > 0
        /\ <<>> \in Seq(Block) /\ Len(<<>>) = 0
    BY DEF Block
  <2>1. CASE Restart
    BY <2>1 DEF Restart
  <2>2. CASE Fails
    BY <2>2 DEF Fails
  <2>3. ASSUME NEW accepts \in BOOLEAN, Request(accepts) PROVE CatalogInv'
    BY <2>3 DEF Request, Accepted, Accept
  <2>4. CASE StatVersion
    BY <2>4 DEF StatVersion
  <2>5. CASE UseStaged
    BY <2>5 DEF UseStaged
  <2>6. CASE Resume
    BY <2>0, <2>6 DEF Resume
  <2>7. CASE CompletePartial
    BY <2>7 DEF CompletePartial
  <2>8. CASE Get
    <3>1. CASE part' = part
      BY <2>0, <2>8, <3>1 DEF Get
    <3>2. CASE part' = <<>>
      BY <2>0, <2>8, <3>2 DEF Get
    <3> QED
      BY <2>8, <3>1, <3>2 DEF Get
  <2>9. CASE ReceiveBlock
    <3>1. PICK block \in {catalog} \union Stray : part' = Append(part, block)
      BY <2>9 DEF ReceiveBlock
    <3>2. part' \in Seq(Block) /\ Len(part') = Len(part) + 1 /\ Len(part) \in Nat
      BY <3>1, AppendLength DEF Block
    <3> QED
      BY <2>9, <3>2 DEF ReceiveBlock
  <2>10. CASE BodyEnds
    <3>1. CASE Matches(part)
      <4>1. pc' = "install" /\ final' = part /\ part' = <<>>
        BY <2>10, <3>1 DEF BodyEnds
      <4>2. StagedFileVerified'
        BY <2>10, <3>1, <4>1 DEF BodyEnds
      <4> QED
        BY <2>0, <2>10, <4>1, <4>2 DEF BodyEnds
    <3>2. CASE ~Matches(part)
      BY <2>10, <3>2 DEF BodyEnds
    <3> QED
      BY <3>1, <3>2
  <2>11. CASE Install
    BY <2>11 DEF Install
  <2>12. CASE Cleanup
    <3>1. CASE final' = final
      BY <2>12, <3>1 DEF Cleanup
    <3>2. CASE final' = <<>>
      BY <2>0, <2>12, <3>2 DEF Cleanup
    <3> QED
      BY <2>12, <3>1, <3>2 DEF Cleanup
  <2>13. ASSUME NEW a \in Artifact, DeleteVersion(a) PROVE CatalogInv'
    BY <2>13 DEF DeleteVersion
  <2>14. CASE DeleteModel
    BY <2>14 DEF DeleteModel
  <2>15. CASE UNCHANGED vars
    BY <2>15 DEF vars
  <2> QED
    BY <2>1, <2>2, <2>3, <2>4, <2>5, <2>6, <2>7, <2>8, <2>9, <2>10, <2>11, <2>12, <2>13, <2>14,
       <2>15 DEF Next
<1> QED
  BY <1>1, <1>2, PTL DEF Spec

\* The staging files are sequences of blocks, whatever a daemon finds there.
THEOREM CatalogTypeCorrect == Spec => []TypeOK
<1>1. CatalogInv => TypeOK
  BY DEF CatalogInv
<1> QED
  BY <1>1, CatalogInvariant, PTL

\* What leaves staging is one verified artifact, and what is installed is the
\* catalog's, however often a download was broken off, resumed or continued by
\* another daemon (Download, installCatalogArtifact).
THEOREM OnlyVerifiedFilesLeaveStaging == Spec => []StagedFileVerified
<1>1. CatalogInv => StagedFileVerified
  BY DEF CatalogInv
<1> QED
  BY <1>1, CatalogInvariant, PTL

\* No download runs under terms nobody has accepted (LicenseStore.Accepted).
THEOREM DownloadsAreLicensed == Spec => []LicenseCovers
<1>1. CatalogInv => LicenseCovers
  BY DEF CatalogInv
<1> QED
  BY <1>1, CatalogInvariant, PTL

\* SizeBytes - offset does not wrap around, and a body is cut off in time
\* (partialSize and the LimitReader of Download).
THEOREM DownloadsAreBounded == Spec => []BodyWithinSize
<1>1. CatalogInv => BodyWithinSize
  BY DEF CatalogInv
<1> QED
  BY <1>1, CatalogInvariant, PTL
====
