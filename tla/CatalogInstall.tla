---- MODULE CatalogInstall ----
(***************************************************************************)
(* Downloading and installing one catalog variant: installCatalogArtifact  *)
(* (internal/daemon/server.go), the resuming downloader (internal/download/ *)
(* downloader.go) and the license records (internal/storage/licenses.go).  *)
(*                                                                         *)
(* The staging directory belongs to the variant and the file names to the  *)
(* catalog, which is embedded in the daemon: a daemon that is upgraded     *)
(* finds what a former one, with another artifact under the same name, has *)
(* left.  A file is the sequence of its blocks, and a block is known by    *)
(* the artifact it is part of; a partial file is a prefix that a response  *)
(* to a Range request continues.  s.modelMu admits one download at a time. *)
(***************************************************************************)
EXTENDS Naturals, Sequences

CONSTANTS
  Artifact,  \* the artifacts the variant has in some version of the catalog
  Size,      \* their sizes in blocks
  Stray,     \* blocks a server may send that are not what the catalog promised
  Terms,     \* versions of the family's license terms
  NoTerms    \* no terms to accept, or no acceptance on record

ASSUME SizeAssumption == Size \in [Artifact -> Nat \ {0}]
ASSUME StrayAssumption == Stray \intersect Artifact = {}
ASSUME TermsAssumption == NoTerms \notin Terms

VARIABLES
  catalog,   \* the artifact of the embedded catalog
  terms,     \* the terms it requires to be accepted
  accepted,  \* the terms in the family's license record
  part,      \* <artifact>.part, empty if there is none
  final,     \* the staged file, empty if there is none
  installed, \* artifacts that have a version directory
  pc,        \* where the request is
  consent    \* history: terms some request has accepted explicitly

disk == <<accepted, part, final, installed>>
vars == <<catalog, terms, accepted, part, final, installed, pc, consent>>

PC == {"idle", "stat", "download", "get", "body", "install", "cleanup"}
Block == Artifact \union Stray

Goes(from, to) == pc = from /\ pc' = to

\* verifyFile, and the comparison of sizes around it.
Matches(file) == Len(file) = Size[catalog] /\ \A i \in DOMAIN file : file[i] = catalog

Init ==
  /\ catalog \in Artifact
  /\ terms \in Terms \union {NoTerms}
  /\ accepted = NoTerms
  /\ part = <<>>
  /\ final = <<>>
  /\ installed = {}
  /\ pc = "idle"
  /\ consent = {}

\* The daemon is killed at any point, and the next one may come with another
\* catalog.
Restart ==
  /\ catalog' \in Artifact
  /\ terms' \in Terms \union {NoTerms}
  /\ pc' = "idle"
  /\ UNCHANGED <<disk, consent>>

----------------------------------------------------------------------------
(* The request *)

\* Deliberate variant: any record of the family counts.
AcceptedOnce == terms = NoTerms \/ accepted # NoTerms

\* LicenseStore.Accepted: the record is about these very terms.
Accepted == terms = NoTerms \/ accepted = terms

\* LicenseStore.Accept replaces the family's record in one rename.
Accept == accepted' = terms

\* A download or update of the variant.  Without an acceptance on record or in
\* the request it is refused; an acceptance is recorded before anything else.
Request(accepts) ==
  /\ Goes("idle", "stat")
  /\ Accepted \/ accepts
  /\ IF Accepted THEN UNCHANGED accepted ELSE Accept
  /\ consent' = IF accepts THEN consent \union {terms} ELSE consent
  /\ UNCHANGED <<catalog, terms, part, final, installed>>

\* A version directory of that name: version_exists or up_to_date.
StatVersion ==
  /\ Goes("stat", IF catalog \in installed THEN "idle" ELSE "download")
  /\ UNCHANGED <<catalog, terms, disk, consent>>

----------------------------------------------------------------------------
(* Download *)

\* A staged file is used if it is the artifact, and refused otherwise.
UseStaged ==
  /\ final # <<>>
  /\ Goes("download", IF Matches(final) THEN "install" ELSE "idle")
  /\ UNCHANGED <<catalog, terms, disk, consent>>

\* Deliberate variant: a partial file that is too long is resumed.
ResumeOversized ==
  /\ final = <<>>
  /\ Len(part) # Size[catalog]
  /\ Goes("download", "get")
  /\ UNCHANGED <<catalog, terms, disk, consent>>

\* A partial file that is too long is removed, a shorter one resumed.
Resume ==
  /\ final = <<>>
  /\ Len(part) # Size[catalog]
  /\ Goes("download", "get")
  /\ part' = IF Len(part) > Size[catalog] THEN <<>> ELSE part
  /\ UNCHANGED <<catalog, terms, accepted, final, installed, consent>>

\* One of the right size needs no request.
CompletePartial ==
  /\ final = <<>>
  /\ Len(part) = Size[catalog]
  /\ IF Matches(part)
     THEN Goes("download", "install") /\ final' = part /\ part' = <<>>
     ELSE Goes("download", "idle") /\ UNCHANGED <<final, part>>
  /\ UNCHANGED <<catalog, terms, accepted, installed, consent>>

\* The answer continues the file (206), or starts it again (200), for which it
\* is truncated.
Get ==
  /\ Goes("get", "body")
  /\ part' \in {part, <<>>}
  /\ UNCHANGED <<catalog, terms, accepted, final, installed, consent>>

\* The body arrives.  At most one block more than expected is read.
ReceiveBlock ==
  /\ Goes("body", "body")
  /\ Len(part) <= Size[catalog]
  /\ \E block \in {catalog} \union Stray : part' = Append(part, block)
  /\ UNCHANGED <<catalog, terms, accepted, final, installed, consent>>

\* Deliberate variant: only the size is compared.
BodyEndsUnverified ==
  /\ IF Len(part) = Size[catalog]
     THEN Goes("body", "install") /\ final' = part /\ part' = <<>>
     ELSE Goes("body", "idle") /\ UNCHANGED <<final, part>>
  /\ UNCHANGED <<catalog, terms, accepted, installed, consent>>

\* The end of the body: the size, the checksum, the rename out of staging.
\* A file that fails stays where it is.
BodyEnds ==
  /\ IF Matches(part)
     THEN Goes("body", "install") /\ final' = part /\ part' = <<>>
     ELSE Goes("body", "idle") /\ UNCHANGED <<final, part>>
  /\ UNCHANGED <<catalog, terms, accepted, installed, consent>>

\* The server refuses, the connection breaks, or a system call fails.
Fails ==
  /\ pc \in {"stat", "download", "get", "body", "install"}
  /\ pc' = "idle"
  /\ UNCHANGED <<catalog, terms, disk, consent>>

----------------------------------------------------------------------------
(* Installation and deletion *)

\* InstallLocalFile, of which module ModelStore has the steps.
Install ==
  /\ Goes("install", "cleanup")
  /\ installed' = installed \union {catalog}
  /\ UNCHANGED <<catalog, terms, accepted, part, final, consent>>

\* The staged file is removed; an error of that call is ignored.
Cleanup ==
  /\ Goes("cleanup", "idle")
  /\ final' \in {final, <<>>}
  /\ UNCHANGED <<catalog, terms, accepted, part, installed, consent>>

\* deleteModel of one version leaves the staging directory alone, ...
DeleteVersion(a) ==
  /\ Goes("idle", "idle")
  /\ a \in installed
  /\ installed' = installed \ {a}
  /\ UNCHANGED <<catalog, terms, accepted, part, final, consent>>

\* ... deleteModel of the model removes it.
DeleteModel ==
  /\ Goes("idle", "idle")
  /\ installed' = {}
  /\ part' = <<>>
  /\ final' = <<>>
  /\ UNCHANGED <<catalog, terms, accepted, consent>>

----------------------------------------------------------------------------
Next ==
  \/ Restart \/ Fails
  \/ \E accepts \in BOOLEAN : Request(accepts)
  \/ StatVersion
  \/ UseStaged \/ Resume \/ CompletePartial \/ Get \/ ReceiveBlock \/ BodyEnds
  \/ Install \/ Cleanup
  \/ \E a \in Artifact : DeleteVersion(a)
  \/ DeleteModel

Spec == Init /\ [][Next]_vars

----------------------------------------------------------------------------
(* Properties *)

\* Types of the staging directory, the license record and the request.
TypeOK ==
  /\ catalog \in Artifact
  /\ terms \in Terms \union {NoTerms}
  /\ accepted \in Terms \union {NoTerms}
  /\ part \in Seq(Block)
  /\ final \in Seq(Block)
  /\ installed \subseteq Artifact
  /\ pc \in PC
  /\ consent \subseteq Terms \union {NoTerms}

\* docs/model-catalog.md: the downloader "only moves a verified file out of
\* staging".  However often a download was interrupted, resumed or continued
\* by a daemon with another catalog, a staged file is one artifact from its
\* first block to its last, and the one that is installed is the catalog's.
StagedFileVerified ==
  /\ final # <<>> =>
       \E a \in Artifact : Len(final) = Size[a] /\ \A i \in DOMAIN final : final[i] = a
  /\ pc = "install" => Matches(final)

\* docs/model-catalog.md: "a changed license name or terms URL requires explicit
\* acceptance again".  Nothing is downloaded under terms that no request has
\* accepted, whatever record an earlier daemon has left.
LicenseCovers == pc # "idle" /\ terms # NoTerms => terms \in consent

\* The number of bytes still wanted, SizeBytes - offset, is not negative (they
\* are unsigned), and a response is cut off one past the catalog's size.
BodyWithinSize ==
  /\ pc = "get" => Len(part) < Size[catalog]
  /\ pc = "body" => Len(part) <= Size[catalog] + 1

\* docs/model-catalog.md: "Interrupted `.part` files remain available for a
\* later retry".  A partial file can be continued to the catalog's artifact, or
\* will be removed.
PartResumable ==
  pc = "idle" => Len(part) > Size[catalog] \/ \A i \in DOMAIN part : part[i] = catalog
====
