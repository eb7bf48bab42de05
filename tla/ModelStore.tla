---- MODULE ModelStore ----
(***************************************************************************)
(* The versioned store of one model (internal/storage/models.go) and the   *)
(* daemon requests that change it (internal/daemon/server.go).             *)
(*                                                                         *)
(* On disk a model is a directory with a subdirectory per version, a       *)
(* symbolic link "current" to the active one, and rollback.json, which     *)
(* remembers the target "current" had before the last activation.  s.modelMu *)
(* admits one request at a time, but a request is several system calls, of *)
(* which any may fail and after each of which the daemon may be killed: the *)
(* next daemon finds whatever is on disk and repairs nothing.              *)
(***************************************************************************)
EXTENDS Naturals

CONSTANTS
  Version,    \* version IDs
  NoVersion,  \* no active version, no previous target
  Faults      \* whether system calls may fail and the daemon may be killed

ASSUME NoVersionAssumption == NoVersion \notin Version
ASSUME FaultsAssumption == Faults \in BOOLEAN

VARIABLES
  ver,        \* each version's directory: absent, without model.gguf, or complete
  current,    \* the version the link "current" points to
  rec,        \* rollback.json: missing, not valid JSON, or a record
  recPrev,    \* PreviousTarget of that record
  configured, \* the model has a configuration entry (fixed while a daemon lives)
  pc,         \* where the request that holds modelMu is
  target,     \* the version it is about
  activate,   \* whether an installation goes on to activate
  staged,     \* the file an installation has copied: as announced, or not
  previous,   \* the link target it has read
  before      \* history: the version that was active before the active one

disk == <<ver, current, rec, recPrev>>
request == <<target, activate, staged, previous>>
vars == <<ver, current, rec, recPrev, configured, pc, target, activate,
          staged, previous, before>>

PC == {"idle", "copy", "verify", "install", "switch", "truncate", "record",
       "rollback", "forget", "remove", "removeAll"}
Content == {"good", "bad"}
VersionState == {"absent", "stub", "good"}

Init ==
  /\ ver = [v \in Version |-> "absent"]
  /\ current = NoVersion
  /\ rec = "none"
  /\ recPrev = NoVersion
  /\ configured \in BOOLEAN
  /\ pc = "idle"
  /\ target = NoVersion
  /\ activate = FALSE
  /\ staged = "bad"
  /\ previous = NoVersion
  /\ before = NoVersion

Goes(from, to) == pc = from /\ pc' = to

\* The request is answered: its local variables are gone.
Ends ==
  /\ pc' = "idle"
  /\ target' = NoVersion
  /\ activate' = FALSE
  /\ staged' = "bad"
  /\ previous' = NoVersion

\* A system call fails: the request reports an error and modelMu is released.
\* What it has done so far stays done.
Fails ==
  /\ Faults
  /\ pc \notin {"idle", "forget"}
  /\ Ends
  /\ UNCHANGED <<disk, configured, before>>

\* The daemon is killed and started again, perhaps with another configuration.
Restart ==
  /\ Faults
  /\ Ends
  /\ configured' \in BOOLEAN
  /\ UNCHANGED <<disk, before>>

----------------------------------------------------------------------------
(* InstallLocalFile *)

\* A version directory that exists, whatever it holds, refuses installation.
\* Only a configured model is activated.
Install(v, act) ==
  /\ Goes("idle", "copy")
  /\ ver[v] = "absent"
  /\ act => configured
  /\ target' = v
  /\ activate' = act
  /\ UNCHANGED <<disk, configured, staged, previous, before>>

\* The file is copied to a private directory: it may be truncated, damaged or
\* simply not the file the request described.
Copy ==
  /\ Goes("copy", "verify")
  /\ staged' \in Content
  /\ UNCHANGED <<disk, configured, target, activate, previous, before>>

\* VerifySHA256; after a mismatch the private directory is removed.
Verify ==
  /\ Goes("verify", "install")
  /\ staged = "good"
  /\ UNCHANGED <<disk, configured, request, before>>

VerifyFails ==
  /\ pc = "verify"
  /\ staged = "bad"
  /\ Ends
  /\ UNCHANGED <<disk, configured, before>>

\* The private directory is renamed into versions/; activation may follow.
InstallRename ==
  /\ pc = "install"
  /\ ver' = [ver EXCEPT ![target] = staged]
  /\ \/ activate /\ pc' = "switch" /\ UNCHANGED request
     \/ ~activate /\ Ends
  /\ UNCHANGED <<current, rec, recPrev, configured, before>>

----------------------------------------------------------------------------
(* ActivateVersion *)

Activate(v) ==
  /\ Goes("idle", "switch")
  /\ configured
  /\ ver[v] \notin {"absent", "stub"}
  /\ target' = v
  /\ UNCHANGED <<disk, configured, activate, staged, previous, before>>

\* The old target is read, and a new link renamed over "current".
Switch ==
  /\ Goes("switch", "truncate")
  /\ previous' = current
  /\ current' = target
  /\ before' = IF current = target THEN before ELSE current
  /\ UNCHANGED <<ver, rec, recPrev, configured, target, activate, staged>>

\* os.WriteFile truncates rollback.json, then fills it.
TruncateRecord ==
  /\ Goes("truncate", "record")
  /\ rec' = "corrupt"
  /\ recPrev' = NoVersion
  /\ UNCHANGED <<ver, current, configured, request, before>>

WriteRecord ==
  /\ pc = "record"
  /\ Ends
  /\ rec' = "ok"
  /\ recPrev' = previous
  /\ UNCHANGED <<ver, current, configured, before>>

----------------------------------------------------------------------------
(* RollbackLatest *)

Rollback ==
  /\ Goes("idle", "rollback")
  /\ configured
  /\ rec = "ok"
  /\ previous' = recPrev
  /\ UNCHANGED <<disk, configured, target, activate, staged, before>>

\* Deliberate variant: the old link is removed before the new one is made.
RollbackUnlink ==
  /\ pc = "rollback"
  /\ current' = NoVersion
  /\ UNCHANGED <<pc, ver, rec, recPrev, configured, request, before>>

\* The link is pointed back without a look at the target, or removed if there
\* was none.
RollbackSwitch ==
  /\ Goes("rollback", "forget")
  /\ previous # NoVersion \/ current # NoVersion
  /\ current' = previous
  /\ before' = NoVersion
  /\ UNCHANGED <<ver, rec, recPrev, configured, request>>

\* Removing a link that does not exist is an error.
RollbackNothing ==
  /\ pc = "rollback"
  /\ previous = NoVersion /\ current = NoVersion
  /\ Ends
  /\ UNCHANGED <<disk, configured, before>>

\* rollback.json is removed; an error of that call is ignored.
Forget ==
  /\ pc = "forget"
  /\ Ends
  /\ \/ rec' = "none" /\ recPrev' = NoVersion
     \/ Faults /\ UNCHANGED <<rec, recPrev>>
  /\ UNCHANGED <<ver, current, configured, before>>

----------------------------------------------------------------------------
(* DeleteVersion and DeleteModel *)

\* Deliberate variants: a check of DeleteVersion is missing.
ProtectedActiveOnly(v) == current = v
ProtectedTargetOnly(v) == rec = "corrupt" \/ (rec = "ok" /\ recPrev = v)

\* What DeleteVersion refuses: the active version, the rollback target, and
\* everything while rollback.json cannot be parsed.
Protected(v) ==
  \/ current = v
  \/ rec = "corrupt"
  \/ rec = "ok" /\ recPrev = v

DeleteVersion(v) ==
  /\ Goes("idle", "remove")
  /\ ver[v] # "absent"
  /\ ~Protected(v)
  /\ target' = v
  /\ UNCHANGED <<disk, configured, activate, staged, previous, before>>

\* os.RemoveAll removes the files and at last the directory.
RemoveFile(v) ==
  /\ ver[v] = "good"
  /\ ver' = [ver EXCEPT ![v] = "stub"]

RemoveDir(v) ==
  /\ ver[v] # "absent"
  /\ ver' = [ver EXCEPT ![v] = "absent"]

RemoveVersion ==
  /\ pc = "remove"
  /\ \/ RemoveFile(target) /\ UNCHANGED <<pc, request>>
     \/ RemoveDir(target) /\ Ends
  /\ UNCHANGED <<current, rec, recPrev, configured, before>>

\* Only a model without a configuration entry and without an active version.
DeleteModel ==
  /\ Goes("idle", "removeAll")
  /\ ~configured
  /\ current = NoVersion
  /\ \/ rec # "none"
     \/ \E v \in Version : ver[v] # "absent"
  /\ UNCHANGED <<disk, configured, request, before>>

\* os.RemoveAll of the model's directory, in the order of its entries.
RemoveModel ==
  /\ pc = "removeAll"
  /\ \/ /\ \E v \in Version : RemoveFile(v) \/ RemoveDir(v)
        /\ UNCHANGED <<rec, recPrev, pc, request>>
     \/ /\ rec # "none"
        /\ rec' = "none" /\ recPrev' = NoVersion
        /\ UNCHANGED <<ver, pc, request>>
     \/ /\ \A v \in Version : ver[v] = "absent"
        /\ rec = "none"
        /\ Ends
        /\ UNCHANGED <<ver, rec, recPrev>>
  /\ UNCHANGED <<current, configured, before>>

----------------------------------------------------------------------------
Next ==
  \/ Fails \/ Restart
  \/ \E v \in Version, act \in BOOLEAN : Install(v, act)
  \/ \E v \in Version : Activate(v) \/ DeleteVersion(v)
  \/ Copy \/ Verify \/ VerifyFails \/ InstallRename
  \/ Switch \/ TruncateRecord \/ WriteRecord
  \/ Rollback \/ RollbackSwitch \/ RollbackNothing \/ Forget
  \/ RemoveVersion \/ DeleteModel \/ RemoveModel

Spec == Init /\ [][Next]_vars

----------------------------------------------------------------------------
(* Properties *)

\* Types of the store's state; no file that failed its checksum is ever a
\* version.
TypeOK ==
  /\ ver \in [Version -> VersionState]
  /\ current \in Version \union {NoVersion}
  /\ rec \in {"none", "corrupt", "ok"}
  /\ recPrev \in Version \union {NoVersion}
  /\ configured \in BOOLEAN
  /\ pc \in PC
  /\ target \in Version \union {NoVersion}
  /\ activate \in BOOLEAN
  /\ staged \in Content
  /\ previous \in Version \union {NoVersion}
  /\ before \in Version \union {NoVersion}
  /\ pc \notin {"idle", "rollback", "forget", "removeAll"} => target \in Version
  /\ pc = "install" => staged = "good"

\* The active version can always be loaded: "current" never points to a
\* version that is missing or has lost its model file, whatever failed and
\* wherever the daemon was killed.
CurrentComplete ==
  current # NoVersion => ver[current] = "good"

\* A rollback that the record allows leads to a version that is still there,
\* although RollbackActivation does not look at its target.
RollbackTargetComplete ==
  rec = "ok" /\ recPrev # NoVersion => ver[recPrev] = "good"

\* A model without an active version can be deleted as a whole: no readable
\* record protects one of its versions.
InactiveHasNoTarget ==
  current = NoVersion /\ rec = "ok" => recPrev = NoVersion

\* What a request in progress relies on; with the three invariants above it is
\* inductive.
RequestInv ==
  /\ pc = "switch" => ver[target] = "good"
  /\ pc \in {"truncate", "record"} =>
       current = target /\ (previous # NoVersion => ver[previous] = "good")
  /\ pc = "record" => rec = "corrupt"
  /\ pc = "rollback" => rec = "ok" /\ previous = recPrev
  /\ pc = "forget" => rec = "ok" /\ current = recPrev
  /\ pc = "remove" => target # current /\ rec # "corrupt" /\ (rec = "ok" => recPrev # target)
  /\ pc = "removeAll" => current = NoVersion
  /\ rec = "corrupt" => current # NoVersion

\* docs/model-catalog.md: activation "preserves the previous version for
\* rollback".  Between requests the record of an active version that replaced
\* another one leads back to that one.
PreviousPreserved ==
  pc = "idle" /\ current # NoVersion /\ before # NoVersion => rec = "ok" /\ recPrev = before
====
