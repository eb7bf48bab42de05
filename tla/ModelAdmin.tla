---- MODULE ModelAdmin ----
(***************************************************************************)
(* Administration of a model while the daemon serves it: the handlers of   *)
(* "models" requests (internal/daemon/server.go), composed with the store  *)
(* they change, with as much of the request queue as isIdle sees, and with *)
(* the provider's session for this model, which is loaded from the file    *)
(* the configuration names (model_path) or else from "current".            *)
(*                                                                         *)
(* s.modelMu serialises the handlers but not the worker: isIdle is asked   *)
(* once, by a catalog request even before it has the mutex, and what it    *)
(* said is old when the link is switched.                                  *)
(***************************************************************************)
EXTENDS ModelStore

CONSTANTS
  Client,   \* connections that send "models" requests, one after the other
  Job,      \* generations, requested over and over on other connections
  Nobody,   \* modelMu or p.mu is free, a connection has no request
  Elsewhere \* a model file outside the store

ASSUME NobodyAssumption == Nobody \notin Client \union Job
ASSUME ElsewhereAssumption == Elsewhere \notin Version \union {NoVersion}

VARIABLES
  path,     \* the model's model_path: none (or "current"), the file of a
            \* version, or another file (fixed while a daemon lives)
  op,       \* the request each client waits for
  step,     \* where its handler is
  modelMu,  \* the client whose handler holds s.modelMu
  work,     \* where each generation is in the queue
  gen,      \* where its goroutines are in the provider
  mu,       \* the generation whose run() holds p.mu
  session,  \* the version or the file the provider's session has loaded
  unloaded  \* history: a request failed after its switch, and the session is older

queueVars == <<work, gen, mu>>
adminVars == <<path, op, step, modelMu, work, gen, mu, session, unloaded>>

Catalog == {"download", "update"}
Op ==
  [kind : {"install"} \union Catalog, version : Version, activate : BOOLEAN]
    \union [kind : {"activate", "delete"}, version : Version, activate : {FALSE}]
    \union [kind : {"rollback", "deleteModel"}, version : {NoVersion}, activate : {FALSE}]

\* A handler reads a request, waits for modelMu, decides, has the store work,
\* and after a switch closes the provider's session.
Step == {"read", "wait", "locked", "store", "reload"}
Work == {"new", "queued", "taken", "active"}
Gen == {"none", "generate", "wait", "run"}

\* Only a model that is configured has a model_path.
Path == IF configured THEN Version \union {NoVersion, Elsewhere} ELSE {NoVersion}

AdminInit ==
  /\ Init
  /\ path \in Path
  /\ op = [c \in Client |-> Nobody]
  /\ step = [c \in Client |-> "read"]
  /\ modelMu = Nobody
  /\ work = [j \in Job |-> "new"]
  /\ gen = [j \in Job |-> "none"]
  /\ mu = Nobody
  /\ session = NoVersion
  /\ unloaded = FALSE

Moves(c, from, to) == step[c] = from /\ step' = [step EXCEPT ![c] = to]

\* The handler answers and releases modelMu.
Answers(c, from) ==
  /\ Moves(c, from, "read")
  /\ op' = [op EXCEPT ![c] = Nobody]
  /\ modelMu' = Nobody

----------------------------------------------------------------------------
(* The queue and the provider *)

\* isIdle: a job that is between the two maps is not seen.
IsIdle == \A j \in Job : work[j] \notin {"queued", "active"}

Enqueue(j) ==
  /\ work[j] = "new" /\ gen[j] = "none"
  /\ work' = [work EXCEPT ![j] = "queued"]
  /\ UNCHANGED <<vars, path, op, step, modelMu, gen, mu, session, unloaded>>

\* The worker, one job at a time: removeQueued, ...
Take(j) ==
  /\ work[j] = "queued"
  /\ \A k \in Job : work[k] \notin {"taken", "active"}
  /\ work' = [work EXCEPT ![j] = "taken"]
  /\ UNCHANGED <<vars, path, op, step, modelMu, gen, mu, session, unloaded>>

\* ... then setActive and the call of Generate, ...
SetActive(j) ==
  /\ work[j] = "taken"
  /\ work' = [work EXCEPT ![j] = "active"]
  /\ gen' = [gen EXCEPT ![j] = "generate"]
  /\ UNCHANGED <<vars, path, op, step, modelMu, mu, session, unloaded>>

\* ... or nothing, if the job was cancelled; a queue that is full or a deadline
\* takes it back earlier.
Drop(j) ==
  /\ work[j] \in {"queued", "taken"}
  /\ work' = [work EXCEPT ![j] = "new"]
  /\ UNCHANGED <<vars, path, op, step, modelMu, gen, mu, session, unloaded>>

\* clearActive, when the events have ended or the context has: then run may
\* still hold p.mu.
ClearActive(j) ==
  /\ work[j] = "active"
  /\ gen[j] # "generate"
  /\ work' = [work EXCEPT ![j] = "new"]
  /\ UNCHANGED <<vars, path, op, step, modelMu, gen, mu, session, unloaded>>

NoSession == session' = NoVersion /\ unloaded' = FALSE

\* ResolveModelPath: a model_path is used as it is, and only a model without
\* one is loaded from what "current" points to now.
Loadable == IF path = NoVersion THEN current ELSE path

\* startSession: a model that is not configured has no entry in the registry,
\* and without the file the runner does not start.
Load ==
  /\ configured
  /\ Loadable \in Version => ver[Loadable] = "good"
  /\ Loadable # NoVersion
  /\ session' = Loadable
  /\ unloaded' = FALSE

\* sessionFor uses the session there is, whatever it has loaded.
SessionFor ==
  \/ session # NoVersion /\ UNCHANGED <<session, unloaded>>
  \/ session = NoVersion /\ Load

\* Generate's critical section, and its failure.
Prepare(j) ==
  /\ gen[j] = "generate"
  /\ mu = Nobody
  /\ \/ gen' = [gen EXCEPT ![j] = "wait"] /\ SessionFor
     \/ gen' = [gen EXCEPT ![j] = "none"] /\ session = NoVersion /\ NoSession
  /\ UNCHANGED <<vars, path, op, step, modelMu, work, mu>>

\* run takes p.mu again and keeps it for the generation.
Run(j) ==
  /\ gen[j] = "wait"
  /\ mu = Nobody
  /\ \/ gen' = [gen EXCEPT ![j] = "run"] /\ mu' = j /\ SessionFor
     \/ gen' = [gen EXCEPT ![j] = "none"] /\ mu' = mu /\ session = NoVersion /\ NoSession
  /\ UNCHANGED <<vars, path, op, step, modelMu, work>>

\* run returns; it may have discarded the session.
Finish(j) ==
  /\ gen[j] = "run"
  /\ gen' = [gen EXCEPT ![j] = "none"]
  /\ mu' = Nobody
  /\ NoSession \/ UNCHANGED <<session, unloaded>>
  /\ UNCHANGED <<vars, path, op, step, modelMu, work>>

\* A generation of another model, or the cooldown, replaces the session; the
\* cooldown brings the resident model back.
OtherModel ==
  /\ mu = Nobody
  /\ session # NoVersion /\ NoSession
  /\ UNCHANGED <<vars, path, op, step, modelMu, queueVars>>

Cooldown ==
  /\ mu = Nobody
  /\ session = NoVersion /\ Load
  /\ UNCHANGED <<vars, path, op, step, modelMu, queueVars>>

----------------------------------------------------------------------------
(* The handlers *)

\* A valid request arrives.  installCatalogArtifact looks at the configuration
\* and at isIdle before it has the mutex; a request refused there changes
\* nothing.
Arrive(c, r) ==
  /\ Moves(c, "read", "wait")
  /\ r.kind \in Catalog /\ r.activate => configured /\ IsIdle
  /\ op' = [op EXCEPT ![c] = r]
  /\ UNCHANGED <<vars, path, modelMu, queueVars, session, unloaded>>

\* Deliberate variant: modelMu is not waited for.
LockModelShared(c) ==
  /\ Moves(c, "wait", "locked")
  /\ modelMu' = c
  /\ UNCHANGED <<vars, path, op, queueVars, session, unloaded>>

LockModel(c) ==
  /\ Moves(c, "wait", "locked")
  /\ modelMu = Nobody
  /\ modelMu' = c
  /\ UNCHANGED <<vars, path, op, queueVars, session, unloaded>>

\* ListVersions finds something.
Installed == \E v \in Version : ver[v] # "absent"

\* What the handlers check under the mutex before the store's own checks.
Admits(r) ==
  CASE r.kind = "install"  -> configured /\ (r.activate => IsIdle)
    [] r.kind = "download" -> ver[r.version] = "absent"
    [] r.kind = "update"   -> IF ver[r.version] = "absent"
                              THEN Installed
                              ELSE r.activate /\ current # r.version
    [] r.kind \in {"activate", "rollback"} -> configured /\ IsIdle
    [] r.kind = "delete"      -> TRUE
    [] r.kind = "deleteModel" -> ~configured

\* The store's own checks.
Possible(r) ==
  CASE r.kind \in {"install", "download"} -> ver[r.version] = "absent"
    [] r.kind = "update"   -> ver[r.version] # "stub"
    [] r.kind = "activate" -> ver[r.version] = "good"
    [] r.kind = "rollback" -> rec = "ok"
    [] r.kind = "delete"   -> ver[r.version] # "absent" /\ ~Protected(r.version)
    [] r.kind = "deleteModel" -> current = NoVersion /\ (rec # "none" \/ Installed)

\* The store's method is called; an update whose revision is there is only
\* activated.
Begin(c) ==
  /\ Moves(c, "locked", "store")
  /\ Admits(op[c])
  /\ LET r == op[c] IN
     \/ r.kind \in {"install"} \union Catalog /\ Install(r.version, r.activate)
     \/ r.kind \in {"update", "activate"} /\ Activate(r.version)
     \/ r.kind = "rollback" /\ Rollback
     \/ r.kind = "delete" /\ DeleteVersion(r.version)
     \/ r.kind = "deleteModel" /\ DeleteModel
  /\ UNCHANGED <<op, modelMu, path, queueVars, session, unloaded>>

\* The request is refused, there is nothing to do for it, or its download
\* fails.
Refuse(c) ==
  /\ Answers(c, "locked")
  /\ \/ ~Admits(op[c]) \/ ~Possible(op[c])
     \/ op[c].kind \in Catalog /\ ver[op[c].version] = "absent"
  /\ UNCHANGED <<vars, path, queueVars, session, unloaded>>

\* The store's system calls, ...
StoreWorks(c) ==
  /\ Moves(c, "store", "store")
  /\ \/ Copy \/ Verify \/ InstallRename \/ Switch \/ TruncateRecord
     \/ RollbackSwitch \/ RemoveVersion \/ RemoveModel
  /\ pc' # "idle"
  /\ UNCHANGED <<op, modelMu, path, queueVars, session, unloaded>>

\* ... the last one of an installation or of a deletion, ...
StoreDone(c) ==
  /\ InstallRename \/ RemoveVersion \/ RemoveModel
  /\ pc' = "idle"
  /\ Answers(c, "store")
  /\ UNCHANGED <<path, queueVars, session, unloaded>>

\* Deliberate variants: a rollback does not reload, and a reload happens after
\* modelMu is released.
StoreSwitchedQuietly(c) ==
  /\ \/ WriteRecord /\ Moves(c, "store", "reload") /\ UNCHANGED <<op, modelMu>>
     \/ Forget /\ Answers(c, "store")
  /\ UNCHANGED <<path, queueVars, session, unloaded>>

StoreSwitchedUnlocked(c) ==
  /\ Moves(c, "store", "reload")
  /\ WriteRecord \/ Forget
  /\ modelMu' = Nobody
  /\ UNCHANGED <<op, path, queueVars, session, unloaded>>

\* ... the last one of an activation or of a rollback, ...
StoreSwitched(c) ==
  /\ Moves(c, "store", "reload")
  /\ WriteRecord \/ Forget
  /\ UNCHANGED <<op, modelMu, path, queueVars, session, unloaded>>

\* ... and one that fails: the handler answers with an error and does not
\* reload, even if the link has been switched.
StoreFails(c) ==
  /\ Fails \/ VerifyFails \/ RollbackNothing
  /\ Answers(c, "store")
  /\ unloaded' =
       (unloaded \/ (pc \in {"truncate", "record"} /\ session \notin {NoVersion, Loadable}))
  /\ UNCHANGED <<path, queueVars, session>>

\* Deliberate variant: Close does not wait for p.mu.
ReloadAtOnce(c) ==
  /\ Answers(c, "reload")
  /\ NoSession
  /\ UNCHANGED <<vars, path, queueVars>>

\* reloadProvider: Close waits for p.mu without a deadline, and modelMu is held
\* meanwhile.
Reload(c) ==
  /\ mu = Nobody
  /\ Answers(c, "reload")
  /\ NoSession
  /\ UNCHANGED <<vars, path, queueVars>>

\* The daemon is killed and started again.
AdminRestart ==
  /\ Restart
  /\ path' \in Path'
  /\ op' = [c \in Client |-> Nobody]
  /\ step' = [c \in Client |-> "read"]
  /\ modelMu' = Nobody
  /\ work' = [j \in Job |-> "new"]
  /\ gen' = [j \in Job |-> "none"]
  /\ mu' = Nobody
  /\ NoSession

----------------------------------------------------------------------------
HandlerStep(c) ==
  Begin(c) \/ Refuse(c) \/ StoreWorks(c) \/ StoreDone(c) \/ StoreSwitched(c) \/ StoreFails(c)

JobStep(j) ==
  Take(j) \/ SetActive(j) \/ Drop(j) \/ ClearActive(j) \/ Prepare(j) \/ Run(j) \/ Finish(j)

AdminNext ==
  \/ \E c \in Client, r \in Op : Arrive(c, r)
  \/ \E c \in Client : LockModel(c) \/ HandlerStep(c) \/ Reload(c)
  \/ \E j \in Job : Enqueue(j) \/ JobStep(j)
  \/ OtherModel \/ Cooldown
  \/ AdminRestart

AdminSpec == AdminInit /\ [][AdminNext]_<<vars, adminVars>>

----------------------------------------------------------------------------
(* Properties *)

\* Types of the handlers' state; modelMu is held by the handler that is past
\* it, the store works for that one, p.mu is held by the run that is past it,
\* and the provider has nothing to do with a job that waits.
AdminTypeOK ==
  /\ path \in Path
  /\ op \in [Client -> Op \union {Nobody}]
  /\ step \in [Client -> Step]
  /\ modelMu \in Client \union {Nobody}
  /\ work \in [Job -> Work]
  /\ gen \in [Job -> Gen]
  /\ mu \in Job \union {Nobody}
  /\ session \in Version \union {NoVersion, Elsewhere}
  /\ unloaded \in BOOLEAN
  /\ \A c \in Client : step[c] \in {"locked", "store", "reload"} <=> modelMu = c
  /\ \A c \in Client : step[c] # "read" => op[c] \in Op
  /\ pc # "idle" <=> \E c \in Client : step[c] = "store"
  /\ \A j \in Job : gen[j] = "run" <=> mu = j
  /\ \A j \in Job : work[j] \in {"queued", "taken"} => gen[j] = "none"

\* The session is one of the version that has been switched from or to; once
\* the handler has answered, of the active one.  A generation that starts
\* after "activated", "rolled_back" or "installed" was written runs the version
\* the answer names, although generations and the cooldown may load the model
\* at any moment of the switch.  There are two exceptions: a request that
\* failed after the switch, and a model with a model_path: its handlers answer
\* and reload in the same way, and its session is always one of that file.
SessionIsCurrent ==
  session # NoVersion /\ ~unloaded =>
    \/ session = Loadable
    \/ path = NoVersion /\ pc \in {"truncate", "record", "forget"}
    \/ path = NoVersion /\ \E c \in Client : step[c] = "reload"

\* No file is deleted while a session that was loaded from "current" uses it: a
\* version that was switched from is protected by the rollback record or by
\* modelMu until that session is closed.  (A model_path that leads into the
\* store protects nothing: its version is deleted under a loaded session.)
SessionOnDisk ==
  path = NoVersion /\ session # NoVersion /\ ~unloaded => ver[session] = "good"

\* A generation runs on the session it has got: a reload does not take it away
\* although the idle check that admitted the switch was older.
RunHasSession == mu # Nobody => session # NoVersion
====
