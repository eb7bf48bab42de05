---- MODULE ModelAdmin_proofs ----
(***************************************************************************)
(* Theorems about ModelAdmin, for any number of administrators,            *)
(* generations and versions: the handlers use the store as ModelStore      *)
(* allows, so that its theorems hold for the composition, and the session  *)
(* the provider has loaded follows the active version, unless the model is *)
(* configured with a file of its own.                                      *)
(***************************************************************************)
EXTENDS ModelAdmin, ModelStore_proofs

\* The store's steps that a handler takes, by what they do to pc.
LEMMA StorePC ==
  /\ \A v \in Version, act \in BOOLEAN : Install(v, act) => pc = "idle" /\ pc' = "copy"
  /\ \A v \in Version : Activate(v) => pc = "idle" /\ pc' = "switch"
  /\ Rollback => pc = "idle" /\ pc' = "rollback"
  /\ \A v \in Version : DeleteVersion(v) => pc = "idle" /\ pc' = "remove"
  /\ DeleteModel => pc = "idle" /\ pc' = "removeAll"
  /\ Fails \/ VerifyFails \/ RollbackNothing \/ WriteRecord \/ Forget =>
       pc # "idle" /\ pc' = "idle"
BY DEF Install, Activate, Rollback, DeleteVersion, DeleteModel, Goes, Fails, VerifyFails,
       RollbackNothing, WriteRecord, Forget, Ends

\* Only a restart changes the configuration.
LEMMA StoreKeepsConfigured ==
  /\ \A v \in Version, act \in BOOLEAN : Install(v, act) => UNCHANGED configured
  /\ \A v \in Version : Activate(v) \/ DeleteVersion(v) => UNCHANGED configured
  /\ Rollback \/ DeleteModel => UNCHANGED configured
  /\ Copy \/ Verify \/ InstallRename \/ Switch \/ TruncateRecord \/ WriteRecord =>
       UNCHANGED configured
  /\ RollbackSwitch \/ Forget \/ RemoveVersion \/ RemoveModel => UNCHANGED configured
  /\ Fails \/ VerifyFails \/ RollbackNothing => UNCHANGED configured
BY DEF Install, Activate, DeleteVersion, Rollback, DeleteModel, Copy, Verify, InstallRename,
       Switch, TruncateRecord, WriteRecord, RollbackSwitch, Forget, RemoveVersion, RemoveModel,
       RemoveFile, RemoveDir, Fails, VerifyFails, RollbackNothing

\* A request is about a version if its kind says so.
LEMMA OpTypes ==
  ASSUME NEW r \in Op
  PROVE  /\ r.activate \in BOOLEAN
         /\ r.kind \in {"install", "download", "update", "activate", "delete"} =>
              r.version \in Version
BY DEF Op, Catalog

\* Types and mutual exclusion, given the store's types.
LEMMA AdminTypeInit == AdminInit => AdminTypeOK
<1> SUFFICES ASSUME AdminInit PROVE AdminTypeOK
  OBVIOUS
<1> USE DEF AdminInit
<1>1. /\ op \in [Client -> Op \union {Nobody}] /\ step \in [Client -> Step]
      /\ work \in [Job -> Work] /\ gen \in [Job -> Gen]
  BY DEF Step, Work, Gen
<1>2. \A c \in Client : step[c] = "read" /\ modelMu # c
  BY NobodyAssumption
<1>3. \A j \in Job : gen[j] = "none" /\ work[j] = "new" /\ mu # j
  BY NobodyAssumption
<1>4. pc = "idle"
  BY DEF Init
<1>5. QED
  BY <1>1, <1>2, <1>3, <1>4 DEF AdminTypeOK

\* A handler's use of the store leaves the configuration alone.
LEMMA HandlerKeepsPath ==
  ASSUME path \in Path, NEW c \in Client,
         StoreWorks(c) \/ StoreDone(c) \/ StoreSwitched(c) \/ StoreFails(c)
  PROVE  path' \in Path' /\ UNCHANGED path
<1>1. UNCHANGED <<path, configured>>
  BY StoreKeepsConfigured DEF StoreWorks, StoreDone, StoreSwitched, StoreFails
<1> QED
  BY <1>1 DEF Path

\* Every step of a handler, a job or the provider preserves them.
LEMMA AdminTypeStep ==
  ASSUME TypeOK, AdminTypeOK, [AdminNext]_<<vars, adminVars>>
  PROVE  AdminTypeOK'
<1> USE NobodyAssumption, NoVersionAssumption DEF AdminTypeOK, Step, Work, Gen, queueVars, Path
<1>0. Loadable \in Version \union {NoVersion, Elsewhere}
  BY DEF TypeOK, Loadable
<1>1. ASSUME NEW c \in Client, NEW r \in Op, Arrive(c, r) PROVE AdminTypeOK'
  BY <1>1 DEF Arrive, Moves, vars
<1>2. ASSUME NEW c \in Client, LockModel(c) PROVE AdminTypeOK'
  BY <1>2 DEF LockModel, Moves, vars
<1>3. ASSUME NEW c \in Client, Begin(c) PROVE AdminTypeOK'
  <2>1. op[c] \in Op /\ step[c] = "locked"
    BY <1>3 DEF Begin, Moves
  <2>2. pc = "idle" /\ pc' # "idle"
    BY <1>3, <2>1, OpTypes, StorePC DEF Begin, Catalog
  <2>3. UNCHANGED <<path, configured>>
    BY <1>3, <2>1, OpTypes, StoreKeepsConfigured DEF Begin, Catalog
  <2>4. QED
    BY <1>3, <2>1, <2>2, <2>3 DEF Begin, Moves
<1>4. ASSUME NEW c \in Client, Refuse(c) PROVE AdminTypeOK'
  BY <1>4 DEF Refuse, Answers, Moves, vars
<1>5. ASSUME NEW c \in Client, StoreWorks(c) PROVE AdminTypeOK'
  <2>1. path' \in Path'
    BY <1>5, HandlerKeepsPath
  <2> QED
    BY <1>5, <2>1 DEF StoreWorks, Moves
<1>6. ASSUME NEW c \in Client, StoreDone(c) PROVE AdminTypeOK'
  <2>1. path' \in Path'
    BY <1>6, HandlerKeepsPath
  <2> QED
    BY <1>6, <2>1 DEF StoreDone, Answers, Moves
<1>7. ASSUME NEW c \in Client, StoreSwitched(c) PROVE AdminTypeOK'
  <2>1. path' \in Path'
    BY <1>7, HandlerKeepsPath
  <2> QED
    BY <1>7, <2>1, StorePC DEF StoreSwitched, Moves
<1>8. ASSUME NEW c \in Client, StoreFails(c) PROVE AdminTypeOK'
  <2>1. path' \in Path'
    BY <1>8, HandlerKeepsPath
  <2> QED
    BY <1>8, <2>1, StorePC DEF StoreFails, Answers, Moves
<1>9. ASSUME NEW c \in Client, Reload(c) PROVE AdminTypeOK'
  BY <1>9 DEF Reload, Answers, Moves, NoSession, vars
<1>10. ASSUME NEW j \in Job, Enqueue(j) \/ Take(j) \/ Drop(j) \/ ClearActive(j)
       PROVE  AdminTypeOK'
  <2>1. UNCHANGED <<configured, path, pc, op, step, modelMu, gen, mu, session, unloaded>>
    BY <1>10 DEF Enqueue, Take, Drop, ClearActive, vars
  <2>2. /\ work' \in [Job -> Work]
        /\ \A k \in Job : work'[k] \in {"queued", "taken"} => gen[k] = "none"
    BY <1>10 DEF Enqueue, Take, Drop, ClearActive
  <2>3. QED
    BY <2>1, <2>2
<1>11. ASSUME NEW j \in Job, SetActive(j) PROVE AdminTypeOK'
  <2>1. UNCHANGED <<configured, path, pc, op, step, modelMu, mu, session, unloaded>>
    BY <1>11 DEF SetActive, vars
  <2>2. /\ work' \in [Job -> Work] /\ gen' \in [Job -> Gen]
        /\ \A k \in Job : gen'[k] = "run" <=> mu = k
        /\ \A k \in Job : work'[k] \in {"queued", "taken"} => gen'[k] = "none"
    BY <1>11 DEF SetActive
  <2>3. QED
    BY <2>1, <2>2
<1>12. ASSUME NEW j \in Job, Prepare(j) \/ Run(j) \/ Finish(j) PROVE AdminTypeOK'
  <2>1. UNCHANGED <<configured, path, pc, op, step, modelMu, work>>
    BY <1>12 DEF Prepare, Run, Finish, vars
  <2>2. session' \in Version \union {NoVersion, Elsewhere} /\ unloaded' \in BOOLEAN
    BY <1>0, <1>12 DEF Prepare, Run, Finish, SessionFor, NoSession, Load
  <2>3. CASE Prepare(j)
    BY <2>1, <2>2, <2>3 DEF Prepare
  <2>4. CASE Run(j)
    BY <2>1, <2>2, <2>4 DEF Run
  <2>5. CASE Finish(j)
    BY <2>1, <2>2, <2>5 DEF Finish
  <2>6. QED
    BY <1>12, <2>3, <2>4, <2>5
<1>13. CASE OtherModel \/ Cooldown
  <2>1. UNCHANGED <<vars, path, op, step, modelMu, queueVars>>
    BY <1>13 DEF OtherModel, Cooldown
  <2>2. session' \in Version \union {NoVersion, Elsewhere} /\ unloaded' \in BOOLEAN
    BY <1>0, <1>13 DEF OtherModel, Cooldown, NoSession, Load
  <2> QED
    BY <2>1, <2>2 DEF vars, Path
<1>14. CASE AdminRestart
  BY <1>14 DEF AdminRestart, Restart, Ends, NoSession
<1>15. CASE UNCHANGED <<vars, adminVars>>
  BY <1>15 DEF vars, adminVars
<1>16. QED
  BY <1>1, <1>2, <1>3, <1>4, <1>5, <1>6, <1>7, <1>8, <1>9, <1>10, <1>11, <1>12, <1>13,
     <1>14, <1>15
  DEF AdminNext, HandlerStep, JobStep

\* A step of the daemon is a step of the store or leaves the store alone.
LEMMA AdminStoreStep ==
  ASSUME AdminTypeOK, [AdminNext]_<<vars, adminVars>>
  PROVE  [Next]_vars
<1>1. ASSUME NEW c \in Client, Begin(c) PROVE Next
  <2>1. op[c] \in Op
    BY <1>1 DEF Begin, Moves, AdminTypeOK
  <2>2. QED
    BY <1>1, <2>1, OpTypes DEF Begin, Next, Catalog
<1>2. ASSUME NEW c \in Client, StoreWorks(c) \/ StoreDone(c) \/ StoreSwitched(c) \/ StoreFails(c)
      PROVE  Next
  BY <1>2 DEF StoreWorks, StoreDone, StoreSwitched, StoreFails, Next
<1>3. ASSUME NEW c \in Client, Refuse(c) \/ LockModel(c) \/ Reload(c) PROVE UNCHANGED vars
  BY <1>3 DEF Refuse, LockModel, Reload
<1>4. ASSUME NEW c \in Client, NEW r \in Op, Arrive(c, r) PROVE UNCHANGED vars
  BY <1>4 DEF Arrive
<1>5. ASSUME NEW j \in Job, Enqueue(j) \/ JobStep(j) PROVE UNCHANGED vars
  BY <1>5 DEF Enqueue, JobStep, Take, SetActive, Drop, ClearActive, Prepare, Run, Finish
<1>6. CASE OtherModel \/ Cooldown
  BY <1>6 DEF OtherModel, Cooldown
<1>7. CASE AdminRestart
  BY <1>7 DEF AdminRestart, Next
<1>8. QED
  BY <1>1, <1>2, <1>3, <1>4, <1>5, <1>6, <1>7 DEF AdminNext, HandlerStep

\* The inductive invariant of the composition: the store's, the handlers' types
\* and mutual exclusion, and the two facts about the session, of which the second
\* (its files exist) needs the first (it is the active version's unless a
\* switch is under way, which modelMu protects from deletions).  Of a model with
\* a model_path the first says that its session is of that file.
AdminInv ==
  /\ StoreInv
  /\ AdminTypeOK
  /\ SessionIsCurrent
  /\ SessionOnDisk
  /\ RunHasSession

\* AdminInv holds at the start, ...
LEMMA AdminInvInit == AdminInit => AdminInv
<1> SUFFICES ASSUME AdminInit PROVE AdminInv
  OBVIOUS
<1>1. StoreInv
  BY StoreInvInit DEF AdminInit
<1>2. SessionIsCurrent /\ SessionOnDisk /\ RunHasSession
  BY DEF AdminInit, SessionIsCurrent, SessionOnDisk, RunHasSession
<1>3. QED
  BY <1>1, <1>2, AdminTypeInit DEF AdminInv

\* While the store works for a request, no handler waits for the reload.
LEMMA StoreExclusive ==
  ASSUME AdminTypeOK, NEW c \in Client, step[c] = "store"
  PROVE  \A d \in Client : step[d] # "reload"
BY NobodyAssumption DEF AdminTypeOK

\* A model with a model_path has the session of that file, whatever is done to
\* the store.
LEMMA PathSession ==
  ASSUME SessionIsCurrent, UNCHANGED <<path, session>>, path # NoVersion, unloaded => unloaded'
  PROVE  SessionIsCurrent' /\ SessionOnDisk'
BY DEF SessionIsCurrent, SessionOnDisk, Loadable

\* ... the store's steps preserve what it says of the session, ...
LEMMA SessionStoreStep ==
  ASSUME AdminInv, NEW c \in Client,
         StoreWorks(c) \/ StoreDone(c) \/ StoreSwitched(c) \/ StoreFails(c)
  PROVE  SessionIsCurrent' /\ SessionOnDisk'
<1>0. UNCHANGED <<path, session>> /\ (unloaded => unloaded')
  <2>1. UNCHANGED <<path, session>>
    BY DEF StoreWorks, StoreDone, StoreSwitched, StoreFails
  <2>2. CASE StoreWorks(c) \/ StoreDone(c) \/ StoreSwitched(c)
    BY <2>1, <2>2 DEF StoreWorks, StoreDone, StoreSwitched
  <2>3. CASE StoreFails(c)
    BY <2>1, <2>3 DEF StoreFails
  <2> QED
    BY <2>2, <2>3
<1> SUFFICES ASSUME path = NoVersion PROVE SessionIsCurrent' /\ SessionOnDisk'
  BY <1>0, PathSession DEF AdminInv
<1>00. path' = NoVersion /\ Loadable = current /\ Loadable' = current'
  BY <1>0 DEF Loadable
<1> USE NoVersionAssumption, <1>00 DEF AdminInv, SessionIsCurrent, SessionOnDisk
<1>1. step[c] = "store"
  BY DEF StoreWorks, StoreDone, StoreSwitched, StoreFails, Answers, Moves
<1>2. \A d \in Client : step[d] # "reload"
  BY <1>1, StoreExclusive
<1>3. UNCHANGED session
  BY DEF StoreWorks, StoreDone, StoreSwitched, StoreFails
<1>4. session # NoVersion /\ ~unloaded /\ pc \notin {"truncate", "record", "forget"} =>
        session = current
  BY <1>2
<1>5. ver \in [Version -> VersionState] /\ current \in Version \union {NoVersion}
  BY DEF StoreInv, TypeOK
<1> HIDE DEF SessionIsCurrent, SessionOnDisk
<1>6. CASE StoreWorks(c) /\ (Copy \/ Verify \/ TruncateRecord)
  BY <1>2, <1>6 DEF StoreWorks, Moves, Copy, Verify, TruncateRecord, Goes, disk,
     SessionIsCurrent, SessionOnDisk
<1>7. CASE StoreWorks(c) /\ (Switch \/ RollbackSwitch)
  BY <1>3, <1>7 DEF StoreWorks, Switch, RollbackSwitch, Goes, SessionIsCurrent, SessionOnDisk
<1>8. CASE (StoreWorks(c) \/ StoreDone(c)) /\ InstallRename
  <2>1. UNCHANGED <<current, session, unloaded>> /\ pc = "install"
    BY <1>8 DEF StoreWorks, StoreDone, InstallRename
  <2>2. ver' = [ver EXCEPT ![target] = "good"]
    BY <1>8, <2>1 DEF InstallRename, StoreInv, TypeOK
  <2>3. session # NoVersion /\ ~unloaded => session = current /\ ver[session] = "good"
    BY <1>4, <2>1 DEF SessionOnDisk
  <2>4. QED
    BY <1>5, <2>1, <2>2, <2>3 DEF SessionIsCurrent, SessionOnDisk
<1>9. CASE (StoreWorks(c) \/ StoreDone(c)) /\ (RemoveVersion \/ RemoveModel)
  <2>1. UNCHANGED <<current, session, unloaded>> /\ pc \in {"remove", "removeAll"}
    BY <1>9 DEF StoreWorks, StoreDone, RemoveVersion, RemoveModel
  <2>2. session # NoVersion /\ ~unloaded => session = current /\ ver[session] = "good"
    BY <1>4, <2>1 DEF SessionOnDisk
  <2>3. session # NoVersion /\ ~unloaded => pc = "remove" /\ session # target
    BY <2>1, <2>2 DEF StoreInv, RequestInv
  <2>4. session # NoVersion /\ ~unloaded => ver'[session] = ver[session]
    BY <1>5, <1>9, <2>2, <2>3 DEF RemoveVersion, RemoveModel, RemoveFile, RemoveDir
  <2>5. QED
    BY <2>1, <2>2, <2>4 DEF SessionIsCurrent, SessionOnDisk
<1>10. CASE StoreSwitched(c)
  <2>1. step'[c] = "reload" /\ UNCHANGED <<ver, session, unloaded>>
    BY <1>10 DEF StoreSwitched, Moves, AdminTypeOK, WriteRecord, Forget
  <2>2. QED
    BY <2>1 DEF SessionIsCurrent, SessionOnDisk
<1>11. CASE StoreFails(c)
  <2>1. UNCHANGED <<ver, current, session>> /\ pc # "forget"
    BY <1>11 DEF StoreFails, Fails, VerifyFails, RollbackNothing, disk
  <2>2. unloaded' = (unloaded \/ (pc \in {"truncate", "record"} /\ session \notin {NoVersion, Loadable}))
    BY <1>11 DEF StoreFails
  <2>3. session # NoVersion /\ ~unloaded' =>
          ~unloaded /\ session = current /\ ver[session] = "good"
    BY <1>4, <2>1, <2>2 DEF SessionOnDisk
  <2>4. QED
    BY <2>1, <2>3 DEF SessionIsCurrent, SessionOnDisk
<1>12. QED
  BY <1>6, <1>7, <1>8, <1>9, <1>10, <1>11 DEF StoreWorks, StoreDone

\* ... and so do all others.
LEMMA AdminInvStep ==
  ASSUME AdminInv, [AdminNext]_<<vars, adminVars>>
  PROVE  AdminInv'
<1>1. StoreInv' /\ AdminTypeOK'
  BY AdminStoreStep, StoreInvStep, AdminTypeStep DEF AdminInv, StoreInv
<1> USE NoVersionAssumption, NobodyAssumption DEF queueVars
<1>2. current # NoVersion => current \in Version /\ ver[current] = "good"
  BY DEF AdminInv, StoreInv, TypeOK, CurrentComplete
<1>3. ASSUME NEW c \in Client,
             StoreWorks(c) \/ StoreDone(c) \/ StoreSwitched(c) \/ StoreFails(c)
      PROVE  SessionIsCurrent' /\ SessionOnDisk' /\ RunHasSession'
  <2>1. UNCHANGED <<mu, session>>
    BY <1>3 DEF StoreWorks, StoreDone, StoreSwitched, StoreFails
  <2>2. QED
    BY <1>3, <2>1, SessionStoreStep DEF AdminInv, RunHasSession
<1> USE DEF SessionIsCurrent, SessionOnDisk, RunHasSession, Loadable
<1>4. ASSUME NEW c \in Client, NEW r \in Op, Arrive(c, r)
      PROVE  SessionIsCurrent' /\ SessionOnDisk' /\ RunHasSession'
  BY <1>4 DEF AdminInv, Arrive, Moves, vars
<1>5. ASSUME NEW c \in Client, LockModel(c) \/ Refuse(c)
      PROVE  SessionIsCurrent' /\ SessionOnDisk' /\ RunHasSession'
  <2>1. \A d \in Client : step[d] = "reload" => step'[d] = "reload"
    BY <1>5 DEF LockModel, Refuse, Answers, Moves, AdminInv, AdminTypeOK
  <2>2. UNCHANGED <<vars, path, session, unloaded, mu>>
    BY <1>5 DEF LockModel, Refuse
  <2>3. QED
    BY <2>1, <2>2 DEF AdminInv, vars
<1>6. ASSUME NEW c \in Client, Begin(c)
      PROVE  SessionIsCurrent' /\ SessionOnDisk' /\ RunHasSession'
  <2>1. UNCHANGED <<ver, current, session, unloaded, mu>> /\ pc = "idle"
    BY <1>6 DEF Begin, Install, Activate, Rollback, DeleteVersion, DeleteModel, Goes, disk
  <2>2. step[c] = "locked" /\ modelMu = c
    BY <1>6 DEF Begin, Moves, AdminInv, AdminTypeOK
  <2>3. \A d \in Client : step[d] # "reload"
    BY <2>2 DEF AdminInv, AdminTypeOK
  <2>4. session # NoVersion /\ ~unloaded => session = Loadable
    BY <2>1, <2>3 DEF AdminInv
  <2>5. path' = path
    BY <1>6 DEF Begin
  <2>6. QED
    BY <2>1, <2>4, <2>5 DEF AdminInv
<1>7. ASSUME NEW c \in Client, Reload(c)
      PROVE  SessionIsCurrent' /\ SessionOnDisk' /\ RunHasSession'
  BY <1>7 DEF Reload, NoSession
<1>8. ASSUME NEW j \in Job, Enqueue(j) \/ Take(j) \/ SetActive(j) \/ Drop(j) \/ ClearActive(j)
      PROVE  SessionIsCurrent' /\ SessionOnDisk' /\ RunHasSession'
  <2>1. UNCHANGED <<vars, path, step, session, unloaded, mu>>
    BY <1>8 DEF Enqueue, Take, SetActive, Drop, ClearActive
  <2>2. QED
    BY <2>1 DEF AdminInv, vars
<1>9. ASSUME NEW j \in Job, Prepare(j) \/ Run(j) \/ Finish(j)
      PROVE  SessionIsCurrent' /\ SessionOnDisk' /\ RunHasSession'
  <2>1. UNCHANGED <<ver, current, path, pc, step>>
    BY <1>9 DEF Prepare, Run, Finish, vars
  <2>2. SessionFor \/ NoSession \/ UNCHANGED <<session, unloaded>>
    BY <1>9 DEF Prepare, Run, Finish
  <2>3. SessionIsCurrent' /\ SessionOnDisk'
    BY <1>2, <2>1, <2>2 DEF AdminInv, SessionFor, NoSession, Load
  <2>4. RunHasSession'
    BY <1>9 DEF AdminInv, Prepare, Run, Finish, SessionFor, Load
  <2>5. QED
    BY <2>3, <2>4
<1>10. CASE OtherModel \/ Cooldown
  <2>1. UNCHANGED <<ver, current, path, pc, step, mu>> /\ (NoSession \/ Load) /\ mu = Nobody
    BY <1>10 DEF OtherModel, Cooldown, vars
  <2>2. SessionIsCurrent' /\ SessionOnDisk' /\ RunHasSession'
    BY <1>2, <2>1 DEF NoSession, Load
  <2>3. QED
    BY <1>1, <2>2 DEF AdminInv
<1>11. CASE AdminRestart
  BY <1>1, <1>11 DEF AdminRestart, NoSession, AdminInv
<1>12. CASE UNCHANGED <<vars, adminVars>>
  BY <1>1, <1>12 DEF AdminInv, vars, adminVars
<1> HIDE DEF SessionIsCurrent, SessionOnDisk, RunHasSession, Loadable
<1>13. QED
  BY <1>1, <1>3, <1>4, <1>5, <1>6, <1>7, <1>8, <1>9, <1>10, <1>11, <1>12
  DEF AdminNext, HandlerStep, JobStep, AdminInv

\* AdminInv is an invariant of the daemon.
LEMMA AdminInvariant == AdminSpec => []AdminInv
BY AdminInvInit, AdminInvStep, PTL DEF AdminSpec

\* The daemon's requests use the store as ModelStore says, whatever the other
\* clients and the worker do: every theorem about the store holds for it.
THEOREM AdminImplementsStore == AdminSpec => Spec
<1>1. AdminInit => Init
  BY DEF AdminInit
<1>2. AdminInv /\ [AdminNext]_<<vars, adminVars>> => [Next]_vars
  BY AdminStoreStep DEF AdminInv
<1>3. QED
  BY <1>1, <1>2, AdminInvariant, PTL DEF AdminSpec, Spec

\* Handlers exclude each other, and their state keeps its type.
THEOREM HandlersExclude == AdminSpec => []AdminTypeOK
<1>1. AdminInv => AdminTypeOK
  BY DEF AdminInv
<1>2. QED
  BY <1>1, AdminInvariant, PTL

\* After an answered activation or rollback the provider has no older version
\* loaded of a model that is loaded from "current"; one with a model_path is
\* only ever loaded from there (ResolveModelPath, reloadProvider).
THEOREM SessionFollowsActivation == AdminSpec => []SessionIsCurrent
<1>1. AdminInv => SessionIsCurrent
  BY DEF AdminInv
<1>2. QED
  BY <1>1, AdminInvariant, PTL

\* No deletion takes the files of a session that was loaded from "current".
THEOREM LoadedFilesStay == AdminSpec => []SessionOnDisk
<1>1. AdminInv => SessionOnDisk
  BY DEF AdminInv
<1>2. QED
  BY <1>1, AdminInvariant, PTL

\* No reload takes the session of a generation in progress.
THEOREM ReloadWaitsForRuns == AdminSpec => []RunHasSession
<1>1. AdminInv => RunHasSession
  BY DEF AdminInv
<1>2. QED
  BY <1>1, AdminInvariant, PTL
====
