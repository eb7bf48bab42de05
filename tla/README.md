# Verification of yllmd

yllmd is a local daemon that serves text generation over a Unix socket. Clients
send JSON lines; requests wait in one queue; one worker hands them, one at a
time, to a provider that drives a runner process over two pipes. The daemon also
administers the model files: it downloads, installs, activates, rolls back and
deletes versions while it serves requests. yllmctl is its command line.

This directory holds TLA+ models of its stateful parts, the TLC configurations
that check them on small instances, and TLAPS proofs of the main safety
properties for all instances. `PROJECT.json` lists components, runs, mutants,
the map from definitions to source lines, findings, hazards and theorems.

## Inventory

| Part (source) | State | Operations | What is hard | What makes it correct |
|---|---|---|---|---|
| Request queue and worker (`internal/daemon/server.go`) | channel `s.jobs`, maps `s.queued` and `s.active` by request ID, `s.shutdown`, a context per job | enqueue, cancel, timeout, disconnect, shutdown, the worker's loop | the maps and the channel change in separate steps; an ID may be reused while an old job is still in the channel; selects choose at random | FIFO, once only, no leaked entry, cancelled jobs do not start, the daemon becomes idle again |
| Replies (`server.go`) | what was written to each connection | accepted, provider events, errors | handler and worker write to one client from two goroutines | order, and one outcome |
| Local provider (`internal/providers/local/runner.go`) | `p.mu`, `p.session`, timer, epoch; the runner's two pipes | Generate, run, cancelAndDrain, cooldown callback, Close | the mutex is taken twice per request; late timers; stale frames after a cancel; a dying runner | the right model, no mixing of requests, every run ends, the resident model returns |
| Versioned store (`internal/storage/models.go`) | version directories, link `current`, `rollback.json` | install, activate, roll back, delete version or model | several system calls per request, failures and kills between them, nothing is repaired at start | the active version and the rollback target are complete |
| Catalog downloads (`internal/download`, `internal/storage/licenses.go`, `server.go`) | staging files, license records, installed revisions | license check, resume, verify, install, clean up | what an earlier daemon with another catalog left behind | only verified files are installed; only accepted terms |
| Model administration (`server.go`) | `s.modelMu` | the requests around the store | the idle check is old when it is used; generations and the cooldown load the model at any moment of a switch | what is loaded is what is active, is still on disk, and is not taken away from a run |
| Routing and configuration (`internal/models/registry.go`, `internal/config`) | the registry's table, built once | validate, build, resolve a target, resident model | two lookups must agree; Go ranges over maps in any order; defaults come from three places; two policies | what was validated resolves as promised |
| Configuration generation (`internal/configgen`) | none | Generate | defaults depend on how the variants sort | the daemon accepts what is generated, and it leads to the resident model |
| Socket lifecycle (`server.go`, `cmd/yllmd`) | the socket file, the listener | prepare, bind, listen, serve, close, remove | the path is looked at, bound and removed in separate calls, by name, by any number of processes | one daemon serves and its file stays; a left-over file does not keep a daemon from starting |
| yllmctl and its connection (`cmd/yllmctl`, `internal/ipc`) | its plans, one connection after another | install, choose, update, update -all | plans are made from an inventory and a catalog that may be out of date when they are sent; the daemon may end or be replaced at any point | what it reports is so, it stops for a reason, it ends |
| Wire protocol, runner framing, catalog, compatibility, locations, machine | none, or one file read at start | pure functions and printing | boundaries | agreement with a reference definition |

How they interact: a connection's goroutine calls `enqueueGenerate`, which
shares the maps with the worker through `s.mu` and the channel; the worker calls
`provider.Generate` and reads the returned event channel; the provider's
goroutine holds `p.mu` for a whole generation, and so do, for shorter times, the
cooldown callback and `Close`, which administration calls after it has switched
a version. Daemons meet at the socket's path and in the store; yllmctl meets
whichever daemon listens at the path when it connects.

## Modules

- **GenerateQueue**: the queue and its worker. Handlers are `hpc`/`hjob` per
  connection, the worker is `wpc`/`wjob`/`wev`, the provider goroutine of a job
  is `prov`. Each action is one critical section, one channel operation or one
  write, which are the points where goroutines interleave. A job is one call of
  `enqueueGenerate`; its ID is one the client chooses, so several jobs can have
  the same. A refusal before registration (`Refuse`) may happen at any time:
  validation of the request is an input, routing is in Routing. The provider sends `started`,
  deltas and an outcome, or an error, or nothing; every send is in a select with
  the job's context.
- **FifoBroker**: what the queue promises: a line, one job served at a time,
  each at most once, in the order of arrival; a job may be turned away from the
  line's head or before it has joined it. `GenerateQueue` maps a job the worker
  has taken but not decided about to the head of the line.
- **QueueReplies**: GenerateQueue with a log of what each job's client is sent.
  The log is derived from the steps, so nothing of the queue is repeated.
  `stopped` and `cut` are history variables: whose provider goroutine, and whose
  worker, left by the branch of a select that watches the job's context. A state
  alone does not tell: a provider that has ended looks the same however it ended.
- **RunnerProvider**: `run` is the program counter of each request, from
  `Generate` to the closed event channel; `lock` is the holder of `p.mu`;
  `model`, `alive`, `stdin`, `busy` and `frames` are the present session.
  `resident` is an input: the model whose canonical name `resident_model` is, if
  any (the cooldown compares only that), and the one that `registry.Resident()`
  returns, if it does; an alias or no `resident_model` has only the second. The
  runner is external: it answers Generate with chunks and one closing frame,
  ends the generation on Cancel and ignores Cancel while idle (the comment in
  `cancelAndDrain` relies on that), and may die or send garbage at any time.
  When it dies, unread frames may be lost, because `cmd.Wait` closes the pipe.
- **ModelStore**: one model on disk. `pc` is where the request that holds
  `modelMu` is, with one action per system call that changes something.
  `Fails` is an error of a call, `Restart` a kill at any point.
- **CatalogInstall**: one variant's staging directory. A file is the sequence
  of its blocks, each known by the artifact it comes from, so a checksum is a
  comparison of blocks. `Restart` may bring another artifact under the same
  file name and other license terms. `InstallLocalFile` is one step here; its
  parts are in ModelStore.
- **ModelAdmin**: ModelStore and what surrounds it: `op`/`step` are the handlers
  of "models" requests, `modelMu` their mutex, `work` what `isIdle` can see of the
  queue, `gen` and `mu` the generations in the provider and the holder of `p.mu`,
  `session` the file the provider has loaded for this model. That is the one
  `ResolveModelPath` names when the runner starts (`Loadable`): `path`, the
  configured `model_path`, if there is one (a version's own file or one outside
  the store), else whatever "current" points to. The store's
  actions are ModelStore's own, taken by the handler that holds `modelMu`. The
  checks of a catalog request before the mutex (`Arrive`) and under it
  (`Admits`) are separate steps. A download is the choice between `Begin` and
  `Refuse`; its details are in CatalogInstall. `unloaded` is a history variable:
  a request failed after it had switched the link, so that the provider was not
  told.
- **Routing**: a configuration is validated, the registry is built from it in
  any order, and targets are resolved one candidate per step. `References` is
  the validator's lookup, `byIdentifier` the registry's table.
- **ConfigGen**: `Generate` as a function from the options of `yllmctl config
  create` to a configuration of Routing. `GeneratedConfigs` are part of the
  configurations that Routing is run on.
- **SocketLifecycle**: daemon processes on one path. `pc` is the next system
  call of each, `path` whose file is there, `listening` who would accept a
  connection. Bind and listen are two calls inside `net.ListenUnix`, and between
  them the file looks like a left-over. A process runs once; a restart is
  another process. `met` is a history variable: who was not alone in that gap.
- **CatalogCommand**: SocketLifecycle with one catalog command of yllmctl.
  `command` is what the user asked for and the catalog yllmctl was built with,
  `plans`/`next` its list of requests, `conn`/`handler`/`request`/`inbox` the
  connection and the goroutine at its other end. Each daemon has a catalog and a
  configuration of its own (`CatalogOf`, `Configured`); all share the store, of
  which only the installed and active revisions are looked at here. The store's
  system calls are in ModelStore and the download in CatalogInstall. `trouble`
  is a history variable: something failed, or the daemon refused for its license
  record or because it was not idle; `others` counts changes by other clients.
  An activation that fails after it has switched the link changes the store and
  answers an error (`SwitchFails`).
- **MC...**: constants, symmetry and the specification with a bounded script of
  requests for liveness. **..._proofs**: theorems.

Operators called "deliberate variant" are plausible mistakes in the code. They
are used by no specification; each replaces the definition after it once, to
show that a property notices.

## Runs

| Run | Instance | Result |
|---|---|---|
| queue_safety | 2 connections, 1 ID, 2 jobs of either format, capacity 2, 1 delta; symmetric | 3,128,462 states; all hold |
| queue_live | 2 connections, 2 jobs of both formats, capacity 1, fairness | 62,760 states; all hold |
| queue_cancel | 2 jobs | **violated**: cancel misses a job between the maps |
| replies_outcome | 2 connections, 2 jobs | **violated**: no outcome |
| runner | 2 requests, 2 models, exact and fallback routes, the resident named, given otherwise or none, 2 frames, fairness | 548,258 states; all hold |
| runner_resident | the same, the resident named | **violated**: no cooldown after a refused prompt |
| admin | 2 versions, 2 clients, 2 generations (1 with a `model_path`), failures and kills; symmetric; deadlock checked | 3,285,936 states; all hold |
| store_previous | 2 versions, no failures | **violated**: activating the active version |
| download | 3 artifacts of 2, 2 and 3 blocks, 2 license terms, damaged blocks | 83,088 states; all hold |
| download_resume | the same with an honest server | **violated**: another revision's bytes are resumed |
| routing | 3 models, 1 alias, candidate lists up to 3, all policies; every generated configuration of 3 variants; 19,761 configurations, all targets | 83,330 states; all hold |
| control | 3 daemons without a command; a command of any kind with a serving daemon and its successor, 2 variants, 2 revisions, 1 change by another client | 610,884 states; all hold |

Why the bounds are enough. The queue's races are between an old job of an ID in
the channel, a new one being registered, and the worker: two jobs with one ID,
on one connection or on two, and two places, so that the old one can still be in
the channel. What a third job could add, a full queue of two, is capacity 1 in
`queue_live`, and the theorems hold for any number of jobs. A client sees one
delta between `started` and the outcome, which is enough to be out of order.
In RunnerProvider a stale callback, stale frame or
late Cancel needs two requests in a row and two models, one of them resident;
two frames are enough for a chunk and a closing frame to wait together. In
ModelAdmin two versions are the active one and the one before or after it; a
third would only be one more that is neither, and `store_previous` and the
theorems do not depend on the number. Two clients are one that holds `modelMu`
and one that waits with an old idle check, two generations one that runs and
one that is queued meanwhile. A model with a `model_path` is asked for one
generation at a time (`OneGenerationByPath`): its session is always of one file,
so that a second one meets nothing the first has not. The resident model of the
runner run is named canonically, or is an alias or the default route's, or there
is none (`AnyResident`). In Routing three candidates are a primary, one to
fall back to and one after it; an alias can make two of them the same model. In
ConfigGen two types, two levels and three variants make a group with two
profiles and one with one, with the resident first or last. In the control run
three daemons are one that stops, one that dials or removes, and one that has
just bound; for the command two are enough, the one it read its inventory from
and the one that does its requests, which has a newer catalog and one variant
fewer configured, while yllmctl has either catalog; two variants make two plans,
of which the second one meets what the first has left. In
CatalogInstall equal, smaller and larger successors of an artifact are the cases
`partialSize` tells apart. Deadlock is not checked in the queue's runs: with all
requests served the daemon waits; nor in Routing, where a refused configuration
ends the daemon; nor in the control run, where all processes may have ended.

The type invariants of GenerateQueue, ModelStore and CatalogInstall and the
store's `RequestInv` are in no run: they are proved for every instance, and the
runs are left to what a type does not say.

Fairness. Goroutines that can run do run (weak fairness per handler, worker and
provider goroutine), because Go's scheduler is preemptive. A context's deadline
passes, because every request has one (`requestTimeout`, and `Validate` wants a
positive default). A `select` with several ready branches chooses at random, so
the context's branch is not passed over for ever: strong fairness of
`LoopCtxDone`, weak fairness of `SendCancel` or `CancelFails`. A drain ends after
`runnerCancelTimeout`, a cooldown timer fires. Nothing is assumed of the runner,
of cancels, disconnections, shutdown or `Close`. One assumption the code does
not enforce: a client reads what is written to it or disconnects
(`clientConn.write` has no deadline), and a runner reads its standard input
(`writeGenerate` has none either). In the control run a process's own steps, the
command and its handler are weakly fair; nothing is assumed of signals, kills,
failing calls and other clients. That a download ends one way or the other is
again an assumption: the HTTP client has no timeout (`downloader.go`, line 35).

## What the findings say

1. A cancel (and a second request, and the idle check) can fall into the gap
   between `removeQueued` and `setActive`.
2. A JSON client can be left without an outcome, or get two, when its context
   ends; every other way out writes exactly one (`OneOutcomeUnlessContextEnds`).
3. A prompt that a model's template refuses leaves the model loaded without a
   cooldown.
4. Activating the active version forgets the previous one.
5. A `.part` file of another revision blocks all later downloads.

Seen while modelling, and without a run of their own: `accepted` is written after
the job is in the channel, so that `started`, or a whole reply, can come before
it, while protocol.md (line 36) says that JSON mode begins with queue acceptance;
`ReplyOrder` states what the code does ensure of it, that it comes once and is
not lost. Because of the gap of finding 1 and because the idle check is not repeated, an
activation can happen while a generation runs (operations.md, line 38), which
the admin run shows to be harmless for what is loaded. A streamed text answer ends
with the whole text again (`server.go`, line 719; `server_test.go` only meets the
fake provider, whose last event has no text).

About models with a `model_path`: activation and rollback are accepted for them
and answered like for others, but the configured file is loaded before and after
(`registry.go`, line 210), so that `SessionIsCurrent` says of them only that this
file is the one in use. If it is a version's own file, nothing protects it: the
version can be deleted while it is loaded, and `SessionOnDisk` excludes it.

About the resident model: given as an alias, or left out, it is compared as
written with the canonical name, so that its own cooldown closes and starts it
again. Left out, and with every candidate of the default route disabled, which
`Validate` accepts, there is no model to restore: `Resident()` fails
(`runner.go`, line 555), the last model stays loaded and no timer is left.
`ResidentRestoredUnlessRefused` is conditioned on a model that can be restored.

About the socket: two daemons started at the same moment can take the file away
from each other, in the gap between bind and listen; a stopping daemon's last
`os.Remove`, up to a second after it has closed its listener, removes the file of
a successor started in that second; a full backlog makes `prepareSocket` take a
living daemon for a dead one; an error of accept, such as too many open files,
ends the daemon. No document excludes any of these; `KeepsItsSocket` says that
apart from them a daemon keeps its file.

About yllmctl: when it is newer than the daemon, `update -all` may end well with
an answer `up_to_date` for what `updates` keeps listing as available, which is why
`DoneAsAnswered` speaks of the daemon's catalog where plans were answered; an
error answer ends the command before its remaining plans, with exit status 0.

## Proofs

TLAPS checks, for all values of the constants under the named assumptions of the
modules, every invariant that a run checks, the action properties and the
refinements. The assumptions are: `MaxDepth` positive, as `Validate` demands;
placeholders distinct from real values; sizes and
bounds natural numbers, most of them positive; candidate lists not
empty (`Validate` again); sets of configurations and catalogs of the right type;
`SortedNames`, Go's order of the IDs, lists every model (for CatalogCommand: each
once); and a family of the catalog lists each of its variants once, which
`catalog.Validate` enforces by refusing a duplicate ID.

- **GenerateQueue_proofs**. The inductive invariant is `TypeOK`, `OnePlace`,
  `QueuedOwned`, `ActiveOwned` and `ProviderAbandonedOnlyWhenCancelled`, proved
  one after the other, each from those before it. `QueuedOwned` alone is not
  inductive: that `removeQueued` by ID removes no entry another job still needs
  rests on the fact that every job is in one place. `CancelledNeverStarts` is
  proved by a stability lemma: once a job's context is done and it waits, it is
  doomed until it is over (`DoomedIsStable`).
  The module's second part shows that `GenerateQueue` implements `FifoBroker`:
  initial states map to initial states (`FifoInit`), every step to a step of the
  broker or to a stutter (`FifoStep`), from `TypeOK` and `OnePlace`.
- **QueueReplies_proofs**. A behaviour with a log is one of the queue
  (`RepliesAreOfTheQueue`), so that the queue's invariants carry over. On top of
  them `ContextsAreRead` (only a request that was read has a context that can be
  done) and `RepliesInv`: for each job, what its log may hold at the stage it has
  reached (`StageInv`: nothing but `accepted` until the provider has sent
  something, no outcome while one is awaited, and once the job is over an outcome,
  a closed connection or a provider recorded in `stopped`), what follows what
  (`ShapeInv`) and where its acceptance is (`AcceptInv`: at most once, and once
  the job has been admitted in the log or about to be written). A step writes at most one event, to one job (`WhoWrites`,
  `WhatIsWritten`), and a log grows only at its end (`LogContinued`).
- **RunnerProvider_proofs**. The type invariant holds the mutual exclusion of
  `p.mu`. On it rests `CooldownInv`: while the mutex is held no timer runs and no
  callback has the present epoch (`EpochsInOrder`), from which `RunUsesItsModel`
  and `CooldownUndisturbed` follow together.
  `SessionServesOneRequest` is not inductive alone: that nothing of a
  generation is left when it ends follows from where the generation is
  (`OneGeneration`: its Generate message is unread, or the runner works on it, or
  its closing frame is the last in the pipe).
- **ModelStore_proofs**. `RequestInv` is the strengthening: what a request in
  progress relies on at each system call. With it completeness of the active
  version and of the rollback target is inductive over failures and kills.
- **ModelAdmin_proofs**. `AdminImplementsStore` shows that the composition only
  takes ModelStore's steps, so that the store's invariants carry over. On top of
  them `AdminTypeOK` is inductive (who holds which mutex), and `SessionIsCurrent`,
  `SessionOnDisk` and `RunHasSession` follow together: a session of a model with a
  `model_path` is one of that file; without one, while the link and the session differ, a handler holds `modelMu` on its way to the reload, or the
  history variable says that a request failed in between.
- **Routing_proofs**. The inductive invariant is `TypeOK`, `TriedOnce`,
  `DefaultIsKnown` and three facts: `Table` (every entry of a partly filled
  registry leads to a model that has this name, and every model seen has its
  entries), `Accepted` (what is known after validation) and `Collected` (what
  has been collected are earlier candidates). `RegistryAgrees` follows from
  `Table` because no identifier is claimed twice. For `ResolvesAsPromised` the
  invariant `ResolutionInv` says that what has been collected is what is promised
  of the candidates before the present one; each iteration of the loops adds an
  available one or passes over another (`EnabledSelected`, `DisabledPassed`). For
  `GeneratedServes`, every generated configuration has profiles of one model and
  a default route to its resident (`SingleModels`, by `GenerateWrites`), which is
  enough to be valid (`SingleModelsValid`), and `GeneratedInv` follows the
  selection of a route in such a configuration.
- **CatalogInstall_proofs**. The strengthening is `RecordHonest`: terms on record
  were accepted by a request.
- **CatalogCommand_proofs**. First the socket: `KeepsItsSocket` is inductive
  together with the type invariant and `BoundAlone`, its counterpart for the gap
  between bind and listen: a process that is alone there still has its file. The
  step that matters is another process's `Dial`: the file's owner listens, so that
  it never comes to `Remove`. Every step of the composition is one of
  SocketLifecycle or leaves its variables alone (`ImplementsSocketLifecycle`), so
  that `KeepsItsSocket` holds there too. The command's own invariant is `Shapes`
  (the inbox is a sequence, a handler is working or resting), `Turns` (client and
  handler take turns: an unanswered request, an event to read, or neither) and
  `Admitted` (a request past the checks is one that its daemon's configuration
  allows). `AnswersMatchPlans` follows from the first two,
  `UnconfiguredNeverActivated` from the third. What the whole command achieves
  rests on three more: `PlanInv` (its plans are about different models, and the
  request on the wire is the plan it is at), `StoreInv` (while nobody else changes
  the store: plans that were answered are carried out, what is on the wire is
  true, and what was not planned is up to date), from which `DoneAsAnswered`
  follows, and `CauseInv` (an error on the wire has one of the causes that
  `StopsOnlyForCause` lists; `RefusedForCause` looks at each refusal).

Only model-checked: liveness and everything under fairness, which is out of the
prover's reach (`EventuallyIdle`, `ProviderEnds`, `ImplementsFairFifo`,
`EveryRunEnds`, `ResidentRestoredUnlessRefused`, `AloneComesUp`, `CommandEnds`).

Recursive definitions are avoided where something is proved: a sorted or filtered
list is the member of a set of lists in a given order (`InOrder`, `First`), which
is what the code's sort and append produce, without their order of evaluation.

## Not modelled

Wire format, JSON, wording and logging; the texts of events; validation of
requests and of single settings; whether an administration request is answered
in the end (the composition is too large for TLC's liveness check); prompt
templates (whether they accept is an input); process start and stop beyond
success and failure; memory; progress reports of a download beyond their order;
mode and group of the socket file, and its backlog, which is never full here;
the commands of yllmctl that send one request and print its answer; decoding of
the catalog; compatibility, locations and machine, which are estimates, paths
and platform queries; `cleanPathPart`, which the store
applies to model and version IDs (names are one path element here, which it
leaves alone); a `model_path` of
one model that leads into another model's store; the remote providers, which are skeletons, and the fake
one, which is a test double.

## Plan

Done, in this order: GenerateQueue with FifoBroker, QueueReplies, ModelStore,
RunnerProvider, CatalogInstall, ModelAdmin on top of ModelStore, Routing,
SocketLifecycle, CatalogCommand on top of it, ConfigGen on top of Routing, and
the proofs above. Next:

1. QueueReplies with the text of events, for what a streaming text client reads.
2. ModelAdmin with a second model, whose `model_path` leads into this store.
