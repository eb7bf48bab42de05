---- MODULE RunnerProvider ----
(***************************************************************************)
(* The local provider (internal/providers/local/runner.go): one runner     *)
(* process at a time, reused from request to request, switched between     *)
(* models, and replaced by the resident model's after an idle cooldown.    *)
(*                                                                         *)
(* p.mu is held by run() for a whole generation, so Generate, the cooldown *)
(* callback and Close wait for it; but a request takes the mutex twice, in *)
(* Generate and in run, and a timer callback that has fired cannot be      *)
(* stopped any more.  The provider and the runner exchange messages over   *)
(* two pipes, and a cancelled generation leaves frames in one of them.     *)
(*                                                                         *)
(* A closed session is never looked at again, so the module keeps the      *)
(* state of p.session only.  Waiting for a runner to start or to exit      *)
(* happens inside one critical section and is one step.                    *)
(***************************************************************************)
EXTENDS Naturals, Sequences, FiniteSets

CONSTANTS
  Request,    \* calls of Generate
  Model,      \* configured models
  NoModel,    \* p.session is nil
  NoRequest,  \* p.mu is free, the runner is idle, nobody listens
  Residents,  \* settings of the resident model
  Candidates, \* lists of model names a request may come with: first choice, fallbacks
  MaxFrames   \* bound on the frames between the runner and the provider

ASSUME RequestAssumption == NoRequest \notin Request
ASSUME ModelAssumption == NoModel \notin Model
ASSUME ResidentsAssumption ==
  Residents \subseteq [named : Model \union {NoModel}, restored : Model \union {NoModel}]
ASSUME CandidatesAssumption == Candidates \subseteq Seq(Model) \ {<<>>}
ASSUME MaxFramesAssumption == MaxFrames \in Nat \ {0}

VARIABLES
  resident, \* the model whose name resident_model is, if any (it may be omitted or
            \* an alias), and the one registry.Resident() returns, if it does
            \* (without a resident_model the default route may have no enabled one)
  input,    \* what each request brings: its candidate models, and whether its
            \* messages fit the template of the model it gets
  tried,    \* how many of them Generate has tried without success
  run,      \* where each request is
  ctxDone,  \* requests whose context is done
  listener, \* the request whose event channel the daemon reads
  lock,     \* the request whose run() holds p.mu
  model,    \* the model of p.session
  alive,    \* its process runs
  stdin,    \* messages the process has not read
  busy,     \* the request it generates for
  frames,   \* frames the provider has not read
  epoch,    \* p.epoch
  timer,    \* the epoch of the pending cooldown timer, or 0
  fired     \* epochs of cooldown callbacks that wait for p.mu

sessionVars == <<model, alive, stdin, busy, frames>>
cooldownVars == <<epoch, timer, fired>>
vars == <<resident, input, tried, run, ctxDone, listener, lock, model, alive, stdin, busy, frames,
          epoch, timer, fired>>

\* A request is in Generate, then in the goroutine that calls run: before
\* p.mu.Lock, while it sends "started", writes Generate, reads frames, sends
\* a delta or the outcome, drains a generation cancelled while it read a frame
\* or while it sent a delta; then it reports an error without the mutex; at
\* last its event channel is closed.
Serving == {"start", "write", "read", "delta", "drainRead", "drainDelta"}
Holding == Serving \union {"outcome"}
RunPC == {"new", "generate", "wait", "error", "closed"} \union Holding

Message == [type : {"generate"}, req : Request] \union [type : {"cancel"}, req : {NoRequest}]

\* A Completed frame whose finish reason is 3 ends a cancelled generation;
\* "bad" is a frame that does not decode or that has an unexpected tag.
Tag == {"chunk", "completed", "cancelled", "error", "bad"}
Frame == [tag : Tag, req : Request]

Chosen(r) == input[r].names[tried[r] + 1]

Init ==
  /\ resident \in Residents
  /\ input \in [Request -> [names : Candidates, fits : BOOLEAN]]
  /\ tried = [r \in Request |-> 0]
  /\ run = [r \in Request |-> "new"]
  /\ ctxDone = {}
  /\ listener = NoRequest
  /\ lock = NoRequest
  /\ model = NoModel
  /\ alive = FALSE
  /\ stdin = <<>>
  /\ busy = NoRequest
  /\ frames = <<>>
  /\ epoch = 0
  /\ timer = 0
  /\ fired = {}

----------------------------------------------------------------------------
(* The session *)

NoSession ==
  /\ model' = NoModel
  /\ alive' = FALSE
  /\ stdin' = <<>>
  /\ busy' = NoRequest
  /\ frames' = <<>>

\* startSession: the process is started and has sent Ready.
StartSession(m) ==
  /\ model' = m
  /\ alive' = TRUE
  /\ stdin' = <<>>
  /\ busy' = NoRequest
  /\ frames' = <<>>

\* sessionFor: a session of the right model is used as it is, dead or alive;
\* any other is closed before the start, which may fail.
SessionFor(m, ok) ==
  \/ model = m /\ ok /\ UNCHANGED sessionVars
  \/ model # m /\ ok /\ StartSession(m)
  \/ model # m /\ ~ok /\ NoSession

\* stopCooldownLocked cancels a timer that has not fired.
StopCooldown == timer' = 0

Goes(r, from, to) == run[r] = from /\ run' = [run EXCEPT ![r] = to]

----------------------------------------------------------------------------
(* Generate, called by the daemon's worker for one request after another. *)

Call(r) ==
  /\ listener = NoRequest
  /\ Goes(r, "new", "generate")
  /\ listener' = r
  /\ UNCHANGED <<resident, input, tried, ctxDone, lock, sessionVars, cooldownVars>>

\* One critical section per candidate; the daemon has resolved their names with
\* the same registry, so Resolve does not fail.  After the last failure Generate
\* returns the error; otherwise the goroutine is started.
TryCandidate(r) ==
  /\ lock = NoRequest
  /\ StopCooldown
  /\ \E ok \in BOOLEAN :
       /\ SessionFor(Chosen(r), ok)
       /\ \/ ok /\ Goes(r, "generate", "wait") /\ UNCHANGED <<tried, listener>>
          \/ ~ok /\ tried[r] + 1 < Len(input[r].names)
                 /\ Goes(r, "generate", "generate")
                 /\ tried' = [tried EXCEPT ![r] = @ + 1] /\ UNCHANGED listener
          \/ ~ok /\ tried[r] + 1 = Len(input[r].names)
                 /\ Goes(r, "generate", "closed") /\ listener' = NoRequest /\ UNCHANGED tried
  /\ UNCHANGED <<resident, input, ctxDone, lock, epoch, fired>>

\* The daemon cancels the request, its deadline passes, or the client is gone.
CtxEnds(r) ==
  /\ run[r] \notin {"new", "closed"}
  /\ r \notin ctxDone
  /\ ctxDone' = ctxDone \union {r}
  /\ UNCHANGED <<resident, input, tried, run, listener, lock, sessionVars, cooldownVars>>

\* The worker stops reading: the channel is closed, or the context done.
StopListening(r) ==
  /\ listener = r
  /\ run[r] = "closed" \/ (r \in ctxDone /\ run[r] # "generate")
  /\ listener' = NoRequest
  /\ UNCHANGED <<resident, input, tried, run, ctxDone, lock, sessionVars, cooldownVars>>

----------------------------------------------------------------------------
(* run and the goroutine around it *)

\* The prompt cannot be prepared for this model: no mutex, no cooldown.
PrepareFails(r) ==
  /\ ~input[r].fits
  /\ Goes(r, "wait", "error")
  /\ UNCHANGED <<resident, input, tried, ctxDone, listener, lock, sessionVars, cooldownVars>>

\* Deliberate variant: run relies on the session Generate has made.
LockTrusting(r) ==
  /\ input[r].fits
  /\ lock = NoRequest
  /\ epoch' = epoch + 1
  /\ StopCooldown
  /\ Goes(r, "wait", "start")
  /\ lock' = r
  /\ UNCHANGED <<resident, input, tried, ctxDone, listener, fired, sessionVars>>

\* p.mu.Lock, a new epoch, and the session once more.  Without a session run
\* returns before it has arranged for a cooldown.
Lock(r) ==
  /\ input[r].fits
  /\ lock = NoRequest
  /\ epoch' = epoch + 1
  /\ StopCooldown
  /\ \E ok \in BOOLEAN :
       /\ SessionFor(Chosen(r), ok)
       /\ Goes(r, "wait", IF ok THEN "start" ELSE "error")
       /\ lock' = IF ok THEN r ELSE NoRequest
  /\ UNCHANGED <<resident, input, tried, ctxDone, listener, fired>>

\* Deliberate variants: a return without Unlock, and one without a cooldown.
ReturnLocked(r, from, to) ==
  /\ Goes(r, from, to)
  /\ timer' = IF Chosen(r) = resident.named THEN timer ELSE epoch
  /\ UNCHANGED <<resident, input, tried, ctxDone, listener, lock, epoch, fired>>

ReturnWarm(r, from, to) ==
  /\ Goes(r, from, to)
  /\ lock' = NoRequest
  /\ UNCHANGED <<resident, input, tried, ctxDone, listener, cooldownVars>>

\* The deferred calls: scheduleCooldownLocked, then p.mu.Unlock.
Return(r, from, to) ==
  /\ Goes(r, from, to)
  /\ lock' = NoRequest
  /\ timer' = IF Chosen(r) = resident.named THEN timer ELSE epoch
  /\ UNCHANGED <<resident, input, tried, ctxDone, listener, epoch, fired>>

\* Every send is a select between the listener and the context.
SendStarted(r) ==
  /\ Goes(r, "start", "write")
  /\ listener = r
  /\ UNCHANGED <<resident, input, tried, ctxDone, listener, lock, sessionVars, cooldownVars>>

StartedUnsent(r) ==
  /\ r \in ctxDone
  /\ Return(r, "start", "closed")
  /\ UNCHANGED sessionVars

WriteGenerate(r) ==
  /\ Goes(r, "write", "read")
  /\ alive
  /\ stdin' = Append(stdin, [type |-> "generate", req |-> r])
  /\ UNCHANGED <<resident, input, tried, ctxDone, listener, lock, model, alive, busy, frames, cooldownVars>>

\* The pipe is broken, or the message cannot be encoded: the session is
\* discarded.
WriteFails(r) ==
  /\ Return(r, "write", "error")
  /\ NoSession

\* readFrame finds a frame, ...
Finds(tag) == frames # <<>> /\ Head(frames).tag = tag

\* ... a chunk is sent on if the client streams, ...
ReadChunk(r) ==
  /\ \E to \in {"read", "delta"} : Goes(r, "read", to)
  /\ Finds("chunk")
  /\ frames' = Tail(frames)
  /\ UNCHANGED <<resident, input, tried, ctxDone, listener, lock, model, alive, stdin, busy, cooldownVars>>

\* ... the end of the generation, or an error the session survives, ...
ReadOutcome(r) ==
  /\ Goes(r, "read", "outcome")
  /\ \E tag \in {"completed", "cancelled", "error"} : Finds(tag)
  /\ frames' = Tail(frames)
  /\ UNCHANGED <<resident, input, tried, ctxDone, listener, lock, model, alive, stdin, busy, cooldownVars>>

\* ... an error it does not survive (runnerErrorIsFatal), ...
ReadFatal(r) ==
  /\ Goes(r, "read", "outcome")
  /\ Finds("error")
  /\ NoSession
  /\ UNCHANGED <<resident, input, tried, ctxDone, listener, lock, cooldownVars>>

\* ... bytes that are no frame, or the end of the runner's output.
ReadFails(r) ==
  /\ Finds("bad") \/ (frames = <<>> /\ ~alive)
  /\ Return(r, "read", "error")
  /\ NoSession

SendDelta(r) ==
  /\ Goes(r, "delta", "read")
  /\ listener = r
  /\ UNCHANGED <<resident, input, tried, ctxDone, listener, lock, sessionVars, cooldownVars>>

\* The outcome is sent, or the context is done; run returns in either case.
SendOutcome(r) ==
  /\ listener = r \/ r \in ctxDone
  /\ Return(r, "outcome", "closed")
  /\ UNCHANGED sessionVars

\* cancelAndDrain, entered from readFrame or from the send of a delta.
SendCancel(r) ==
  /\ Goes(r, "read", "drainRead") \/ Goes(r, "delta", "drainDelta")
  /\ r \in ctxDone
  /\ alive
  /\ stdin' = Append(stdin, [type |-> "cancel", req |-> NoRequest])
  /\ UNCHANGED <<resident, input, tried, ctxDone, listener, lock, model, alive, busy, frames, cooldownVars>>

DrainChunk(r) ==
  /\ run[r] \in {"drainRead", "drainDelta"}
  /\ Finds("chunk")
  /\ frames' = Tail(frames)
  /\ UNCHANGED <<resident, input, tried, run, ctxDone, listener, lock, model, alive, stdin, busy,
                 cooldownVars>>

\* Deliberate variant: the first frame after the cancel ends the drain.
DrainAnything(r) ==
  /\ Return(r, "drainRead", "closed") \/ Return(r, "drainDelta", "closed")
  /\ \E tag \in {"chunk", "completed", "cancelled"} : Finds(tag)
  /\ frames' = Tail(frames)
  /\ UNCHANGED <<model, alive, stdin, busy>>

\* The generation has ended, by the cancel or before it.
DrainCompleted(r) ==
  /\ Return(r, "drainRead", "closed") \/ Return(r, "drainDelta", "closed")
  /\ \E tag \in {"completed", "cancelled"} : Finds(tag)
  /\ frames' = Tail(frames)
  /\ UNCHANGED <<model, alive, stdin, busy>>

\* Deliberate variant: only an answer of the runner ends the drain.
CancelFailsAnswered(r) ==
  /\ \/ r \in ctxDone /\ ~alive /\ (Return(r, "read", "error") \/ Return(r, "delta", "closed"))
     \/ ~alive /\ (Return(r, "drainRead", "error") \/ Return(r, "drainDelta", "closed"))
  /\ NoSession

\* The cancel cannot be written, or the runner does not answer it in time or
\* not with the end of the generation: the session is discarded, and only a
\* run that was reading reports an error.
CancelFails(r) ==
  /\ \/ r \in ctxDone /\ ~alive /\ (Return(r, "read", "error") \/ Return(r, "delta", "closed"))
     \/ Return(r, "drainRead", "error") \/ Return(r, "drainDelta", "closed")
  /\ NoSession

\* sendProviderError, after the mutex is released; then the channel is closed.
SendError(r) ==
  /\ listener = r \/ r \in ctxDone
  /\ Goes(r, "error", "closed")
  /\ UNCHANGED <<resident, input, tried, ctxDone, listener, lock, sessionVars, cooldownVars>>

----------------------------------------------------------------------------
(* The cooldown timer, and Close *)

TimerFires ==
  /\ timer # 0
  /\ fired' = fired \union {timer}
  /\ timer' = 0
  /\ UNCHANGED <<resident, input, tried, run, ctxDone, listener, lock, sessionVars, epoch>>

\* A session that is not the named resident's makes way for one of the model
\* Resident() returns; for none, if that cannot be started.  If Resident()
\* fails, it stays.
Restore ==
  IF model \in {NoModel, resident.named} \/ resident.restored = NoModel
  THEN UNCHANGED sessionVars
  ELSE StartSession(resident.restored) \/ NoSession

\* Deliberate variant: the callback does not compare epochs.
CallbackAnyEpoch(e) ==
  /\ e \in fired
  /\ lock = NoRequest
  /\ fired' = fired \ {e}
  /\ Restore
  /\ UNCHANGED <<resident, input, tried, run, ctxDone, listener, lock, epoch, timer>>

\* The callback replaces a session that no run has used since.
Callback(e) ==
  /\ e \in fired
  /\ lock = NoRequest
  /\ fired' = fired \ {e}
  /\ IF epoch = e THEN Restore ELSE UNCHANGED sessionVars
  /\ UNCHANGED <<resident, input, tried, run, ctxDone, listener, lock, epoch, timer>>

\* Close, called after an activation or rollback and at shutdown.
Close ==
  /\ lock = NoRequest
  /\ StopCooldown
  /\ NoSession
  /\ UNCHANGED <<resident, input, tried, run, ctxDone, listener, lock, epoch, fired>>

----------------------------------------------------------------------------
(* The runner process (external): it reads one message at a time, answers  *)
(* a Generate with chunks and one closing frame, ends the generation when  *)
(* it is cancelled, and ignores a Cancel while it is idle.                 *)

RunnerReads ==
  /\ alive /\ stdin # <<>>
  /\ stdin' = Tail(stdin)
  /\ LET m == Head(stdin) IN
     \/ m.type = "generate" /\ busy = NoRequest /\ busy' = m.req /\ UNCHANGED frames
     \/ m.type = "cancel" /\ busy = NoRequest /\ UNCHANGED <<busy, frames>>
     \/ /\ m.type = "cancel" /\ busy # NoRequest
        /\ frames' = Append(frames, [tag |-> "cancelled", req |-> busy])
        /\ busy' = NoRequest
  /\ UNCHANGED <<resident, input, tried, run, ctxDone, listener, lock, model, alive, cooldownVars>>

RunnerEmits(tag) ==
  /\ alive /\ busy # NoRequest
  /\ Len(frames) < MaxFrames
  /\ frames' = Append(frames, [tag |-> tag, req |-> busy])
  /\ busy' = IF tag = "chunk" THEN busy ELSE NoRequest
  /\ UNCHANGED <<resident, input, tried, run, ctxDone, listener, lock, model, alive, stdin, cooldownVars>>

\* cmd.Wait closes the provider's end of the pipe as soon as the process has
\* exited: what readRunnerFrames has not read by then is lost.
RunnerDies ==
  /\ alive
  /\ alive' = FALSE
  /\ busy' = NoRequest
  /\ \E n \in 0..Len(frames) : frames' = SubSeq(frames, 1, n)
  /\ UNCHANGED <<resident, input, tried, run, ctxDone, listener, lock, model, stdin, cooldownVars>>

----------------------------------------------------------------------------
RunStep(r) ==
  \/ TryCandidate(r) \/ StopListening(r) \/ PrepareFails(r) \/ Lock(r)
  \/ SendStarted(r) \/ StartedUnsent(r) \/ WriteGenerate(r) \/ WriteFails(r)
  \/ ReadChunk(r) \/ ReadOutcome(r) \/ ReadFatal(r) \/ ReadFails(r)
  \/ SendDelta(r) \/ SendOutcome(r) \/ SendCancel(r)
  \/ DrainChunk(r) \/ DrainCompleted(r) \/ CancelFails(r) \/ SendError(r)

Next ==
  \/ \E r \in Request : Call(r) \/ CtxEnds(r) \/ RunStep(r)
  \/ TimerFires
  \/ \E e \in fired : Callback(e)
  \/ Close
  \/ RunnerReads
  \/ \E tag \in Tag \ {"cancelled"} : RunnerEmits(tag)
  \/ RunnerDies

Spec == Init /\ [][Next]_vars

\* Goroutines and timers run.  Every request has a deadline.  readFrame and
\* sendRunnerEvent select at random, so a context that is done is noticed,
\* and a drain ends after runnerCancelTimeout.  Nothing is asked of the
\* runner, of the client that cancels, or of the caller of Close.
Fairness ==
  /\ \A r \in Request :
       /\ WF_vars(RunStep(r))
       /\ WF_vars(CtxEnds(r))
       /\ WF_vars(SendCancel(r) \/ CancelFails(r))
       /\ WF_vars(CancelFails(r))
  /\ WF_vars(TimerFires)
  /\ WF_vars(\E e \in fired : Callback(e))

FairSpec == Spec /\ Fairness

----------------------------------------------------------------------------
(* Properties *)

\* The state has its type, and p.mu is held by exactly the request whose run
\* is between Lock and Unlock.
TypeOK ==
  /\ resident \in Residents
  /\ input \in [Request -> [names : Candidates, fits : BOOLEAN]]
  /\ tried \in [Request -> Nat]
  /\ \A r \in Request : tried[r] < Len(input[r].names)
  /\ run \in [Request -> RunPC]
  /\ ctxDone \subseteq Request
  /\ listener \in Request \union {NoRequest}
  /\ lock \in Request \union {NoRequest}
  /\ \A r \in Request : lock = r <=> run[r] \in Holding
  /\ model \in Model \union {NoModel}
  /\ alive \in BOOLEAN
  /\ stdin \in Seq(Message)
  /\ busy \in Request \union {NoRequest}
  /\ frames \in Seq(Frame)
  /\ epoch \in Nat
  /\ timer \in Nat
  /\ fired \subseteq Nat

\* A run generates with the model it was routed to: between the mutex's two
\* acquisitions a cooldown callback, Close or another request may have
\* replaced the session that Generate made (sessionFor in run).
RunUsesItsModel == \A r \in Request : run[r] \in Serving => model = Chosen(r)

\* One session serves one request after another without mixing them up: what
\* the pipes and the runner hold belongs to the run that reads, nothing of a
\* finished run is left to the next one, and a Cancel left in stdin never
\* ends the generation of a request that nobody cancelled (cancelAndDrain's
\* comment: "A late Cancel is silently ignored by the runner while idle").
SessionServesOneRequest ==
  LET pending == {i \in DOMAIN stdin : stdin[i].type = "generate"}
      reading(r) == run[r] \in {"read", "delta", "drainRead", "drainDelta"}
  IN /\ \A i \in pending : reading(stdin[i].req)
     /\ busy # NoRequest => reading(busy)
     /\ \A i \in DOMAIN frames :
          /\ reading(frames[i].req)
          /\ frames[i].tag = "cancelled" => frames[i].req \in ctxDone

\* A running cooldown is that of the latest run, and until it has expired no
\* earlier callback, however late it gets the mutex, replaces the session
\* (the epoch check of scheduleCooldownLocked).
CooldownUndisturbed ==
  timer # 0 =>
    /\ timer = epoch /\ epoch \notin fired
    /\ model = NoModel \/ model # resident.named

\* Every request the worker hands to the provider ends, whatever the runner
\* does: its event channel is closed and p.mu is released, so that the worker
\* and the next request go on.
EveryRunEnds == \A r \in Request : run[r] = "generate" ~> run[r] = "closed" /\ listener # r

\* docs/configuration.md: "`resident_model` names the model restored after
\* idle cooldown and may be omitted to use the globally default route".  A model
\* that is not the one to be restored does not stay loaded for ever while
\* nothing runs.
ResidentRestored == []<>(model \in {resident.restored, NoModel} \/ lock # NoRequest)

\* The same, if there is a model to be restored (without a resident_model, one of
\* the default route must be enabled) and as long as no request is refused by
\* its model's template.
ResidentRestoredUnlessRefused ==
  resident.restored # NoModel /\ [](\A r \in Request : run[r] = "wait" => input[r].fits)
    => ResidentRestored
====
