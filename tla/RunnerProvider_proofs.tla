---- MODULE RunnerProvider_proofs ----
(***************************************************************************)
(* Theorems about RunnerProvider, for any number of requests and models,   *)
(* any routes and any length of the pipes: p.mu excludes, a run uses its   *)
(* own model, requests on one session are not mixed up, and a cooldown is  *)
(* not disturbed by an earlier one.                                        *)
(***************************************************************************)
EXTENDS RunnerProvider, TLAPS

\* A model that a request was routed to is a configured one.
LEMMA ChosenIsModel ==
  ASSUME TypeOK, NEW r \in Request
  PROVE  Chosen(r) \in Model
<1>1. input[r].names \in Seq(Model) /\ tried[r] \in Nat /\ tried[r] < Len(input[r].names)
  BY CandidatesAssumption DEF TypeOK
<1> QED
  BY <1>1 DEF Chosen

\* The session's part of the type invariant.
SessionOK ==
  /\ model \in Model \union {NoModel}
  /\ alive \in BOOLEAN
  /\ stdin \in Seq(Message)
  /\ busy \in Request \union {NoRequest}
  /\ frames \in Seq(Frame)

\* The rest of it.
RunsOK ==
  /\ resident \in Residents
  /\ input \in [Request -> [names : Candidates, fits : BOOLEAN]]
  /\ tried \in [Request -> Nat]
  /\ \A r \in Request : tried[r] < Len(input[r].names)
  /\ run \in [Request -> RunPC]
  /\ ctxDone \subseteq Request
  /\ listener \in Request \union {NoRequest}
  /\ lock \in Request \union {NoRequest}
  /\ \A r \in Request : lock = r <=> run[r] \in Holding
  /\ epoch \in Nat
  /\ timer \in Nat
  /\ fired \subseteq Nat

LEMMA TypeParts == TypeOK <=> SessionOK /\ RunsOK
BY DEF TypeOK, SessionOK, RunsOK

\* A session that is closed or started has the right type.
LEMMA NewSessionTypes ==
  /\ NoSession => SessionOK'
  /\ \A m \in Model : StartSession(m) => SessionOK'
<1>1. <<>> \in Seq(Message) /\ <<>> \in Seq(Frame)
  OBVIOUS
<1>2. NoSession => SessionOK'
  BY <1>1 DEF NoSession, SessionOK
<1>3. ASSUME NEW m \in Model, StartSession(m) PROVE SessionOK'
  BY <1>1, <1>3 DEF StartSession, SessionOK
<1> QED
  BY <1>2, <1>3

\* The callback leaves the session alone, closes it or starts another.
LEMMA CallbackSession ==
  ASSUME resident \in Residents, NEW e \in fired, Callback(e)
  PROVE  UNCHANGED sessionVars \/ NoSession \/ \E m \in Model : StartSession(m)
<1>1. resident.restored # NoModel => resident.restored \in Model
  BY ResidentsAssumption
<1> QED
  BY <1>1 DEF Callback, Restore

\* sessionFor leaves a session of its model, or none.
LEMMA SessionForTypes ==
  ASSUME SessionOK, NEW m \in Model, NEW ok \in BOOLEAN, SessionFor(m, ok)
  PROVE  model' = (IF ok THEN m ELSE NoModel) /\ SessionOK'
<1>1. CASE UNCHANGED sessionVars /\ ok /\ model = m
  BY <1>1 DEF SessionOK, sessionVars
<1>2. CASE StartSession(m) /\ ok
  BY <1>2, NewSessionTypes DEF StartSession
<1>3. CASE NoSession /\ ~ok
  BY <1>3, NewSessionTypes DEF NoSession
<1> QED
  BY <1>1, <1>2, <1>3 DEF SessionFor

\* Types, and p.mu is held by the run between Lock and Unlock.
LEMMA TypeInit == Init => TypeOK
<1> SUFFICES ASSUME Init PROVE TypeOK
  OBVIOUS
<1>1. <<>> \in Seq(Message) /\ <<>> \in Seq(Frame)
  OBVIOUS
<1>2. SessionOK
  BY <1>1 DEF Init, SessionOK
<1>3. \A r \in Request : 0 < Len(input[r].names)
  BY CandidatesAssumption DEF Init
<1>4. RunsOK
  BY <1>3, RequestAssumption DEF Init, RunsOK, RunPC, Holding, Serving
<1> QED
  BY <1>2, <1>4, TypeParts

\* The session keeps its type in every step, ...
LEMMA SessionTypeStep == TypeOK /\ [Next]_vars => SessionOK'
<1> SUFFICES ASSUME TypeOK, [Next]_vars PROVE SessionOK'
  OBVIOUS
<1>0. SessionOK
  BY TypeParts
<1>1. CASE UNCHANGED sessionVars
  BY <1>0, <1>1 DEF SessionOK, sessionVars
<1>2. CASE NoSession \/ \E m \in Model : StartSession(m)
  BY <1>2, NewSessionTypes
<1>3. ASSUME NEW r \in Request, TryCandidate(r) \/ Lock(r) PROVE SessionOK'
  BY <1>0, <1>3, ChosenIsModel, SessionForTypes DEF TryCandidate, Lock
<1>4. ASSUME NEW r \in Request, WriteGenerate(r) \/ SendCancel(r) PROVE SessionOK'
  <2>1. PICK msg \in Message : stdin' = Append(stdin, msg)
    <3>1. /\ [type |-> "generate", req |-> r] \in Message
          /\ [type |-> "cancel", req |-> NoRequest] \in Message
      BY DEF Message
    <3> QED
      BY <1>4, <3>1 DEF WriteGenerate, SendCancel
  <2>2. stdin' \in Seq(Message)
    BY <1>0, <2>1 DEF SessionOK
  <2>3. UNCHANGED <<model, alive, busy, frames>>
    BY <1>4 DEF WriteGenerate, SendCancel
  <2> QED
    BY <1>0, <2>2, <2>3 DEF SessionOK
<1>5. ASSUME NEW r \in Request,
             ReadChunk(r) \/ ReadOutcome(r) \/ DrainChunk(r) \/ DrainCompleted(r)
      PROVE  SessionOK'
  <2>1. frames # <<>> /\ frames' = Tail(frames) /\ UNCHANGED <<model, alive, stdin, busy>>
    BY <1>5 DEF ReadChunk, ReadOutcome, DrainChunk, DrainCompleted, Finds
  <2>2. frames' \in Seq(Frame)
    BY <1>0, <2>1 DEF SessionOK
  <2> QED
    BY <1>0, <2>1, <2>2 DEF SessionOK
<1>6. CASE RunnerReads
  <2>1. Head(stdin) \in Message /\ stdin' \in Seq(Message)
    BY <1>0, <1>6 DEF RunnerReads, SessionOK
  <2>2. \/ busy' \in {Head(stdin).req, busy} /\ frames' = frames
        \/ /\ busy # NoRequest /\ busy' = NoRequest
           /\ frames' = Append(frames, [tag |-> "cancelled", req |-> busy])
    BY <1>6 DEF RunnerReads
  <2>3. busy' \in Request \union {NoRequest} /\ frames' \in Seq(Frame)
    <3>1. CASE busy' \in {Head(stdin).req, busy} /\ frames' = frames
      BY <1>0, <2>1, <3>1 DEF SessionOK, Message
    <3>2. CASE busy # NoRequest /\ busy' = NoRequest
               /\ frames' = Append(frames, [tag |-> "cancelled", req |-> busy])
      <4>1. [tag |-> "cancelled", req |-> busy] \in Frame
        BY <1>0, <3>2 DEF SessionOK, Frame, Tag
      <4> QED
        BY <1>0, <3>2, <4>1 DEF SessionOK
    <3> QED
      BY <2>2, <3>1, <3>2
  <2>4. model' = model /\ alive' = alive
    BY <1>6 DEF RunnerReads
  <2> QED
    BY <1>0, <2>1, <2>3, <2>4 DEF SessionOK
<1>7. ASSUME NEW tag \in Tag \ {"cancelled"}, RunnerEmits(tag) PROVE SessionOK'
  <2>1. frames' \in Seq(Frame)
    BY <1>0, <1>7 DEF RunnerEmits, Frame, SessionOK
  <2> QED
    BY <1>0, <1>7, <2>1 DEF RunnerEmits, SessionOK
<1>8. CASE RunnerDies
  <2>1. frames' \in Seq(Frame)
    BY <1>0, <1>8 DEF RunnerDies, SessionOK
  <2> QED
    BY <1>0, <1>8, <2>1 DEF RunnerDies, SessionOK
<1>9. ASSUME NEW e \in fired, Callback(e) PROVE SessionOK'
  <2>1. resident \in Residents
    BY DEF TypeOK
  <2> QED
    BY <1>1, <1>2, <1>9, <2>1, CallbackSession
<1>10. ASSUME NEW r \in Request,
              \/ WriteFails(r) \/ ReadFatal(r) \/ ReadFails(r) \/ CancelFails(r)
       PROVE  SessionOK'
  BY <1>2, <1>10 DEF WriteFails, ReadFatal, ReadFails, CancelFails
<1>11. CASE Close
  BY <1>2, <1>11 DEF Close
<1>12. CASE TimerFires \/ UNCHANGED vars
  BY <1>1, <1>12 DEF TimerFires, vars, sessionVars
<1>13. ASSUME NEW r \in Request,
              \/ Call(r) \/ CtxEnds(r) \/ StopListening(r) \/ PrepareFails(r) \/ SendStarted(r)
              \/ StartedUnsent(r) \/ SendDelta(r) \/ SendOutcome(r) \/ SendError(r)
       PROVE  SessionOK'
  BY <1>1, <1>13 DEF Call, CtxEnds, StopListening, PrepareFails, SendStarted, StartedUnsent,
                     SendDelta, SendOutcome, SendError
<1> QED
  BY <1>3, <1>4, <1>5, <1>6, <1>7, <1>8, <1>9, <1>10, <1>11, <1>12, <1>13, Zenon DEF Next, RunStep

\* ... and so do the runs, the mutex and the timer.
LEMMA RunsTypeStep == TypeOK /\ [Next]_vars => RunsOK'
<1> SUFFICES ASSUME TypeOK, [Next]_vars PROVE RunsOK'
  OBVIOUS
<1>0. RunsOK
  BY TypeParts
<1> USE RequestAssumption DEF RunsOK, RunPC, Holding, Serving, Goes, cooldownVars
<1>1. CASE UNCHANGED <<resident, input, tried, run, ctxDone, listener, lock, cooldownVars>>
  BY <1>0, <1>1
<1>2. ASSUME NEW r \in Request,
             \/ Call(r) \/ CtxEnds(r) \/ StopListening(r) \/ PrepareFails(r) \/ SendError(r)
      PROVE  RunsOK'
  BY <1>0, <1>2 DEF Call, CtxEnds, StopListening, PrepareFails, SendError
<1>3. ASSUME NEW r \in Request, TryCandidate(r) PROVE RunsOK'
  <2>1. /\ timer' = 0 /\ UNCHANGED <<resident, input, ctxDone, lock, epoch, fired>>
        /\ lock = NoRequest
    BY <1>3 DEF TryCandidate, StopCooldown
  <2>2. CASE Goes(r, "generate", "wait") /\ UNCHANGED <<tried, listener>>
    BY <1>0, <2>1, <2>2
  <2>3. CASE /\ tried[r] + 1 < Len(input[r].names) /\ Goes(r, "generate", "generate")
             /\ tried' = [tried EXCEPT ![r] = @ + 1] /\ UNCHANGED listener
    BY <1>0, <2>1, <2>3
  <2>4. CASE Goes(r, "generate", "closed") /\ listener' = NoRequest /\ UNCHANGED tried
    BY <1>0, <2>1, <2>4
  <2> QED
    BY <1>3, <2>2, <2>3, <2>4 DEF TryCandidate
<1>4. ASSUME NEW r \in Request, Lock(r) PROVE RunsOK'
  BY <1>0, <1>4 DEF Lock, StopCooldown
<1>5. ASSUME NEW r \in Request,
             \/ SendStarted(r) \/ WriteGenerate(r) \/ ReadChunk(r) \/ ReadOutcome(r)
             \/ ReadFatal(r) \/ SendDelta(r) \/ SendCancel(r)
      PROVE  RunsOK'
  <2>1. /\ run[r] \in Holding /\ \E to \in Holding : run' = [run EXCEPT ![r] = to]
        /\ UNCHANGED <<resident, input, tried, ctxDone, listener, lock, cooldownVars>>
    BY <1>5 DEF SendStarted, WriteGenerate, ReadChunk, ReadOutcome, ReadFatal, SendDelta, SendCancel
  <2> QED
    BY <1>0, <2>1
<1>6. ASSUME NEW r \in Request, NEW from \in Holding, NEW to \in {"error", "closed"},
             Return(r, from, to)
      PROVE  RunsOK'
  BY <1>0, <1>6 DEF Return
<1>7. ASSUME NEW r \in Request,
             \/ StartedUnsent(r) \/ WriteFails(r) \/ ReadFails(r) \/ SendOutcome(r)
             \/ DrainCompleted(r) \/ CancelFails(r)
      PROVE  RunsOK'
  BY <1>6, <1>7 DEF StartedUnsent, WriteFails, ReadFails, SendOutcome, DrainCompleted, CancelFails
<1>8. ASSUME NEW r \in Request, DrainChunk(r) PROVE RunsOK'
  BY <1>1, <1>8 DEF DrainChunk
<1>9. CASE TimerFires
  BY <1>0, <1>9 DEF TimerFires
<1>10. ASSUME NEW e \in fired, Callback(e) PROVE RunsOK'
  BY <1>0, <1>10 DEF Callback
<1>11. CASE Close
  BY <1>0, <1>11 DEF Close, StopCooldown
<1>12. CASE RunnerReads \/ RunnerDies \/ UNCHANGED vars
  BY <1>1, <1>12 DEF RunnerReads, RunnerDies, vars
<1>13. ASSUME NEW tag \in Tag \ {"cancelled"}, RunnerEmits(tag) PROVE RunsOK'
  BY <1>1, <1>13 DEF RunnerEmits
<1> QED
  BY <1>2, <1>3, <1>4, <1>5, <1>7, <1>8, <1>9, <1>10, <1>11, <1>12, <1>13, Zenon DEF Next, RunStep

\* The state has its type, and p.mu is held by the run between Lock and Unlock
\* (RunnerProvider.run).
THEOREM ProviderTypeCorrect == Spec => []TypeOK
<1>1. TypeOK /\ [Next]_vars => TypeOK'
  <2>1. (TypeOK <=> SessionOK /\ RunsOK)'
    BY TypeParts, PTL
  <2> QED
    BY <2>1, SessionTypeStep, RunsTypeStep
<1> QED
  BY <1>1, TypeInit, PTL DEF Spec

----------------------------------------------------------------------------
(* The model of a run and the cooldown.  CooldownUndisturbed is not         *)
(* inductive alone: that a timer started by Return is the only one of its   *)
(* epoch rests on the new epoch of Lock and on the stopped timer.           *)

\* While p.mu is held no timer runs and no callback has the present epoch, all
\* epochs are past ones, and a run that has its outcome has not left the model.
EpochsInOrder ==
  /\ timer <= epoch
  /\ \A e \in fired : e <= epoch
  /\ lock # NoRequest => timer = 0 /\ epoch \notin fired
  /\ \A r \in Request : run[r] = "outcome" => model \in {Chosen(r), NoModel}

CooldownInv == RunUsesItsModel /\ EpochsInOrder /\ CooldownUndisturbed

LEMMA CooldownInit == Init => CooldownInv
BY DEF Init, CooldownInv, RunUsesItsModel, EpochsInOrder, CooldownUndisturbed, Serving

\* A step that leaves the session's model, the mutex and the timer alone, and
\* moves no run into Serving or to its outcome.
LEMMA CooldownStutters ==
  ASSUME CooldownInv, UNCHANGED <<resident, input, tried, lock, model, cooldownVars>>,
         \A r \in Request : run'[r] \in Serving => run[r] \in Serving,
         \A r \in Request : run'[r] = "outcome" => run[r] \in Holding
  PROVE  CooldownInv'
BY DEF CooldownInv, RunUsesItsModel, EpochsInOrder, CooldownUndisturbed, Chosen, cooldownVars, Holding

\* Between Unlock and Lock no run is serving: the session may be replaced, and
\* a timer that runs is stopped, or is for another epoch than the callback's.
LEMMA CooldownUnlocked ==
  ASSUME TypeOK, lock = NoRequest
  PROVE  \A r \in Request : run[r] \notin Holding
BY RequestAssumption DEF TypeOK

\* A run that returns starts the timer of its own epoch.
LEMMA CooldownReturn ==
  ASSUME TypeOK, CooldownInv, NEW r \in Request, NEW from \in Holding,
         NEW to \in {"error", "closed"}, Return(r, from, to),
         model' = model \/ model' = NoModel
  PROVE  CooldownInv'
<1>1. /\ run[r] = from /\ run' = [run EXCEPT ![r] = to]
      /\ lock' = NoRequest
      /\ timer' = (IF Chosen(r) = resident.named THEN timer ELSE epoch)
      /\ UNCHANGED <<resident, input, tried, epoch, fired>>
  BY DEF Return, Goes
<1>2. lock = r /\ lock # NoRequest /\ \A q \in Request : run'[q] \notin Holding
  BY <1>1, RequestAssumption DEF TypeOK, Holding, Serving
<1>3. timer = 0 /\ epoch \notin fired /\ epoch \in Nat /\ model \in {Chosen(r), NoModel}
  BY <1>1, <1>2 DEF CooldownInv, EpochsInOrder, RunUsesItsModel, Holding, TypeOK
<1>4. RunUsesItsModel'
  BY <1>2 DEF RunUsesItsModel, Holding
<1>5. EpochsInOrder'
  BY <1>1, <1>2, <1>3 DEF EpochsInOrder, CooldownInv, Holding
<1>6. CooldownUndisturbed'
  BY <1>1, <1>3, ModelAssumption DEF CooldownUndisturbed
<1> QED
  BY <1>4, <1>5, <1>6 DEF CooldownInv

\* Every step keeps a run with its model and the epochs in order.
LEMMA CooldownStep == TypeOK /\ CooldownInv /\ [Next]_vars => CooldownInv'
<1> SUFFICES ASSUME TypeOK, CooldownInv, [Next]_vars PROVE CooldownInv'
  OBVIOUS
<1>0. run \in [Request -> RunPC]
  BY DEF TypeOK
<1>1. ASSUME NEW r \in Request,
             \/ Call(r) \/ CtxEnds(r) \/ StopListening(r) \/ PrepareFails(r) \/ SendStarted(r)
             \/ WriteGenerate(r) \/ ReadChunk(r) \/ ReadOutcome(r) \/ SendDelta(r)
             \/ SendCancel(r) \/ DrainChunk(r) \/ SendError(r)
      PROVE  CooldownInv'
  <2>1. UNCHANGED <<resident, input, tried, lock, model, cooldownVars>>
    BY <1>1 DEF Call, CtxEnds, StopListening, PrepareFails, SendStarted, WriteGenerate, ReadChunk,
                ReadOutcome, SendDelta, SendCancel, DrainChunk, SendError, sessionVars
  <2>2. \A q \in Request : run'[q] \in Serving => run[q] \in Serving
    BY <1>0, <1>1 DEF Call, CtxEnds, StopListening, PrepareFails, SendStarted, WriteGenerate,
                ReadChunk, ReadOutcome, SendDelta, SendCancel, DrainChunk, SendError, Goes, Serving
  <2>3. \A q \in Request : run'[q] = "outcome" => run[q] \in Holding
    BY <1>0, <1>1 DEF Call, CtxEnds, StopListening, PrepareFails, SendStarted, WriteGenerate,
                ReadChunk, ReadOutcome, SendDelta, SendCancel, DrainChunk, SendError, Goes,
                Serving, Holding
  <2> QED
    BY <2>1, <2>2, <2>3, CooldownStutters
<1>2. CASE RunnerReads \/ RunnerDies \/ UNCHANGED vars
  <2>1. UNCHANGED <<resident, input, tried, run, lock, model, cooldownVars>>
    BY <1>2 DEF RunnerReads, RunnerDies, vars, cooldownVars
  <2> QED
    BY <2>1, CooldownStutters DEF Holding
<1>3. ASSUME NEW tag \in Tag \ {"cancelled"}, RunnerEmits(tag) PROVE CooldownInv'
  <2>1. UNCHANGED <<resident, input, tried, run, lock, model, cooldownVars>>
    BY <1>3 DEF RunnerEmits
  <2> QED
    BY <2>1, CooldownStutters DEF Holding
<1>4. ASSUME NEW r \in Request, TryCandidate(r) PROVE CooldownInv'
  <2>1. /\ lock = NoRequest /\ timer' = 0 /\ UNCHANGED <<lock, epoch, fired>>
        /\ \E to \in {"wait", "generate", "closed"} : run' = [run EXCEPT ![r] = to]
    BY <1>4 DEF TryCandidate, StopCooldown, Goes
  <2>2. \A q \in Request : run'[q] \notin Holding
    BY <1>0, <2>1, CooldownUnlocked DEF Holding, Serving
  <2> QED
    BY <2>1, <2>2 DEF CooldownInv, RunUsesItsModel, EpochsInOrder, CooldownUndisturbed, Holding, TypeOK
<1>5. ASSUME NEW r \in Request, Lock(r) PROVE CooldownInv'
  <2>1. PICK ok \in BOOLEAN :
          /\ SessionFor(Chosen(r), ok)
          /\ Goes(r, "wait", IF ok THEN "start" ELSE "error")
          /\ lock' = IF ok THEN r ELSE NoRequest
    BY <1>5 DEF Lock
  <2>2. /\ timer' = 0 /\ epoch' = epoch + 1 /\ lock = NoRequest
        /\ UNCHANGED <<resident, input, tried, fired>>
    BY <1>5 DEF Lock, StopCooldown
  <2>3. ok => model' = Chosen(r)
    BY <2>1, ChosenIsModel, SessionForTypes, TypeParts
  <2>4. /\ \A q \in Request : run'[q] \in Serving => q = r /\ ok
        /\ \A q \in Request : run'[q] # "outcome"
    BY <1>0, <2>1, <2>2, CooldownUnlocked DEF Goes, Holding, Serving
  <2>5. RunUsesItsModel'
    BY <2>2, <2>3, <2>4 DEF RunUsesItsModel, Chosen
  <2>6. EpochsInOrder'
    BY <2>2, <2>4 DEF EpochsInOrder, CooldownInv, TypeOK
  <2>7. CooldownUndisturbed'
    BY <2>2 DEF CooldownUndisturbed
  <2> QED
    BY <2>5, <2>6, <2>7 DEF CooldownInv
<1>6. ASSUME NEW r \in Request, StartedUnsent(r) \/ SendOutcome(r) \/ DrainCompleted(r)
      PROVE  CooldownInv'
  <2>1. model' = model
    BY <1>6 DEF StartedUnsent, SendOutcome, DrainCompleted, sessionVars
  <2> QED
    BY <1>6, <2>1, CooldownReturn
    DEF StartedUnsent, SendOutcome, DrainCompleted, Holding, Serving
<1>7. ASSUME NEW r \in Request, WriteFails(r) \/ ReadFails(r) \/ CancelFails(r) PROVE CooldownInv'
  <2>1. model' = NoModel
    BY <1>7 DEF WriteFails, ReadFails, CancelFails, NoSession
  <2> QED
    BY <1>7, <2>1, CooldownReturn DEF WriteFails, ReadFails, CancelFails, Holding, Serving
<1>8. ASSUME NEW r \in Request, ReadFatal(r) PROVE CooldownInv'
  <2>1. /\ run[r] = "read" /\ run' = [run EXCEPT ![r] = "outcome"] /\ model' = NoModel
        /\ UNCHANGED <<resident, input, tried, lock, epoch, timer, fired>>
    BY <1>8 DEF ReadFatal, Goes, NoSession, cooldownVars
  <2>2. lock = r /\ \A q \in Request : run'[q] \notin Serving
    BY <2>1 DEF TypeOK, Holding, Serving
  <2>3. timer' = 0
    BY <2>1, <2>2, RequestAssumption DEF CooldownInv, EpochsInOrder
  <2>4. RunUsesItsModel' /\ CooldownUndisturbed'
    BY <2>2, <2>3 DEF RunUsesItsModel, CooldownUndisturbed
  <2>5. EpochsInOrder'
    BY <2>1 DEF CooldownInv, EpochsInOrder
  <2> QED
    BY <2>4, <2>5 DEF CooldownInv
<1>9. CASE TimerFires
  <2>1. /\ timer # 0 /\ fired' = fired \union {timer} /\ timer' = 0
        /\ UNCHANGED <<resident, input, tried, run, lock, model, epoch>>
    BY <1>9 DEF TimerFires, sessionVars
  <2> QED
    BY <2>1 DEF CooldownInv, RunUsesItsModel, EpochsInOrder, CooldownUndisturbed, Chosen, TypeOK
<1>10. ASSUME NEW e \in fired, Callback(e) PROVE CooldownInv'
  <2>1. /\ lock = NoRequest /\ fired' = fired \ {e}
        /\ UNCHANGED <<resident, input, tried, run, lock, epoch, timer>>
        /\ epoch # e => model' = model
    BY <1>10 DEF Callback, sessionVars
  <2>2. \A q \in Request : run'[q] \notin Holding
    BY <2>1, CooldownUnlocked
  <2>3. timer # 0 => epoch # e
    BY DEF CooldownInv, CooldownUndisturbed
  <2> QED
    BY <2>1, <2>2, <2>3 DEF CooldownInv, RunUsesItsModel, EpochsInOrder, CooldownUndisturbed, Holding
<1>11. CASE Close
  <2>1. /\ lock = NoRequest /\ timer' = 0 /\ UNCHANGED <<run, lock, epoch, fired>>
    BY <1>11 DEF Close, StopCooldown
  <2>2. \A q \in Request : run'[q] \notin Holding
    BY <2>1, CooldownUnlocked
  <2> QED
    BY <2>1, <2>2 DEF CooldownInv, RunUsesItsModel, EpochsInOrder, CooldownUndisturbed, Holding, TypeOK
<1> QED
  BY <1>1, <1>2, <1>3, <1>4, <1>5, <1>6, <1>7, <1>8, <1>9, <1>10, <1>11, Zenon DEF Next, RunStep

LEMMA CooldownInvariant == Spec => []CooldownInv
BY CooldownInit, CooldownStep, ProviderTypeCorrect, PTL DEF Spec

\* A run generates with the model it was routed to, although another request,
\* a callback or Close may have replaced the session between Generate and run.
THEOREM RunsKeepTheirModel == Spec => []RunUsesItsModel
<1>1. CooldownInv => RunUsesItsModel
  BY DEF CooldownInv
<1> QED
  BY <1>1, CooldownInvariant, PTL

\* A running cooldown is the latest run's, and no earlier callback, however late
\* it gets the mutex, replaces the session before it has expired.
THEOREM CooldownsDoNotCross == Spec => []CooldownUndisturbed
<1>1. CooldownInv => CooldownUndisturbed
  BY DEF CooldownInv
<1> QED
  BY <1>1, CooldownInvariant, PTL

----------------------------------------------------------------------------
(* One generation at a time on a session. *)

ReadingPC == {"read", "delta", "drainRead", "drainDelta"}

Reading(r) == run[r] \in ReadingPC

\* What is in the pipes belongs to one generation, which is in one of three
\* places.  Its Generate message is unread, and what follows it is its Cancel,
UnreadGenerate ==
  \A i \in DOMAIN stdin : stdin[i].type = "generate" =>
    /\ Reading(stdin[i].req) /\ busy = NoRequest /\ frames = <<>>
    /\ \A k \in DOMAIN stdin : k > i => stdin[k].type = "cancel" /\ stdin[i].req \in ctxDone

\* or the runner works on it, and an unread Cancel is its own,
Working ==
  busy # NoRequest =>
    /\ Reading(busy)
    /\ \A i \in DOMAIN stdin : stdin[i].type = "cancel" /\ busy \in ctxDone

\* or its closing frame is the last one in the pipe.
UnreadFrames ==
  \A i \in DOMAIN frames :
    /\ Reading(frames[i].req)
    /\ frames[i].tag = "cancelled" => frames[i].req \in ctxDone
    /\ frames[i].tag # "chunk" => i = Len(frames) /\ busy = NoRequest

OneGeneration == UnreadGenerate /\ Working /\ UnreadFrames

\* Appending keeps the elements and adds one at the end.
LEMMA AppendElements ==
  ASSUME NEW S, NEW s \in Seq(S), NEW x \in S
  PROVE  /\ DOMAIN Append(s, x) = DOMAIN s \union {Len(s) + 1}
         /\ Len(Append(s, x)) = Len(s) + 1
         /\ \A k \in DOMAIN s : k <= Len(s) /\ Append(s, x)[k] = s[k]
         /\ Append(s, x)[Len(s) + 1] = x
OBVIOUS

\* Reading takes the head and shifts the rest.
LEMMA TailElements ==
  ASSUME NEW S, NEW s \in Seq(S), s # <<>>
  PROVE  /\ 1 \in DOMAIN s /\ s[1] = Head(s)
         /\ Len(Tail(s)) = Len(s) - 1
         /\ \A k \in DOMAIN Tail(s) :
              k + 1 \in DOMAIN s /\ k + 1 > 1 /\ Tail(s)[k] = s[k + 1]
OBVIOUS

\* The requests in messages and frames are requests.
LEMMA OwnersAreRequests ==
  ASSUME TypeOK
  PROVE  /\ \A i \in DOMAIN stdin :
              stdin[i].type \in {"generate", "cancel"}
              /\ (stdin[i].type = "generate" => stdin[i].req \in Request)
         /\ busy # NoRequest => busy \in Request
         /\ \A i \in DOMAIN frames : frames[i].req \in Request
<1>1. \A i \in DOMAIN stdin : stdin[i] \in Message
  BY DEF TypeOK
<1>2. \A i \in DOMAIN frames : frames[i] \in Frame
  BY DEF TypeOK
<1> QED
  BY <1>1, <1>2 DEF TypeOK, Message, Frame

\* Only the run that holds p.mu reads.
LEMMA ReaderHoldsMutex ==
  ASSUME TypeOK, NEW r \in Request, Reading(r)
  PROVE  lock = r
BY DEF TypeOK, Reading, ReadingPC, Holding, Serving

\* When no run reads, nothing of a generation is left.
LEMMA NobodyReads ==
  ASSUME TypeOK, OneGeneration, \A q \in Request : ~Reading(q)
  PROVE  /\ \A i \in DOMAIN stdin : stdin[i].type = "cancel"
         /\ busy = NoRequest
         /\ frames = <<>>
<1>1. \A i \in DOMAIN stdin : stdin[i].type = "cancel"
  BY OwnersAreRequests DEF OneGeneration, UnreadGenerate
<1>2. busy = NoRequest
  BY OwnersAreRequests DEF OneGeneration, Working
<1>3. DOMAIN frames = {}
  BY OwnersAreRequests DEF OneGeneration, UnreadFrames
<1>4. frames = <<>>
  BY <1>3 DEF TypeOK
<1> QED
  BY <1>1, <1>2, <1>4

\* A session without a generation, whatever Cancels are left in it.
LEMMA IdleSession ==
  ASSUME \A i \in DOMAIN stdin' : stdin'[i].type # "generate",
         busy' = NoRequest, frames' = <<>>
  PROVE  OneGeneration'
<1>1. DOMAIN frames' = {}
  OBVIOUS
<1> QED
  BY <1>1 DEF OneGeneration, UnreadGenerate, Working, UnreadFrames

\* A session that is closed or started is empty.
LEMMA NewSession == NoSession \/ (\E m \in Model : StartSession(m)) => OneGeneration'
<1> SUFFICES ASSUME NoSession \/ \E m \in Model : StartSession(m) PROVE OneGeneration'
  OBVIOUS
<1>1. stdin' = <<>> /\ busy' = NoRequest /\ frames' = <<>>
  BY DEF NoSession, StartSession
<1>2. DOMAIN stdin' = {}
  BY <1>1
<1> QED
  BY <1>1, <1>2, IdleSession

\* A step that leaves the session alone and ends no reading.
LEMMA SessionAlone ==
  ASSUME TypeOK, OneGeneration, UNCHANGED sessionVars, ctxDone \subseteq ctxDone',
         \A q \in Request : Reading(q) => Reading(q)'
  PROVE  OneGeneration'
<1>1. UNCHANGED <<stdin, busy, frames>>
  BY DEF sessionVars
<1>2. UnreadGenerate'
  BY <1>1, OwnersAreRequests DEF OneGeneration, UnreadGenerate
<1>3. Working'
  BY <1>1, OwnersAreRequests DEF OneGeneration, Working
<1>4. UnreadFrames'
  BY <1>1, OwnersAreRequests DEF OneGeneration, UnreadFrames
<1> QED
  BY <1>2, <1>3, <1>4 DEF OneGeneration

\* A step of anybody while no run reads.
LEMMA SessionAloneUnread ==
  ASSUME TypeOK, OneGeneration, UNCHANGED sessionVars, \A q \in Request : ~Reading(q)
  PROVE  OneGeneration'
BY NobodyReads, IdleSession DEF sessionVars

\* The provider reads a chunk.
LEMMA ChunkRead ==
  ASSUME TypeOK, OneGeneration, Finds("chunk"), frames' = Tail(frames),
         UNCHANGED <<stdin, busy, ctxDone>>,
         \A q \in Request : Reading(q) => Reading(q)'
  PROVE  OneGeneration'
<1>1. frames # <<>> /\ frames \in Seq(Frame)
  BY DEF TypeOK, Finds
<1>2. 1 \in DOMAIN frames
  BY <1>1, TailElements
<1>3. UnreadGenerate'
  BY <1>1 DEF OneGeneration, UnreadGenerate
<1>4. Working'
  BY OwnersAreRequests DEF OneGeneration, Working
<1>5. ASSUME NEW i \in DOMAIN Tail(frames)
      PROVE  /\ run'[Tail(frames)[i].req] \in ReadingPC
             /\ Tail(frames)[i].tag = "cancelled" => Tail(frames)[i].req \in ctxDone
             /\ Tail(frames)[i].tag # "chunk" => i = Len(Tail(frames)) /\ busy = NoRequest
  <2>1. i + 1 \in DOMAIN frames /\ Tail(frames)[i] = frames[i + 1]
        /\ Len(Tail(frames)) = Len(frames) - 1 /\ i \in Nat /\ Len(frames) \in Nat
    BY <1>1, TailElements
  <2>2. Reading(frames[i + 1].req)
    BY <2>1 DEF OneGeneration, UnreadFrames
  <2>3. /\ frames[i + 1].tag = "cancelled" => frames[i + 1].req \in ctxDone
        /\ frames[i + 1].tag # "chunk" => i + 1 = Len(frames) /\ busy = NoRequest
    BY <2>1 DEF OneGeneration, UnreadFrames
  <2>4. frames[i + 1].req \in Request
    BY <2>1, OwnersAreRequests
  <2>5. run'[frames[i + 1].req] \in ReadingPC
    BY <2>2, <2>4 DEF Reading
  <2> QED
    BY <2>1, <2>3, <2>5
<1>6. UnreadFrames'
  BY <1>5 DEF UnreadFrames, Reading
<1> QED
  BY <1>3, <1>4, <1>6 DEF OneGeneration

\* The provider reads the closing frame: nothing is left of the generation.
LEMMA ClosingFrameRead ==
  ASSUME TypeOK, OneGeneration, frames # <<>>, Head(frames).tag # "chunk",
         frames' = Tail(frames), UNCHANGED <<stdin, busy>>
  PROVE  OneGeneration'
<1>1. frames \in Seq(Frame)
  BY DEF TypeOK
<1>2. 1 \in DOMAIN frames /\ frames[1].tag # "chunk"
  BY <1>1, TailElements
<1>3. 1 = Len(frames) /\ busy = NoRequest
  BY <1>2 DEF OneGeneration, UnreadFrames
<1>4. frames' = <<>>
  BY <1>1, <1>3
<1>5. \A i \in DOMAIN stdin : stdin[i].type # "generate"
  BY DEF OneGeneration, UnreadGenerate
<1> QED
  BY <1>3, <1>4, <1>5, IdleSession

LEMMA OneGenerationInit == Init => OneGeneration
<1> SUFFICES ASSUME Init PROVE OneGeneration
  OBVIOUS
<1>1. DOMAIN stdin = {} /\ DOMAIN frames = {} /\ busy = NoRequest
  BY DEF Init
<1> QED
  BY <1>1 DEF OneGeneration, UnreadGenerate, Working, UnreadFrames

\* writeGenerate starts a generation where nothing is left of another one.
LEMMA GenerateWritten ==
  ASSUME TypeOK, OneGeneration, NEW r \in Request, WriteGenerate(r)
  PROVE  OneGeneration'
<1> DEFINE msg == [type |-> "generate", req |-> r]
<1>1. /\ run[r] = "write" /\ run' = [run EXCEPT ![r] = "read"]
      /\ stdin' = Append(stdin, msg) /\ UNCHANGED <<busy, frames>>
  BY DEF WriteGenerate, Goes
<1>2. lock = r /\ ~Reading(r)
  BY <1>1 DEF TypeOK, Holding, Serving, Reading, ReadingPC
<1>3. \A q \in Request : ~Reading(q)
  BY <1>2, ReaderHoldsMutex
<1>4. /\ \A i \in DOMAIN stdin : stdin[i].type = "cancel"
      /\ busy = NoRequest /\ frames = <<>>
  BY <1>3, NobodyReads
<1>5. msg \in Message /\ stdin \in Seq(Message) /\ Len(stdin) \in Nat
  BY DEF Message, TypeOK
<1>6. run'[r] \in ReadingPC
  BY <1>1 DEF TypeOK, ReadingPC
<1>7. /\ DOMAIN stdin' = DOMAIN stdin \union {Len(stdin) + 1}
      /\ \A k \in DOMAIN stdin : k <= Len(stdin) /\ stdin'[k] = stdin[k]
      /\ stdin'[Len(stdin) + 1] = msg
  BY <1>1, <1>5, AppendElements
<1>8. DOMAIN stdin \subseteq Nat
  BY <1>5
<1>9. UnreadGenerate'
  BY <1>1, <1>4, <1>5, <1>6, <1>7, <1>8 DEF UnreadGenerate, Reading
<1>10. DOMAIN frames' = {}
  BY <1>1, <1>4
<1> QED
  BY <1>1, <1>4, <1>9, <1>10 DEF OneGeneration, Working, UnreadFrames

\* cancelAndDrain writes a Cancel behind the generation of its own request.
LEMMA CancelWritten ==
  ASSUME TypeOK, OneGeneration, NEW r \in Request, SendCancel(r)
  PROVE  OneGeneration'
<1> DEFINE msg == [type |-> "cancel", req |-> NoRequest]
<1>1. /\ Reading(r) /\ r \in ctxDone /\ \E to \in ReadingPC : run' = [run EXCEPT ![r] = to]
      /\ stdin' = Append(stdin, msg) /\ UNCHANGED <<busy, frames, ctxDone>>
  BY DEF SendCancel, Goes, Reading, ReadingPC
<1>2. lock = r
  BY <1>1, ReaderHoldsMutex
<1>3. \A q \in Request : Reading(q) => run'[q] \in ReadingPC /\ q \in ctxDone
  BY <1>1, <1>2, ReaderHoldsMutex DEF TypeOK, Reading
<1>4. msg \in Message /\ stdin \in Seq(Message) /\ Len(stdin) \in Nat
  BY DEF Message, TypeOK
<1>5. /\ DOMAIN stdin' = DOMAIN stdin \union {Len(stdin) + 1}
      /\ \A k \in DOMAIN stdin : k <= Len(stdin) /\ stdin'[k] = stdin[k]
      /\ stdin'[Len(stdin) + 1] = msg
  BY <1>1, <1>4, AppendElements
<1>6. ASSUME NEW i \in DOMAIN stdin', stdin'[i].type = "generate"
      PROVE  /\ run'[stdin'[i].req] \in ReadingPC /\ busy = NoRequest /\ frames = <<>>
             /\ \A k \in DOMAIN stdin' :
                  k > i => stdin'[k].type = "cancel" /\ stdin'[i].req \in ctxDone
  <2>1. i \in DOMAIN stdin /\ stdin'[i] = stdin[i]
    BY <1>5, <1>6
  <2>2. stdin[i].req \in Request /\ Reading(stdin[i].req)
    BY <1>6, <2>1, OwnersAreRequests DEF OneGeneration, UnreadGenerate
  <2>3. /\ busy = NoRequest /\ frames = <<>>
        /\ \A k \in DOMAIN stdin : k > i => stdin[k].type = "cancel"
    BY <1>6, <2>1 DEF OneGeneration, UnreadGenerate
  <2> QED
    BY <1>3, <1>5, <2>1, <2>2, <2>3
<1>7. UnreadGenerate'
  BY <1>1, <1>6 DEF UnreadGenerate, Reading
<1>8. Working'
  <2>1. ASSUME busy # NoRequest
        PROVE  /\ run'[busy] \in ReadingPC
               /\ \A i \in DOMAIN stdin' : stdin'[i].type = "cancel" /\ busy \in ctxDone
    <3>1. busy \in Request /\ Reading(busy) /\ \A i \in DOMAIN stdin : stdin[i].type = "cancel"
      BY <2>1, OwnersAreRequests DEF OneGeneration, Working
    <3> QED
      BY <1>3, <1>5, <3>1
  <2> QED
    BY <1>1, <2>1 DEF Working, Reading
<1>9. UnreadFrames'
  BY <1>1, <1>3, OwnersAreRequests DEF OneGeneration, UnreadFrames, Reading
<1> QED
  BY <1>7, <1>8, <1>9 DEF OneGeneration

\* The runner takes a message: a Generate it starts on, a Cancel it ignores, or
\* one that ends the generation of the request that sent it.
LEMMA MessageRead ==
  ASSUME TypeOK, OneGeneration, RunnerReads
  PROVE  OneGeneration'
<1>1. /\ stdin # <<>> /\ stdin \in Seq(Message) /\ stdin' = Tail(stdin)
      /\ UNCHANGED <<run, ctxDone>>
  BY DEF RunnerReads, TypeOK
<1>2. /\ 1 \in DOMAIN stdin /\ stdin[1] = Head(stdin)
      /\ \A k \in DOMAIN stdin' :
           k + 1 \in DOMAIN stdin /\ k + 1 > 1 /\ stdin'[k] = stdin[k + 1]
      /\ DOMAIN stdin' \subseteq Nat
  BY <1>1, TailElements
<1>3. CASE Head(stdin).type = "generate" /\ busy = NoRequest /\ busy' = Head(stdin).req
           /\ UNCHANGED frames
  <2>1. /\ Reading(busy') /\ frames = <<>>
        /\ \A k \in DOMAIN stdin : k > 1 => stdin[k].type = "cancel" /\ busy' \in ctxDone
    BY <1>2, <1>3 DEF OneGeneration, UnreadGenerate
  <2>2. \A k \in DOMAIN stdin' : stdin'[k].type = "cancel" /\ busy' \in ctxDone
    BY <1>2, <2>1
  <2>3. UnreadGenerate'
    BY <2>2 DEF UnreadGenerate
  <2>4. Working'
    BY <1>1, <2>1, <2>2 DEF Working, Reading
  <2>5. DOMAIN frames' = {}
    BY <1>3, <2>1
  <2> QED
    BY <2>3, <2>4, <2>5 DEF OneGeneration, UnreadFrames
<1>4. CASE busy = NoRequest /\ UNCHANGED <<busy, frames>>
  <2>1. ASSUME NEW i \in DOMAIN stdin', stdin'[i].type = "generate"
        PROVE  /\ run[stdin'[i].req] \in ReadingPC /\ frames = <<>>
               /\ \A k \in DOMAIN stdin' :
                    k > i => stdin'[k].type = "cancel" /\ stdin'[i].req \in ctxDone
    <3>1. i + 1 \in DOMAIN stdin /\ stdin[i + 1] = stdin'[i]
      BY <1>2
    <3>2. /\ Reading(stdin[i + 1].req) /\ frames = <<>>
          /\ \A k \in DOMAIN stdin :
               k > i + 1 => stdin[k].type = "cancel" /\ stdin[i + 1].req \in ctxDone
      BY <2>1, <3>1 DEF OneGeneration, UnreadGenerate
    <3>3. \A k \in DOMAIN stdin' : k > i => k + 1 > i + 1
      BY <1>2
    <3> QED
      BY <1>2, <3>1, <3>2, <3>3 DEF Reading
  <2>2. UnreadGenerate'
    BY <1>1, <1>4, <2>1 DEF UnreadGenerate, Reading
  <2> QED
    BY <1>1, <1>4, <2>2 DEF OneGeneration, Working, UnreadFrames, Reading
<1>5. CASE /\ Head(stdin).type = "cancel" /\ busy # NoRequest /\ busy' = NoRequest
           /\ frames' = Append(frames, [tag |-> "cancelled", req |-> busy])
  <2>1. Reading(busy) /\ busy \in ctxDone /\ \A i \in DOMAIN stdin : stdin[i].type = "cancel"
    BY <1>2, <1>5 DEF OneGeneration, Working
  <2>2. \A i \in DOMAIN stdin' : stdin'[i].type = "cancel"
    BY <1>2, <2>1
  <2>3. [tag |-> "cancelled", req |-> busy] \in Frame /\ frames \in Seq(Frame)
    BY <1>5 DEF TypeOK, Frame, Tag
  <2>4. /\ DOMAIN frames' = DOMAIN frames \union {Len(frames) + 1}
        /\ Len(frames') = Len(frames) + 1
        /\ \A k \in DOMAIN frames : frames'[k] = frames[k]
        /\ frames'[Len(frames) + 1] = [tag |-> "cancelled", req |-> busy]
    BY <1>5, <2>3, AppendElements
  <2>5. \A i \in DOMAIN frames : Reading(frames[i].req) /\ frames[i].tag = "chunk"
    BY <1>5 DEF OneGeneration, UnreadFrames
  <2>6. UnreadFrames'
    BY <1>1, <1>5, <2>1, <2>4, <2>5 DEF UnreadFrames, Reading
  <2> QED
    BY <1>5, <2>2, <2>6 DEF OneGeneration, UnreadGenerate, Working
<1> QED
  BY <1>3, <1>4, <1>5 DEF RunnerReads

\* The runner writes a frame of the generation it works on.
LEMMA FrameWritten ==
  ASSUME TypeOK, OneGeneration, NEW tag \in Tag \ {"cancelled"}, RunnerEmits(tag)
  PROVE  OneGeneration'
<1>1. /\ busy # NoRequest /\ UNCHANGED <<run, ctxDone, stdin>>
      /\ frames' = Append(frames, [tag |-> tag, req |-> busy])
      /\ busy' = IF tag = "chunk" THEN busy ELSE NoRequest
  BY DEF RunnerEmits
<1>2. Reading(busy) /\ \A i \in DOMAIN stdin : stdin[i].type = "cancel" /\ busy \in ctxDone
  BY <1>1 DEF OneGeneration, Working
<1>3. [tag |-> tag, req |-> busy] \in Frame /\ frames \in Seq(Frame)
  BY <1>1 DEF TypeOK, Frame
<1>4. /\ DOMAIN frames' = DOMAIN frames \union {Len(frames) + 1}
      /\ Len(frames') = Len(frames) + 1
      /\ \A k \in DOMAIN frames : frames'[k] = frames[k]
      /\ frames'[Len(frames) + 1] = [tag |-> tag, req |-> busy]
  BY <1>1, <1>3, AppendElements
<1>5. \A i \in DOMAIN frames : Reading(frames[i].req) /\ frames[i].tag = "chunk"
  BY <1>1 DEF OneGeneration, UnreadFrames
<1>6. UnreadFrames'
  BY <1>1, <1>2, <1>4, <1>5 DEF UnreadFrames, Reading
<1>7. UnreadGenerate'
  BY <1>1, <1>2 DEF UnreadGenerate
<1>8. Working'
  BY <1>1, <1>2 DEF Working, Reading
<1> QED
  BY <1>6, <1>7, <1>8 DEF OneGeneration

\* A runner that dies takes the end of what it wrote with it.
LEMMA FramesLost ==
  ASSUME TypeOK, OneGeneration, RunnerDies
  PROVE  OneGeneration'
<1>1. PICK n \in 0..Len(frames) : frames' = SubSeq(frames, 1, n)
  BY DEF RunnerDies
<1>2. busy' = NoRequest /\ UNCHANGED <<run, ctxDone, stdin>>
  BY DEF RunnerDies
<1>3. /\ Len(frames') = n /\ Len(frames) \in Nat /\ n <= Len(frames)
      /\ DOMAIN frames' = 1..n
      /\ \A i \in DOMAIN frames' : i \in DOMAIN frames /\ frames'[i] = frames[i]
  BY <1>1 DEF TypeOK
<1>4. UnreadGenerate'
  <2>1. frames = <<>> => frames' = <<>>
    BY <1>1
  <2> QED
    BY <1>2, <2>1 DEF OneGeneration, UnreadGenerate, Reading
<1>5. UnreadFrames'
  BY <1>2, <1>3 DEF OneGeneration, UnreadFrames, Reading
<1> QED
  BY <1>2, <1>4, <1>5 DEF OneGeneration, Working

\* Every step keeps the generations apart.
LEMMA OneGenerationStep == TypeOK /\ OneGeneration /\ [Next]_vars => OneGeneration'
<1> SUFFICES ASSUME TypeOK, OneGeneration, [Next]_vars PROVE OneGeneration'
  OBVIOUS
<1>0. run \in [Request -> RunPC]
  BY DEF TypeOK
<1>1. ASSUME NEW r \in Request,
             \/ Call(r) \/ CtxEnds(r) \/ StopListening(r) \/ PrepareFails(r) \/ SendStarted(r)
             \/ SendDelta(r) \/ SendError(r) \/ StartedUnsent(r) \/ SendOutcome(r)
      PROVE  OneGeneration'
  <2>1. UNCHANGED sessionVars /\ ctxDone \subseteq ctxDone'
    BY <1>1 DEF Call, CtxEnds, StopListening, PrepareFails, SendStarted, SendDelta, SendError,
                StartedUnsent, SendOutcome, Return
  <2>2. \A q \in Request : Reading(q) => Reading(q)'
    BY <1>0, <1>1 DEF Call, CtxEnds, StopListening, PrepareFails, SendStarted, SendDelta,
                SendError, StartedUnsent, SendOutcome, Return, Goes, Reading, ReadingPC
  <2> QED
    BY <2>1, <2>2, SessionAlone
<1>2. CASE TimerFires \/ UNCHANGED vars
  <2>1. UNCHANGED <<run, ctxDone, sessionVars>>
    BY <1>2 DEF TimerFires, vars, sessionVars
  <2> QED
    BY <2>1, SessionAlone DEF Reading
<1>3. ASSUME lock = NoRequest, UNCHANGED sessionVars PROVE OneGeneration'
  <2>1. \A q \in Request : ~Reading(q)
    BY <1>3, RequestAssumption, ReaderHoldsMutex
  <2> QED
    BY <1>3, <2>1, SessionAloneUnread
<1>4. ASSUME NEW r \in Request, TryCandidate(r) \/ Lock(r) PROVE OneGeneration'
  <2>1. lock = NoRequest /\ \E ok \in BOOLEAN : SessionFor(Chosen(r), ok)
    BY <1>4 DEF TryCandidate, Lock
  <2>2. \/ UNCHANGED sessionVars
        \/ NoSession \/ \E m \in Model : StartSession(m)
    BY <2>1, ChosenIsModel DEF SessionFor
  <2> QED
    BY <1>3, <2>1, <2>2, NewSession
<1>5. ASSUME NEW e \in fired, Callback(e) PROVE OneGeneration'
  <2>1. /\ lock = NoRequest
        /\ UNCHANGED sessionVars \/ NoSession \/ \E m \in Model : StartSession(m)
    BY <1>5, CallbackSession DEF Callback, TypeOK
  <2> QED
    BY <1>3, <2>1, NewSession
<1>6. CASE Close
  BY <1>6, NewSession DEF Close
<1>7. ASSUME NEW r \in Request, WriteFails(r) \/ ReadFatal(r) \/ ReadFails(r) \/ CancelFails(r)
      PROVE  OneGeneration'
  BY <1>7, NewSession DEF WriteFails, ReadFatal, ReadFails, CancelFails
<1>8. ASSUME NEW r \in Request, WriteGenerate(r) PROVE OneGeneration'
  BY <1>8, GenerateWritten
<1>9. ASSUME NEW r \in Request, SendCancel(r) PROVE OneGeneration'
  BY <1>9, CancelWritten
<1>10. ASSUME NEW r \in Request, ReadChunk(r) \/ DrainChunk(r) PROVE OneGeneration'
  <2>1. Finds("chunk") /\ frames' = Tail(frames) /\ UNCHANGED <<stdin, busy, ctxDone>>
    BY <1>10 DEF ReadChunk, DrainChunk
  <2>2. \A q \in Request : Reading(q) => Reading(q)'
    BY <1>0, <1>10 DEF ReadChunk, DrainChunk, Goes, Reading, ReadingPC
  <2> QED
    BY <2>1, <2>2, ChunkRead
<1>11. ASSUME NEW r \in Request, ReadOutcome(r) \/ DrainCompleted(r) PROVE OneGeneration'
  <2>1. /\ frames # <<>> /\ Head(frames).tag # "chunk"
        /\ frames' = Tail(frames) /\ UNCHANGED <<stdin, busy>>
    BY <1>11 DEF ReadOutcome, DrainCompleted, Finds
  <2> QED
    BY <2>1, ClosingFrameRead
<1>12. CASE RunnerReads
  BY <1>12, MessageRead
<1>13. ASSUME NEW tag \in Tag \ {"cancelled"}, RunnerEmits(tag) PROVE OneGeneration'
  BY <1>13, FrameWritten
<1>14. CASE RunnerDies
  BY <1>14, FramesLost
<1> QED
  BY <1>1, <1>2, <1>4, <1>5, <1>6, <1>7, <1>8, <1>9, <1>10, <1>11, <1>12, <1>13, <1>14, Zenon
  DEF Next, RunStep

\* What the pipes and the runner hold belongs to the run that reads, and a Cancel
\* left in stdin never ends the generation of a request that nobody cancelled
\* (cancelAndDrain: a late Cancel meets an idle runner).
THEOREM GenerationsDoNotMix == Spec => []SessionServesOneRequest
<1>1. OneGeneration => SessionServesOneRequest
  BY DEF OneGeneration, UnreadGenerate, Working, UnreadFrames, SessionServesOneRequest,
         Reading, ReadingPC
<1> QED
  BY <1>1, OneGenerationInit, OneGenerationStep, ProviderTypeCorrect, PTL DEF Spec
====
