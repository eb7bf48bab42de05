---- MODULE QueueReplies_proofs ----
(***************************************************************************)
(* Theorems about QueueReplies, for any number of connections, request IDs *)
(* and jobs, any queue capacity and any number of deltas: the shape of a   *)
(* reply, and that a client reads one outcome unless its context ends.     *)
(***************************************************************************)
EXTENDS QueueReplies, GenerateQueue_proofs, FiniteSetTheorems

----------------------------------------------------------------------------
(* The inductive invariant: how much of its reply a job has got, by where   *)
(* the job is.                                                              *)

Bare(j) == \A i \in DOMAIN log[j] : log[j][i] = "accepted"
NoOutcome(j) == \A i \in DOMAIN log[j] : log[j][i] \notin Outcome
AtMostOne(j) ==
  \A a, b \in DOMAIN log[j] : log[j][a] \in Outcome /\ log[j][b] \in Outcome => a = b
AtMostTwo(j) ==
  \A a, b, d \in DOMAIN log[j] :
    log[j][a] \in Outcome /\ log[j][b] \in Outcome /\ log[j][d] \in Outcome =>
      a = b \/ a = d \/ b = d
Started(j) == \E i \in DOMAIN log[j] : log[j][i] = "started"
Told(j) == open[ConnOf(j)] => ~NoOutcome(j) \/ j \in stopped
NoAcceptance(j) == \A i \in DOMAIN log[j] : log[j][i] # "accepted"

\* Nobody but the handler has written: the job is not submitted yet, is being
\* enqueued, is in the channel, or its provider has not been heard.
Untouched(j) ==
  \/ j \notin Over /\ wjob # j
  \/ /\ wjob = j
     /\ \/ wpc \in {"remove", "check", "skip", "set", "generate"}
        \/ wpc = "loop" /\ prov[j] = "send"
        \/ wpc = "write" /\ wev = "started"

\* The provider's outcome is still to be written.
Awaited(j) ==
  /\ wjob = j
  /\ \/ wpc = "write"
     \/ wpc = "loop" /\ prov[j] = "stream"
     \/ wpc \in {"loop", "fail"} /\ IsText(j)

Streams(j) ==
  wjob = j /\ ((wpc = "loop" /\ prov[j] = "stream") \/ (wpc = "write" /\ wev = "delta"))

\* The provider has sent its last event, and it is written, or the context has
\* stopped it: the worker will find the channel closed.
Ending(j) ==
  /\ wjob = j
  /\ prov[j] \in {"closing", "closed"}
  /\ wpc = "loop" \/ (wpc = "write" /\ wev \notin Outcome)

StageInv(j) ==
  /\ Untouched(j) => Bare(j)
  /\ Awaited(j) => NoOutcome(j)
  /\ wjob = j /\ wpc \in {"loop", "fail"} => AtMostOne(j)
  /\ wjob = j /\ wpc = "fail" => NoOutcome(j) \/ j \in cut
  /\ Streams(j) /\ ~IsText(j) => Started(j)
  /\ wjob = j /\ wpc = "write" =>
       prov[j] \notin {"none", "send"} /\ (wev \in Outcome => prov[j] # "stream")
  /\ j \in Over \/ (wjob = j /\ wpc \in {"clear", "release"}) \/ Ending(j) => Told(j)

\* What ReplyOrder says of one job's worker, without cardinalities, ...
ShapeInv(j) ==
  /\ \A a, b \in DOMAIN log[j] :
       log[j][a] \in Outcome /\ a < b => ~IsText(j) /\ log[j][b] \in {"accepted", "error"}
  /\ AtMostTwo(j)
  /\ AtMostOne(j) \/ j \in cut
  /\ \A b \in DOMAIN log[j] :
       log[j][b] = "delta" /\ ~IsText(j) =>
         \E a \in DOMAIN log[j] : a < b /\ log[j][a] = "started"

\* ... and of its handler: nothing is accepted before the job has been sent to
\* the channel, and from then on its acceptance is written or about to be.
Admitted(j) == InChannel(j) \/ wjob = j \/ Started(j)

AcceptInv(j) ==
  /\ \A a, b \in Acceptances(j) : a = b
  /\ j \notin submitted \/ (\E c \in Conn : hjob[c] = j) => NoAcceptance(j)
  /\ Started(j) => ~IsText(j)
  /\ Admitted(j) /\ ~IsText(j) /\ open[ConnOf(j)] => ~NoAcceptance(j) \/ Accepting(j)

\* Only a request that was read has a context.
ContextsAreRead == ctxDone \subseteq submitted

RepliesInv ==
  /\ log \in [Job -> Seq(Event)]
  /\ \A j \in Job : StageInv(j) /\ ShapeInv(j) /\ AcceptInv(j)

----------------------------------------------------------------------------
(* Steps of the queue: contexts, connections and jobs that are over. *)

\* A context is done only of a request that was read.
LEMMA ContextsStep ==
  TypeOK /\ OnePlace /\ QueuedOwned /\ ActiveOwned /\ ContextsAreRead /\ [Next]_vars
  => ContextsAreRead'
<1> SUFFICES ASSUME TypeOK, OnePlace, QueuedOwned, ActiveOwned, ContextsAreRead, [Next]_vars
             PROVE  ContextsAreRead'
  OBVIOUS
<1>1. submitted \subseteq submitted'
  BY DEF Next, HandlerStep, WorkerStep, ProviderStep, vars, Refuse, Register, Reads, Send,
         SendTimeout, SendFull, SelectGoes, Accept, GiveUp, Disconnect, Cancel, Timeout,
         ProviderStops, ProviderCloses, Deliver, Shutdown, Receive, Remove, Check, Skip,
         SetActive, Generate, LoopCtxDone, LoopClosed, Fail, WriteEvent, WriteLastText,
         WriteError, ClearActive, Release
<1>2. \A i \in ID : queued[i] # NoJob => queued[i] \in submitted
  <2> SUFFICES ASSUME NEW i \in ID, queued[i] # NoJob PROVE queued[i] \in submitted
    OBVIOUS
  <2>1. queued[i] \in Job /\ Pending(queued[i])
    BY DEF QueuedOwned, TypeOK
  <2> QED
    BY <2>1 DEF Pending, HandlerHolds, InChannel, OnePlace
<1>3. \A i \in ID : active[i] # NoJob => active[i] \in submitted
  BY DEF ActiveOwned, OnePlace, TypeOK
<1>4. ASSUME ctxDone' = ctxDone PROVE ContextsAreRead'
  BY <1>1, <1>4 DEF ContextsAreRead
<1>5. ASSUME NEW j \in submitted', ctxDone' = ctxDone \union {j} PROVE ContextsAreRead'
  BY <1>1, <1>5 DEF ContextsAreRead
<1>6. ASSUME NEW c \in Conn, NEW j \in Job, Refuse(c, j) \/ Register(c, j) PROVE ContextsAreRead'
  BY <1>4, <1>5, <1>6 DEF Refuse, Register, Reads
<1>7. ASSUME NEW c \in Conn, HandlerStep(c) \/ Disconnect(c) PROVE ContextsAreRead'
  <2>1. CASE GiveUp(c)
    <3>1. hjob[c] \in submitted /\ submitted' = submitted
      BY <2>1 DEF GiveUp, OnePlace, TypeOK
    <3> QED
      BY <1>5, <2>1, <3>1 DEF GiveUp
  <2> QED
    BY <1>4, <1>7, <2>1 DEF HandlerStep, Disconnect, Send, SendTimeout, SendFull, SelectGoes, Accept
<1>8. ASSUME NEW c \in Conn, NEW i \in ID, Cancel(c, i) PROVE ContextsAreRead'
  BY <1>1, <1>2, <1>3, <1>5, <1>8 DEF Cancel, CancelFinds
<1>9. ASSUME NEW j \in Job, Timeout(j) \/ ProviderStep(j) PROVE ContextsAreRead'
  BY <1>1, <1>4, <1>5, <1>9 DEF Timeout, ProviderStep, ProviderStops, ProviderCloses
<1>10. ASSUME NEW event \in ProviderEvent, Deliver(event) PROVE ContextsAreRead'
  BY <1>4, <1>10 DEF Deliver
<1>11. CASE Shutdown
  BY <1>1, <1>2, <1>3, <1>11, NoJobAssumption DEF Shutdown, ContextsAreRead
<1>12. CASE WriteError \/ Release
  <2>1. wjob \in submitted /\ submitted' = submitted
    BY <1>12 DEF WriteError, Release, WorkerGoes, OnePlace, TypeOK
  <2> QED
    BY <1>5, <1>12, <2>1 DEF WriteError, Release
<1>13. CASE \/ Receive \/ Remove \/ Check \/ Skip \/ SetActive \/ Generate \/ LoopCtxDone
            \/ LoopClosed \/ Fail \/ WriteEvent \/ WriteLastText \/ ClearActive \/ UNCHANGED vars
  BY <1>4, <1>13 DEF Receive, Remove, Check, Skip, SetActive, Generate, LoopCtxDone, LoopClosed,
                     Fail, WriteEvent, WriteLastText, ClearActive, vars
<1> QED
  BY <1>6, <1>7, <1>8, <1>9, <1>10, <1>11, <1>12, <1>13, Zenon DEF Next, WorkerStep

LEMMA ContextsInvariant == Spec => []ContextsAreRead
<1>1. Init => ContextsAreRead
  BY DEF Init, ContextsAreRead
<1> QED
  BY <1>1, ContextsStep, TypeCorrect, JobsAreInOnePlace, QueuedEntriesOwned, ActiveEntryIsRunning,
     PTL DEF Spec

\* A connection that is closed stays closed.
LEMMA ConnectionsStep ==
  ASSUME TypeOK, [Next]_vars, NEW c \in Conn, open'[c]
  PROVE  open[c]
<1>1. open' = open \/ \E d \in Conn : open' = [open EXCEPT ![d] = FALSE]
  <2>1. \A j \in Job : ConnOf(j) \in Conn
    BY DEF TypeOK, ConnOf, Request
  <2>2. ASSUME NEW j \in Job, CloseText(j)
        PROVE  open' = open \/ \E d \in Conn : open' = [open EXCEPT ![d] = FALSE]
    BY <2>1, <2>2 DEF CloseText
  <2>3. \A d \in Conn : hpc[d] # "read" => hjob[d] \in Job
    BY DEF TypeOK
  <2>4. wpc # "recv" => wjob \in Job
    BY DEF TypeOK
  <2>5. CASE \E d \in Conn : GiveUp(d)
    BY <2>2, <2>3, <2>5 DEF GiveUp
  <2>6. CASE Skip \/ LoopClosed \/ Fail \/ WriteLastText \/ WriteError
    BY <2>2, <2>4, <2>6 DEF Skip, LoopClosed, Fail, WriteLastText, WriteError, WorkerGoes
  <2> QED
    BY <2>2, <2>5, <2>6
    DEF Next, HandlerStep, WorkerStep, ProviderStep, vars, Refuse, Register, Send,
        SendTimeout, SendFull, SelectGoes, Accept, Disconnect, Cancel, Timeout,
        ProviderStops, ProviderCloses, Deliver, Shutdown, Receive, Remove, Check,
        SetActive, Generate, LoopCtxDone, WriteEvent, ClearActive, Release
<1> QED
  BY <1>1 DEF TypeOK

\* How a job leaves the system: refused, given up by its handler, skipped or
\* released by the worker.
Leaves(j) ==
  \/ \E c \in Conn : Refuse(c, j)
  \/ \E c \in Conn : GiveUp(c) /\ hjob[c] = j
  \/ wjob = j /\ (Skip \/ Release)

\* Jobs that are over stay over, and the worker takes only jobs that wait.
OverGrows ==
  /\ Over \subseteq Over'
  /\ wjob \in Job /\ wjob' # wjob => wjob \in Over'
  /\ wjob' \in Job => wjob' \notin Over
  /\ \A j \in Over' \ Over : Leaves(j)

LEMMA OverStep ==
  ASSUME TypeOK, OnePlace, [Next]_vars
  PROVE  OverGrows
<1>0. ASSUME Over' = Over, wjob' = wjob PROVE OverGrows
  BY <1>0 DEF Over, OverGrows
<1>1. ASSUME NEW c \in Conn, NEW j \in Job, Refuse(c, j) PROVE OverGrows
  <2>1. /\ submitted' = submitted \union {j} /\ UNCHANGED <<hpc, hjob, jobs, wjob>>
    BY <1>1 DEF Refuse, Reads, handlerVars, workerVars
  <2>2. Over \subseteq Over' /\ Over' \subseteq Over \union {j}
    BY <2>1 DEF Over, HandlerHolds, InChannel
  <2> QED
    BY <1>1, <2>1, <2>2 DEF Over, OverGrows, Leaves
<1>2. ASSUME NEW c \in Conn, NEW j \in Job, Register(c, j) PROVE OverGrows
  <2>1. /\ j \notin submitted /\ submitted' = submitted \union {j} /\ hpc[c] = "read"
        /\ hpc' = [hpc EXCEPT ![c] = "send"] /\ hjob' = [hjob EXCEPT ![c] = j]
        /\ UNCHANGED <<jobs, wjob>>
    BY <1>2 DEF Register, Reads, workerVars
  <2>2. \A k \in Job : HandlerHolds(k)' <=> HandlerHolds(k) \/ k = j
    BY <2>1 DEF HandlerHolds, TypeOK
  <2>3. Over' = Over
    BY <2>1, <2>2 DEF Over, InChannel, TypeOK
  <2> QED
    BY <1>0, <2>1, <2>3
<1>3. ASSUME NEW c \in Conn, Send(c) PROVE OverGrows
  <2> DEFINE x == hjob[c]
  <2>1. /\ x \in Job /\ jobs \in Seq(Job) /\ jobs' = Append(jobs, x)
        /\ hpc[c] = "send" /\ hpc' = [hpc EXCEPT ![c] = "accept"]
        /\ UNCHANGED <<hjob, submitted, wjob>>
    BY <1>3 DEF Send, SelectGoes, workerVars, TypeOK
  <2>2. HandlerHolds(x)
    BY <2>1 DEF HandlerHolds
  <2>3. \A k \in Job : InChannel(k)' <=> InChannel(k) \/ k = x
    BY <2>1, AppendElements DEF InChannel
  <2>4. \A k \in Job : k # x => (HandlerHolds(k)' <=> HandlerHolds(k))
    BY <2>1 DEF HandlerHolds, TypeOK
  <2>5. Over' = Over
    BY <2>1, <2>2, <2>3, <2>4 DEF Over, TypeOK
  <2> QED
    BY <1>0, <2>1, <2>5
<1>4. ASSUME NEW c \in Conn, SendTimeout(c) \/ SendFull(c) \/ Accept(c) PROVE OverGrows
  <2>1. /\ \A d \in Conn :
             \/ /\ hjob[d] = hjob'[d]
                /\ hpc'[d] \in {"send", "timeout", "full"} <=> hpc[d] \in {"send", "timeout", "full"}
             \/ {hpc[d], hpc'[d]} \cap {"send", "timeout", "full"} = {}
        /\ UNCHANGED <<submitted, jobs, wjob>>
    BY <1>4 DEF SendTimeout, SendFull, Accept, SelectGoes, HandlerDone, workerVars, TypeOK
  <2>2. \A k \in Job : HandlerHolds(k)' <=> HandlerHolds(k)
    BY <2>1 DEF HandlerHolds
  <2>3. Over' = Over
    BY <2>1, <2>2 DEF Over, InChannel, TypeOK
  <2> QED
    BY <1>0, <2>1, <2>3
<1>5. ASSUME NEW c \in Conn, GiveUp(c) PROVE OverGrows
  <2>1. /\ hjob[c] \in Job
        /\ hpc' = [hpc EXCEPT ![c] = "read"] /\ hjob' = [hjob EXCEPT ![c] = NoJob]
        /\ UNCHANGED <<submitted, jobs, wjob>>
    BY <1>5 DEF GiveUp, HandlerDone, workerVars, TypeOK
  <2>2. \A k \in Job : HandlerHolds(k)' => HandlerHolds(k)
    BY <2>1 DEF HandlerHolds, TypeOK
  <2>3. \A k \in Job : HandlerHolds(k) => HandlerHolds(k)' \/ k = hjob[c]
    BY <2>1 DEF HandlerHolds, TypeOK
  <2>4. Over \subseteq Over' /\ Over' \subseteq Over \union {hjob[c]}
    BY <2>1, <2>2, <2>3 DEF Over, InChannel, TypeOK
  <2> QED
    BY <1>5, <2>1, <2>4 DEF Over, OverGrows, Leaves
<1>6. CASE Receive
  <2>1. /\ jobs \in Seq(Job) /\ jobs # <<>> /\ jobs' = Tail(jobs)
        /\ wjob' = Head(jobs) /\ wjob = NoJob
        /\ wjob' \in Job /\ UNCHANGED <<hpc, hjob, submitted>>
    BY <1>6, NoJobAssumption DEF Receive, handlerVars, TypeOK
  <2>2. \A k \in Job : InChannel(k) <=> InChannel(k)' \/ k = wjob'
    <3>1. /\ 1 \in DOMAIN jobs /\ jobs[1] = wjob'
          /\ \A k \in DOMAIN jobs : k = 1 \/ (k - 1 \in DOMAIN jobs' /\ jobs'[k - 1] = jobs[k])
          /\ \A k \in DOMAIN jobs' : k + 1 \in DOMAIN jobs /\ jobs'[k] = jobs[k + 1]
      BY <2>1, TailElements
    <3> QED
      BY <3>1 DEF InChannel
  <2>3. Over' = Over
    BY <2>1, <2>2, NoJobAssumption DEF Over, HandlerHolds, TypeOK
  <2> QED
    BY <2>1, <2>2, <2>3, NoJobAssumption DEF Over, OverGrows
<1>7. CASE Skip \/ Release
  <2>1. wjob \in Job /\ wjob' = NoJob /\ UNCHANGED <<hpc, hjob, submitted, jobs>>
    BY <1>7 DEF Skip, Release, WorkerDone, handlerVars, TypeOK
  <2>2. wjob \in submitted /\ ~HandlerHolds(wjob) /\ ~InChannel(wjob)
    BY <2>1 DEF OnePlace, InChannel
  <2>3. Over' = Over \union {wjob}
    BY <2>1, <2>2, NoJobAssumption DEF Over, HandlerHolds, InChannel, TypeOK
  <2>4. \A j \in Over' \ Over : Leaves(j)
    BY <1>7, <2>3, Zenon DEF Leaves
  <2> QED
    BY <2>1, <2>3, <2>4, NoJobAssumption DEF OverGrows
<1>8. ASSUME UNCHANGED <<hpc, hjob, submitted, jobs, wjob>> PROVE OverGrows
  <2>1. Over' = Over
    BY <1>8 DEF Over, HandlerHolds, InChannel
  <2> QED
    BY <1>0, <1>8, <2>1
<1>9. CASE Remove \/ Check \/ SetActive \/ Generate \/ LoopCtxDone \/ LoopClosed \/ Fail
           \/ WriteEvent \/ WriteLastText \/ WriteError \/ ClearActive
  BY <1>8, <1>9 DEF Remove, Check, SetActive, Generate, LoopCtxDone, LoopClosed, Fail, WriteEvent,
                 WriteLastText, WriteError, ClearActive, WorkerGoes, handlerVars
<1>10. ASSUME NEW event \in ProviderEvent, Deliver(event) PROVE OverGrows
  BY <1>8, <1>10 DEF Deliver, handlerVars
<1>11. CASE \/ \E c \in Conn : Disconnect(c)
            \/ \E c \in Conn, i \in ID : Cancel(c, i)
            \/ \E j \in Job : Timeout(j) \/ ProviderStep(j)
            \/ Shutdown \/ UNCHANGED vars
  BY <1>8, <1>11 DEF Disconnect, Cancel, Timeout, ProviderStep, ProviderStops, ProviderCloses,
                     Shutdown, handlerVars, workerVars, vars
<1> QED
  BY <1>1, <1>2, <1>3, <1>4, <1>5, <1>6, <1>7, <1>9, <1>10, <1>11, Zenon
  DEF Next, HandlerStep, WorkerStep

----------------------------------------------------------------------------
(* Which step writes what. *)

WrittenBy(j, event) ==
  \/ event = "error" /\ \E c \in Conn : Refuse(c, j)
  \/ event = "accepted" /\ ~IsText(j) /\ \E c \in Conn : Accept(c) /\ hjob[c] = j
  \/ event = "error" /\ \E c \in Conn : GiveUp(c) /\ hjob[c] = j
  \/ event = "error" /\ wjob = j /\ (Skip \/ Fail)
  \/ /\ event = wev /\ wjob = j /\ ~(IsText(j) /\ event = "started")
     /\ WriteEvent \/ WriteLastText \/ WriteError

\* Everything that is logged is written by one of those steps, ...
LEMMA WhoWrites ==
  ASSUME TypeOK, ContextsAreRead, Next, NEW j \in Job, NEW event \in Event, Writes(j, event)
  PROVE  WrittenBy(j, event)
<1>1. CASE HandlerWrites(j, event)
  <2>1. PICK c \in Conn :
          /\ hjob[c] = j /\ hpc'[c] = "read"
          /\ \/ hpc[c] = "accept" /\ ~IsText(j) /\ event = "accepted"
             \/ hpc[c] \in {"timeout", "full"} /\ event = "error"
    BY <1>1 DEF HandlerWrites
  <2>2. hpc' # hpc
    BY <2>1
  <2>3. \E d \in Conn : HandlerStep(d) \/ \E k \in Job : Register(d, k)
    BY <2>2 DEF Next, WorkerStep, ProviderStep, Refuse, Disconnect, Cancel, Timeout,
         ProviderStops, ProviderCloses, Deliver, Shutdown, Receive, Remove, Check, Skip,
         SetActive, Generate, LoopCtxDone, LoopClosed, Fail, WriteEvent, WriteLastText,
         WriteError, ClearActive, Release, handlerVars
  <2>4. Accept(c) \/ GiveUp(c)
    BY <2>1, <2>3 DEF HandlerStep, Register, Send, SendTimeout, SendFull, SelectGoes, Accept,
                      GiveUp, HandlerDone, TypeOK
  <2>5. CASE Accept(c)
    BY <2>1, <2>5 DEF Accept, WrittenBy
  <2>6. CASE GiveUp(c)
    BY <2>1, <2>6 DEF GiveUp, WrittenBy
  <2> QED
    BY <2>4, <2>5, <2>6
<1>2. CASE RefusalWrites(j, event)
  <2>1. j \in submitted' \ submitted /\ j \in ctxDone' /\ event = "error"
    BY <1>2 DEF RefusalWrites
  <2>2. PICK c \in Conn, k \in Job : Refuse(c, k) \/ Register(c, k)
    BY <2>1 DEF Next, HandlerStep, WorkerStep, ProviderStep, Send, SendTimeout, SendFull,
         SelectGoes, Accept, GiveUp, Disconnect, Cancel, Timeout,
         ProviderStops, ProviderCloses, Deliver, Shutdown, Receive, Remove, Check, Skip,
         SetActive, Generate, LoopCtxDone, LoopClosed, Fail, WriteEvent, WriteLastText,
         WriteError, ClearActive, Release
  <2>3. k = j
    BY <2>1, <2>2 DEF Refuse, Register, Reads
  <2>4. ~Register(c, k)
    BY <2>1, <2>3 DEF Register, ContextsAreRead
  <2> QED
    BY <2>1, <2>2, <2>3, <2>4 DEF WrittenBy
<1>3. CASE WorkerWrites(j, event)
  <2>1. /\ wjob = j /\ wpc' # wpc
        /\ \/ wpc \in {"skip", "fail"} /\ event = "error"
           \/ wpc = "write" /\ event = wev /\ ~(IsText(j) /\ event = "started")
    BY <1>3 DEF WorkerWrites
  <2>2. Skip \/ Fail \/ WriteEvent \/ WriteLastText \/ WriteError
    BY <2>1 DEF Next, HandlerStep, WorkerStep, ProviderStep, Refuse, Register, Send,
         SendTimeout, SendFull, SelectGoes, Accept, GiveUp, Disconnect, Cancel, Timeout,
         ProviderStops, ProviderCloses, Deliver, Shutdown, Receive, Remove, Check,
         SetActive, Generate, LoopCtxDone, LoopClosed, ClearActive, Release, WorkerGoes,
         workerVars
  <2>3. CASE Skip \/ Fail
    BY <2>1, <2>3 DEF Skip, Fail, WorkerGoes, WrittenBy
  <2>4. CASE WriteEvent \/ WriteLastText \/ WriteError
    BY <2>1, <2>4 DEF WriteEvent, WriteLastText, WriteError, WorkerGoes, WrittenBy
  <2> QED
    BY <2>2, <2>3, <2>4
<1> QED
  BY <1>1, <1>2, <1>3 DEF Writes

\* ... and they all write.
LEMMA WhatIsWritten ==
  ASSUME TypeOK, NEW j \in Job, NEW event \in Event, WrittenBy(j, event)
  PROVE  Writes(j, event)
<1>1. ASSUME NEW c \in Conn, Refuse(c, j), event = "error" PROVE RefusalWrites(j, event)
  BY <1>1 DEF Refuse, Reads, RefusalWrites
<1>2. ASSUME NEW c \in Conn, hjob[c] = j,
             \/ Accept(c) /\ ~IsText(j) /\ event = "accepted"
             \/ GiveUp(c) /\ event = "error"
      PROVE  HandlerWrites(j, event)
  <2>1. hpc' = [hpc EXCEPT ![c] = "read"] /\ hpc[c] \in {"accept", "timeout", "full"}
    BY <1>2 DEF Accept, GiveUp, HandlerDone
  <2>2. hpc'[c] = "read"
    BY <2>1 DEF TypeOK
  <2> QED
    BY <1>2, <2>2 DEF Accept, GiveUp, HandlerWrites
<1>3. ASSUME wjob = j, Skip \/ Fail, event = "error" PROVE WorkerWrites(j, event)
  BY <1>3 DEF Skip, Fail, WorkerDone, WorkerGoes, WorkerWrites
<1>4. ASSUME wjob = j, event = wev, ~(IsText(j) /\ event = "started"),
             WriteEvent \/ WriteLastText \/ WriteError
      PROVE  WorkerWrites(j, event)
  BY <1>4 DEF WriteEvent, WriteLastText, WriteError, WorkerGoes, WorkerWrites
<1> QED
  BY <1>1, <1>2, <1>3, <1>4 DEF Writes, WrittenBy

\* The log of a job grows by what a step writes to its open connection.
LEMMA LogStep ==
  ASSUME TypeOK, ContextsAreRead, RepliesNext, NEW j \in Job
  PROVE  \/ /\ log'[j] = log[j]
            /\ \A event \in Event : WrittenBy(j, event) => ~open[ConnOf(j)]
         \/ \E event \in Event : WrittenBy(j, event) /\ open[ConnOf(j)]
                                 /\ log'[j] = Append(log[j], event)
<1> DEFINE E == CHOOSE event \in Event : Writes(j, event)
<1>1. log'[j] = IF open[ConnOf(j)] /\ \E event \in Event : Writes(j, event)
                THEN Append(log[j], E)
                ELSE log[j]
  BY DEF RepliesNext, Logged
<1>2. (\E event \in Event : Writes(j, event)) => E \in Event /\ Writes(j, E)
  OBVIOUS
<1> HIDE DEF E
<1>3. CASE open[ConnOf(j)] /\ \E event \in Event : Writes(j, event)
  BY <1>1, <1>2, <1>3, WhoWrites DEF RepliesNext
<1>4. CASE ~(open[ConnOf(j)] /\ \E event \in Event : Writes(j, event))
  BY <1>1, <1>4, WhatIsWritten
<1> QED
  BY <1>3, <1>4

\* A log and its continuation.
LEMMA LogAppend ==
  ASSUME NEW s \in Seq(Event), NEW event \in Event
  PROVE  /\ Append(s, event) \in Seq(Event)
         /\ DOMAIN Append(s, event) = DOMAIN s \union {Len(s) + 1}
         /\ Len(s) + 1 \notin DOMAIN s
         /\ \A k \in DOMAIN s : k \in Nat /\ k < Len(s) + 1 /\ Append(s, event)[k] = s[k]
         /\ Append(s, event)[Len(s) + 1] = event
         /\ Len(s) \in Nat
OBVIOUS

\* What continuing a log does to what is said of it.
LEMMA LogContinued ==
  ASSUME log \in [Job -> Seq(Event)], NEW j \in Job, NEW event \in Event,
         log'[j] = Append(log[j], event)
  PROVE  /\ Started(j) => Started(j)'
         /\ event = "started" => Started(j)'
         /\ ~NoOutcome(j) => ~NoOutcome(j)'
         /\ event \in Outcome => ~NoOutcome(j)'
         /\ NoOutcome(j) => AtMostOne(j)'
         /\ NoOutcome(j) /\ event \notin Outcome => NoOutcome(j)'
         /\ AtMostOne(j) /\ event \notin Outcome => AtMostOne(j)'
         /\ AtMostOne(j) => AtMostTwo(j)'
         /\ AtMostTwo(j) /\ event \notin Outcome => AtMostTwo(j)'
         /\ Bare(j) /\ event = "accepted" => Bare(j)'
<1> DEFINE s == log[j]
           t == log'[j]
           n == Len(s) + 1
<1>1. /\ DOMAIN t = DOMAIN s \union {n} /\ n \notin DOMAIN s
      /\ \A k \in DOMAIN s : t[k] = s[k]
      /\ t[n] = event
  BY LogAppend
<1> HIDE DEF s, t, n
<1>2. /\ Started(j) <=> \E k \in DOMAIN s : s[k] = "started"
      /\ Started(j)' <=> \E k \in DOMAIN t : t[k] = "started"
      /\ NoOutcome(j) <=> \A k \in DOMAIN s : s[k] \notin Outcome
      /\ NoOutcome(j)' <=> \A k \in DOMAIN t : t[k] \notin Outcome
      /\ Bare(j) <=> \A k \in DOMAIN s : s[k] = "accepted"
      /\ Bare(j)' <=> \A k \in DOMAIN t : t[k] = "accepted"
  BY DEF Started, NoOutcome, Bare, s, t
<1>3. /\ AtMostOne(j) <=> \A a, b \in DOMAIN s : s[a] \in Outcome /\ s[b] \in Outcome => a = b
      /\ AtMostOne(j)' <=> \A a, b \in DOMAIN t : t[a] \in Outcome /\ t[b] \in Outcome => a = b
  BY DEF AtMostOne, s, t
<1>4. /\ AtMostTwo(j) <=> \A a, b, d \in DOMAIN s :
           s[a] \in Outcome /\ s[b] \in Outcome /\ s[d] \in Outcome => a = b \/ a = d \/ b = d
      /\ AtMostTwo(j)' <=> \A a, b, d \in DOMAIN t :
           t[a] \in Outcome /\ t[b] \in Outcome /\ t[d] \in Outcome => a = b \/ a = d \/ b = d
  BY DEF AtMostTwo, s, t
<1>5. /\ Started(j) => Started(j)'
      /\ event = "started" => Started(j)'
      /\ ~NoOutcome(j) => ~NoOutcome(j)'
      /\ event \in Outcome => ~NoOutcome(j)'
  BY <1>1, <1>2
<1>6. /\ NoOutcome(j) /\ event \notin Outcome => NoOutcome(j)'
      /\ Bare(j) /\ event = "accepted" => Bare(j)'
  BY <1>1, <1>2
<1>7. /\ NoOutcome(j) => AtMostOne(j)'
      /\ AtMostOne(j) /\ event \notin Outcome => AtMostOne(j)'
  BY <1>1, <1>2, <1>3
<1>8. /\ AtMostOne(j) => AtMostTwo(j)'
      /\ AtMostTwo(j) /\ event \notin Outcome => AtMostTwo(j)'
  BY <1>1, <1>3, <1>4
<1> QED
  BY <1>5, <1>6, <1>7, <1>8

\* A log that is left alone.
LEMMA LogKept ==
  ASSUME NEW j \in Job, log'[j] = log[j]
  PROVE  /\ Started(j) <=> Started(j)'
         /\ NoOutcome(j) <=> NoOutcome(j)'
         /\ AtMostOne(j) <=> AtMostOne(j)'
         /\ AtMostTwo(j) <=> AtMostTwo(j)'
         /\ Bare(j) <=> Bare(j)'
BY DEF Started, NoOutcome, AtMostOne, AtMostTwo, Bare

LEMMA BareLog ==
  ASSUME NEW j \in Job, Bare(j) PROVE NoOutcome(j)
BY DEF Bare, NoOutcome, Outcome

LEMMA OneIsFirst ==
  ASSUME NEW j \in Job, NoOutcome(j) PROVE AtMostOne(j)
BY DEF NoOutcome, AtMostOne

\* What each job asks for does not change.
LEMMA RequestsFixed ==
  ASSUME [Next]_vars
  PROVE  req' = req
BY DEF Next, HandlerStep, WorkerStep, ProviderStep, vars, Refuse, Register, Reads, Send,
       SendTimeout, SendFull, SelectGoes, Accept, GiveUp, Disconnect, Cancel, Timeout,
       ProviderStops, ProviderCloses, Deliver, Shutdown, Receive, Remove, Check, Skip,
       SetActive, Generate, LoopCtxDone, LoopClosed, Fail, WriteEvent, WriteLastText,
       WriteError, ClearActive, Release

\* A job that leaves is over.
LEMMA LeavingIsOver ==
  ASSUME TypeOK, OnePlace, NEW j \in Job, Leaves(j)
  PROVE  j \in Over' /\ j \notin Over
<1>1. ASSUME NEW c \in Conn, Refuse(c, j) PROVE j \in Over' /\ j \notin Over
  <2>1. /\ j \notin submitted /\ submitted' = submitted \union {j}
        /\ UNCHANGED <<hpc, hjob, jobs, wpc, wjob>>
    BY <1>1 DEF Refuse, Reads, handlerVars, workerVars
  <2>2. ~HandlerHolds(j) /\ ~InChannel(j) /\ wjob # j
    BY <2>1 DEF OnePlace, HandlerHolds, InChannel
  <2> QED
    BY <2>1, <2>2 DEF Over, HandlerHolds, InChannel
<1>2. ASSUME NEW c \in Conn, GiveUp(c), hjob[c] = j PROVE j \in Over' /\ j \notin Over
  <2>1. /\ j \in submitted /\ hpc[c] \in {"timeout", "full"}
        /\ hjob' = [hjob EXCEPT ![c] = NoJob] /\ UNCHANGED <<submitted, jobs, wjob>>
    BY <1>2 DEF GiveUp, HandlerDone, workerVars, OnePlace
  <2>2. HandlerHolds(j) /\ ~InChannel(j) /\ wjob # j
    BY <1>2, <2>1 DEF HandlerHolds, OnePlace
  <2>3. \A d \in Conn : hjob[d] = j => d = c
    BY <1>2 DEF OnePlace
  <2>4. ~HandlerHolds(j)'
    BY <2>1, <2>3, NoJobAssumption DEF HandlerHolds, TypeOK
  <2> QED
    BY <2>1, <2>2, <2>4 DEF Over, InChannel
<1>3. ASSUME wjob = j, Skip \/ Release PROVE j \in Over' /\ j \notin Over
  <2>1. wjob' = NoJob /\ UNCHANGED <<hpc, hjob, submitted, jobs>>
    BY <1>3 DEF Skip, Release, WorkerDone, handlerVars
  <2>2. j \in submitted /\ ~HandlerHolds(j) /\ ~InChannel(j)
    BY <1>3 DEF OnePlace, InChannel
  <2> QED
    BY <1>3, <2>1, <2>2, NoJobAssumption DEF Over, HandlerHolds, InChannel
<1> QED
  BY <1>1, <1>2, <1>3 DEF Leaves

----------------------------------------------------------------------------
(* The shape of a reply *)

\* A step writes only what the reply so far allows.
LEMMA WritesContinue ==
  ASSUME TypeOK, OnePlace, RepliesInv, NEW j \in Job, NEW event \in Event, WrittenBy(j, event)
  PROVE  /\ event \in Outcome => AtMostOne(j)
         /\ event \in Outcome => NoOutcome(j) \/ j \in cut
         /\ NoOutcome(j) \/ (~IsText(j) /\ event \in {"accepted", "error"})
         /\ event = "delta" /\ ~IsText(j) => Started(j)
<1>0. StageInv(j)
  BY DEF RepliesInv
<1>1. ASSUME Bare(j), event = "error"
      PROVE  AtMostOne(j) /\ NoOutcome(j) /\ event # "delta"
  BY <1>1, BareLog, OneIsFirst
<1>2. CASE event = "error" /\ Leaves(j) /\ ~Release
  <2>1. Bare(j)
    <3>1. CASE wjob = j
      <4>1. Skip
        BY <1>2, <3>1 DEF Leaves, Refuse, Reads, GiveUp, OnePlace, HandlerHolds
      <4> QED
        BY <1>0, <3>1, <4>1 DEF Skip, StageInv, Untouched
    <3>2. CASE wjob # j
      BY <1>0, <1>2, <3>2, LeavingIsOver DEF StageInv, Untouched
    <3> QED
      BY <3>1, <3>2
  <2> QED
    BY <1>1, <1>2, <2>1
<1>3. CASE event = "accepted" /\ ~IsText(j)
  BY <1>3 DEF Outcome
<1>4. CASE event = "error" /\ wjob = j /\ Fail
  <2>1. wpc = "fail"
    BY <1>4 DEF Fail, WorkerGoes
  <2> QED
    BY <1>0, <1>4, <2>1 DEF StageInv, Awaited
<1>5. CASE event = wev /\ wjob = j /\ (WriteEvent \/ WriteLastText \/ WriteError)
  <2>1. wpc = "write"
    BY <1>5 DEF WriteEvent, WriteLastText, WriteError, WorkerGoes
  <2>2. NoOutcome(j) /\ (event = "delta" /\ ~IsText(j) => Started(j))
    BY <1>0, <1>5, <2>1 DEF StageInv, Awaited, Streams
  <2> QED
    BY <2>2, OneIsFirst
<1>6. \/ \E c \in Conn : Refuse(c, j) \/ GiveUp(c)
      \/ Skip
      => ~Release
  BY DEF Refuse, GiveUp, Skip, Release, workerVars, WorkerDone
<1> QED
  BY <1>2, <1>3, <1>4, <1>5, <1>6 DEF WrittenBy, Leaves

LEMMA ShapeStep ==
  ASSUME TypeOK, OnePlace, ContextsAreRead, RepliesInv, RepliesNext, NEW j \in Job
  PROVE  ShapeInv(j)'
<1>0. ShapeInv(j) /\ log \in [Job -> Seq(Event)]
  BY DEF RepliesInv
<1>1. req' = req
  BY RequestsFixed DEF RepliesNext
<1>4. j \in cut => j \in cut'
  BY DEF RepliesNext
<1>2. CASE log'[j] = log[j]
  BY <1>0, <1>1, <1>2, <1>4 DEF ShapeInv, AtMostOne, AtMostTwo, IsText
<1>3. ASSUME NEW event \in Event, WrittenBy(j, event), log'[j] = Append(log[j], event)
      PROVE  ShapeInv(j)'
  <2> DEFINE s == log[j]
             t == log'[j]
             n == Len(s) + 1
  <2>1. /\ DOMAIN t = DOMAIN s \union {n}
        /\ \A k \in DOMAIN s : k \in Nat /\ k < n /\ t[k] = s[k]
        /\ t[n] = event /\ n \in Nat
    BY <1>0, <1>3, LogAppend
  <2>2. /\ event \in Outcome => AtMostOne(j)
        /\ event \in Outcome => NoOutcome(j) \/ j \in cut
        /\ NoOutcome(j) \/ (~IsText(j) /\ event \in {"accepted", "error"})
        /\ event = "delta" /\ ~IsText(j) => Started(j)
    BY <1>3, WritesContinue
  <2>3. AtMostTwo(j)'
    BY <1>0, <1>3, <2>2, LogContinued DEF ShapeInv
  <2>4. IsText(j)' <=> IsText(j)
    BY <1>1 DEF IsText
  <2>7. AtMostOne(j)' \/ j \in cut'
    BY <1>0, <1>3, <1>4, <2>2, LogContinued DEF ShapeInv
  <2> HIDE DEF n
  <2>5. ASSUME NEW a \in DOMAIN t, NEW b \in DOMAIN t, t[a] \in Outcome, a < b
        PROVE  ~IsText(j) /\ t[b] \in {"accepted", "error"}
    <3>1. a \in DOMAIN s /\ s[a] \in Outcome
      BY <2>1, <2>5
    <3>2. CASE b \in DOMAIN s
      BY <1>0, <2>1, <2>5, <3>1, <3>2 DEF ShapeInv
    <3>3. CASE b = n
      BY <2>1, <2>2, <3>1, <3>3 DEF NoOutcome
    <3> QED
      BY <2>1, <3>2, <3>3
  <2>6. ASSUME NEW b \in DOMAIN t, t[b] = "delta", ~IsText(j)
        PROVE  \E a \in DOMAIN t : a < b /\ t[a] = "started"
    <3>1. CASE b \in DOMAIN s
      BY <1>0, <2>1, <2>6, <3>1 DEF ShapeInv
    <3>2. CASE b = n
      BY <2>1, <2>2, <2>6, <3>2 DEF Started
    <3> QED
      BY <2>1, <3>1, <3>2
  <2> QED
    BY <2>3, <2>4, <2>5, <2>6, <2>7 DEF ShapeInv
<1> QED
  BY <1>2, <1>3, LogStep

----------------------------------------------------------------------------
(* The stages of a reply *)

\* The promise to a client that has got its outcome, or whose provider was
\* stopped, is kept.
LEMMA ToldStays ==
  ASSUME TypeOK, ContextsAreRead, RepliesInv, RepliesNext, NEW j \in Job, Told(j)
  PROVE  Told(j)'
<1>1. log \in [Job -> Seq(Event)] /\ [Next]_vars
  BY DEF RepliesInv, RepliesNext
<1>2. ~NoOutcome(j) => ~NoOutcome(j)'
  BY <1>1, LogStep, LogContinued, LogKept
<1>3. j \in stopped => j \in stopped'
  BY DEF RepliesNext
<1>4. ConnOf(j)' = ConnOf(j) /\ ConnOf(j) \in Conn
  BY <1>1, RequestsFixed DEF ConnOf, TypeOK, Request
<1>5. open'[ConnOf(j)] => open[ConnOf(j)]
  BY <1>1, <1>4, ConnectionsStep
<1> QED
  BY <1>2, <1>3, <1>4, <1>5 DEF Told

\* An outcome that a step writes is logged, if the client is still there.
LEMMA ToldByOutcome ==
  ASSUME TypeOK, ContextsAreRead, RepliesInv, RepliesNext, NEW j \in Job,
         NEW event \in Outcome, WrittenBy(j, event)
  PROVE  Told(j)'
<1>1. log \in [Job -> Seq(Event)] /\ [Next]_vars /\ event \in Event
  BY DEF RepliesInv, RepliesNext, Event, ProviderEvent
<1>2. ConnOf(j)' = ConnOf(j) /\ ConnOf(j) \in Conn
  BY <1>1, RequestsFixed DEF ConnOf, TypeOK, Request
<1>3. open'[ConnOf(j)] => open[ConnOf(j)]
  BY <1>1, <1>2, ConnectionsStep
<1>4. CASE \A e \in Event : WrittenBy(j, e) => ~open[ConnOf(j)]
  BY <1>1, <1>2, <1>3, <1>4 DEF Told
<1>5. ASSUME NEW e \in Event, WrittenBy(j, e), log'[j] = Append(log[j], e)
      PROVE  Told(j)'
  <2>1. e = event
    BY <1>5 DEF WrittenBy, Refuse, Accept, GiveUp, Skip, Fail, WriteEvent, WriteLastText,
                WriteError, WorkerGoes, WorkerDone, workerVars, handlerVars, HandlerDone, TypeOK
  <2> QED
    BY <1>1, <1>5, <2>1, LogContinued DEF Told
<1> QED
  BY <1>4, <1>5, LogStep

\* A job that waits is untouched, and only "accepted" is written to it.
LEMMA WaitingStage ==
  ASSUME TypeOK, OnePlace, ContextsAreRead, RepliesInv, RepliesNext, NEW j \in Job,
         j \notin Over', wjob # j
  PROVE  Bare(j)'
<1>1. log \in [Job -> Seq(Event)] /\ StageInv(j) /\ [Next]_vars
  BY DEF RepliesInv, RepliesNext
<1>2. j \notin Over
  BY <1>1, OverStep DEF OverGrows
<1>3. Bare(j)
  BY <1>1, <1>2 DEF StageInv, Untouched
<1>4. ASSUME NEW event \in Event, WrittenBy(j, event) PROVE event = "accepted"
  BY <1>4, LeavingIsOver DEF WrittenBy, Leaves
<1> QED
  BY <1>1, <1>3, <1>4, LogStep, LogContinued, LogKept

\* A job that is over has been told.
LEMMA OverStage ==
  ASSUME TypeOK, OnePlace, ContextsAreRead, RepliesInv, RepliesNext, NEW j \in Job, j \in Over'
  PROVE  Told(j)'
<1>1. StageInv(j) /\ [Next]_vars
  BY DEF RepliesInv, RepliesNext
<1>2. CASE j \in Over
  BY <1>1, <1>2, ToldStays DEF StageInv, Over
<1>3. CASE j \notin Over
  <2>1. Leaves(j)
    BY <1>1, <1>3, OverStep DEF OverGrows
  <2>2. CASE wjob = j /\ Release
    <3>1. wpc = "release"
      BY <2>2 DEF Release
    <3> QED
      BY <1>1, <2>2, <3>1, ToldStays DEF StageInv
  <2>3. CASE ~(wjob = j /\ Release)
    <3>1. WrittenBy(j, "error")
      BY <2>1, <2>3 DEF Leaves, WrittenBy
    <3> QED
      BY <3>1, ToldByOutcome DEF Outcome
  <2> QED
    BY <2>2, <2>3
<1> QED
  BY <1>2, <1>3

\* Steps that leave the worker where it is: at most the handler's "accepted" is
\* added, and a provider that is stopped only ends what was awaited.
LEMMA WorkerRests ==
  ASSUME TypeOK, OnePlace, ContextsAreRead, RepliesInv, RepliesNext, NEW j \in Job,
         wjob = j, UNCHANGED <<wpc, wjob, wev>>,
         \/ prov'[j] = prov[j]
         \/ prov[j] \in {"send", "stream"} /\ prov'[j] = "closing" /\ j \in stopped'
         \/ prov[j] = "closing" /\ prov'[j] = "closed"
  PROVE  StageInv(j)'
<1>1. log \in [Job -> Seq(Event)] /\ StageInv(j) /\ [Next]_vars
  BY DEF RepliesInv, RepliesNext
<1>2. IsText(j)' <=> IsText(j)
  BY <1>1, RequestsFixed DEF IsText
<1>3. ASSUME NEW event \in Event, WrittenBy(j, event) PROVE event = "accepted"
  <2>1. ~Leaves(j)
    BY LeavingIsOver DEF Over
  <2>2. wpc # "recv"
    BY DEF TypeOK
  <2> QED
    BY <1>3, <2>1, <2>2 DEF WrittenBy, Leaves, Skip, Fail, WriteEvent, WriteLastText, WriteError,
                      WorkerGoes, WorkerDone
<1>4. /\ Bare(j) => Bare(j)'
      /\ NoOutcome(j) => NoOutcome(j)'
      /\ AtMostOne(j) => AtMostOne(j)'
      /\ Started(j) => Started(j)'
  BY <1>1, <1>3, LogStep, LogContinued, LogKept DEF Outcome
<1>5. j \notin Over' /\ j \notin Over
  BY DEF Over
<1>6. Untouched(j)' => Untouched(j)
  BY <1>5 DEF Untouched
<1>7. Awaited(j)' => Awaited(j)
  BY <1>2 DEF Awaited
<1>8. Streams(j)' => Streams(j)
  BY DEF Streams
<1>9. wpc \in {"clear", "release"} => Told(j)'
  BY <1>1, ToldStays DEF StageInv
<1>10. Ending(j)' => Told(j)'
  <2>1. CASE Ending(j)
    BY <1>1, <2>1, ToldStays DEF StageInv
  <2>2. CASE ~Ending(j) /\ Ending(j)'
    <3>1. j \in stopped'
      BY <2>2 DEF Ending
    <3> QED
      BY <3>1 DEF Told
  <2> QED
    BY <2>1, <2>2
<1>11. j \in cut => j \in cut'
  BY DEF RepliesNext
<1>12. /\ wpc \in {"loop", "fail"} => AtMostOne(j)
       /\ wpc = "fail" => NoOutcome(j) \/ j \in cut
       /\ wpc = "write" => prov[j] \notin {"none", "send"} /\ (wev \in Outcome => prov[j] # "stream")
  BY <1>1 DEF StageInv
<1>13. Untouched(j)' => Bare(j)'
  BY <1>1, <1>4, <1>6 DEF StageInv
<1>14. Awaited(j)' => NoOutcome(j)'
  BY <1>1, <1>4, <1>7 DEF StageInv
<1>15. Streams(j)' /\ ~IsText(j)' => Started(j)'
  BY <1>1, <1>2, <1>4, <1>8 DEF StageInv
<1>16. wpc' = "write" =>
         prov'[j] \notin {"none", "send"} /\ (wev' \in Outcome => prov'[j] # "stream")
  BY <1>12
<1> QED
  BY <1>4, <1>5, <1>9, <1>10, <1>11, <1>12, <1>13, <1>14, <1>15, <1>16 DEF StageInv

\* The worker's other steps on the job it holds.
LEMMA WorkerMoves ==
  ASSUME TypeOK, OnePlace, ContextsAreRead, RepliesInv, RepliesNext, NEW j \in Job,
         wjob = j, wjob' = j, wpc' # wpc
  PROVE  StageInv(j)'
<1>1. log \in [Job -> Seq(Event)] /\ StageInv(j) /\ [Next]_vars /\ Next
  BY DEF RepliesInv, RepliesNext
<1>2. (IsText(j)' <=> IsText(j)) /\ ConnOf(j)' = ConnOf(j) /\ ConnOf(j) \in Conn
  BY <1>1, RequestsFixed DEF IsText, ConnOf, TypeOK, Request
<1>3. j \notin Over' /\ j \notin Over
  BY DEF Over
<1>4. ASSUME wpc \notin {"fail", "write"} PROVE log'[j] = log[j]
  <2>1. ~Leaves(j)
    BY <1>3, LeavingIsOver
  <2>2. \A event \in Event : ~WrittenBy(j, event)
    BY <1>4, <2>1 DEF WrittenBy, Leaves, Accept, Fail, WriteEvent, WriteLastText, WriteError,
                      WorkerGoes, workerVars
  <2> QED
    BY <2>2, LogStep
<1>5. CASE Remove \/ Check \/ SetActive
  <2>1. /\ wpc \in {"remove", "check", "set"} /\ wpc' \in {"check", "skip", "set", "generate"}
    BY <1>5 DEF Remove, Check, SetActive, WorkerGoes
  <2>2. Bare(j)'
    BY <1>1, <1>4, <2>1, LogKept DEF StageInv, Untouched
  <2> QED
    BY <1>3, <2>1, <2>2 DEF StageInv, Awaited, Streams, Ending
<1>0. j \in cut => j \in cut'
  BY <1>1 DEF RepliesNext
<1>6. CASE Generate
  <2>1. /\ wpc = "generate" /\ wpc' \in {"fail", "loop"}
        /\ wpc' = "loop" => prov'[j] = "send"
    BY <1>6 DEF Generate, WorkerGoes, TypeOK
  <2>2. Bare(j)
    BY <1>1, <2>1 DEF StageInv, Untouched
  <2>3. Bare(j)' /\ NoOutcome(j)' /\ AtMostOne(j)'
    BY <1>4, <2>1, <2>2, LogKept, BareLog, OneIsFirst
  <2> QED
    BY <1>3, <2>1, <2>3 DEF StageInv, Streams, Ending
<1>7. CASE LoopCtxDone
  <2>1. wpc = "loop" /\ wpc' = "fail"
    BY <1>7 DEF LoopCtxDone, WorkerGoes
  <2>2. AtMostOne(j) /\ (IsText(j) => NoOutcome(j))
    BY <1>1, <2>1 DEF StageInv, Awaited
  <2>3. AtMostOne(j)' /\ (IsText(j) => NoOutcome(j)')
    BY <1>4, <2>1, <2>2, LogKept
  <2>4. j \in cut'
    BY <1>7 DEF RepliesNext
  <2> QED
    BY <1>2, <1>3, <2>1, <2>3, <2>4 DEF StageInv, Awaited, Untouched, Streams, Ending
<1>8. ASSUME wpc' \in {"clear", "release"}, Told(j)' PROVE StageInv(j)'
  BY <1>3, <1>8 DEF StageInv, Awaited, Untouched, Streams, Ending
<1>9. CASE LoopClosed
  <2>1. wpc = "loop" /\ wpc' = "clear" /\ prov[j] = "closed"
    BY <1>9 DEF LoopClosed, WorkerGoes
  <2>2. Told(j)
    BY <1>1, <2>1 DEF StageInv, Ending
  <2> QED
    BY <1>8, <2>1, <2>2, ToldStays
<1>10. CASE Fail
  <2>1. wpc' = "clear" /\ WrittenBy(j, "error")
    BY <1>10 DEF Fail, WorkerGoes, WrittenBy
  <2> QED
    BY <1>8, <2>1, ToldByOutcome DEF Outcome
<1>11. CASE WriteLastText
  <2>1. wpc' = "clear" /\ wev \in Outcome /\ WrittenBy(j, wev)
    BY <1>11 DEF WriteLastText, WorkerGoes, EndsText, WrittenBy, Outcome
  <2> QED
    BY <1>8, <2>1, ToldByOutcome
<1>12. CASE WriteError
  <2>1. wpc' = "clear" /\ ~open[ConnOf(j)]
    BY <1>12 DEF WriteError, WorkerGoes, WriteFails
  <2>2. Told(j)'
    BY <1>1, <1>2, <2>1, ConnectionsStep DEF Told
  <2> QED
    BY <1>8, <2>1, <2>2
<1>13. CASE ClearActive
  <2>1. wpc = "clear" /\ wpc' = "release"
    BY <1>13 DEF ClearActive, WorkerGoes
  <2> QED
    BY <1>1, <1>8, <2>1, ToldStays DEF StageInv
<1>14. CASE WriteEvent
  <2>1. /\ wpc = "write" /\ wpc' = "loop" /\ prov' = prov
        /\ open[ConnOf(j)] \/ (IsText(j) /\ wev = "started")
        /\ IsText(j) => wev \notin Outcome
    BY <1>14 DEF WriteEvent, WorkerGoes, EndsText, WriteFails
  <2>2. /\ NoOutcome(j) /\ (wev = "delta" /\ ~IsText(j) => Started(j))
        /\ prov[j] \notin {"none", "send"} /\ (wev \in Outcome => prov[j] # "stream")
    BY <1>1, <2>1 DEF StageInv, Awaited, Streams
  <2>3. wev \in Event /\ wev \in ProviderEvent
    BY DEF TypeOK, Event
  <2>4. \A event \in Event : WrittenBy(j, event) =>
          event = wev
    BY <1>14 DEF WrittenBy, Refuse, Accept, GiveUp, Skip, Fail, WriteEvent,
                WorkerGoes, WorkerDone, workerVars
  <2>5. \/ log'[j] = log[j] /\ IsText(j) /\ wev = "started"
        \/ log'[j] = Append(log[j], wev)
    <3>1. CASE IsText(j) /\ wev = "started"
      BY <2>4, <3>1, LogStep
    <3>2. CASE ~(IsText(j) /\ wev = "started")
      <4>1. WrittenBy(j, wev) /\ open[ConnOf(j)]
        BY <1>14, <2>1, <3>2 DEF WrittenBy
      <4> QED
        BY <2>3, <2>4, <4>1, LogStep
    <3> QED
      BY <3>1, <3>2
  <2>6. AtMostOne(j)' /\ (wev \notin Outcome => NoOutcome(j)')
    BY <1>1, <2>2, <2>3, <2>5, LogContinued, LogKept, OneIsFirst DEF Outcome
  <2>7. ~IsText(j) /\ wev \notin Outcome => Started(j)'
    BY <1>1, <2>2, <2>3, <2>5, LogContinued DEF ProviderEvent
  <2>8. Ending(j)' => Told(j)'
    <3>1. CASE wev \in Outcome
      <4>1. WrittenBy(j, wev)
        BY <1>14, <3>1 DEF WrittenBy, Outcome
      <4> QED
        BY <3>1, <4>1, ToldByOutcome
    <3>2. CASE wev \notin Outcome /\ Ending(j)'
      <4>1. Ending(j)
        BY <2>1, <3>2 DEF Ending
      <4> QED
        BY <1>1, <4>1, ToldStays DEF StageInv
    <3> QED
      BY <3>1, <3>2
  <2> QED
    BY <1>2, <1>3, <2>1, <2>2, <2>6, <2>7, <2>8 DEF StageInv, Awaited, Untouched, Streams
<1>15. ASSUME NEW event \in ProviderEvent, Deliver(event) PROVE StageInv(j)'
  <2>1. /\ wpc = "loop" /\ wpc' = "write" /\ wev' = event
        /\ \E next \in ProviderPC :
             Offers(j, event, next) /\ prov' = [prov EXCEPT ![j] = next]
    BY <1>15 DEF Deliver
  <2>2. /\ prov'[j] \in {"stream", "closing"}
        /\ event \in Outcome => prov'[j] = "closing"
        /\ prov[j] \in {"send", "stream"}
        /\ event = "started" => prov[j] = "send"
        /\ event = "delta" => prov[j] = "stream"
    BY <2>1 DEF Offers, TypeOK, Outcome
  <2>3. /\ NoOutcome(j)
        /\ event = "started" => Bare(j)
        /\ event = "delta" /\ ~IsText(j) => Started(j)
    BY <1>1, <2>1, <2>2, BareLog DEF StageInv, Untouched, Awaited, Streams
  <2>4. /\ NoOutcome(j)'
        /\ event = "started" => Bare(j)'
        /\ event = "delta" /\ ~IsText(j) => Started(j)'
    BY <1>4, <2>1, <2>3, LogKept
  <2>5. ~Ending(j)'
    BY <2>1, <2>2 DEF Ending, Offers, Outcome, TypeOK
  <2> QED
    BY <1>2, <1>3, <2>1, <2>2, <2>4, <2>5 DEF StageInv, Awaited, Untouched, Streams
<1>16. \/ \E event \in ProviderEvent : Deliver(event)
       \/ Remove \/ Check \/ SetActive \/ Generate \/ LoopCtxDone \/ LoopClosed
       \/ Fail \/ WriteEvent \/ WriteLastText \/ WriteError \/ ClearActive
  BY <1>1, NoJobAssumption
  DEF Next, HandlerStep, WorkerStep, ProviderStep, Refuse, Register, Send, SendTimeout, SendFull,
      SelectGoes, Accept, GiveUp, Disconnect, Cancel, Timeout, ProviderStops, ProviderCloses,
      Shutdown, Receive, Skip, Release, WorkerDone, workerVars, TypeOK
<1> QED
  BY <1>5, <1>6, <1>7, <1>9, <1>10, <1>11, <1>12, <1>13, <1>14, <1>15, <1>16

LEMMA StageStep ==
  ASSUME TypeOK, OnePlace, ContextsAreRead, RepliesInv, RepliesNext, NEW j \in Job
  PROVE  StageInv(j)'
<1>1. [Next]_vars /\ Next
  BY DEF RepliesNext
<1>2. CASE j \in Over'
  <2>1. wjob' # j
    BY <1>2 DEF Over
  <2> QED
    BY <1>2, <2>1, OverStage DEF StageInv, Untouched, Awaited, Streams, Ending
<1>3. CASE j \notin Over' /\ wjob' # j
  <2>1. wjob # j
    BY <1>1, <1>3, OverStep DEF OverGrows
  <2> QED
    BY <1>3, <2>1, WaitingStage DEF StageInv, Awaited, Streams, Ending
<1>4. CASE j \notin Over' /\ wjob' = j /\ wjob # j
  <2>1. wpc' = "remove"
    BY <1>1, <1>4, NoJobAssumption
    DEF Next, HandlerStep, WorkerStep, ProviderStep, Refuse, Register, Send, SendTimeout,
        SendFull, SelectGoes, Accept, GiveUp, Disconnect, Cancel, Timeout, ProviderStops,
        ProviderCloses, Deliver, Shutdown, Receive, Remove, Check, Skip, SetActive, Generate,
        LoopCtxDone, LoopClosed, Fail, WriteEvent, WriteLastText, WriteError, ClearActive,
        Release, WorkerGoes, WorkerDone, workerVars
  <2> QED
    BY <1>4, <2>1, WaitingStage DEF StageInv, Awaited, Streams, Ending
<1>5. CASE wjob' = j /\ wjob = j /\ wpc' = wpc
  <2>1. \/ \E c \in Conn, k \in Job : Refuse(c, k) \/ Register(c, k)
        \/ \E c \in Conn : HandlerStep(c) \/ Disconnect(c)
        \/ \E c \in Conn, i \in ID : Cancel(c, i)
        \/ \E k \in Job : Timeout(k) \/ ProviderStep(k)
        \/ Shutdown
    BY <1>1, <1>5
    DEF Next, WorkerStep, Deliver, Receive, Remove, Check, Skip, SetActive, Generate, LoopCtxDone,
        LoopClosed, Fail, WriteEvent, WriteLastText, WriteError, ClearActive, Release, WorkerGoes,
        WorkerDone
  <2>2. CASE \E k \in Job : ProviderStep(k)
    <3>1. PICK k \in Job : ProviderStep(k)
      BY <2>2
    <3>2. wev' = wev
      BY <3>1 DEF ProviderStep, ProviderStops, ProviderCloses, workerVars
    <3>3. CASE ProviderStops(k)
      <4>1. k \in stopped'
        BY <3>3 DEF RepliesNext
      <4>2. /\ prov[k] \in {"send", "stream"}
            /\ prov' = [prov EXCEPT ![k] = "closing"]
        BY <3>3 DEF ProviderStops
      <4> QED
        BY <1>5, <3>2, <4>1, <4>2, WorkerRests DEF TypeOK
    <3>4. CASE ProviderCloses(k)
      BY <1>5, <3>2, <3>4, WorkerRests DEF ProviderCloses, TypeOK
    <3> QED
      BY <3>1, <3>3, <3>4 DEF ProviderStep
  <2>3. CASE ~\E k \in Job : ProviderStep(k)
    <3>1. UNCHANGED <<wev, prov>>
      BY <2>1, <2>3 DEF Refuse, Register, HandlerStep, Send, SendTimeout, SendFull, SelectGoes,
           Accept, GiveUp, Disconnect, Cancel, Timeout, Shutdown, workerVars
    <3> QED
      BY <1>5, <3>1, WorkerRests
  <2> QED
    BY <2>2, <2>3
<1>6. CASE wjob' = j /\ wjob = j /\ wpc' # wpc
  BY <1>6, WorkerMoves
<1> QED
  BY <1>2, <1>3, <1>4, <1>5, <1>6

----------------------------------------------------------------------------
(* The acceptance of a job *)

\* A job is sent to the channel by the handler that will write its acceptance,
\* and comes to the worker from there.
LEMMA AdmittedStep ==
  ASSUME TypeOK, OnePlace, ContextsAreRead, RepliesInv, RepliesNext, NEW j \in Job,
         Admitted(j)', ~Admitted(j)
  PROVE  Accepting(j)'
<1>1. [Next]_vars /\ Next /\ log \in [Job -> Seq(Event)]
  BY DEF RepliesNext, RepliesInv
<1>2. ~Started(j)'
  <2>1. ASSUME NEW event \in Event, WrittenBy(j, event) PROVE event # "started"
    <3>1. wjob # j
      BY DEF Admitted
    <3> QED
      BY <2>1, <3>1 DEF WrittenBy
  <2>2. CASE log'[j] = log[j]
    BY <2>2, LogKept DEF Admitted
  <2>3. ASSUME NEW event \in Event, WrittenBy(j, event), log'[j] = Append(log[j], event)
        PROVE  ~Started(j)'
    <3>1. event # "started"
      BY <2>1, <2>3
    <3>2. ~Started(j)
      BY DEF Admitted
    <3>3. log[j] \in Seq(Event)
      BY <1>1
    <3> QED
      BY <2>3, <3>1, <3>2, <3>3, LogAppend DEF Started
  <2> QED
    BY <2>2, <2>3, LogStep
<1>3. CASE \E c \in Conn : Send(c)
  <2>1. PICK c \in Conn : Send(c)
    BY <1>3
  <2>2. /\ hjob[c] \in Job /\ jobs \in Seq(Job) /\ jobs' = Append(jobs, hjob[c])
        /\ hpc' = [hpc EXCEPT ![c] = "accept"] /\ hjob' = hjob /\ wjob' = wjob
    BY <2>1 DEF Send, SelectGoes, workerVars, TypeOK
  <2>3. InChannel(j)' => InChannel(j) \/ j = hjob[c]
    BY <2>2, AppendElements DEF InChannel
  <2>4. j = hjob[c]
    BY <1>2, <2>2, <2>3 DEF Admitted
  <2> QED
    BY <2>2, <2>4 DEF Accepting, TypeOK
<1>4. CASE Receive
  <2>1. /\ jobs \in Seq(Job) /\ jobs # <<>> /\ jobs' = Tail(jobs) /\ wjob' = Head(jobs)
    BY <1>4 DEF Receive, TypeOK
  <2>2. /\ 1 \in DOMAIN jobs /\ jobs[1] = wjob'
        /\ \A k \in DOMAIN jobs' : k + 1 \in DOMAIN jobs /\ jobs'[k] = jobs[k + 1]
    BY <2>1, TailElements
  <2>3. InChannel(j)' \/ wjob' = j => InChannel(j)
    BY <2>2 DEF InChannel
  <2> QED
    BY <1>2, <2>3 DEF Admitted
<1>5. CASE UNCHANGED jobs /\ wjob' \in {wjob, NoJob}
  BY <1>2, <1>5, NoJobAssumption DEF Admitted, InChannel
<1>6. (\E c \in Conn : Send(c)) \/ Receive \/ (UNCHANGED jobs /\ wjob' \in {wjob, NoJob})
  BY <1>1
  DEF Next, HandlerStep, WorkerStep, ProviderStep, Refuse, Register, SendTimeout, SendFull,
      SelectGoes, Accept, GiveUp, Disconnect, Cancel, Timeout, ProviderStops, ProviderCloses,
      Deliver, Shutdown, Remove, Check, Skip, SetActive, Generate, LoopCtxDone, LoopClosed, Fail,
      WriteEvent, WriteLastText, WriteError, ClearActive, Release, WorkerGoes, WorkerDone,
      workerVars
<1> QED
  BY <1>3, <1>4, <1>5, <1>6

\* A handler that accepts a job goes on to do so, and no other handler has it.
LEMMA HandlersStep ==
  ASSUME TypeOK, OnePlace, RepliesNext, NEW j \in Job
  PROVE  /\ j \in submitted => j \in submitted'
         /\ j \in submitted /\ (\E c \in Conn : hjob'[c] = j) => \E c \in Conn : hjob[c] = j
         /\ Accepting(j) /\ ~Accepting(j)' => \E c \in Conn : Accept(c) /\ hjob[c] = j
<1>0. Next
  BY DEF RepliesNext
<1>1. \/ submitted' = submitted /\ hjob' = hjob /\ hpc' = hpc
      \/ \E c \in Conn : HandlerStep(c)
      \/ \E c \in Conn, k \in Job : Refuse(c, k) \/ Register(c, k)
  BY <1>0
  DEF Next, WorkerStep, ProviderStep, Disconnect, Cancel, Timeout, ProviderStops, ProviderCloses,
      Deliver, Shutdown, Receive, Remove, Check, Skip, SetActive, Generate, LoopCtxDone,
      LoopClosed, Fail, WriteEvent, WriteLastText, WriteError, ClearActive, Release, handlerVars
<1>2. CASE submitted' = submitted /\ hjob' = hjob /\ hpc' = hpc
  BY <1>2 DEF Accepting
<1>3. ASSUME NEW c \in Conn, NEW k \in Job, Refuse(c, k) \/ Register(c, k)
      PROVE  /\ j \in submitted => j \in submitted'
             /\ j \in submitted /\ (\E d \in Conn : hjob'[d] = j) => \E d \in Conn : hjob[d] = j
             /\ Accepting(j) => Accepting(j)'
  <2>1. /\ k \notin submitted /\ submitted' = submitted \union {k} /\ hpc[c] = "read"
        /\ \/ UNCHANGED <<hpc, hjob>>
           \/ hpc' = [hpc EXCEPT ![c] = "send"] /\ hjob' = [hjob EXCEPT ![c] = k]
    BY <1>3 DEF Refuse, Register, Reads, handlerVars
  <2> QED
    BY <2>1 DEF Accepting, TypeOK
<1>4. ASSUME NEW c \in Conn, HandlerStep(c)
      PROVE  /\ submitted' = submitted
             /\ (\E d \in Conn : hjob'[d] = j) => \E d \in Conn : hjob[d] = j
             /\ Accepting(j) /\ ~Accepting(j)' => Accept(c) /\ hjob[c] = j
  <2>1. CASE Send(c) \/ SendTimeout(c) \/ SendFull(c)
    <3>1. /\ hpc[c] = "send" /\ UNCHANGED <<hjob, submitted>>
          /\ \A d \in Conn : d # c => hpc'[d] = hpc[d]
      BY <2>1 DEF Send, SendTimeout, SendFull, SelectGoes, TypeOK
    <3> QED
      BY <3>1 DEF Accepting
  <2>2. CASE Accept(c) \/ GiveUp(c)
    <3>1. /\ UNCHANGED submitted
          /\ hjob' = [hjob EXCEPT ![c] = NoJob] /\ hpc' = [hpc EXCEPT ![c] = "read"]
      BY <2>2 DEF Accept, GiveUp, HandlerDone
    <3>2. GiveUp(c) => hpc[c] # "accept"
      BY DEF GiveUp
    <3> QED
      BY <2>2, <3>1, <3>2, NoJobAssumption DEF Accepting, TypeOK
  <2> QED
    BY <1>4, <2>1, <2>2 DEF HandlerStep
<1> QED
  BY <1>1, <1>2, <1>3, <1>4

\* What continuing a log does to what is said of acceptance.
LEMMA AcceptanceContinued ==
  ASSUME log \in [Job -> Seq(Event)], NEW j \in Job, NEW event \in Event,
         log'[j] = Append(log[j], event)
  PROVE  /\ ~NoAcceptance(j) => ~NoAcceptance(j)'
         /\ event = "accepted" => ~NoAcceptance(j)'
         /\ event # "accepted" /\ NoAcceptance(j) => NoAcceptance(j)'
         /\ event # "accepted" \/ NoAcceptance(j) =>
              ((\A a, b \in Acceptances(j) : a = b) => \A a, b \in Acceptances(j)' : a = b)
         /\ event # "started" /\ Started(j)' => Started(j)
<1> DEFINE s == log[j]
           t == log'[j]
           n == Len(s) + 1
<1>1. /\ DOMAIN t = DOMAIN s \union {n} /\ n \notin DOMAIN s
      /\ \A k \in DOMAIN s : t[k] = s[k]
      /\ t[n] = event
  BY LogAppend
<1> HIDE DEF s, t, n
<1>2. /\ Started(j) <=> \E k \in DOMAIN s : s[k] = "started"
      /\ Started(j)' <=> \E k \in DOMAIN t : t[k] = "started"
      /\ NoAcceptance(j) <=> \A k \in DOMAIN s : s[k] # "accepted"
      /\ NoAcceptance(j)' <=> \A k \in DOMAIN t : t[k] # "accepted"
      /\ Acceptances(j) = {k \in DOMAIN s : s[k] = "accepted"}
      /\ Acceptances(j)' = {k \in DOMAIN t : t[k] = "accepted"}
  BY DEF Started, NoAcceptance, Acceptances, s, t
<1> QED
  BY <1>1, <1>2

LEMMA AcceptStep ==
  ASSUME TypeOK, OnePlace, ContextsAreRead, RepliesInv, RepliesNext, NEW j \in Job
  PROVE  AcceptInv(j)'
<1>0. [Next]_vars /\ log \in [Job -> Seq(Event)] /\ AcceptInv(j)
  BY DEF RepliesNext, RepliesInv
<1>1. (IsText(j)' <=> IsText(j)) /\ ConnOf(j)' = ConnOf(j) /\ ConnOf(j) \in Conn
  BY <1>0, RequestsFixed DEF IsText, ConnOf, TypeOK, Request
<1>2. open'[ConnOf(j)] => open[ConnOf(j)]
  BY <1>0, <1>1, ConnectionsStep
<1>3. j \notin submitted' \/ (\E c \in Conn : hjob'[c] = j) =>
        j \notin submitted \/ (\E c \in Conn : hjob[c] = j)
  BY HandlersStep
<1>4. ASSUME NEW event \in Event, WrittenBy(j, event)
      PROVE  /\ event = "accepted" =>
                  /\ NoAcceptance(j)
                  /\ ~(j \notin submitted' \/ (\E c \in Conn : hjob'[c] = j))
             /\ event = "started" => ~IsText(j) /\ wjob = j
  <2>1. CASE event = "accepted"
    <3>1. PICK c \in Conn : Accept(c) /\ hjob[c] = j
      BY <1>4, <2>1 DEF WrittenBy, TypeOK, ProviderEvent, Outcome
    <3>2. j \in submitted /\ submitted' = submitted /\ hjob' = [hjob EXCEPT ![c] = NoJob]
      BY <3>1 DEF Accept, HandlerDone, OnePlace
    <3>3. \A d \in Conn : hjob[d] = j => d = c
      BY <3>1 DEF OnePlace
    <3> QED
      BY <1>0, <2>1, <3>1, <3>2, <3>3, NoJobAssumption DEF AcceptInv, TypeOK
  <2>2. CASE event = "started"
    BY <1>4, <2>2 DEF WrittenBy
  <2> QED
    BY <2>1, <2>2
<1>5. Admitted(j)' /\ ~IsText(j) /\ open'[ConnOf(j)] => ~NoAcceptance(j)' \/ Accepting(j)'
  <2> SUFFICES ASSUME Admitted(j)', ~IsText(j), open'[ConnOf(j)], ~Accepting(j)'
               PROVE  ~NoAcceptance(j)'
    OBVIOUS
  <2>1. Admitted(j)
    BY AdmittedStep
  <2>2. ~NoAcceptance(j) \/ Accepting(j)
    BY <1>0, <1>2, <2>1 DEF AcceptInv
  <2>3. CASE ~NoAcceptance(j)
    <3>1. CASE log'[j] = log[j]
      BY <2>3, <3>1 DEF NoAcceptance
    <3>2. CASE \E event \in Event : log'[j] = Append(log[j], event)
      BY <1>0, <2>3, <3>2, AcceptanceContinued
    <3> QED
      BY <3>1, <3>2, LogStep
  <2>4. CASE Accepting(j)
    <3>1. PICK c \in Conn : Accept(c) /\ hjob[c] = j
      BY <2>4, HandlersStep
    <3>2. WrittenBy(j, "accepted") /\ open[ConnOf(j)] /\ "accepted" \in Event
      BY <1>2, <3>1 DEF WrittenBy, Event
    <3>3. PICK event \in Event : WrittenBy(j, event) /\ log'[j] = Append(log[j], event)
      BY <3>2, LogStep
    <3>4. event = "accepted"
      BY <3>1, <3>3 DEF Accept, HandlerDone, WrittenBy, Refuse, GiveUp, Skip, Fail, WriteEvent,
                        WriteLastText, WriteError, WorkerGoes, WorkerDone, workerVars,
                        handlerVars, Reads, OnePlace, TypeOK
    <3> QED
      BY <1>0, <3>3, <3>4, AcceptanceContinued
  <2> QED
    BY <2>2, <2>3, <2>4
<1>6. CASE log'[j] = log[j]
  <2>1. /\ Acceptances(j)' = Acceptances(j) /\ (NoAcceptance(j)' <=> NoAcceptance(j))
        /\ (Started(j)' <=> Started(j))
    BY <1>6 DEF Acceptances, NoAcceptance, Started
  <2> QED
    BY <1>0, <1>1, <1>3, <1>5, <2>1 DEF AcceptInv
<1>7. ASSUME NEW event \in Event, WrittenBy(j, event), log'[j] = Append(log[j], event)
      PROVE  AcceptInv(j)'
  <2>1. \A a, b \in Acceptances(j)' : a = b
    BY <1>0, <1>4, <1>7, AcceptanceContinued DEF AcceptInv
  <2>2. j \notin submitted' \/ (\E c \in Conn : hjob'[c] = j) => NoAcceptance(j)'
    BY <1>0, <1>3, <1>4, <1>7, AcceptanceContinued DEF AcceptInv
  <2>3. Started(j)' => ~IsText(j)'
    BY <1>0, <1>1, <1>4, <1>7, AcceptanceContinued DEF AcceptInv
  <2> QED
    BY <1>1, <1>5, <2>1, <2>2, <2>3 DEF AcceptInv
<1> QED
  BY <1>6, <1>7, LogStep

----------------------------------------------------------------------------
(* The invariant *)

LEMMA RepliesInvInit == RepliesInit => RepliesInv
<1> SUFFICES ASSUME RepliesInit PROVE RepliesInv
  OBVIOUS
<1>1. log \in [Job -> Seq(Event)] /\ \A j \in Job : DOMAIN log[j] = {}
  BY DEF RepliesInit
<1>2. wpc = "recv" /\ wjob = NoJob /\ Over = {} /\ jobs = <<>>
  BY DEF RepliesInit, Init, Over
<1>3. ASSUME NEW j \in Job PROVE StageInv(j) /\ ShapeInv(j) /\ AcceptInv(j)
  <2>1. StageInv(j)
    BY <1>1, <1>2, NoJobAssumption DEF StageInv, Bare, Untouched, Awaited, Streams, Ending
  <2>2. ShapeInv(j)
    BY <1>1 DEF ShapeInv, AtMostOne, AtMostTwo
  <2>3. AcceptInv(j)
    BY <1>1, <1>2, NoJobAssumption
    DEF AcceptInv, Acceptances, Admitted, Started, NoAcceptance, InChannel
  <2> QED
    BY <2>1, <2>2, <2>3
<1> QED
  BY <1>1, <1>3 DEF RepliesInv

LEMMA RepliesInvStep ==
  TypeOK /\ OnePlace /\ ContextsAreRead /\ RepliesInv /\ [RepliesNext]_<<vars, replyVars>> => RepliesInv'
<1> SUFFICES ASSUME TypeOK, OnePlace, ContextsAreRead, RepliesInv, [RepliesNext]_<<vars, replyVars>>
             PROVE  RepliesInv'
  OBVIOUS
<1>1. CASE RepliesNext
  <2>1. ASSUME NEW j \in Job PROVE log'[j] \in Seq(Event)
    <3>1. log[j] \in Seq(Event)
      BY DEF RepliesInv
    <3>2. log'[j] = log[j] \/ \E event \in Event : log'[j] = Append(log[j], event)
      BY <1>1, LogStep
    <3>3. \A event \in Event : Append(log[j], event) \in Seq(Event)
      BY <3>1, LogAppend
    <3> QED
      BY <3>1, <3>2, <3>3, Zenon
  <2>2. log' = [j \in Job |-> log'[j]]
    BY <1>1 DEF RepliesNext, Logged
  <2>3. log' \in [Job -> Seq(Event)]
    BY <2>1, <2>2
  <2> QED
    BY <1>1, <2>3, StageStep, ShapeStep, AcceptStep DEF RepliesInv
<1>2. CASE UNCHANGED <<vars, replyVars>>
  BY <1>2 DEF vars, replyVars, RepliesInv, StageInv, ShapeInv, AcceptInv, Bare, NoOutcome,
              AtMostOne, AtMostTwo, Started, Told, NoAcceptance, Acceptances, Accepting, Admitted,
              Untouched, Awaited, Streams, Ending, Over, HandlerHolds, InChannel, ConnOf, IsText
<1> QED
  BY <1>1, <1>2

\* The log only observes: a behaviour with it is a behaviour of the queue.
LEMMA RepliesAreOfTheQueue == RepliesSpec => Spec
<1>1. RepliesInit => Init
  BY DEF RepliesInit
<1>2. [RepliesNext]_<<vars, replyVars>> => [Next]_vars
  BY DEF RepliesNext
<1> QED
  BY <1>1, <1>2, PTL DEF RepliesSpec, Spec

LEMMA RepliesInvariant == RepliesSpec => []RepliesInv
BY RepliesInvInit, RepliesInvStep, RepliesAreOfTheQueue, TypeCorrect, JobsAreInOnePlace,
   ContextsInvariant, PTL DEF RepliesSpec

\* Sets without two different elements, ...
LEMMA AtMostOneElement ==
  ASSUME NEW S, \A a, b \in S : a = b
  PROVE  Cardinality(S) \in {0, 1} /\ Cardinality(S) <= 1 /\ ~(Cardinality(S) > 1)
<1>1. CASE S = {}
  BY <1>1, FS_EmptySet
<1>2. ASSUME NEW a \in S PROVE Cardinality(S) = 1
  <2>1. S = {a}
    BY <1>2
  <2> QED
    BY <2>1, FS_Singleton
<1> QED
  BY <1>1, <1>2

\* ... and without three.
LEMMA AtMostTwoElements ==
  ASSUME NEW S, \A a, b, d \in S : a = b \/ a = d \/ b = d
  PROVE  Cardinality(S) <= 2
<1>1. CASE S = {}
  BY <1>1, FS_EmptySet
<1>2. ASSUME NEW a \in S PROVE Cardinality(S) <= 2
  <2>1. IsFiniteSet({a}) /\ Cardinality({a}) = 1
    BY FS_Singleton
  <2>2. CASE S = {a}
    BY <2>1, <2>2
  <2>3. ASSUME NEW b \in S, b # a PROVE Cardinality(S) <= 2
    <3>1. S = {a} \union {b} /\ b \notin {a}
      BY <2>3
    <3>2. Cardinality({a} \union {b}) = Cardinality({a}) + 1
      BY <2>1, <3>1, FS_AddElement
    <3> QED
      BY <2>1, <3>1, <3>2
  <2> QED
    BY <2>2, <2>3
<1> QED
  BY <1>1, <1>2

\* The shape of every reply: nothing but "accepted" or an error after an outcome,
\* at most two outcomes and one to a text client, no delta to a JSON client
\* before "started", and one acceptance for a JSON client whose generation has
\* started, written or about to be (runJob, runTextJob, enqueueGenerate).
THEOREM RepliesAreInOrder == RepliesSpec => []ReplyOrder
<1>1. RepliesInv => ReplyOrder
  <2> SUFFICES ASSUME RepliesInv, NEW j \in Job
               PROVE  /\ \A a, b \in DOMAIN log[j] :
                           log[j][a] \in Outcome /\ a < b =>
                             ~IsText(j) /\ log[j][b] \in {"accepted", "error"}
                      /\ Cardinality(Outcomes(j)) <= 2
                      /\ \A b \in DOMAIN log[j] :
                           log[j][b] = "delta" /\ ~IsText(j) =>
                             \E a \in DOMAIN log[j] : a < b /\ log[j][a] = "started"
                      /\ \A a, b \in Acceptances(j) : a = b
                      /\ \A b \in DOMAIN log[j] :
                           log[j][b] = "started" /\ open[ConnOf(j)] =>
                             Acceptances(j) # {} \/ Accepting(j)
    BY DEF ReplyOrder
  <2>1. ShapeInv(j) /\ AcceptInv(j)
    BY DEF RepliesInv
  <2>2. \A a, b, d \in Outcomes(j) : a = b \/ a = d \/ b = d
    BY <2>1 DEF ShapeInv, AtMostTwo, Outcomes
  <2>3. Cardinality(Outcomes(j)) <= 2
    BY <2>2, AtMostTwoElements
  <2>4. ASSUME NEW b \in DOMAIN log[j], log[j][b] = "started", open[ConnOf(j)]
        PROVE  Acceptances(j) # {} \/ Accepting(j)
    <3>1. Started(j)
      BY <2>4 DEF Started
    <3>2. ~NoAcceptance(j) \/ Accepting(j)
      BY <2>1, <2>4, <3>1 DEF AcceptInv, Admitted
    <3> QED
      BY <3>2 DEF NoAcceptance, Acceptances
  <2>5. \A a, b \in Acceptances(j) : a = b
    BY <2>1 DEF AcceptInv
  <2> QED
    BY <2>1, <2>3, <2>4, <2>5 DEF ShapeInv
<1> QED
  BY <1>1, RepliesInvariant, PTL

\* A connected client whose job is over has read exactly one outcome, unless a
\* select took the branch of the job's context: none only if the provider's did,
\* two only if the worker's did.
THEOREM OutcomesAreExplained == RepliesSpec => []OneOutcomeUnlessContextEnds
<1>1. TypeOK /\ RepliesInv => OneOutcomeUnlessContextEnds
  <2> SUFFICES ASSUME TypeOK, RepliesInv, NEW j \in Over, open[ConnOf(j)]
               PROVE  /\ Outcomes(j) = {} => j \in stopped
                      /\ Cardinality(Outcomes(j)) > 1 => j \in cut
    BY DEF OneOutcomeUnlessContextEnds
  <2>1. j \in Job
    BY DEF TypeOK, Over
  <2>2. Told(j) /\ (AtMostOne(j) \/ j \in cut)
    BY <2>1 DEF RepliesInv, StageInv, ShapeInv
  <2>3. Outcomes(j) = {} => NoOutcome(j)
    BY DEF NoOutcome, Outcomes
  <2>4. AtMostOne(j) => Cardinality(Outcomes(j)) <= 1
    <3> SUFFICES ASSUME AtMostOne(j) PROVE Cardinality(Outcomes(j)) <= 1
      OBVIOUS
    <3>1. \A a, b \in Outcomes(j) : a = b
      BY DEF AtMostOne, Outcomes
    <3> QED
      BY <3>1, AtMostOneElement
  <2> QED
    <3>1. Outcomes(j) = {} => j \in stopped
      BY <2>2, <2>3 DEF Told
    <3>2. CASE j \in cut
      BY <3>1, <3>2
    <3>3. CASE AtMostOne(j)
      BY <2>4, <3>1, <3>3, AtMostOneElement DEF AtMostOne, Outcomes
    <3> QED
      BY <2>2, <3>2, <3>3
<1> QED
  BY <1>1, RepliesInvariant, RepliesAreOfTheQueue, TypeCorrect, PTL
====
