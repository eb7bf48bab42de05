---- MODULE GenerateQueue ----
(***************************************************************************)
(* The request queue of the yllmd daemon (internal/daemon/server.go).      *)
(*                                                                         *)
(* Every client connection has a goroutine that decodes requests and runs  *)
(* enqueueGenerate or cancel.  One worker goroutine takes jobs from the    *)
(* buffered channel s.jobs and drives the provider.  The mutex s.mu        *)
(* protects two maps from request IDs to jobs, s.queued and s.active.  The *)
(* maps and the channel are updated in separate steps, and the maps are    *)
(* keyed by an ID the client chooses, while a job is one particular call   *)
(* of enqueueGenerate: those two facts are what this module is about.      *)
(*                                                                         *)
(* Each action is one critical section, one channel operation or one write *)
(* to a client: the points at which the goroutines can interleave.  What   *)
(* the writes say is recorded by module QueueReplies.                      *)
(***************************************************************************)
EXTENDS Naturals, Sequences, FiniteSets

CONSTANTS
  Conn,      \* client connections, one handleConn goroutine each
  ID,        \* request IDs clients use
  Job,       \* calls of enqueueGenerate, one generateJob each
  Format,    \* output formats the clients ask for
  NoJob,     \* absence of a map entry or of a current job
  MaxDepth   \* cfg.Queue.MaxDepth, the capacity of s.jobs

ASSUME NoJobAssumption == NoJob \notin Job
ASSUME FormatAssumption == Format \subseteq {"json", "text"}
ASSUME MaxDepthAssumption == MaxDepth \in Nat \ {0}

VARIABLES
  req,       \* what each job asks: request ID, connection, output format
  hpc,       \* where each connection's handler is
  hjob,      \* the job that handler is enqueueing
  submitted, \* jobs whose request has been read
  ctxDone,   \* jobs whose context is cancelled or timed out
  queued,    \* s.queued
  active,    \* s.active
  jobs,      \* the channel s.jobs
  shutdown,  \* s.shutdown
  wpc,       \* where the worker goroutine is
  wjob,      \* the job it holds
  wev,       \* the provider event it is about to write
  prov,      \* the provider goroutine of each job
  open       \* which connections are open

handlerVars == <<hpc, hjob>>
mapVars == <<queued, active>>
workerVars == <<wpc, wjob, wev>>
vars == <<req, hpc, hjob, submitted, ctxDone, queued, active, jobs, shutdown,
          wpc, wjob, wev, prov, open>>

Request == [id : ID, conn : Conn, format : Format]
Outcome == {"completed", "cancelled", "error"}
ProviderEvent == Outcome \union {"started", "delta"}

HandlerPC == {"read", "send", "accept", "timeout", "full"}
WorkerPC == {"recv", "remove", "check", "skip", "set", "generate", "loop",
             "write", "fail", "clear", "release"}
ProviderPC == {"none", "send", "stream", "closing", "closed"}

Id(j) == req[j].id
ConnOf(j) == req[j].conn
IsText(j) == req[j].format = "text"
InChannel(j) == \E i \in DOMAIN jobs : jobs[i] = j

Init ==
  /\ req \in [Job -> Request]
  /\ hpc = [c \in Conn |-> "read"]
  /\ hjob = [c \in Conn |-> NoJob]
  /\ submitted = {}
  /\ ctxDone = {}
  /\ queued = [i \in ID |-> NoJob]
  /\ active = [i \in ID |-> NoJob]
  /\ jobs = <<>>
  /\ shutdown = FALSE
  /\ wpc = "recv"
  /\ wjob = NoJob
  /\ wev = "started"
  /\ prov = [j \in Job |-> "none"]
  /\ open = [c \in Conn |-> TRUE]

\* client.close(), which only text replies call.
CloseText(j) == open' = IF IsText(j) THEN [open EXCEPT ![ConnOf(j)] = FALSE] ELSE open

----------------------------------------------------------------------------
(* enqueueGenerate, in the goroutine of connection c. *)

\* Lines already in the scanner's buffer are handled even after the connection
\* is closed, so reading a request does not require open[c].
Reads(c, j) ==
  /\ hpc[c] = "read"
  /\ ConnOf(j) = c
  /\ j \notin submitted
  /\ submitted' = submitted \union {j}

\* A request answered with an error before it is registered: it is invalid or
\* cannot be routed (at any time), or its ID is in use, or the daemon is
\* shutting down.  A context made for it is cancelled.
Refuse(c, j) ==
  /\ Reads(c, j)
  /\ ctxDone' = ctxDone \union {j}
  /\ CloseText(j)
  /\ UNCHANGED <<req, handlerVars, mapVars, jobs, shutdown, workerVars, prov>>

\* The critical section that puts the job into s.queued.
Register(c, j) ==
  /\ Reads(c, j)
  /\ ~shutdown
  /\ active[Id(j)] = NoJob
  /\ queued[Id(j)] = NoJob
  /\ queued' = [queued EXCEPT ![Id(j)] = j]
  /\ hpc' = [hpc EXCEPT ![c] = "send"]
  /\ hjob' = [hjob EXCEPT ![c] = j]
  /\ UNCHANGED <<req, ctxDone, active, jobs, shutdown, workerVars, prov, open>>

\* The select after it: a send that does not block, the context, which may be
\* ready together with the send, or the default when neither is ready.
SelectGoes(c, pc) ==
  /\ hpc[c] = "send"
  /\ hpc' = [hpc EXCEPT ![c] = pc]
  /\ UNCHANGED <<req, hjob, submitted, ctxDone, mapVars, shutdown, workerVars, prov, open>>

\* Deliberate variant: after the send the select is tried once more.
SendAgain(c) ==
  /\ hpc[c] = "send"
  /\ Len(jobs) < MaxDepth
  /\ jobs' = Append(jobs, hjob[c])
  /\ \E pc \in {"send", "accept"} : SelectGoes(c, pc)

Send(c) ==
  /\ SelectGoes(c, "accept")
  /\ Len(jobs) < MaxDepth
  /\ jobs' = Append(jobs, hjob[c])

SendTimeout(c) ==
  /\ SelectGoes(c, "timeout")
  /\ hjob[c] \in ctxDone
  /\ UNCHANGED jobs

SendFull(c) ==
  /\ SelectGoes(c, "full")
  /\ hjob[c] \notin ctxDone
  /\ Len(jobs) >= MaxDepth
  /\ UNCHANGED jobs

HandlerDone(c) ==
  /\ hpc' = [hpc EXCEPT ![c] = "read"]
  /\ hjob' = [hjob EXCEPT ![c] = NoJob]

\* "accepted" is written, after the job is in the channel.
Accept(c) ==
  /\ hpc[c] = "accept"
  /\ HandlerDone(c)
  /\ UNCHANGED <<req, submitted, ctxDone, mapVars, jobs, shutdown, workerVars, prov, open>>

\* removeQueued deletes whatever job is registered under the ID.
RemoveQueued(i) == queued' = [queued EXCEPT ![i] = NoJob]

\* Deliberate variant: a request that gave up stays registered.
GiveUpLeaking(c) ==
  /\ hpc[c] \in {"timeout", "full"}
  /\ ctxDone' = ctxDone \union {hjob[c]}
  /\ CloseText(hjob[c])
  /\ HandlerDone(c)
  /\ UNCHANGED <<req, submitted, mapVars, jobs, shutdown, workerVars, prov>>

\* queue_timeout and queue_full.  The context is done in the first case and is
\* cancelled in the second.
GiveUp(c) ==
  /\ hpc[c] \in {"timeout", "full"}
  /\ RemoveQueued(Id(hjob[c]))
  /\ ctxDone' = ctxDone \union {hjob[c]}
  /\ CloseText(hjob[c])
  /\ HandlerDone(c)
  /\ UNCHANGED <<req, submitted, active, jobs, shutdown, workerVars, prov>>

----------------------------------------------------------------------------
(* Cancellation, timeouts, disconnection and shutdown. *)

\* What cancel(id) returns: an entry of either map answers for the ID.
CancelFinds(i) == active[i] # NoJob \/ queued[i] # NoJob

\* An active job only has its context cancelled; a queued one also loses its
\* map entry, but stays in the channel.
Cancel(c, i) ==
  /\ hpc[c] = "read"
  /\ CancelFinds(i)
  /\ IF active[i] # NoJob
     THEN ctxDone' = ctxDone \union {active[i]} /\ UNCHANGED queued
     ELSE ctxDone' = ctxDone \union {queued[i]} /\ RemoveQueued(i)
  /\ UNCHANGED <<req, handlerVars, submitted, active, jobs, shutdown, workerVars, prov, open>>

\* context.WithTimeout: the context of an unfinished job expires.
Timeout(j) ==
  /\ j \in submitted \ ctxDone
  /\ ctxDone' = ctxDone \union {j}
  /\ UNCHANGED <<req, handlerVars, submitted, mapVars, jobs, shutdown, workerVars, prov, open>>

\* The client goes away: later writes to it fail.
Disconnect(c) ==
  /\ open[c]
  /\ open' = [open EXCEPT ![c] = FALSE]
  /\ UNCHANGED <<req, handlerVars, submitted, ctxDone, mapVars, jobs, shutdown, workerVars, prov>>

\* The goroutine that waits for the signal: it cancels what the two maps hold
\* at that moment and leaves the maps alone.
Shutdown ==
  /\ ~shutdown
  /\ shutdown' = TRUE
  /\ ctxDone' = ctxDone \union {j \in Job : \E i \in ID : active[i] = j \/ queued[i] = j}
  /\ UNCHANGED <<req, handlerVars, submitted, mapVars, jobs, workerVars, prov, open>>

----------------------------------------------------------------------------
(* The worker goroutine. *)

WorkerGoes(from, to) == wpc = from /\ wpc' = to /\ UNCHANGED <<wjob, wev>>
WorkerDone == wpc' = "recv" /\ wjob' = NoJob /\ UNCHANGED wev

\* Deliberate variant: the newest job is served first.
ReceiveNewest ==
  /\ wpc = "recv"
  /\ jobs # <<>>
  /\ wjob' = jobs[Len(jobs)]
  /\ jobs' = SubSeq(jobs, 1, Len(jobs) - 1)
  /\ wpc' = "remove"
  /\ UNCHANGED <<req, handlerVars, submitted, ctxDone, mapVars, shutdown, wev, prov, open>>

Receive ==
  /\ wpc = "recv"
  /\ jobs # <<>>
  /\ wjob' = Head(jobs)
  /\ jobs' = Tail(jobs)
  /\ wpc' = "remove"
  /\ UNCHANGED <<req, handlerVars, submitted, ctxDone, mapVars, shutdown, wev, prov, open>>

Remove ==
  /\ WorkerGoes("remove", "check")
  /\ RemoveQueued(Id(wjob))
  /\ UNCHANGED <<req, handlerVars, submitted, ctxDone, active, jobs, shutdown, prov, open>>

\* Deliberate variant: a cancelled job is started like any other.
CheckNothing ==
  /\ WorkerGoes("check", "set")
  /\ UNCHANGED <<req, handlerVars, submitted, ctxDone, mapVars, jobs, shutdown, prov, open>>

Check ==
  /\ WorkerGoes("check", IF wjob \in ctxDone THEN "skip" ELSE "set")
  /\ UNCHANGED <<req, handlerVars, submitted, ctxDone, mapVars, jobs, shutdown, prov, open>>

\* Deliberate variant: the worker insists on telling the client.
SkipConnected ==
  /\ wpc = "skip"
  /\ open[ConnOf(wjob)]
  /\ CloseText(wjob)
  /\ WorkerDone
  /\ UNCHANGED <<req, handlerVars, submitted, ctxDone, mapVars, jobs, shutdown, prov>>

\* "request cancelled before start"
Skip ==
  /\ wpc = "skip"
  /\ CloseText(wjob)
  /\ WorkerDone
  /\ UNCHANGED <<req, handlerVars, submitted, ctxDone, mapVars, jobs, shutdown, prov>>

SetActive ==
  /\ WorkerGoes("set", "generate")
  /\ active' = [active EXCEPT ![Id(wjob)] = wjob]
  /\ UNCHANGED <<req, handlerVars, submitted, ctxDone, queued, jobs, shutdown, prov, open>>

\* provider.Generate fails, or returns the channel of a new goroutine.
Generate ==
  /\ \/ WorkerGoes("generate", "fail") /\ UNCHANGED prov
     \/ WorkerGoes("generate", "loop") /\ prov' = [prov EXCEPT ![wjob] = "send"]
  /\ UNCHANGED <<req, handlerVars, submitted, ctxDone, mapVars, jobs, shutdown, open>>

\* The select of runJob and runTextJob takes the context branch.
LoopCtxDone ==
  /\ WorkerGoes("loop", "fail")
  /\ wjob \in ctxDone
  /\ UNCHANGED <<req, handlerVars, submitted, ctxDone, mapVars, jobs, shutdown, prov, open>>

\* It finds the event channel closed: the job ends without another write.
LoopClosed ==
  /\ WorkerGoes("loop", "clear")
  /\ prov[wjob] = "closed"
  /\ CloseText(wjob)
  /\ UNCHANGED <<req, handlerVars, submitted, ctxDone, mapVars, jobs, shutdown, prov>>

\* The error that ends runJob: provider_failed or cancelled.
Fail ==
  /\ WorkerGoes("fail", "clear")
  /\ CloseText(wjob)
  /\ UNCHANGED <<req, handlerVars, submitted, ctxDone, mapVars, jobs, shutdown, prov>>

\* Deliberate variant: a text job goes on after its outcome.
NeverEndsText == FALSE

\* A text job ends with its first outcome, a JSON job when the channel closes.
EndsText == IsText(wjob) /\ wev \in Outcome
\* "started" is not shown to a text client, and a text outcome's write result
\* is ignored.
WriteFails == ~open[ConnOf(wjob)] /\ ~EndsText /\ ~(IsText(wjob) /\ wev = "started")

\* A provider event reaches its client, and the select is entered again.
WriteEvent ==
  /\ WorkerGoes("write", "loop")
  /\ ~EndsText /\ ~WriteFails
  /\ UNCHANGED <<req, handlerVars, submitted, ctxDone, mapVars, jobs, shutdown, prov, open>>

WriteLastText ==
  /\ WorkerGoes("write", "clear")
  /\ EndsText
  /\ CloseText(wjob)
  /\ UNCHANGED <<req, handlerVars, submitted, ctxDone, mapVars, jobs, shutdown, prov>>

\* Deliberate variant: a failed write leaves the provider running.
WriteErrorOnly ==
  /\ WorkerGoes("write", "clear")
  /\ WriteFails
  /\ CloseText(wjob)
  /\ UNCHANGED <<req, handlerVars, submitted, ctxDone, mapVars, jobs, shutdown, prov>>

\* A failed write cancels the job and ends it.
WriteError ==
  /\ WorkerGoes("write", "clear")
  /\ WriteFails
  /\ ctxDone' = ctxDone \union {wjob}
  /\ CloseText(wjob)
  /\ UNCHANGED <<req, handlerVars, submitted, mapVars, jobs, shutdown, prov>>

\* Deliberate variant: a finished job stays in s.active.
ClearNothing ==
  /\ WorkerGoes("clear", "release")
  /\ UNCHANGED <<req, handlerVars, submitted, ctxDone, mapVars, jobs, shutdown, prov, open>>

ClearActive ==
  /\ WorkerGoes("clear", "release")
  /\ active' = [active EXCEPT ![Id(wjob)] = NoJob]
  /\ UNCHANGED <<req, handlerVars, submitted, ctxDone, queued, jobs, shutdown, prov, open>>

\* job.cancel() after the job, then the next receive.
Release ==
  /\ wpc = "release"
  /\ ctxDone' = ctxDone \union {wjob}
  /\ WorkerDone
  /\ UNCHANGED <<req, handlerVars, submitted, mapVars, jobs, shutdown, prov, open>>

----------------------------------------------------------------------------
(* The provider goroutine of a job, as the worker sees it: events on an    *)
(* unbuffered channel, every send in a select with the job's context.      *)

\* The events the goroutine may send next, and its state after each.
Offers(j, event, next) ==
  \/ prov[j] = "send" /\ event = "started" /\ next = "stream"
  \/ prov[j] = "send" /\ event = "error" /\ next = "closing"
  \/ prov[j] = "stream" /\ event = "delta" /\ next = "stream"
  \/ prov[j] = "stream" /\ event \in Outcome /\ next = "closing"

\* Deliberate variant: the loop's switch has no case for "cancelled", and the
\* event is dropped.
DeliverLosing(event) ==
  /\ wpc = "loop"
  /\ \E next \in ProviderPC :
        Offers(wjob, event, next) /\ prov' = [prov EXCEPT ![wjob] = next]
  /\ IF event = "cancelled" THEN UNCHANGED <<wpc, wev>> ELSE wpc' = "write" /\ wev' = event
  /\ UNCHANGED <<req, handlerVars, submitted, ctxDone, mapVars, jobs, shutdown, wjob, open>>

\* The rendezvous on the event channel.
Deliver(event) ==
  /\ wpc = "loop"
  /\ \E next \in ProviderPC :
        Offers(wjob, event, next) /\ prov' = [prov EXCEPT ![wjob] = next]
  /\ wpc' = "write"
  /\ wev' = event
  /\ UNCHANGED <<req, handlerVars, submitted, ctxDone, mapVars, jobs, shutdown, wjob, open>>

\* Deliberate variant: a send that does not watch the context needs a listener.
ProviderStopsHeard(j) ==
  /\ prov[j] \in {"send", "stream"}
  /\ j \in ctxDone
  /\ j = wjob
  /\ prov' = [prov EXCEPT ![j] = "closing"]
  /\ UNCHANGED <<req, handlerVars, submitted, ctxDone, mapVars, jobs, shutdown, workerVars, open>>

\* The goroutine takes the context branch of a send, or stops waiting for the
\* runner's next frame.
ProviderStops(j) ==
  /\ prov[j] \in {"send", "stream"}
  /\ j \in ctxDone
  /\ prov' = [prov EXCEPT ![j] = "closing"]
  /\ UNCHANGED <<req, handlerVars, submitted, ctxDone, mapVars, jobs, shutdown, workerVars, open>>

ProviderCloses(j) ==
  /\ prov[j] = "closing"
  /\ prov' = [prov EXCEPT ![j] = "closed"]
  /\ UNCHANGED <<req, handlerVars, submitted, ctxDone, mapVars, jobs, shutdown, workerVars, open>>

----------------------------------------------------------------------------
HandlerStep(c) == Send(c) \/ SendTimeout(c) \/ SendFull(c) \/ Accept(c) \/ GiveUp(c)

WorkerStep ==
  \/ Receive \/ Remove \/ Check \/ Skip \/ SetActive \/ Generate
  \/ LoopCtxDone \/ LoopClosed \/ Fail
  \/ WriteEvent \/ WriteLastText \/ WriteError
  \/ ClearActive \/ Release

ProviderStep(j) == ProviderStops(j) \/ ProviderCloses(j)

Next ==
  \/ \E c \in Conn, j \in Job : Refuse(c, j) \/ Register(c, j)
  \/ \E c \in Conn : HandlerStep(c) \/ Disconnect(c)
  \/ \E c \in Conn, i \in ID : Cancel(c, i)
  \/ \E j \in Job : Timeout(j) \/ ProviderStep(j)
  \/ \E event \in ProviderEvent : Deliver(event)
  \/ Shutdown
  \/ WorkerStep

Spec == Init /\ [][Next]_vars

\* Goroutines that can run do run, a context's deadline passes, and clients
\* read what is written to them (or disconnect): a write has no deadline of
\* its own.  Of the select's branches only the context's is owed a turn: a
\* runner may stream for ever, but the context branch is taken at random, so
\* it is not passed over for ever.  Nothing is assumed of what the provider
\* sends: only that Generate returns and that its goroutine notices the end
\* of its context.
Fairness ==
  /\ WF_vars(WorkerStep)
  /\ SF_vars(LoopCtxDone)
  /\ \A c \in Conn : WF_vars(HandlerStep(c))
  /\ \A j \in Job : WF_vars(Timeout(j)) /\ WF_vars(ProviderStep(j))

FairSpec == Spec /\ Fairness

\* isIdle, the test model administration makes before it switches versions.
IsIdle == \A i \in ID : active[i] = NoJob /\ queued[i] = NoJob

----------------------------------------------------------------------------
(* Properties *)

\* Types of the queue's state; the channel never exceeds its capacity, and a
\* goroutine in the middle of something holds a job.
TypeOK ==
  /\ req \in [Job -> Request]
  /\ hpc \in [Conn -> HandlerPC]
  /\ hjob \in [Conn -> Job \union {NoJob}]
  /\ submitted \in SUBSET Job
  /\ ctxDone \in SUBSET Job
  /\ queued \in [ID -> Job \union {NoJob}]
  /\ active \in [ID -> Job \union {NoJob}]
  /\ jobs \in Seq(Job)
  /\ Len(jobs) <= MaxDepth
  /\ shutdown \in BOOLEAN
  /\ wpc \in WorkerPC
  /\ wjob \in Job \union {NoJob}
  /\ wev \in ProviderEvent
  /\ prov \in [Job -> ProviderPC]
  /\ open \in [Conn -> BOOLEAN]
  /\ \A c \in Conn : hpc[c] # "read" <=> hjob[c] \in Job
  /\ wpc # "recv" <=> wjob \in Job

HandlerHolds(j) == \E c \in Conn : hjob[c] = j /\ hpc[c] \in {"send", "timeout", "full"}
Pending(j) == HandlerHolds(j) \/ InChannel(j) \/ (wjob = j /\ wpc = "remove")
Running == {"generate", "loop", "write", "fail", "clear"}

\* A job is in one place: being enqueued, in the channel (once) or with the
\* worker, and the provider has not heard of one that still waits.  So no
\* request is enqueued twice or served twice, although IDs may be reused and
\* the maps be out of date.
OnePlace ==
  /\ \A c \in Conn : hjob[c] \in Job => ConnOf(hjob[c]) = c /\ hjob[c] \in submitted
  /\ \A j \in Job : HandlerHolds(j) => ~InChannel(j) /\ wjob # j
  /\ \A k, l \in DOMAIN jobs : jobs[k] = jobs[l] => k = l
  /\ \A k \in DOMAIN jobs : jobs[k] # wjob /\ jobs[k] \in submitted
  /\ wjob \in Job => wjob \in submitted
  /\ \A j \in Job :
       prov[j] # "none" =>
         /\ j \in submitted /\ ~HandlerHolds(j) /\ ~InChannel(j)
         /\ wjob = j => wpc \in {"loop", "write", "fail", "clear", "release"}

\* No entry of s.queued outlives its job's wait: whoever holds the job will
\* still call removeQueued for its ID.  A leaked entry would refuse the ID as
\* duplicate_request and keep isIdle false for ever.
QueuedOwned ==
  \A i \in ID : queued[i] # NoJob => Id(queued[i]) = i /\ Pending(queued[i])

\* s.active holds at most the job the worker is running, under its own ID: a
\* cancel of an active ID always reaches the job that is really running.
ActiveOwned ==
  \A i \in ID : active[i] # NoJob => active[i] = wjob /\ Id(wjob) = i /\ wpc \in Running

\* Once the worker has stopped listening to a provider goroutine, the context
\* of that goroutine is done: it cannot stay blocked on its send for ever,
\* holding the provider's mutex, while the next job waits for it.
ProviderAbandonedOnlyWhenCancelled ==
  \A j \in Job :
    prov[j] \in {"send", "stream"} =>
      (wjob = j /\ wpc \in {"loop", "write"} /\ (wpc = "write" => wev \notin Outcome))
      \/ j \in ctxDone

\* A job whose context ends while it waits in the channel (a cancel answered
\* "cancelled", a timeout, a shutdown) is never handed to the provider.
CancelledNeverStarts ==
  \A j \in Job : [](InChannel(j) /\ j \in ctxDone => [](prov[j] = "none"))

\* The queue as an abstract line: a job the worker has taken but not decided
\* about yet is still at its head.
Deciding == wpc \in {"remove", "check", "skip"}
Line == (IF Deciding THEN <<wjob>> ELSE <<>>) \o jobs
Served == IF Deciding THEN NoJob ELSE wjob
Over == {j \in submitted : ~HandlerHolds(j) /\ ~InChannel(j) /\ wjob # j}

Broker == INSTANCE FifoBroker WITH
            line <- Line, running <- Served, over <- Over, Room <- MaxDepth + 1

\* The daemon's queue implements the abstract one: whatever the interleaving
\* of handlers, cancels and the worker, jobs are served first come first
\* served, one at a time and at most once, and at most max_depth + 1 wait.
ImplementsFifo == Broker!Spec

\* The same with progress: the line keeps moving.
ImplementsFairFifo == Broker!FairSpec

\* With no more requests the daemon becomes idle and stays idle: every map
\* entry is eventually removed, so model administration is never locked out.
EventuallyIdle == <>[](IsIdle /\ jobs = <<>> /\ wpc = "recv")

\* A provider goroutine always ends, even when the runner is silent: the
\* provider's mutex is always released.
ProviderEnds == \A j \in Job : prov[j] = "send" ~> prov[j] = "closed"

\* docs/protocol.md: cancel "cancels a queued or active request".  The ID of a
\* job that is in the channel or with the worker, and not cancelled yet, is
\* one that cancel finds.
CancelFindsEveryRequest ==
  \A j \in Job :
    (InChannel(j) \/ (wjob = j /\ wpc # "release")) /\ j \notin ctxDone => CancelFinds(Id(j))
====
