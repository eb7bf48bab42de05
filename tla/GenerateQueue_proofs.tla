---- MODULE GenerateQueue_proofs ----
(***************************************************************************)
(* Theorems about GenerateQueue, for any number of connections, request    *)
(* IDs and jobs and any queue capacity.                                    *)
(***************************************************************************)
EXTENDS GenerateQueue, TLAPS

\* The typing invariant: in particular the channel never exceeds max_depth.
THEOREM TypeCorrect == Spec => []TypeOK
<1>1. Init => TypeOK
  <2> SUFFICES ASSUME Init PROVE TypeOK
    OBVIOUS
  <2>1. open \in [Conn -> BOOLEAN] /\ shutdown \in BOOLEAN
    BY Zenon DEF Init
  <2>2. jobs \in Seq(Job) /\ Len(jobs) <= MaxDepth
    BY MaxDepthAssumption DEF Init
  <2>3. QED
    BY <2>1, <2>2, NoJobAssumption
    DEF Init, TypeOK, HandlerPC, WorkerPC, ProviderPC, ProviderEvent, Outcome
<1>2. TypeOK /\ [Next]_vars => TypeOK'
  <2> SUFFICES ASSUME TypeOK, [Next]_vars PROVE TypeOK'
    OBVIOUS
  <2> USE NoJobAssumption, MaxDepthAssumption
      DEF TypeOK, handlerVars, mapVars, workerVars, Request,
          HandlerPC, WorkerPC, ProviderPC, ProviderEvent, Outcome,
          CloseText, Reads, SelectGoes, HandlerDone, RemoveQueued, WorkerGoes,
          WorkerDone, Id, ConnOf, IsText
  <2>1. CASE UNCHANGED vars
    BY <2>1 DEF vars
  <2>2. ASSUME NEW c \in Conn, NEW j \in Job, Refuse(c, j) PROVE TypeOK'
    BY <2>2 DEF Refuse
  <2>3. ASSUME NEW c \in Conn, NEW j \in Job, Register(c, j) PROVE TypeOK'
    BY <2>3 DEF Register
  <2>4. ASSUME NEW c \in Conn, Send(c) PROVE TypeOK'
    BY <2>4 DEF Send
  <2>5. ASSUME NEW c \in Conn, SendTimeout(c) PROVE TypeOK'
    BY <2>5 DEF SendTimeout
  <2>6. ASSUME NEW c \in Conn, SendFull(c) PROVE TypeOK'
    BY <2>6 DEF SendFull
  <2>7. ASSUME NEW c \in Conn, Accept(c) PROVE TypeOK'
    BY <2>7 DEF Accept
  <2>8. ASSUME NEW c \in Conn, GiveUp(c) PROVE TypeOK'
    BY <2>8 DEF GiveUp
  <2>9. ASSUME NEW c \in Conn, Disconnect(c) PROVE TypeOK'
    BY <2>9 DEF Disconnect
  <2>10. ASSUME NEW c \in Conn, NEW i \in ID, Cancel(c, i) PROVE TypeOK'
    BY <2>10 DEF Cancel, CancelFinds
  <2>11. ASSUME NEW j \in Job, Timeout(j) PROVE TypeOK'
    BY <2>11 DEF Timeout
  <2>12. ASSUME NEW j \in Job, ProviderStops(j) PROVE TypeOK'
    BY <2>12 DEF ProviderStops
  <2>13. ASSUME NEW j \in Job, ProviderCloses(j) PROVE TypeOK'
    BY <2>13 DEF ProviderCloses
  <2>14. ASSUME NEW event \in ProviderEvent, Deliver(event) PROVE TypeOK'
    BY <2>14 DEF Deliver
  <2>15. CASE Shutdown
    BY <2>15 DEF Shutdown
  <2>16. CASE Receive
    BY <2>16 DEF Receive
  <2>17. CASE Remove
    BY <2>17 DEF Remove
  <2>18. CASE Check
    BY <2>18 DEF Check
  <2>19. CASE Skip
    BY <2>19 DEF Skip
  <2>20. CASE SetActive
    BY <2>20 DEF SetActive
  <2>21. CASE Generate
    BY <2>21 DEF Generate
  <2>22. CASE LoopCtxDone
    BY <2>22 DEF LoopCtxDone
  <2>23. CASE LoopClosed
    BY <2>23 DEF LoopClosed
  <2>24. CASE Fail
    BY <2>24 DEF Fail
  <2>25. CASE WriteEvent
    BY <2>25 DEF WriteEvent
  <2>26. CASE WriteLastText
    BY <2>26 DEF WriteLastText
  <2>27. CASE WriteError
    BY <2>27 DEF WriteError
  <2>28. CASE ClearActive
    BY <2>28 DEF ClearActive
  <2>29. CASE Release
    BY <2>29 DEF Release
  <2> HIDE DEF TypeOK
  <2>30. QED
    BY <2>1, <2>2, <2>3, <2>4, <2>5, <2>6, <2>7, <2>8, <2>9, <2>10, <2>11,
       <2>12, <2>13, <2>14, <2>15, <2>16, <2>17, <2>18, <2>19, <2>20, <2>21,
       <2>22, <2>23, <2>24, <2>25, <2>26, <2>27, <2>28, <2>29, Zenon
    DEF Next, HandlerStep, WorkerStep, ProviderStep
<1>3. QED
  BY <1>1, <1>2, PTL DEF Spec

----------------------------------------------------------------------------
(* The channel *)

\* Sending keeps what is in the channel and puts the new job last.
LEMMA AppendElements ==
  ASSUME NEW s \in Seq(Job), NEW x \in Job
  PROVE  /\ DOMAIN Append(s, x) = DOMAIN s \union {Len(s) + 1}
         /\ \A k \in DOMAIN s : Append(s, x)[k] = s[k]
         /\ Append(s, x)[Len(s) + 1] = x
OBVIOUS

\* Receiving takes the head and shifts the rest.
LEMMA TailElements ==
  ASSUME NEW s \in Seq(Job), s # <<>>
  PROVE  /\ 1 \in DOMAIN s /\ s[1] = Head(s)
         /\ \A k \in DOMAIN s : k = 1 \/ (k - 1 \in DOMAIN Tail(s) /\ Tail(s)[k - 1] = s[k])
         /\ \A k \in DOMAIN Tail(s) : k + 1 \in DOMAIN s /\ Tail(s)[k] = s[k + 1]
OBVIOUS

----------------------------------------------------------------------------
(* Ownership of the map entries *)

\* An entry of s.queued always belongs to a job that somebody still holds and
\* will unregister; the argument is that every step that takes a job out of
\* the waiting places also clears the entry of its ID.
THEOREM QueuedEntriesOwned == Spec => []QueuedOwned
<1>1. Init => QueuedOwned
  BY DEF Init, QueuedOwned
<1>2. TypeOK /\ QueuedOwned /\ [Next]_vars => QueuedOwned'
  <2> SUFFICES ASSUME TypeOK, QueuedOwned, [Next]_vars,
                      NEW i \in ID, queued'[i] # NoJob
               PROVE  Id(queued[i])' = i /\ Pending(queued[i])'
    BY DEF QueuedOwned
  <2> USE NoJobAssumption
      DEF handlerVars, mapVars, workerVars, HandlerPC, WorkerPC, SelectGoes, HandlerDone,
          RemoveQueued, WorkerGoes, WorkerDone, Id, Pending, HandlerHolds, InChannel
  \* Most steps leave the entries and the waiting places alone, or clear entries.
  <2>1. ASSUME queued'[i] = queued[i], req' = req, hpc' = hpc, hjob' = hjob, jobs' = jobs,
               wpc = "remove" => wpc' = "remove", wpc = "remove" => wjob' = wjob
        PROVE  Id(queued[i])' = i /\ Pending(queued[i])'
    BY <2>1 DEF QueuedOwned
  <2>2. CASE UNCHANGED vars
    BY <2>1, <2>2 DEF vars
  <2>3. ASSUME NEW c \in Conn, NEW j \in Job, Refuse(c, j)
        PROVE  Id(queued[i])' = i /\ Pending(queued[i])'
    BY <2>1, <2>3 DEF Refuse
  <2>4. ASSUME NEW c \in Conn, NEW j \in Job, Register(c, j)
        PROVE  Id(queued[i])' = i /\ Pending(queued[i])'
    BY <2>4 DEF Register, Reads, QueuedOwned, TypeOK
  <2>5. ASSUME NEW c \in Conn, Send(c)
        PROVE  Id(queued[i])' = i /\ Pending(queued[i])'
    <3>1. hjob[c] \in Job
      BY <2>5 DEF Send, TypeOK
    <3>2. queued' = queued /\ req' = req /\ Id(queued[i]) = i
      BY <2>5 DEF Send, QueuedOwned
    <3>3. \A k \in DOMAIN jobs : k \in DOMAIN jobs' /\ jobs'[k] = jobs[k]
      BY <2>5, <3>1, AppendElements DEF Send, TypeOK
    <3>4. InChannel(hjob[c])'
      BY <2>5, <3>1, AppendElements DEF Send, TypeOK
    <3>5. CASE HandlerHolds(queued[i])
      <4>1. PICK d \in Conn : hjob[d] = queued[i] /\ hpc[d] \in {"send", "timeout", "full"}
        BY <3>5
      <4>2. QED
        BY <2>5, <3>2, <3>4, <4>1 DEF Send, TypeOK
    <3>6. CASE InChannel(queued[i])
      BY <3>2, <3>3, <3>6
    <3>7. CASE wjob = queued[i] /\ wpc = "remove"
      BY <2>5, <3>2, <3>7 DEF Send
    <3>8. QED
      BY <3>2, <3>5, <3>6, <3>7 DEF QueuedOwned
  <2>6. ASSUME NEW c \in Conn, SendTimeout(c) \/ SendFull(c)
        PROVE  Id(queued[i])' = i /\ Pending(queued[i])'
    BY <2>6 DEF SendTimeout, SendFull, QueuedOwned, TypeOK
  <2>7. ASSUME NEW c \in Conn, Accept(c)
        PROVE  Id(queued[i])' = i /\ Pending(queued[i])'
    BY <2>7 DEF Accept, QueuedOwned, TypeOK
  <2>8. ASSUME NEW c \in Conn, GiveUp(c)
        PROVE  Id(queued[i])' = i /\ Pending(queued[i])'
    BY <2>8 DEF GiveUp, QueuedOwned, TypeOK
  <2>9. ASSUME NEW c \in Conn, Disconnect(c)
        PROVE  Id(queued[i])' = i /\ Pending(queued[i])'
    BY <2>1, <2>9 DEF Disconnect
  <2>10. ASSUME NEW c \in Conn, NEW k \in ID, Cancel(c, k)
         PROVE  Id(queued[i])' = i /\ Pending(queued[i])'
    BY <2>1, <2>10 DEF Cancel, TypeOK
  <2>11. ASSUME NEW j \in Job, Timeout(j) \/ ProviderStops(j) \/ ProviderCloses(j)
         PROVE  Id(queued[i])' = i /\ Pending(queued[i])'
    BY <2>1, <2>11 DEF Timeout, ProviderStops, ProviderCloses
  <2>12. ASSUME NEW event \in ProviderEvent, Deliver(event)
         PROVE  Id(queued[i])' = i /\ Pending(queued[i])'
    BY <2>1, <2>12 DEF Deliver
  <2>13. CASE Shutdown
    BY <2>1, <2>13 DEF Shutdown
  <2>14. CASE Receive
    <3>1. /\ queued' = queued /\ req' = req /\ hpc' = hpc /\ hjob' = hjob
          /\ wjob' = Head(jobs) /\ wpc' = "remove" /\ wpc = "recv"
      BY <2>14 DEF Receive
    <3>2. ASSUME InChannel(queued[i])
          PROVE  InChannel(queued[i])' \/ wjob' = queued[i]
      <4>1. PICK k \in DOMAIN jobs : jobs[k] = queued[i]
        BY <3>2
      <4>2. jobs' = Tail(jobs) /\ jobs # <<>> /\ jobs \in Seq(Job)
        BY <2>14 DEF Receive, TypeOK
      <4>3. \/ k = 1 /\ jobs[1] = Head(jobs)
            \/ k - 1 \in DOMAIN jobs' /\ jobs'[k - 1] = jobs[k]
        BY <4>2, TailElements
      <4>4. QED
        BY <3>1, <4>1, <4>3
    <3>3. QED
      BY <3>1, <3>2 DEF QueuedOwned
  <2>15. CASE Remove
    BY <2>15 DEF Remove, QueuedOwned, TypeOK
  <2>16. CASE Check \/ SetActive \/ Generate \/ LoopCtxDone \/ LoopClosed \/ Fail
              \/ WriteEvent \/ WriteLastText \/ WriteError \/ ClearActive
    BY <2>1, <2>16 DEF Check, SetActive, Generate, LoopCtxDone, LoopClosed, Fail,
                       WriteEvent, WriteLastText, WriteError, ClearActive
  <2>17. CASE Skip \/ Release
    BY <2>1, <2>17 DEF Skip, Release
  <2>18. QED
    BY <2>2, <2>3, <2>4, <2>5, <2>6, <2>7, <2>8, <2>9, <2>10, <2>11, <2>12, <2>13,
       <2>14, <2>15, <2>16, <2>17, Zenon
    DEF Next, HandlerStep, WorkerStep, ProviderStep
<1>3. QED
  BY <1>1, <1>2, TypeCorrect, PTL DEF Spec

\* s.active names the job the worker is running and nothing else.
THEOREM ActiveEntryIsRunning == Spec => []ActiveOwned
<1>1. Init => ActiveOwned
  BY DEF Init, ActiveOwned
<1>2. TypeOK /\ ActiveOwned /\ [Next]_vars => ActiveOwned'
  <2> SUFFICES ASSUME TypeOK, ActiveOwned, [Next]_vars PROVE ActiveOwned'
    OBVIOUS
  <2> USE NoJobAssumption
      DEF TypeOK, ActiveOwned, Running, handlerVars, mapVars, workerVars, SelectGoes,
          HandlerDone, WorkerGoes, WorkerDone, Id
  <2>1. CASE UNCHANGED vars
    BY <2>1 DEF vars
  <2>2. ASSUME NEW c \in Conn, NEW j \in Job, Refuse(c, j) PROVE ActiveOwned'
    BY <2>2 DEF Refuse, Reads, CloseText
  <2>3. ASSUME NEW c \in Conn, NEW j \in Job, Register(c, j) PROVE ActiveOwned'
    BY <2>3 DEF Register, Reads
  <2>4. ASSUME NEW c \in Conn, Send(c) PROVE ActiveOwned'
    BY <2>4 DEF Send
  <2>5. ASSUME NEW c \in Conn, SendTimeout(c) PROVE ActiveOwned'
    BY <2>5 DEF SendTimeout
  <2>6. ASSUME NEW c \in Conn, SendFull(c) PROVE ActiveOwned'
    BY <2>6 DEF SendFull
  <2>7. ASSUME NEW c \in Conn, Accept(c) PROVE ActiveOwned'
    BY <2>7 DEF Accept
  <2>8. ASSUME NEW c \in Conn, GiveUp(c) PROVE ActiveOwned'
    BY <2>8 DEF GiveUp
  <2>9. ASSUME NEW c \in Conn, Disconnect(c) PROVE ActiveOwned'
    BY <2>9 DEF Disconnect
  <2>10. ASSUME NEW c \in Conn, NEW i \in ID, Cancel(c, i) PROVE ActiveOwned'
    BY <2>10 DEF Cancel
  <2>11. ASSUME NEW j \in Job, Timeout(j) PROVE ActiveOwned'
    BY <2>11 DEF Timeout
  <2>12. ASSUME NEW j \in Job, ProviderStops(j) PROVE ActiveOwned'
    BY <2>12 DEF ProviderStops
  <2>13. ASSUME NEW j \in Job, ProviderCloses(j) PROVE ActiveOwned'
    BY <2>13 DEF ProviderCloses
  <2>14. ASSUME NEW event \in ProviderEvent, Deliver(event) PROVE ActiveOwned'
    BY <2>14 DEF Deliver, Offers
  <2>15. CASE Shutdown
    BY <2>15 DEF Shutdown
  <2>16. CASE Receive
    BY <2>16 DEF Receive
  <2>17. CASE Remove
    BY <2>17 DEF Remove
  <2>18. CASE Check
    BY <2>18 DEF Check
  <2>19. CASE Skip
    BY <2>19 DEF Skip
  <2>20. CASE SetActive
    BY <2>20 DEF SetActive
  <2>21. CASE Generate
    BY <2>21 DEF Generate
  <2>22. CASE LoopCtxDone
    BY <2>22 DEF LoopCtxDone
  <2>23. CASE LoopClosed
    BY <2>23 DEF LoopClosed
  <2>24. CASE Fail
    BY <2>24 DEF Fail
  <2>25. CASE WriteEvent
    BY <2>25 DEF WriteEvent, WriteFails, EndsText
  <2>26. CASE WriteLastText
    BY <2>26 DEF WriteLastText, EndsText
  <2>27. CASE WriteError
    BY <2>27 DEF WriteError, WriteFails, EndsText
  <2>28. CASE ClearActive
    BY <2>28 DEF ClearActive
  <2>29. CASE Release
    BY <2>29 DEF Release
  <2>30. QED
        BY <2>1, <2>2, <2>3, <2>4, <2>5, <2>6, <2>7, <2>8, <2>9, <2>10, <2>11, <2>12, <2>13,
       <2>14, <2>15, <2>16, <2>17, <2>18, <2>19, <2>20, <2>21, <2>22, <2>23, <2>24, <2>25,
       <2>26, <2>27, <2>28, <2>29, Zenon
    DEF Next, HandlerStep, WorkerStep, ProviderStep
<1>3. QED
  BY <1>1, <1>2, TypeCorrect, PTL DEF Spec

\* A provider goroutine the worker no longer listens to has been told to stop.
THEOREM AbandonedProvidersAreCancelled == Spec => []ProviderAbandonedOnlyWhenCancelled
<1>1. Init => ProviderAbandonedOnlyWhenCancelled
  BY DEF Init, ProviderAbandonedOnlyWhenCancelled
<1>2. TypeOK /\ ProviderAbandonedOnlyWhenCancelled /\ [Next]_vars
        => ProviderAbandonedOnlyWhenCancelled'
  <2> SUFFICES ASSUME TypeOK, ProviderAbandonedOnlyWhenCancelled, [Next]_vars
               PROVE  ProviderAbandonedOnlyWhenCancelled'
    OBVIOUS
  <2> USE NoJobAssumption
      DEF TypeOK, ProviderAbandonedOnlyWhenCancelled, handlerVars, mapVars, workerVars,
          ProviderPC, Outcome, SelectGoes, HandlerDone, WorkerGoes, WorkerDone
  <2>1. CASE UNCHANGED vars
    BY <2>1 DEF vars
  <2>2. ASSUME NEW c \in Conn, NEW j \in Job, Refuse(c, j)
        PROVE ProviderAbandonedOnlyWhenCancelled'
    BY <2>2 DEF Refuse, Reads, CloseText
  <2>3. ASSUME NEW c \in Conn, NEW j \in Job, Register(c, j)
        PROVE ProviderAbandonedOnlyWhenCancelled'
    BY <2>3 DEF Register, Reads
  <2>4. ASSUME NEW c \in Conn, Send(c)
        PROVE ProviderAbandonedOnlyWhenCancelled'
    BY <2>4 DEF Send
  <2>5. ASSUME NEW c \in Conn, SendTimeout(c)
        PROVE ProviderAbandonedOnlyWhenCancelled'
    BY <2>5 DEF SendTimeout
  <2>6. ASSUME NEW c \in Conn, SendFull(c)
        PROVE ProviderAbandonedOnlyWhenCancelled'
    BY <2>6 DEF SendFull
  <2>7. ASSUME NEW c \in Conn, Accept(c)
        PROVE ProviderAbandonedOnlyWhenCancelled'
    BY <2>7 DEF Accept
  <2>8. ASSUME NEW c \in Conn, GiveUp(c)
        PROVE ProviderAbandonedOnlyWhenCancelled'
    BY <2>8 DEF GiveUp
  <2>9. ASSUME NEW c \in Conn, Disconnect(c)
        PROVE ProviderAbandonedOnlyWhenCancelled'
    BY <2>9 DEF Disconnect
  <2>10. ASSUME NEW c \in Conn, NEW i \in ID, Cancel(c, i)
        PROVE ProviderAbandonedOnlyWhenCancelled'
    BY <2>10 DEF Cancel
  <2>11. ASSUME NEW j \in Job, Timeout(j)
        PROVE ProviderAbandonedOnlyWhenCancelled'
    BY <2>11 DEF Timeout
  <2>12. ASSUME NEW j \in Job, ProviderStops(j)
        PROVE ProviderAbandonedOnlyWhenCancelled'
    BY <2>12 DEF ProviderStops
  <2>13. ASSUME NEW j \in Job, ProviderCloses(j)
        PROVE ProviderAbandonedOnlyWhenCancelled'
    BY <2>13 DEF ProviderCloses
  <2>14. ASSUME NEW event \in ProviderEvent, Deliver(event)
        PROVE ProviderAbandonedOnlyWhenCancelled'
    BY <2>14 DEF Deliver, Offers
  <2>15. CASE Shutdown
    BY <2>15 DEF Shutdown
  <2>16. CASE Receive
    BY <2>16 DEF Receive
  <2>17. CASE Remove
    BY <2>17 DEF Remove
  <2>18. CASE Check
    BY <2>18 DEF Check
  <2>19. CASE Skip
    BY <2>19 DEF Skip
  <2>20. CASE SetActive
    BY <2>20 DEF SetActive
  <2>21. CASE Generate
    BY <2>21 DEF Generate
  <2>22. CASE LoopCtxDone
    BY <2>22 DEF LoopCtxDone
  <2>23. CASE LoopClosed
    BY <2>23 DEF LoopClosed
  <2>24. CASE Fail
    BY <2>24 DEF Fail
  <2>25. CASE WriteEvent
    BY <2>25 DEF WriteEvent, WriteFails, EndsText
  <2>26. CASE WriteLastText
    BY <2>26 DEF WriteLastText, EndsText
  <2>27. CASE WriteError
    BY <2>27 DEF WriteError, WriteFails, EndsText
  <2>28. CASE ClearActive
    BY <2>28 DEF ClearActive
  <2>29. CASE Release
    BY <2>29 DEF Release
  <2>30. QED
        BY <2>1, <2>2, <2>3, <2>4, <2>5, <2>6, <2>7, <2>8, <2>9, <2>10, <2>11, <2>12, <2>13,
       <2>14, <2>15, <2>16, <2>17, <2>18, <2>19, <2>20, <2>21, <2>22, <2>23, <2>24, <2>25,
       <2>26, <2>27, <2>28, <2>29, Zenon
    DEF Next, HandlerStep, WorkerStep, ProviderStep
<1>3. QED
  BY <1>1, <1>2, TypeCorrect, PTL DEF Spec

\* No job is enqueued or served twice.
THEOREM JobsAreInOnePlace == Spec => []OnePlace
<1>1. Init => OnePlace
  BY NoJobAssumption DEF Init, OnePlace, HandlerHolds, InChannel
<1>2. TypeOK /\ OnePlace /\ [Next]_vars => OnePlace'
  <2> SUFFICES ASSUME TypeOK, OnePlace, [Next]_vars PROVE OnePlace'
    OBVIOUS
  <2> USE NoJobAssumption
      DEF TypeOK, OnePlace, handlerVars, mapVars, workerVars, HandlerPC, WorkerPC,
          ProviderPC, SelectGoes, HandlerDone, WorkerGoes, WorkerDone, HandlerHolds,
          InChannel, ConnOf
  <2>1. CASE UNCHANGED vars
    BY <2>1 DEF vars
  <2>2. ASSUME NEW c \in Conn, NEW j \in Job, Refuse(c, j) PROVE OnePlace'
    BY <2>2 DEF Refuse, Reads, CloseText
  <2>3. ASSUME NEW c \in Conn, NEW j \in Job, Register(c, j) PROVE OnePlace'
    BY <2>3 DEF Register, Reads
  <2>4. ASSUME NEW c \in Conn, Send(c) PROVE OnePlace'
    <3>1. hjob[c] \in Job /\ jobs \in Seq(Job)
      BY <2>4 DEF Send
    <3>2. /\ DOMAIN jobs' = DOMAIN jobs \union {Len(jobs) + 1}
          /\ \A k \in DOMAIN jobs : jobs'[k] = jobs[k]
          /\ jobs'[Len(jobs) + 1] = hjob[c]
      BY <2>4, <3>1, AppendElements DEF Send
    <3>3. /\ hpc' = [hpc EXCEPT ![c] = "accept"] /\ hpc[c] = "send"
          /\ UNCHANGED <<req, hjob, submitted, wpc, wjob, prov>>
      BY <2>4 DEF Send
    <3>4. HandlerHolds(hjob[c]) /\ hjob[c] \in submitted /\ prov[hjob[c]] = "none"
      BY <3>1, <3>3
    <3>5. ASSUME NEW j \in Job, HandlerHolds(j)' PROVE HandlerHolds(j) /\ j # hjob[c]
      <4>1. PICK d \in Conn : hjob[d] = j /\ hpc'[d] \in {"send", "timeout", "full"}
        BY <3>3, <3>5 DEF HandlerHolds
      <4>2. d # c /\ hpc'[d] = hpc[d]
        BY <3>3, <4>1
      <4> QED
        BY <3>1, <3>3, <4>1, <4>2
    <3>6. \A j \in Job : InChannel(j)' <=> InChannel(j) \/ j = hjob[c]
      BY <3>2, <3>3
    <3>7. \A k \in DOMAIN jobs : jobs[k] # hjob[c] /\ jobs[k] # wjob /\ jobs[k] \in submitted
      BY <3>1, <3>4
    <3>8. \A k, l \in DOMAIN jobs' : jobs'[k] = jobs'[l] => k = l
      BY <3>2, <3>7
    <3>9. \A k \in DOMAIN jobs' : jobs'[k] # wjob' /\ jobs'[k] \in submitted'
      BY <3>1, <3>2, <3>3, <3>4, <3>7
    <3>10. \A j \in Job : prov'[j] # "none" =>
             /\ j \in submitted' /\ ~HandlerHolds(j)' /\ ~InChannel(j)'
             /\ wjob' = j => wpc' \in {"loop", "write", "fail", "clear", "release"}
      BY <3>3, <3>4, <3>5, <3>6
    <3>11. \A j \in Job : HandlerHolds(j)' => ~InChannel(j)' /\ wjob' # j
      BY <3>3, <3>5, <3>6
    <3>12. QED
      BY <3>3, <3>8, <3>9, <3>10, <3>11
  <2>5. ASSUME NEW c \in Conn, SendTimeout(c) PROVE OnePlace'
    BY <2>5 DEF SendTimeout
  <2>6. ASSUME NEW c \in Conn, SendFull(c) PROVE OnePlace'
    BY <2>6 DEF SendFull
  <2>7. ASSUME NEW c \in Conn, Accept(c) PROVE OnePlace'
    BY <2>7 DEF Accept
  <2>8. ASSUME NEW c \in Conn, GiveUp(c) PROVE OnePlace'
    BY <2>8 DEF GiveUp
  <2>9. ASSUME NEW c \in Conn, Disconnect(c) PROVE OnePlace'
    BY <2>9 DEF Disconnect
  <2>10. ASSUME NEW c \in Conn, NEW i \in ID, Cancel(c, i) PROVE OnePlace'
    BY <2>10 DEF Cancel
  <2>11. ASSUME NEW j \in Job, Timeout(j) PROVE OnePlace'
    BY <2>11 DEF Timeout
  <2>12. ASSUME NEW j \in Job, ProviderStops(j) PROVE OnePlace'
    BY <2>12 DEF ProviderStops
  <2>13. ASSUME NEW j \in Job, ProviderCloses(j) PROVE OnePlace'
    BY <2>13 DEF ProviderCloses
  <2>14. ASSUME NEW event \in ProviderEvent, Deliver(event) PROVE OnePlace'
    BY <2>14 DEF Deliver, Offers
  <2>15. CASE Shutdown
    BY <2>15 DEF Shutdown
  <2>16. CASE Receive
    <3>1. jobs \in Seq(Job) /\ jobs # <<>>
      BY <2>16 DEF Receive
    <3>2. /\ 1 \in DOMAIN jobs /\ jobs[1] = wjob'
          /\ \A k \in DOMAIN jobs : k = 1 \/ (k - 1 \in DOMAIN jobs' /\ jobs'[k - 1] = jobs[k])
          /\ \A k \in DOMAIN jobs' : k + 1 \in DOMAIN jobs /\ jobs'[k] = jobs[k + 1]
      BY <2>16, <3>1, TailElements DEF Receive
    <3>3. DOMAIN jobs' \subseteq Nat \ {0}
      BY <2>16, <3>1 DEF Receive
    <3>4. /\ wpc' = "remove" /\ wjob' \in Job
          /\ UNCHANGED <<req, hpc, hjob, submitted, prov>>
      BY <2>16 DEF Receive
    <3>5. \A j \in Job : InChannel(j)' => InChannel(j) /\ j # wjob'
      BY <3>2, <3>3
    <3>6. InChannel(wjob') /\ wjob' \in submitted
      BY <3>2
    <3>7. \A k, l \in DOMAIN jobs' : jobs'[k] = jobs'[l] => k = l
      BY <3>2, <3>3
    <3>8. \A k \in DOMAIN jobs' : jobs'[k] # wjob' /\ jobs'[k] \in submitted'
      BY <3>2, <3>3, <3>4
    <3>9. \A j \in Job : HandlerHolds(j)' => ~InChannel(j)' /\ wjob' # j
      BY <3>4, <3>5, <3>6
    <3>10. \A j \in Job : prov'[j] # "none" =>
             /\ j \in submitted' /\ ~HandlerHolds(j)' /\ ~InChannel(j)'
             /\ wjob' = j => wpc' \in {"loop", "write", "fail", "clear", "release"}
      BY <3>4, <3>5, <3>6
    <3>11. QED
      BY <3>4, <3>6, <3>7, <3>8, <3>9, <3>10
  <2>17. CASE Remove
    BY <2>17 DEF Remove
  <2>18. CASE Check
    BY <2>18 DEF Check
  <2>19. CASE Skip
    BY <2>19 DEF Skip
  <2>20. CASE SetActive
    BY <2>20 DEF SetActive
  <2>21. CASE Generate
    BY <2>21 DEF Generate
  <2>22. CASE LoopCtxDone
    BY <2>22 DEF LoopCtxDone
  <2>23. CASE LoopClosed
    BY <2>23 DEF LoopClosed
  <2>24. CASE Fail
    BY <2>24 DEF Fail
  <2>25. CASE WriteEvent
    BY <2>25 DEF WriteEvent, WriteFails, EndsText
  <2>26. CASE WriteLastText
    BY <2>26 DEF WriteLastText, EndsText
  <2>27. CASE WriteError
    BY <2>27 DEF WriteError, WriteFails, EndsText
  <2>28. CASE ClearActive
    BY <2>28 DEF ClearActive
  <2>29. CASE Release
    BY <2>29 DEF Release
  <2>30. QED
        BY <2>1, <2>2, <2>3, <2>4, <2>5, <2>6, <2>7, <2>8, <2>9, <2>10, <2>11, <2>12, <2>13,
       <2>14, <2>15, <2>16, <2>17, <2>18, <2>19, <2>20, <2>21, <2>22, <2>23, <2>24, <2>25,
       <2>26, <2>27, <2>28, <2>29, Zenon
    DEF Next, HandlerStep, WorkerStep, ProviderStep
<1>3. QED
  BY <1>1, <1>2, TypeCorrect, PTL DEF Spec

----------------------------------------------------------------------------
(* Cancellation before the start *)

\* A job that cannot reach the provider any more: its context is done, and if
\* the worker has it, the worker has not yet looked at the context.
Doomed(j) ==
  /\ j \in ctxDone /\ j \in submitted
  /\ prov[j] = "none"
  /\ wjob = j => wpc \in {"remove", "check", "skip"}

\* A doomed job stays doomed: Check sends it to Skip, and only the worker's
\* current job can be given to the provider.
LEMMA DoomedIsStable ==
  ASSUME NEW j \in Job, TypeOK, Doomed(j), [Next]_vars
  PROVE  Doomed(j)'
<1> USE NoJobAssumption
    DEF TypeOK, Doomed, handlerVars, mapVars, workerVars, SelectGoes, HandlerDone,
        WorkerGoes, WorkerDone, ProviderPC
<1>1. CASE UNCHANGED vars
  BY <1>1 DEF vars
<1>2. CASE \E c \in Conn, k \in Job : Refuse(c, k) \/ Register(c, k)
  BY <1>2 DEF Refuse, Register, Reads
<1>3. CASE \E c \in Conn : HandlerStep(c) \/ Disconnect(c)
  BY <1>3 DEF HandlerStep, Send, SendTimeout, SendFull, Accept, GiveUp, Disconnect
<1>4. CASE \E c \in Conn, i \in ID : Cancel(c, i)
  BY <1>4 DEF Cancel
<1>5. CASE \E k \in Job : Timeout(k) \/ ProviderStep(k)
  BY <1>5 DEF Timeout, ProviderStep, ProviderStops, ProviderCloses
<1>6. CASE \E event \in ProviderEvent : Deliver(event)
  BY <1>6 DEF Deliver
<1>7. CASE Shutdown
  BY <1>7 DEF Shutdown
<1>8. CASE Receive \/ Remove \/ Check \/ Skip \/ SetActive \/ Generate
  BY <1>8 DEF Receive, Remove, Check, Skip, SetActive, Generate
<1>9. CASE LoopCtxDone \/ LoopClosed \/ Fail \/ WriteEvent \/ WriteLastText \/ WriteError
  BY <1>9 DEF LoopCtxDone, LoopClosed, Fail, WriteEvent, WriteLastText, WriteError
<1>10. CASE ClearActive \/ Release
  BY <1>10 DEF ClearActive, Release
<1>11. QED
  BY <1>1, <1>2, <1>3, <1>4, <1>5, <1>6, <1>7, <1>8, <1>9, <1>10, Zenon DEF Next, WorkerStep

\* A request cancelled, timed out or shut down while it waits in the channel
\* never reaches the provider.
THEOREM WaitingCancelIsFinal == Spec => CancelledNeverStarts
<1>1. ASSUME NEW j \in Job
      PROVE  Spec => [](InChannel(j) /\ j \in ctxDone => [](prov[j] = "none"))
  <2>1. OnePlace /\ InChannel(j) /\ j \in ctxDone => Doomed(j)
    BY <1>1 DEF OnePlace, InChannel, Doomed
  <2>2. TypeOK /\ Doomed(j) /\ [Next]_vars => Doomed(j)'
    BY <1>1, DoomedIsStable
  <2>3. Doomed(j) => prov[j] = "none"
    BY DEF Doomed
  <2>4. QED
    BY <2>1, <2>2, <2>3, TypeCorrect, JobsAreInOnePlace, PTL DEF Spec
<1>2. QED
  BY <1>1 DEF CancelledNeverStarts
----------------------------------------------------------------------------
(* GenerateQueue implements FifoBroker.  The mapping puts the job the       *)
(* worker is still deciding about back at the head of the channel; OnePlace *)
(* shows that the abstract line, the served job and the jobs that are over  *)
(* never overlap.                                                           *)

\* A job in front of the channel.
LEMMA ConsFacts ==
  ASSUME NEW s \in Seq(Job), NEW w \in Job
  PROVE  /\ <<w>> \o s # <<>>
         /\ Len(<<w>> \o s) = Len(s) + 1
         /\ Head(<<w>> \o s) = w
         /\ Tail(<<w>> \o s) = s
         /\ \A x \in Job : Append(<<w>> \o s, x) = <<w>> \o Append(s, x)
         /\ DOMAIN (<<w>> \o s) = 1 .. (Len(s) + 1)
         /\ (<<w>> \o s)[1] = w
         /\ \A k \in DOMAIN s : (<<w>> \o s)[k + 1] = s[k]
OBVIOUS

\* A channel is its head in front of its tail.
LEMMA HeadThenTail ==
  ASSUME NEW s \in Seq(Job), s # <<>>
  PROVE  <<Head(s)>> \o Tail(s) = s
OBVIOUS

\* The line is the channel, or the channel behind the worker's job.
LEMMA LineCases ==
  ASSUME TypeOK
  PROVE  /\ jobs \in Seq(Job)
         /\ Deciding => wjob \in Job /\ Line = <<wjob>> \o jobs /\ Served = NoJob
         /\ ~Deciding => Line = jobs /\ Served = wjob
BY DEF TypeOK, Deciding, Line, Served

\* Waiting in the line means waiting in the channel or for the worker's check.
LEMMA WaitingInLine ==
  ASSUME TypeOK, NEW j \in Job
  PROVE  Broker!Waiting(j) <=> InChannel(j) \/ (Deciding /\ wjob = j)
<1>1. CASE Deciding
  <2>1. wjob \in Job /\ Line = <<wjob>> \o jobs /\ jobs \in Seq(Job)
    BY <1>1, LineCases
  <2>2. /\ DOMAIN Line = 1 .. (Len(jobs) + 1)
        /\ Line[1] = wjob
        /\ \A k \in DOMAIN jobs : Line[k + 1] = jobs[k]
    BY <2>1, ConsFacts
  <2>3. DOMAIN jobs = 1 .. Len(jobs) /\ Len(jobs) \in Nat
    BY <2>1
  <2>4. ASSUME NEW k \in DOMAIN Line, Line[k] = j PROVE InChannel(j) \/ wjob = j
    <3>1. k = 1 \/ k - 1 \in DOMAIN jobs
      BY <2>2, <2>3
    <3>2. CASE k - 1 \in DOMAIN jobs
      BY <2>2, <2>3, <2>4, <3>2 DEF InChannel
    <3>3. QED
      BY <2>2, <2>4, <3>1, <3>2
  <2>5. ASSUME NEW k \in DOMAIN jobs, jobs[k] = j PROVE \E l \in DOMAIN Line : Line[l] = j
    BY <2>2, <2>3, <2>5
  <2>6. 1 \in DOMAIN Line
    BY <2>2, <2>3
  <2>7. QED
    BY <1>1, <2>2, <2>4, <2>5, <2>6 DEF Broker!Waiting, InChannel
<1>2. CASE ~Deciding
  BY <1>2, LineCases DEF Broker!Waiting, InChannel
<1>3. QED
  BY <1>1, <1>2

\* Steps that move no job between the line, the worker and the outside.
LEMMA QueueStutters ==
  ASSUME TypeOK, TypeOK', jobs' = jobs, wjob' = wjob, Deciding' = Deciding, Over' = Over
  PROVE  UNCHANGED Broker!brokerVars
BY DEF Broker!brokerVars, Line, Served

\* A job that was not in the system, or was being enqueued, and is over now.
LEMMA QueueTurnsAway ==
  ASSUME TypeOK, OnePlace, NEW j \in Job, jobs' = jobs, wjob' = wjob, wpc' = wpc,
         ~InChannel(j), wjob # j, j \notin Over, Over' = Over \union {j}
  PROVE  Broker!TurnAway(j)
<1>1. ~Broker!Waiting(j)
  BY WaitingInLine
<1>2. Served # j
  BY NoJobAssumption DEF Served
<1>3. QED
  BY <1>1, <1>2 DEF Broker!TurnAway, Broker!Fresh, Line, Served, Deciding

\* Initial states map to initial states.
LEMMA FifoInit == Init => Broker!Init
BY DEF Init, Broker!Init, Line, Served, Over, Deciding

\* Every step maps to a step of the broker or to a stutter.
LEMMA FifoStep ==
  ASSUME TypeOK, TypeOK', OnePlace, OnePlace', [Next]_vars
  PROVE  [Broker!Next]_(Broker!brokerVars)
<1> DEFINE Goal == [Broker!Next]_(Broker!brokerVars)
<1> SUFFICES Goal
  OBVIOUS
<1>j. \A j \in Job : Broker!Join(j) \/ Broker!TurnAway(j) => Goal
  BY DEF Broker!Next
<1>w. Broker!Start \/ Broker!Drop \/ Broker!Finish \/ UNCHANGED Broker!brokerVars => Goal
  BY DEF Broker!Next
<1> HIDE DEF Goal
<1>1. CASE UNCHANGED vars
  BY <1>1, <1>w DEF vars, Broker!brokerVars, Line, Served, Over, Deciding, HandlerHolds, InChannel
<1>2. ASSUME NEW c \in Conn, NEW j \in Job, Refuse(c, j) PROVE Goal
  <2>1. /\ j \notin submitted /\ submitted' = submitted \union {j}
        /\ UNCHANGED <<hpc, hjob, jobs, wpc, wjob>>
    BY <1>2 DEF Refuse, Reads, handlerVars, workerVars
  <2>2. ~HandlerHolds(j) /\ ~InChannel(j) /\ wjob # j
    BY <2>1 DEF OnePlace, HandlerHolds, InChannel
  <2>3. Over' = Over \union {j} /\ j \notin Over
    BY <2>1, <2>2 DEF Over, HandlerHolds, InChannel
  <2>4. QED
    BY <2>1, <2>2, <2>3, <1>j, QueueTurnsAway
<1>3. ASSUME NEW c \in Conn, NEW j \in Job, Register(c, j) PROVE Goal
  <2>1. /\ j \notin submitted /\ submitted' = submitted \union {j} /\ hpc[c] = "read"
        /\ hpc' = [hpc EXCEPT ![c] = "send"] /\ hjob' = [hjob EXCEPT ![c] = j]
        /\ UNCHANGED <<jobs, wpc, wjob>>
    BY <1>3 DEF Register, Reads, workerVars
  <2>2. \A k \in Job : HandlerHolds(k)' <=> HandlerHolds(k) \/ k = j
    BY <2>1 DEF HandlerHolds, TypeOK
  <2>3. Over' = Over
    BY <2>1, <2>2 DEF Over, InChannel, TypeOK
  <2>4. QED
    BY <2>1, <2>3, <1>w, QueueStutters DEF Deciding
<1>4. ASSUME NEW c \in Conn, Send(c) PROVE Goal
  <2> DEFINE x == hjob[c]
  <2>1. /\ x \in Job /\ jobs \in Seq(Job) /\ jobs' = Append(jobs, x) /\ Len(jobs) < MaxDepth
        /\ hpc[c] = "send" /\ hpc' = [hpc EXCEPT ![c] = "accept"]
        /\ UNCHANGED <<hjob, submitted, wpc, wjob>>
    BY <1>4 DEF Send, SelectGoes, workerVars, TypeOK
  <2>2. HandlerHolds(x) /\ ~InChannel(x) /\ wjob # x
    BY <2>1 DEF HandlerHolds, OnePlace
  <2>3. \A k \in Job : InChannel(k)' <=> InChannel(k) \/ k = x
    BY <2>1, AppendElements DEF InChannel
  <2>4. \A k \in Job : HandlerHolds(k) <=> HandlerHolds(k)' \/ k = x
    <3>1. ASSUME NEW k \in Job, HandlerHolds(k) PROVE HandlerHolds(k)' \/ k = x
      BY <2>1, <3>1 DEF HandlerHolds, TypeOK
    <3>2. ASSUME NEW k \in Job, HandlerHolds(k)' PROVE HandlerHolds(k)
      BY <2>1, <3>2 DEF HandlerHolds, TypeOK
    <3>3. QED
      BY <2>2, <3>1, <3>2
  <2>5. Over' = Over
    BY <2>1, <2>3, <2>4 DEF Over, TypeOK
  <2>6. Broker!Fresh(x)
    <3>1. Served # x
      BY <2>1, <2>2, NoJobAssumption DEF Served
    <3>2. QED
      BY <2>1, <2>2, <3>1, WaitingInLine DEF Broker!Fresh, Over
  <2>7. Len(Line) < MaxDepth + 1 /\ Line' = Append(Line, x)
    <3>1. CASE Deciding
      <4>1. Len(Line) = Len(jobs) + 1 /\ Line' = <<wjob>> \o Append(jobs, x) /\ wjob \in Job
        BY <2>1, <3>1, LineCases, ConsFacts DEF Line, Deciding
      <4>2. Append(<<wjob>> \o jobs, x) = <<wjob>> \o Append(jobs, x)
        BY <2>1, <4>1, ConsFacts
      <4>3. QED
        BY <2>1, <3>1, <4>1, <4>2, LineCases, MaxDepthAssumption
    <3>2. CASE ~Deciding
      <4>1. ~Deciding' /\ Line = jobs
        BY <2>1, <3>2, LineCases DEF Deciding
      <4>2. Line' = jobs'
        BY <4>1, LineCases DEF Line, TypeOK
      <4>3. QED
        BY <2>1, <4>1, <4>2, MaxDepthAssumption
    <3>3. QED
      BY <3>1, <3>2
  <2>8. Served' = Served
    BY <2>1 DEF Served, Deciding
  <2>9. Broker!Join(x)
    BY <2>5, <2>6, <2>7, <2>8 DEF Broker!Join
  <2>10. QED
    BY <2>1, <2>9, <1>j
<1>5. ASSUME NEW c \in Conn, SendTimeout(c) \/ SendFull(c) PROVE Goal
  <2>1. /\ hpc[c] = "send" /\ hpc'[c] \in {"timeout", "full"}
        /\ \A d \in Conn \ {c} : hpc'[d] = hpc[d]
        /\ UNCHANGED <<hjob, submitted, jobs, wpc, wjob>>
    BY <1>5 DEF SendTimeout, SendFull, SelectGoes, workerVars, TypeOK
  <2>2. \A k \in Job : HandlerHolds(k)' <=> HandlerHolds(k)
    BY <2>1 DEF HandlerHolds
  <2>3. Over' = Over
    BY <2>1, <2>2 DEF Over, InChannel, TypeOK
  <2>4. QED
    BY <2>1, <2>3, <1>w, QueueStutters DEF Deciding
<1>6. ASSUME NEW c \in Conn, Accept(c) PROVE Goal
  <2>1. /\ hpc[c] = "accept" /\ hpc' = [hpc EXCEPT ![c] = "read"]
        /\ hjob' = [hjob EXCEPT ![c] = NoJob]
        /\ UNCHANGED <<submitted, jobs, wpc, wjob>>
    BY <1>6 DEF Accept, HandlerDone, workerVars
  <2>2. \A k \in Job : HandlerHolds(k)' <=> HandlerHolds(k)
    BY <2>1 DEF HandlerHolds, TypeOK
  <2>3. Over' = Over
    BY <2>1, <2>2 DEF Over, InChannel, TypeOK
  <2>4. QED
    BY <2>1, <2>3, <1>w, QueueStutters DEF Deciding
<1>7. ASSUME NEW c \in Conn, GiveUp(c) PROVE Goal
  <2> DEFINE x == hjob[c]
  <2>1. /\ x \in Job /\ x \in submitted
        /\ hpc[c] \in {"timeout", "full"} /\ hpc' = [hpc EXCEPT ![c] = "read"]
        /\ hjob' = [hjob EXCEPT ![c] = NoJob]
        /\ UNCHANGED <<submitted, jobs, wpc, wjob>>
    BY <1>7 DEF GiveUp, HandlerDone, workerVars, TypeOK, OnePlace
  <2>2. HandlerHolds(x) /\ ~InChannel(x) /\ wjob # x
    BY <2>1 DEF HandlerHolds, OnePlace
  <2>3. \A k \in Job : HandlerHolds(k)' <=> HandlerHolds(k) /\ k # x
    <3>1. ASSUME NEW k \in Job, HandlerHolds(k), k # x PROVE HandlerHolds(k)'
      BY <2>1, <3>1 DEF HandlerHolds, TypeOK
    <3>2. ASSUME NEW k \in Job, HandlerHolds(k)' PROVE HandlerHolds(k) /\ k # x
      <4>1. PICK d \in Conn : hjob'[d] = k /\ hpc'[d] \in {"send", "timeout", "full"}
        BY <3>2 DEF HandlerHolds
      <4>2. d # c /\ hjob[d] = k /\ hpc[d] = hpc'[d]
        BY <2>1, <4>1 DEF TypeOK
      <4>3. ConnOf(k) = d /\ ConnOf(x) = c
        BY <2>1, <4>2 DEF OnePlace
      <4>4. QED
        BY <4>1, <4>2, <4>3 DEF HandlerHolds
    <3>3. QED
      BY <3>1, <3>2
  <2>4. Over' = Over \union {x} /\ x \notin Over
    BY <2>1, <2>2, <2>3 DEF Over, InChannel, TypeOK
  <2>5. QED
    BY <2>1, <2>2, <2>4, <1>j, QueueTurnsAway
<1>8. CASE Receive
  <2>1. /\ jobs \in Seq(Job) /\ jobs # <<>> /\ jobs' = Tail(jobs)
        /\ wpc = "recv" /\ wpc' = "remove" /\ wjob' = Head(jobs) /\ wjob = NoJob
        /\ wjob' \in Job /\ UNCHANGED <<hpc, hjob, submitted>>
    BY <1>8, NoJobAssumption DEF Receive, handlerVars, TypeOK
  <2>2. Line' = Line
    BY <2>1, HeadThenTail DEF Line, Deciding
  <2>3. Served' = Served
    BY <2>1 DEF Served, Deciding
  <2>4. \A k \in Job : InChannel(k) <=> InChannel(k)' \/ k = wjob'
    <3>1. /\ 1 \in DOMAIN jobs /\ jobs[1] = wjob'
          /\ \A k \in DOMAIN jobs : k = 1 \/ (k - 1 \in DOMAIN jobs' /\ jobs'[k - 1] = jobs[k])
          /\ \A k \in DOMAIN jobs' : k + 1 \in DOMAIN jobs /\ jobs'[k] = jobs[k + 1]
      BY <2>1, TailElements
    <3>2. QED
      BY <3>1 DEF InChannel
  <2>5. Over' = Over
    BY <2>1, <2>4, NoJobAssumption DEF Over, HandlerHolds, TypeOK
  <2>6. QED
    BY <2>2, <2>3, <2>5, <1>w DEF Broker!brokerVars
<1>9. CASE Check
  <2>1. /\ wpc = "check" /\ wpc' \in {"skip", "set"} /\ wjob \in Job
        /\ UNCHANGED <<hpc, hjob, submitted, jobs, wjob>>
    BY <1>9 DEF Check, WorkerGoes, handlerVars, TypeOK
  <2>2. Over' = Over
    BY <2>1 DEF Over, HandlerHolds, InChannel
  <2>3. CASE wpc' = "skip"
    BY <2>1, <2>2, <2>3, <1>w, QueueStutters DEF Deciding
  <2>4. CASE wpc' = "set"
    <3>1. Line = <<wjob>> \o jobs /\ Served = NoJob /\ Line' = jobs /\ Served' = wjob
      <4>1. Deciding /\ ~Deciding'
        BY <2>1, <2>4 DEF Deciding
      <4>2. Line' = jobs' /\ Served' = wjob'
        BY <4>1, LineCases DEF Line, Served, TypeOK
      <4>3. QED
        BY <2>1, <4>1, <4>2, LineCases
    <3>2. Line # <<>> /\ Head(Line) = wjob /\ Tail(Line) = jobs
      BY <2>1, <3>1, LineCases, ConsFacts
    <3>3. Broker!Start
      BY <2>2, <3>1, <3>2 DEF Broker!Start
    <3>4. QED
      BY <3>3, <1>w
  <2>5. QED
    BY <2>1, <2>3, <2>4
<1>10. CASE Skip
  <2>1. /\ wpc = "skip" /\ wpc' = "recv" /\ wjob \in Job /\ wjob' = NoJob
        /\ UNCHANGED <<hpc, hjob, submitted, jobs>>
    BY <1>10 DEF Skip, WorkerDone, handlerVars, TypeOK
  <2>2. Deciding /\ ~Deciding'
    BY <2>1 DEF Deciding
  <2>3. Line = <<wjob>> \o jobs /\ Served = NoJob
    BY <2>2, LineCases
  <2>4. Line' = jobs /\ Served' = NoJob
    <3>1. Line' = jobs' /\ Served' = wjob'
      BY <2>2, LineCases DEF Line, Served, TypeOK
    <3>2. QED
      BY <2>1, <3>1
  <2>5. Line # <<>> /\ Head(Line) = wjob /\ Tail(Line) = jobs
    BY <2>1, <2>3, LineCases, ConsFacts
  <2>6. Over' = Over \union {wjob}
    BY <2>1, NoJobAssumption DEF Over, HandlerHolds, InChannel, OnePlace, TypeOK
  <2>7. Broker!Drop
    BY <2>3, <2>4, <2>5, <2>6 DEF Broker!Drop
  <2>8. QED
    BY <2>7, <1>w
<1>11. CASE Release
  <2>1. /\ wpc = "release" /\ wpc' = "recv" /\ wjob \in Job /\ wjob' = NoJob
        /\ UNCHANGED <<hpc, hjob, submitted, jobs>>
    BY <1>11 DEF Release, WorkerDone, handlerVars, TypeOK
  <2>2. Served = wjob /\ Served' = NoJob /\ Line' = Line
    BY <2>1 DEF Served, Line, Deciding
  <2>3. Over' = Over \union {wjob}
    BY <2>1, NoJobAssumption DEF Over, HandlerHolds, InChannel, OnePlace, TypeOK
  <2>4. Broker!Finish
    BY <2>1, <2>2, <2>3, NoJobAssumption DEF Broker!Finish
  <2>5. QED
    BY <2>4, <1>w
\* The rest of the worker's steps stay on one side of its decision.
<1>12. CASE Remove \/ SetActive \/ Generate \/ LoopCtxDone \/ LoopClosed \/ Fail
            \/ WriteEvent \/ WriteLastText \/ WriteError \/ ClearActive
  <2>1. UNCHANGED <<hpc, hjob, submitted, jobs, wjob>> /\ Deciding' = Deciding
    BY <1>12 DEF Remove, SetActive, Generate, LoopCtxDone, LoopClosed, Fail, WriteEvent,
                 WriteLastText, WriteError, ClearActive, WorkerGoes, handlerVars, Deciding
  <2>2. Over' = Over
    BY <2>1 DEF Over, HandlerHolds, InChannel
  <2>3. QED
    BY <2>1, <2>2, <1>w, QueueStutters
<1>13. ASSUME NEW event \in ProviderEvent, Deliver(event) PROVE Goal
  <2>1. UNCHANGED <<hpc, hjob, submitted, jobs, wjob>> /\ Deciding' = Deciding
    BY <1>13 DEF Deliver, handlerVars, Deciding
  <2>2. Over' = Over
    BY <2>1 DEF Over, HandlerHolds, InChannel
  <2>3. QED
    BY <2>1, <2>2, <1>w, QueueStutters
\* Contexts, connections and provider goroutines are no part of the broker.
<1>14. CASE \/ \E c \in Conn : Disconnect(c)
            \/ \E c \in Conn, i \in ID : Cancel(c, i)
            \/ \E j \in Job : Timeout(j) \/ ProviderStep(j)
            \/ Shutdown
  <2>1. UNCHANGED <<hpc, hjob, submitted, jobs, wpc, wjob>>
    BY <1>14 DEF Disconnect, Cancel, Timeout, ProviderStep, ProviderStops, ProviderCloses,
                 Shutdown, handlerVars, workerVars
  <2>2. Over' = Over /\ Deciding' = Deciding
    BY <2>1 DEF Over, HandlerHolds, InChannel, Deciding
  <2>3. QED
    BY <2>1, <2>2, <1>w, QueueStutters
<1>15. QED
  BY <1>1, <1>2, <1>3, <1>4, <1>5, <1>6, <1>7, <1>8, <1>9, <1>10, <1>11, <1>12, <1>13, <1>14,
     Zenon
  DEF Next, HandlerStep, WorkerStep

\* The daemon serves its requests first come first served, one at a time and
\* each at most once.
THEOREM QueueIsFifo == Spec => ImplementsFifo
<1>1. TypeOK /\ TypeOK' /\ OnePlace /\ OnePlace' /\ [Next]_vars => [Broker!Next]_(Broker!brokerVars)
  BY FifoStep
<1>2. QED
  BY <1>1, FifoInit, TypeCorrect, JobsAreInOnePlace, PTL DEF Spec, ImplementsFifo, Broker!Spec
====
