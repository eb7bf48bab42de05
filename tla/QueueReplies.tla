---- MODULE QueueReplies ----
(***************************************************************************)
(* What the clients of the request queue read: GenerateQueue with a log of *)
(* the lines written for each job, in the order in which client.write and  *)
(* writeRawString put them on the job's connection.  What the properties   *)
(* say of a reply depends on why it ended, so that two more variables      *)
(* remember which goroutine took the branch of a select that watches the   *)
(* job's context.  None of the three changes what the queue does.          *)
(***************************************************************************)
EXTENDS GenerateQueue

CONSTANT MaxDelta   \* bound on the deltas one generation delivers

ASSUME MaxDeltaAssumption == MaxDelta \in Nat

VARIABLES
  log,      \* what each job's client has been sent
  stopped,  \* history: jobs whose provider goroutine was stopped by the context
  cut       \* history: jobs whose worker stopped listening because of the context

replyVars == <<log, stopped, cut>>

Event == ProviderEvent \union {"accepted"}
Deltas(j) == Cardinality({i \in DOMAIN log[j] : log[j][i] = "delta"})

HandlerWrites(j, event) ==
  \E c \in Conn :
    /\ hjob[c] = j
    /\ hpc'[c] = "read"
    /\ \/ hpc[c] = "accept" /\ ~IsText(j) /\ event = "accepted"
       \/ hpc[c] \in {"timeout", "full"} /\ event = "error"

\* An error answered before the job is registered.
RefusalWrites(j, event) ==
  j \in submitted' \ submitted /\ j \in ctxDone' /\ event = "error"

\* "started" is not shown to text clients.
WorkerWrites(j, event) ==
  /\ wjob = j
  /\ wpc' # wpc
  /\ \/ wpc \in {"skip", "fail"} /\ event = "error"
     \/ wpc = "write" /\ event = wev /\ ~(IsText(j) /\ event = "started")

Writes(j, event) ==
  HandlerWrites(j, event) \/ RefusalWrites(j, event) \/ WorkerWrites(j, event)

\* A line is appended to the log of its job, and lost if the connection is
\* closed.
Logged ==
  [j \in Job |->
     IF open[ConnOf(j)] /\ \E event \in Event : Writes(j, event)
     THEN Append(log[j], CHOOSE event \in Event : Writes(j, event))
     ELSE log[j]]

RepliesInit ==
  /\ Init
  /\ log = [j \in Job |-> <<>>]
  /\ stopped = {}
  /\ cut = {}

RepliesNext ==
  /\ Next
  /\ wpc' = "write" /\ wev' = "delta" => Deltas(wjob) < MaxDelta
  /\ log' = Logged
  /\ stopped' = stopped \union {j \in Job : ProviderStops(j)}
  /\ cut' = cut \union {j \in Job : j = wjob /\ LoopCtxDone}

RepliesSpec == RepliesInit /\ [][RepliesNext]_<<vars, replyVars>>

----------------------------------------------------------------------------
Outcomes(j) == {i \in DOMAIN log[j] : log[j][i] \in Outcome}

Acceptances(j) == {i \in DOMAIN log[j] : log[j][i] = "accepted"}
Accepting(j) == \E c \in Conn : hjob[c] = j /\ hpc[c] = "accept"

\* The order of a reply.  What the worker writes: no delta and no second start
\* follows an outcome; a JSON client's delta follows its "started"; a text
\* reply has one outcome and it is last; a JSON reply has at most two, the
\* second one an error.  And what the handler writes beside it: "accepted" is
\* written once, and it is never lost, although "started" may overtake it while
\* the handler is about to write it.  (docs/protocol.md: "JSON mode begins with
\* queue acceptance", which the code does not ensure.)
ReplyOrder ==
  \A j \in Job :
    /\ \A a, b \in DOMAIN log[j] :
         log[j][a] \in Outcome /\ a < b => ~IsText(j) /\ log[j][b] \in {"accepted", "error"}
    /\ Cardinality(Outcomes(j)) <= 2
    /\ \A b \in DOMAIN log[j] :
         log[j][b] = "delta" /\ ~IsText(j) =>
           \E a \in DOMAIN log[j] : a < b /\ log[j][a] = "started"
    /\ \A a, b \in Acceptances(j) : a = b
    /\ \A b \in DOMAIN log[j] :
         log[j][b] = "started" /\ open[ConnOf(j)] => Acceptances(j) # {} \/ Accepting(j)

\* A client that stays connected gets exactly one outcome, whichever way its
\* job leaves the handler and the worker, unless a select took the branch of
\* the context: none only if the provider was stopped by it, more than one
\* only if the worker stopped listening because of it.
OneOutcomeUnlessContextEnds ==
  \A j \in Over :
    open[ConnOf(j)] =>
      /\ Outcomes(j) = {} => j \in stopped
      /\ Cardinality(Outcomes(j)) > 1 => j \in cut

\* docs/protocol.md: "Generation ends with completed, cancelled, or error".
\* When the worker is done with a JSON job whose client is connected, it has
\* written exactly one of them.
ExactlyOneOutcome ==
  \A j \in Over :
    ~IsText(j) /\ open[ConnOf(j)] => Cardinality(Outcomes(j)) = 1
====
