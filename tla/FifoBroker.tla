---- MODULE FifoBroker ----
(***************************************************************************)
(* What the daemon promises of its queue, without maps, contexts, handlers *)
(* or channels (README.md, "FIFO request queueing"): jobs wait in one line *)
(* of bounded length, only the job at its head starts or is dropped, one   *)
(* job runs at a time, and no job is served twice.                         *)
(***************************************************************************)
EXTENDS Naturals, Sequences

CONSTANTS
  Job,     \* the generate requests
  NoJob,   \* no job is running
  Room     \* how many jobs may wait

VARIABLES
  line,    \* the waiting jobs, oldest first
  running, \* the job the provider works on
  over     \* jobs that left the system: refused, dropped or finished

brokerVars == <<line, running, over>>

Waiting(j) == \E i \in DOMAIN line : line[i] = j
Fresh(j) == ~Waiting(j) /\ running # j /\ j \notin over

Init ==
  /\ line = <<>>
  /\ running = NoJob
  /\ over = {}

Join(j) ==
  /\ Fresh(j)
  /\ Len(line) < Room
  /\ line' = Append(line, j)
  /\ UNCHANGED <<running, over>>

TurnAway(j) ==
  /\ Fresh(j)
  /\ over' = over \union {j}
  /\ UNCHANGED <<line, running>>

Start ==
  /\ running = NoJob
  /\ line # <<>>
  /\ running' = Head(line)
  /\ line' = Tail(line)
  /\ UNCHANGED over

Drop ==
  /\ running = NoJob
  /\ line # <<>>
  /\ over' = over \union {Head(line)}
  /\ line' = Tail(line)
  /\ UNCHANGED running

Finish ==
  /\ running # NoJob
  /\ over' = over \union {running}
  /\ running' = NoJob
  /\ UNCHANGED line

Next ==
  \/ \E j \in Job : Join(j) \/ TurnAway(j)
  \/ Start \/ Drop \/ Finish

Spec == Init /\ [][Next]_brokerVars

\* The line moves: its head is eventually taken, a running job finishes.
FairSpec == Spec /\ WF_brokerVars(Start \/ Drop) /\ WF_brokerVars(Finish)
====
