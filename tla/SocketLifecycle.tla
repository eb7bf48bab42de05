---- MODULE SocketLifecycle ----
(***************************************************************************)
(* The life of a daemon process and of its socket file: prepareSocket,     *)
(* ListenAndServe (internal/daemon/server.go) and main (cmd/yllmd).        *)
(*                                                                         *)
(* Nothing but the file at the configured path keeps two daemons apart,    *)
(* and a process looks at the path, binds to it and removes it in separate *)
(* system calls, by name.  A process runs once; a restart is another       *)
(* process.                                                                *)
(***************************************************************************)
EXTENDS Naturals, FiniteSets

CONSTANTS
  Process,  \* daemon processes started on one path
  NoFile,   \* nothing at the path
  Stale     \* a socket file whose process is gone

ASSUME FileAssumption == NoFile # Stale /\ {NoFile, Stale} \intersect Process = {}

VARIABLES
  pc,         \* the next system call of each process, or how it ended
  path,       \* whose socket file is at the path
  listening,  \* processes with a listening socket
  signalled,  \* processes told to stop: the context of ListenAndServe is done
  met         \* history: processes that were not alone while bound and not listening

socketVars == <<pc, path, listening, signalled, met>>

\* "refused": another daemon answered; "lost": another process came between two
\* calls; "failed": a call failed by itself or accept did.
Over == {"refused", "lost", "failed", "killed", "done"}
Starting == {"stat", "dial", "remove", "bind", "listen", "perm"}
Stopping == {"failing", "drain"}
PC == {"new", "serve"} \union Starting \union Stopping \union Over

Alive(p) == pc[p] \notin Over \union {"new"}
Reachable(p) == p \in listening /\ path = p

SocketInit ==
  /\ pc = [p \in Process |-> "new"]
  /\ path \in {NoFile, Stale}
  /\ listening = {}
  /\ signalled = {}
  /\ met = {}

Goes(p, from, to) == pc[p] = from /\ pc' = [pc EXCEPT ![p] = to]

----------------------------------------------------------------------------
(* prepareSocket *)

\* main and MkdirAll.
Start(p) ==
  /\ Goes(p, "new", "stat")
  /\ UNCHANGED <<path, listening, signalled>>

Stat(p) ==
  /\ Goes(p, "stat", IF path = NoFile THEN "bind" ELSE "dial")
  /\ UNCHANGED <<path, listening, signalled>>

\* Deliberate variant: a file at the path is taken for a left-over.
DialNobody(p) ==
  /\ Goes(p, "dial", "remove")
  /\ UNCHANGED <<path, listening, signalled>>

\* Deliberate variant: a file at the path is taken for a living daemon.
DialAnybody(p) ==
  /\ Goes(p, "dial", IF path # NoFile THEN "refused" ELSE "remove")
  /\ UNCHANGED <<path, listening, signalled>>

\* The connection attempt succeeds when the file's process listens (and has
\* room in its backlog).  Any failure, even that the file has gone, leads on
\* to the removal.
Dial(p) ==
  /\ Goes(p, "dial", IF path \in listening THEN "refused" ELSE "remove")
  /\ UNCHANGED <<path, listening, signalled>>

\* os.Remove by name, whatever file is there now.
Remove(p) ==
  /\ Goes(p, "remove", IF path = NoFile THEN "lost" ELSE "bind")
  /\ path' = NoFile
  /\ UNCHANGED <<listening, signalled>>

----------------------------------------------------------------------------
(* ListenAndServe *)

\* net.ListenUnix, first half: bind creates the file and fails if there is one.
Bind(p) ==
  /\ IF path = NoFile
     THEN Goes(p, "bind", "listen") /\ path' = p
     ELSE Goes(p, "bind", "lost") /\ UNCHANGED path
  /\ UNCHANGED <<listening, signalled>>

\* Second half: until listen is called, connections are refused.
Listen(p) ==
  /\ Goes(p, "listen", "perm")
  /\ listening' = listening \union {p}
  /\ UNCHANGED <<path, signalled>>

\* chmodSocket and chgrpSocket, both by name, and both only if configured.
Perm(p) ==
  /\ Goes(p, "perm", "serve")
  /\ UNCHANGED <<path, listening, signalled>>

\* ln.Close: the listener unlinks its path, by name, and closes its socket.
\* In between nobody can reach the socket, so this is one step.
ClosesListener(p) == path' = NoFile /\ listening' = listening \ {p}

PermFails(p) ==
  /\ Goes(p, "perm", "failed")
  /\ ClosesListener(p)
  /\ UNCHANGED signalled

\* Accept returns an error although nobody asked the daemon to stop; the
\* deferred function begins with closing the provider.
AcceptFails(p) ==
  /\ Goes(p, "serve", "failing")
  /\ UNCHANGED <<path, listening, signalled>>

\* The goroutine that waits for the signal, or the deferred function, closes
\* the listener.
Close(p) ==
  /\ \/ Goes(p, "serve", "drain") /\ p \in signalled
     \/ Goes(p, "failing", "drain")
  /\ ClosesListener(p)
  /\ UNCHANGED signalled

\* The deferred function ends with another os.Remove, after a signal only when
\* the provider is closed, which may take a second.  Neither the worker nor the
\* handlers are waited for.
RemoveAtEnd(p) ==
  /\ Goes(p, "drain", "done")
  /\ path' = NoFile
  /\ UNCHANGED <<listening, signalled>>

----------------------------------------------------------------------------
\* SIGINT and SIGTERM.  A process that is still starting goes on until it
\* serves.
Signal(p) ==
  /\ Alive(p)
  /\ p \notin signalled
  /\ signalled' = signalled \union {p}
  /\ UNCHANGED <<pc, path, listening>>

\* MkdirAll, Stat, Remove or ListenUnix fails for a reason of its own.
CallFails(p) ==
  /\ \E from \in {"stat", "remove", "bind"} : Goes(p, from, "failed")
  /\ UNCHANGED <<path, listening, signalled>>

\* The process is killed: its file stays.
Kill(p) ==
  /\ Alive(p)
  /\ pc' = [pc EXCEPT ![p] = "killed"]
  /\ listening' = listening \ {p}
  /\ UNCHANGED <<path, signalled>>

OwnStep(p) ==
  \/ Stat(p) \/ Dial(p) \/ Remove(p) \/ Bind(p) \/ Listen(p) \/ Perm(p)
  \/ Close(p) \/ RemoveAtEnd(p)

Environment(p) ==
  Start(p) \/ Signal(p) \/ PermFails(p) \/ AcceptFails(p) \/ CallFails(p) \/ Kill(p)

Meets == met' = met \union {p \in Process : pc'[p] = "listen" /\ \E q \in Process \ {p} : Alive(q)'}

SocketNext == \E p \in Process : (OwnStep(p) \/ Environment(p)) /\ Meets

SocketSpec == SocketInit /\ [][SocketNext]_socketVars

----------------------------------------------------------------------------
(* Properties *)

\* Types; a process listens exactly while it is between listen and close.
SocketTypeOK ==
  /\ pc \in [Process -> PC]
  /\ path \in Process \union {NoFile, Stale}
  /\ listening = {p \in Process : pc[p] \in {"perm", "serve", "failing"}}
  /\ signalled \subseteq Process
  /\ met \subseteq Process

\* A daemon that was alone between its bind and its listen keeps its socket
\* file until it closes or is killed, and is the only one that serves:
\* whatever daemons are started later, prepareSocket turns them away before
\* they remove anything.
KeepsItsSocket ==
  \A p \in listening \ met :
    path = p /\ \A q \in Process \ {p} : pc[q] \in {"new", "stat", "dial"} \union Over

\* However the daemons before it ended, a daemon that starts alone comes to
\* serve at the path: a left-over file never keeps it from starting.
AloneComesUp ==
  \A p \in Process :
    pc[p] = "stat" /\ p \notin signalled /\ (\A q \in Process \ {p} : pc[q] \in Over)
      ~> Reachable(p) \/ p \in signalled \/ pc[p] \in {"failed", "killed"}
====
