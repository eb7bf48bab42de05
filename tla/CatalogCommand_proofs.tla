---- MODULE CatalogCommand_proofs ----
(***************************************************************************)
(* Proofs about SocketLifecycle, for any number of daemon processes, and   *)
(* about CatalogCommand on top of it, for any catalogs, configurations,    *)
(* stores and numbers of other clients.                                    *)
(***************************************************************************)
EXTENDS CatalogCommand, TLAPS

(* The socket.  KeepsItsSocket is not inductive alone: a process comes to  *)
(* listen from "listen", where it has bound the path but does not answer   *)
(* yet.  BoundAlone says what holds there for a process that nobody has    *)
(* met: the file is its own and no other process is running.               *)

BoundAlone ==
  \A p \in Process \ met :
    pc[p] = "listen" => path = p /\ \A q \in Process \ {p} : ~Alive(q)

SocketInv == SocketTypeOK /\ BoundAlone /\ KeepsItsSocket

USE DEF Over, Starting, Stopping, PC, Goes, ClosesListener

\* Types and the set of listening processes survive a step of any process.
LEMMA TypeStep ==
  ASSUME SocketTypeOK, NEW p \in Process, OwnStep(p) \/ Environment(p), Meets
  PROVE  SocketTypeOK'
<1> USE DEF SocketTypeOK
<1>0. met' \subseteq Process
  BY DEF Meets
<1>1. CASE Start(p)
  BY <1>0, <1>1 DEF Start
<1>2. CASE Stat(p)
  BY <1>0, <1>2 DEF Stat
<1>3. CASE Dial(p)
  BY <1>0, <1>3 DEF Dial
<1>4. CASE Remove(p)
  BY <1>0, <1>4 DEF Remove
<1>5. CASE Bind(p)
  BY <1>0, <1>5 DEF Bind
<1>6. CASE Listen(p)
  BY <1>0, <1>6 DEF Listen
<1>7. CASE Perm(p)
  BY <1>0, <1>7 DEF Perm
<1>8. CASE PermFails(p)
  BY <1>0, <1>8 DEF PermFails
<1>9. CASE AcceptFails(p)
  BY <1>0, <1>9 DEF AcceptFails
<1>10. CASE Close(p)
  BY <1>0, <1>10 DEF Close
<1>11. CASE RemoveAtEnd(p)
  BY <1>0, <1>11 DEF RemoveAtEnd
<1>12. CASE Signal(p)
  BY <1>0, <1>12 DEF Signal
<1>13. CASE CallFails(p)
  BY <1>0, <1>13 DEF CallFails
<1>14. CASE Kill(p)
  BY <1>0, <1>14 DEF Kill, Alive
<1> QED
  BY <1>1, <1>2, <1>3, <1>4, <1>5, <1>6, <1>7, <1>8, <1>9, <1>10, <1>11, <1>12, <1>13, <1>14
     DEF OwnStep, Environment

\* Each step moves only the process that takes it.
LEMMA OthersStay ==
  ASSUME SocketTypeOK, NEW p \in Process, OwnStep(p) \/ Environment(p),
         NEW q \in Process, q # p
  PROVE  pc'[q] = pc[q] /\ (q \in listening' <=> q \in listening)
BY DEF SocketTypeOK, OwnStep, Environment, Start, Stat, Dial, Remove, Bind, Listen, Perm,
       PermFails, AcceptFails, Close, RemoveAtEnd, Signal, CallFails, Kill

\* A bound process that nobody meets stays alone, and its file stays.
LEMMA BoundAloneStep ==
  ASSUME SocketInv, NEW p \in Process, OwnStep(p) \/ Environment(p), Meets
  PROVE  BoundAlone'
<1> SUFFICES ASSUME NEW b \in Process, b \notin met', pc'[b] = "listen"
             PROVE  path' = b /\ \A q \in Process \ {b} : ~Alive(q)'
  BY DEF BoundAlone
<1>1. b \notin met /\ \A q \in Process \ {b} : ~Alive(q)'
  BY DEF Meets
<1>2. CASE p = b
  <2>1. Bind(p) \/ Signal(p)
    BY <1>2 DEF SocketInv, SocketTypeOK, OwnStep, Environment, Start, Stat, Dial, Remove, Listen,
       Perm, PermFails, AcceptFails, Close, RemoveAtEnd, CallFails, Kill
  <2>2. CASE Bind(p)
    BY <1>1, <1>2, <2>2 DEF Bind, SocketInv, SocketTypeOK
  <2>3. CASE Signal(p)
    BY <1>1, <1>2, <2>3 DEF Signal, SocketInv, BoundAlone
  <2> QED
    BY <2>1, <2>2, <2>3
<1>3. CASE p # b
  <2>1. pc[b] = "listen"
    BY <1>3, OthersStay DEF SocketInv
  <2>2. path = b /\ ~Alive(p)
    BY <1>1, <1>3, <2>1 DEF SocketInv, BoundAlone
  <2>3. pc[p] = "new" \/ pc[p] \in Over
    BY <2>2 DEF Alive
  <2>4. Start(p)
    BY <2>2, <2>3 DEF SocketInv, SocketTypeOK, OwnStep, Environment, Stat, Dial, Remove, Bind,
       Listen, Perm, PermFails, AcceptFails, Close, RemoveAtEnd, Signal, CallFails, Kill
  <2> QED
    BY <1>1, <2>2, <2>4 DEF Start
<1> QED
  BY <1>2, <1>3

\* A listening process that nobody met keeps its file: the others get no
\* further than dialling it.
LEMMA KeepsStep ==
  ASSUME SocketInv, NEW p \in Process, OwnStep(p) \/ Environment(p), Meets
  PROVE  KeepsItsSocket'
<1> DEFINE Harmless == {"new", "stat", "dial"} \union Over
<1> SUFFICES ASSUME NEW s \in listening', s \notin met'
             PROVE  path' = s /\ \A q \in Process \ {s} : pc'[q] \in Harmless
  BY DEF KeepsItsSocket
<1>1. s \in Process /\ s \notin met /\ SocketTypeOK
  BY TypeStep DEF SocketInv, SocketTypeOK, Meets
<1>2. CASE p = s
  <2>1. \/ Listen(p)
        \/ s \in listening /\ (Perm(p) \/ AcceptFails(p) \/ Signal(p))
    BY <1>1, <1>2 DEF SocketTypeOK, OwnStep, Environment, Start, Stat, Dial, Remove, Bind, Listen,
       Perm, PermFails, AcceptFails, Close, RemoveAtEnd, CallFails, Kill, Signal
  <2>2. \A q \in Process \ {s} : pc'[q] = pc[q]
    BY <1>1, <1>2, OthersStay
  <2>3. CASE Listen(p)
    <3>1. path = s /\ \A q \in Process \ {s} : ~Alive(q)
      BY <1>1, <1>2, <2>3 DEF Listen, SocketInv, BoundAlone
    <3> QED
      BY <2>2, <2>3, <3>1 DEF Listen, Alive
  <2>4. CASE s \in listening /\ (Perm(p) \/ AcceptFails(p) \/ Signal(p))
    <3>1. path = s /\ \A q \in Process \ {s} : pc[q] \in Harmless
      BY <1>1, <2>4 DEF SocketInv, KeepsItsSocket
    <3> QED
      BY <2>2, <2>4, <3>1 DEF Perm, AcceptFails, Signal
  <2> QED
    BY <2>1, <2>3, <2>4
<1>3. CASE p # s
  <2>1. s \in listening /\ \A q \in Process \ {p} : pc'[q] = pc[q]
    BY <1>1, <1>3, OthersStay
  <2>2. path = s /\ \A q \in Process \ {s} : pc[q] \in Harmless
    BY <1>1, <2>1 DEF SocketInv, KeepsItsSocket
  <2>3. path # NoFile /\ pc[p] \in Harmless
    BY <1>1, <1>3, <2>2, FileAssumption
  <2>4. Start(p) \/ Stat(p) \/ Dial(p) \/ Signal(p) \/ CallFails(p) \/ Kill(p)
    BY <2>3, <1>1 DEF OwnStep, Environment, Remove, Bind, Listen, Perm, PermFails, AcceptFails,
       Close, RemoveAtEnd
  <2>5. path' = s
    BY <2>2, <2>4 DEF Start, Stat, Dial, Signal, CallFails, Kill
  <2>6. pc'[p] \in Harmless
    BY <1>1, <2>1, <2>2, <2>3, <2>4 DEF SocketTypeOK, Start, Stat, Dial, Signal, CallFails, Kill
  <2> QED
    BY <2>1, <2>2, <2>5, <2>6
<1> QED
  BY <1>2, <1>3

\* The inductive invariant holds in every behaviour.
LEMMA SocketInvariant == SocketSpec => []SocketInv
<1>1. SocketInit => SocketInv
  BY FileAssumption DEF SocketInit, SocketInv, SocketTypeOK, BoundAlone, KeepsItsSocket
<1>2. SocketInv /\ [SocketNext]_socketVars => SocketInv'
  <2>1. CASE SocketNext
    BY <2>1, TypeStep, BoundAloneStep, KeepsStep DEF SocketNext, SocketInv
  <2>2. CASE UNCHANGED socketVars
    BY <2>2 DEF socketVars, SocketInv, SocketTypeOK, BoundAlone, KeepsItsSocket, Alive
  <2> QED
    BY <2>1, <2>2
<1> QED
  BY <1>1, <1>2, PTL DEF SocketSpec

\* For any number of daemons: a process listens exactly from ListenUnix to the
\* close of its listener, whatever becomes of the others.
THEOREM SocketTypeCorrect == SocketSpec => []SocketTypeOK
BY SocketInvariant, PTL DEF SocketInv

\* For any number of daemons started, signalled and killed at any moment: one
\* that was alone between bind and listen keeps its file until it closes its
\* listener or is killed, and prepareSocket turns away all others.
THEOREM SocketKept == SocketSpec => []KeepsItsSocket
BY SocketInvariant, PTL DEF SocketInv

----------------------------------------------------------------------------
(* The command and the handler take turns: Turns says whose turn it is at  *)
(* each point of the command, and what may be on the wire then.  Admitted  *)
(* is what Admit established and nothing undoes while the handler works.   *)
(* The daemons run as in SocketLifecycle, which the command only observes. *)

Working == {"admitted", "download", "activate"}
Resting == {"none", "backlog", "idle"}

\* The inbox is a sequence, "active" a function on the models, and so on.
Shapes ==
  /\ \E S : inbox \in Seq(S)
  /\ active = [m \in Model |-> active[m]]
  /\ handler \in Working \union Resting
  /\ others \in Nat

Turns ==
  /\ cpc \in {"dial", "redial"} => request = None /\ handler \in Resting
  /\ cpc \in {"ask", "send"} => request = None /\ inbox = <<>> /\ handler \in {"backlog", "idle"}
  /\ cpc = "inventory" =>
       /\ handler \in {"backlog", "idle"}
       /\ request # None => request.action = "installed"
       /\ inbox # <<>> => request = None
  /\ cpc = "read" =>
       /\ handler # "none"
       /\ request # None => request.action # "installed" /\ request.model = plans[next].model
       /\ \A k \in DOMAIN inbox :
            /\ inbox[k].model = plans[next].model
            /\ inbox[k].type = "progress" \/ (k = Len(inbox) /\ request = None)

Admitted ==
  handler \in Working =>
    /\ request # None
    /\ request.action # "installed"
    /\ handler = "activate" => request.activate
    /\ request.activate => request.model \in Configured[conn]

CommandInv == Shapes /\ Turns /\ Admitted

USE DEF Working, Resting

LEMMA CommandInvInit == Init => CommandInv
<1> SUFFICES ASSUME Init PROVE CommandInv
  OBVIOUS
<1>1. inbox = <<>> /\ request = None /\ handler = "none" /\ cpc \in {"dial", "redial"}
  BY DEF Init, CommandInit
<1>2. active = [m \in Model |-> active[m]]
  BY DEF Init, CommandInit
<1>3. inbox \in Seq({})
  BY <1>1
<1> QED
  BY <1>1, <1>2, <1>3 DEF CommandInv, Shapes, Turns, Admitted, Init, CommandInit

\* Steps of the command.
LEMMA ClientKeeps ==
  ASSUME CommandInv, ClientStep
  PROVE  CommandInv'
<1> USE DEF CommandInv, Turns, Admitted, storeVars, wireVars, historyVars
<1>0. PICK S : inbox \in Seq(S)
  BY DEF Shapes
<1>1. CASE Connect
  <2>1. inbox' \in Seq({})
    BY <1>1 DEF Connect
  <2> QED
    BY <1>1, <2>1 DEF Connect, Shapes
<1>2. CASE Breaks
  BY <1>0, <1>2 DEF Breaks, Shapes
<1>3. CASE AskInstalled
  <2>1. request' # None => request'.action = "installed"
    BY <1>3 DEF AskInstalled
  <2> QED
    BY <1>0, <1>3, <2>1 DEF AskInstalled, Shapes
<1>4. CASE ReadInventory
  <2>1. inbox' \in Seq(S) /\ request' = None
    BY <1>0, <1>4 DEF ReadInventory
  <2>2. cpc' \in {"stopped", "ok", "redial"}
    BY <1>4 DEF ReadInventory
  <2> QED
    BY <1>4, <2>1, <2>2 DEF ReadInventory, Shapes
<1>5. CASE Send
  <2>1. request'.action # "installed" /\ request'.model = plans'[next'].model
    BY <1>5 DEF Send
  <2>2. DOMAIN inbox' = {}
    BY <1>5 DEF Send
  <2> QED
    BY <1>0, <1>5, <2>1, <2>2 DEF Send, Shapes
<1>6. CASE Read
  <2>1. inbox' \in Seq(S)
    BY <1>0, <1>6 DEF Read
  <2>2. Len(inbox) \in Nat \ {0} /\ 1 \in DOMAIN inbox /\ Head(inbox) = inbox[1]
    BY <1>0, <1>6 DEF Read
  <2>3. CASE Head(inbox).type = "progress"
    <3>1. \A k \in DOMAIN inbox' : k + 1 \in DOMAIN inbox /\ inbox'[k] = inbox[k + 1]
      BY <1>0, <1>6, <2>2 DEF Read
    <3>2. Len(inbox') = Len(inbox) - 1 /\ \A k \in DOMAIN inbox' : k \in Nat
      BY <1>0, <1>6, <2>2 DEF Read
    <3>3. \A k \in DOMAIN inbox' : k + 1 = Len(inbox) => k = Len(inbox')
      BY <3>2, <2>2
    <3>4. UNCHANGED <<cpc, next, plans, request, handler, conn, active>>
      BY <1>6, <2>3 DEF Read
    <3> QED
      BY <1>6, <2>1, <3>1, <3>3, <3>4 DEF Read, Shapes
  <2>4. CASE Head(inbox).type # "progress"
    <3>1. request = None /\ Len(inbox) = 1
      BY <1>6, <2>2, <2>4 DEF Read
    <3>2. inbox' = <<>>
      BY <1>0, <1>6, <3>1 DEF Read
    <3>3. cpc' \in {"ok", "send", "stopped"} \/ UNCHANGED cpc
      BY <1>6, <2>4 DEF Read
    <3>4. CASE UNCHANGED cpc
      BY <1>6, <2>1, <3>1, <3>2, <3>4 DEF Read, Shapes
    <3>5. CASE cpc' \in {"ok", "send", "stopped"}
      BY <1>6, <2>1, <3>1, <3>2, <3>5 DEF Read, Shapes
    <3> QED
      BY <3>3, <3>4, <3>5
  <2> QED
    BY <2>3, <2>4
<1> QED
  BY <1>1, <1>2, <1>3, <1>4, <1>5, <1>6 DEF ClientStep

\* An answer ends the handler's turn.
LEMMA RepliesKeeps ==
  ASSUME CommandInv, UNCHANGED clientVars, UNCHANGED others, NEW type, Replies(type), type \in {"done", "error"},
         request # None, cpc # "redial",
         active' = [m \in Model |-> active'[m]]
  PROVE  CommandInv'
<1> USE DEF CommandInv, Turns, Admitted, clientVars, Replies, Writes
<1> DEFINE e == [type |-> type, model |-> request.model]
<1>0. PICK S : inbox \in Seq(S)
  BY DEF Shapes
<1>1. inbox' = Append(inbox, e) /\ request' = None /\ handler' = "idle"
  OBVIOUS
<1>2. inbox' \in Seq(S \union {e}) /\ Len(inbox') = Len(inbox) + 1 /\ inbox'[Len(inbox')] = e
  <2>1. inbox \in Seq(S \union {e})
    BY <1>0
  <2> QED
    BY <1>0, <1>1, <2>1
<1>3. \A k \in DOMAIN inbox' : k = Len(inbox') \/ (k \in DOMAIN inbox /\ inbox'[k] = inbox[k])
  BY <1>0, <1>1
<1>4. Shapes'
  BY <1>1, <1>2 DEF Shapes
<1>5. cpc' = "read" =>
        \A k \in DOMAIN inbox' :
          /\ inbox'[k].model = plans'[next'].model
          /\ inbox'[k].type = "progress" \/ (k = Len(inbox') /\ request' = None)
  <2> SUFFICES ASSUME cpc = "read", NEW k \in DOMAIN inbox'
               PROVE  /\ inbox'[k].model = plans[next].model
                      /\ inbox'[k].type = "progress" \/ k = Len(inbox')
    BY <1>1
  <2>1. CASE k = Len(inbox')
    BY <1>2, <2>1
  <2>2. CASE k # Len(inbox')
    BY <1>3, <2>2
  <2> QED
    BY <2>1, <2>2
<1> QED
  BY <1>1, <1>4, <1>5

\* Steps of the handler.
LEMMA HandlerKeeps ==
  ASSUME CommandInv, HandlerStep
  PROVE  CommandInv'
<1> USE DEF At
<1>0. UNCHANGED clientVars /\ UNCHANGED others /\ UNCHANGED cpc
  BY DEF historyVars, HandlerStep, AcceptConn, ServeInstalled, Admit, Decide, Install, Activate, SwitchFails,
     HandlerFails, RepliesTrouble, clientVars
<1>1. CASE AcceptConn
  BY <1>0, <1>1 DEF AcceptConn, CommandInv, Shapes, Turns, Admitted, clientVars, storeVars
<1>2. request # None => cpc # "redial"
  BY DEF CommandInv, Turns
<1>3. handler \in Working => request # None
  BY DEF CommandInv, Admitted
<1>4. active = [m \in Model |-> active[m]]
  BY DEF CommandInv, Shapes
<1>5. CASE request # None /\ RepliesTrouble
  BY <1>0, <1>2, <1>4, <1>5, RepliesKeeps DEF RepliesTrouble, storeVars
<1>6. CASE ServeInstalled /\ ~RepliesTrouble
  <2> DEFINE e == [type |-> "installed_models",
                   rows |-> [m \in Model |-> [versions |-> installed[m], active |-> active[m],
                                              configured |-> m \in Configured[conn]]]]
  <2>0. inbox' = Append(inbox, e) /\ request' = None /\ UNCHANGED <<handler, active>>
        /\ request # None /\ request.action = "installed" /\ handler = "idle"
    BY <1>6 DEF ServeInstalled, Writes, storeVars
  <2>1. PICK S : inbox \in Seq(S)
    BY DEF CommandInv, Shapes
  <2>2. inbox \in Seq(S \union {e})
    BY <2>1
  <2>3. inbox' \in Seq(S \union {e})
    BY <2>0, <2>2
  <2>4. cpc \notin {"ask", "send", "read"}
    BY <2>0 DEF CommandInv, Turns
  <2> QED
    BY <1>0, <2>0, <2>3, <2>4 DEF CommandInv, Shapes, Turns, Admitted, clientVars
<1>7. CASE Admit /\ ~RepliesTrouble
  <2>1. CASE Replies("error")
    BY <1>0, <1>2, <1>4, <1>7, <2>1, RepliesKeeps DEF Admit, storeVars
  <2>2. CASE ~Replies("error")
    <3>1. /\ handler' = "admitted" /\ UNCHANGED <<request, inbox, active, clientVars>>
          /\ request # None /\ request.action # "installed" /\ handler = "idle"
          /\ request.activate => request.model \in Configured[conn]
      BY <1>7, <2>2 DEF Admit, storeVars
    <3>2. cpc \notin {"dial", "redial", "ask", "send", "inventory"}
      BY <3>1 DEF CommandInv, Turns
    <3> QED
      BY <1>0, <3>1, <3>2 DEF CommandInv, Shapes, Turns, Admitted, clientVars
  <2> QED
    BY <2>1, <2>2
<1>8. CASE Decide
  <2>0. request # None /\ handler = "admitted"
    BY <1>3, <1>8 DEF Decide
  <2>1. CASE \E type \in {"done", "error"} : Replies(type)
    <3>1. active' = [m \in Model |-> active'[m]]
      BY <1>4, <1>8 DEF Decide
    <3> QED
      BY <1>0, <1>2, <2>0, <2>1, <3>1, RepliesKeeps
  <2>2. CASE handler' = "download" /\ UNCHANGED <<request, inbox, active>>
    <3>1. cpc \notin {"dial", "redial", "ask", "send", "inventory"}
      BY <2>0 DEF CommandInv, Turns
    <3> QED
      BY <1>0, <2>0, <2>2, <3>1 DEF CommandInv, Shapes, Turns, Admitted, clientVars
  <2> QED
    BY <1>8, <2>1, <2>2 DEF Decide
<1>9. CASE Install
  <2>0. request # None /\ handler = "download" /\ UNCHANGED active
    BY <1>3, <1>9 DEF Install
  <2>1. CASE Replies("done")
    BY <1>0, <1>2, <1>4, <2>0, <2>1, RepliesKeeps
  <2>2. CASE handler' = "activate" /\ UNCHANGED <<request, inbox>> /\ request.activate
    <3>1. cpc \notin {"dial", "redial", "ask", "send", "inventory"}
      BY <2>0 DEF CommandInv, Turns
    <3> QED
      BY <1>0, <2>0, <2>2, <3>1 DEF CommandInv, Shapes, Turns, Admitted, clientVars
  <2> QED
    BY <1>9, <2>1, <2>2 DEF Install
<1>10. CASE Activate
  <2>0. request # None /\ Replies("done") /\ active' = [m \in Model |-> active'[m]]
    BY <1>3, <1>4, <1>10 DEF Activate
  <2> QED
    BY <1>0, <1>2, <2>0, RepliesKeeps
<1>11. CASE SwitchFails
  <2>0. request # None /\ Replies("error") /\ active' = [m \in Model |-> active'[m]]
    BY <1>3, <1>4, <1>11 DEF SwitchFails
  <2> QED
    BY <1>0, <1>2, <1>11, <2>0, RepliesKeeps DEF SwitchFails
<1>12. HandlerFails => request # None /\ RepliesTrouble
  BY <1>3 DEF HandlerFails
<1>13. ServeInstalled \/ Admit => request # None
  BY DEF ServeInstalled, Admit
<1> QED
  BY <1>1, <1>5, <1>6, <1>7, <1>8, <1>9, <1>10, <1>11, <1>12, <1>13 DEF HandlerStep

LEMMA ProgressKeeps ==
  ASSUME CommandInv, Progress
  PROVE  CommandInv'
<1> USE DEF CommandInv, Turns, Admitted, clientVars, storeVars, historyVars, Progress, Writes, At
<1> DEFINE e == [type |-> "progress", model |-> request.model]
<1>0. PICK S : inbox \in Seq(S)
  BY DEF Shapes
<1>1. inbox' = Append(inbox, e) /\ handler = "download" /\ request # None
      /\ UNCHANGED <<handler, request, cpc, plans, next, conn, active, others>>
  OBVIOUS
<1>2. inbox \in Seq(S \union {e})
  BY <1>0
<1>3. /\ inbox' \in Seq(S \union {e}) /\ Len(inbox') = Len(inbox) + 1 /\ inbox'[Len(inbox')] = e
      /\ \A k \in DOMAIN inbox' : k = Len(inbox') \/ (k \in DOMAIN inbox /\ inbox'[k] = inbox[k])
  BY <1>0, <1>1, <1>2
<1>4. cpc \notin {"dial", "redial", "ask", "send", "inventory"}
  BY <1>1
<1>5. cpc = "read" =>
        \A k \in DOMAIN inbox' : inbox'[k].model = plans[next].model /\ inbox'[k].type = "progress"
  BY <1>1, <1>3
<1> QED
  BY <1>1, <1>3, <1>4, <1>5 DEF Shapes

LEMMA OtherClientKeeps ==
  ASSUME CommandInv, NEW p \in Process, NEW m \in Model, OtherClient(p, m)
  PROVE  CommandInv'
<1>1. UNCHANGED <<cpc, plans, next, conn, handler, request, inbox>>
  BY DEF OtherClient, clientVars, wireVars
<1>2. active' = [n \in Model |-> active'[n]] /\ others' \in Nat
  BY DEF OtherClient, CommandInv, Shapes
<1> QED
  BY <1>1, <1>2 DEF CommandInv, Shapes, Turns, Admitted

\* The inductive invariant holds in every behaviour.
LEMMA CommandInvariant == Spec => []CommandInv
<1>1. CommandInv /\ [Next]_allVars => CommandInv'
  <2> SUFFICES ASSUME CommandInv, [Next]_allVars PROVE CommandInv'
    OBVIOUS
  <2>1. CASE CommandStep
    BY <2>1, ClientKeeps, HandlerKeeps, ProgressKeeps, OtherClientKeeps DEF CommandStep
  <2>2. CASE UNCHANGED commandVars
    BY <2>2 DEF commandVars, historyVars, clientVars, wireVars, storeVars, CommandInv, Shapes, Turns, Admitted
  <2> QED
    BY <2>1, <2>2 DEF Next, allVars
<1> QED
  BY <1>1, CommandInvInit, PTL DEF Spec

\* The daemons of the composed system run as SocketLifecycle says: a command
\* reads the socket's state and never changes it.
THEOREM ImplementsSocketLifecycle == Spec => SocketSpec
<1>1. Init => SocketInit
  BY DEF Init
<1>2. [Next]_allVars => [SocketNext]_socketVars
  BY DEF Next, allVars
<1> QED
  BY <1>1, <1>2, PTL DEF Spec, SocketSpec

\* So, whatever commands and other clients do, a daemon that was alone when it
\* bound keeps its socket file, and the daemons started later are turned away.
THEOREM CommandSocketKept == Spec => []KeepsItsSocket
BY ImplementsSocketLifecycle, SocketKept, PTL

\* For any plans, catalogs and restarts: what runCatalogActionPlans reads is
\* about the request it sent last, and nothing is left over when it goes on.
THEOREM AnswersMatch == Spec => []AnswersMatchPlans
<1>1. CommandInv => AnswersMatchPlans
  BY DEF CommandInv, Turns, AnswersMatchPlans
<1> QED
  BY <1>1, CommandInvariant, PTL

\* For any two configurations, the one the inventory was read under and that of
\* the daemon that serves the plans: installCatalogArtifact activates only what
\* its own daemon has configured.
THEOREM ActivatesConfigured == Spec => UnconfiguredNeverActivated
<1>1. CommandInv /\ [Next]_allVars =>
        [\A m \in Model : active'[m] # active[m] /\ others' = others => m \in Configured[conn]]_allVars
  <2> SUFFICES ASSUME CommandInv, Next, NEW m \in Model, active'[m] # active[m], others' = others
               PROVE  m \in Configured[conn]
    OBVIOUS
  <2>0. active = [n \in Model |-> active[n]] /\ Admitted
    BY DEF CommandInv, Shapes
  <2>1. CommandStep
    BY DEF Next, commandVars, storeVars
  <2>2. CASE ClientStep \/ Progress
    BY <2>2 DEF ClientStep, Connect, Breaks, AskInstalled, ReadInventory, Send, Read, Progress, storeVars
  <2>3. CASE HandlerStep
    <3>1. Decide \/ Activate \/ SwitchFails
      BY <2>3 DEF HandlerStep, AcceptConn, ServeInstalled, Admit, Install, HandlerFails,
         RepliesTrouble, storeVars
    <3>2. CASE Decide
      BY <2>0, <3>2 DEF Decide, At, Admitted
    <3>3. CASE Activate \/ SwitchFails
      BY <2>0, <3>3 DEF Activate, SwitchFails, At, Admitted
    <3> QED
      BY <3>1, <3>2, <3>3
  <2>4. CASE \E p \in Process, n \in Model : OtherClient(p, n)
    BY <2>4 DEF OtherClient
  <2> QED
    BY <2>1, <2>2, <2>3, <2>4 DEF CommandStep
<1> QED
  BY <1>1, CommandInvariant, PTL DEF Spec, UnconfiguredNeverActivated

----------------------------------------------------------------------------
(* What has been done.  The two properties of the whole command need what   *)
(* its plans are (PlanInv), what is known of the store as long as nobody    *)
(* else changes it (StoreInv), and, when in addition nothing has failed,    *)
(* why the daemon refuses (CauseInv).                                       *)

Asks == {"dial", "ask", "inventory"}
Plan == [model : Model, activate : BOOLEAN]

PlanInv ==
  /\ installed = [m \in Model |-> installed[m]]
  /\ next \in Nat \ {0}
  /\ command.kind \in Kind
  /\ plans \in Seq(Plan)
  /\ cpc \in Asks => command.kind = "updateAll" /\ plans = <<>> /\ source = None
  /\ cpc \in Asks \union {"redial"} => next = 1
  /\ cpc \in {"redial", "send", "read"} => next \in DOMAIN plans
  /\ cpc \in {"ok", "stopped"} => request = None
  /\ request # None /\ request.action # "installed" =>
       /\ next \in DOMAIN plans
       /\ request.model = plans[next].model /\ request.activate = plans[next].activate
       /\ request.action = IF command.kind = "install" THEN "download" ELSE "update"
  /\ command.kind = "updateAll" =>
       \A k \in DOMAIN plans : command.catalog[plans[k].model] # None
  /\ command.kind # "updateAll" => \A k \in DOMAIN plans : plans[k].activate = command.activate
  /\ command.kind = "install" =>
       \A k, l \in DOMAIN plans : plans[k].model = plans[l].model => k = l

\* A plan that has been carried out, and what the inventory says.
Served(k) ==
  LET m == plans[k].model IN
    /\ CatalogOf[conn][m] \in installed[m]
    /\ plans[k].activate => active[m] = CatalogOf[conn][m]

Rows == [m \in Model |-> [versions |-> installed[m], active |-> active[m],
                          configured |-> m \in Configured[conn]]]

UpToDate(m) ==
  installed[m] # {} /\ command.catalog[m] # None =>
    /\ command.catalog[m] \in installed[m]
    /\ command.activate /\ m \in Configured[source] => active[m] = command.catalog[m]

PlansServed == \A k \in 1 .. next - 1 : Served(k)

Activating == handler = "activate" => Offered \in installed[request.model]

InboxTrue ==
  /\ cpc = "read" => \A k \in DOMAIN inbox : inbox[k].type = "done" => Served(next)
  /\ cpc = "inventory" => \A k \in DOMAIN inbox : inbox[k].type # "error" => inbox[k].rows = Rows

PlannedAll ==
  command.kind = "updateAll" =>
    /\ \A k \in DOMAIN plans :
         /\ installed[plans[k].model] # {}
         /\ plans[k].activate => plans[k].model \in Configured[source]
    /\ source # None /\ cpc # "stopped" =>
         \A m \in Model : (\A k \in DOMAIN plans : plans[k].model # m) => UpToDate(m)

StoreInv == others = 0 => PlansServed /\ Activating /\ InboxTrue /\ PlannedAll

\* Why the daemon may refuse the present plan.
Cause ==
  LET m == plans[next].model
      unfit == CatalogOf[conn][m] = None \/ (command.activate /\ m \notin Configured[conn])
  IN CASE command.kind = "updateAll" ->
            CatalogOf[conn] # command.catalog \/ Configured[conn] # Configured[source]
       [] command.kind = "update" -> unfit \/ installed[m] = {}
       [] command.kind = "install" ->
            \/ unfit
            \/ CatalogOf[conn][m] \in installed[m] /\ \A k \in 1 .. next - 1 : plans[k].model # m

Explained ==
  /\ cpc = "inventory" => \A k \in DOMAIN inbox : inbox[k].type # "error"
  /\ cpc = "read" => \A k \in DOMAIN inbox : inbox[k].type = "error" => Cause
  /\ cpc = "stopped" => Cause

CauseInv == ~trouble /\ others = 0 => Explained

----------------------------------------------------------------------------

\* A list in order has each member once.
LEMMA InOrderLists ==
  ASSUME NEW list \in Seq(Model), Distinct(list), NEW S, NEW s \in InOrder(list, S)
  PROVE  s \in Seq(S) /\ Distinct(s) /\ Range(s) = S
<1>1. /\ s \in Lists(S) /\ Range(s) = S
      /\ \A k, l \in DOMAIN s : k < l =>
           \E a, b \in DOMAIN list : a < b /\ list[a] = s[k] /\ list[b] = s[l]
  BY DEF InOrder
<1>2. s \in Seq(S)
  <2>1. PICK n \in 0 .. Len(SortedNames) : s \in [1 .. n -> S]
    BY <1>1 DEF Lists
  <2>2. n \in Nat
    BY CatalogAssumption
  <2> QED
    BY <2>1, <2>2
<1>3. ASSUME NEW k \in DOMAIN s, NEW l \in DOMAIN s, k < l PROVE s[k] # s[l]
  <2>1. PICK a \in DOMAIN list, b \in DOMAIN list : a < b /\ list[a] = s[k] /\ list[b] = s[l]
    BY <1>1, <1>3
  <2>2. a # b
    BY <2>1
  <2> QED
    BY <2>1, <2>2 DEF Distinct
<1>4. Distinct(s)
  <2> SUFFICES ASSUME NEW k \in DOMAIN s, NEW l \in DOMAIN s, s[k] = s[l] PROVE k = l
    BY DEF Distinct
  <2>1. k \in Nat /\ l \in Nat
    BY <1>2
  <2>2. ~(k < l) /\ ~(l < k)
    BY <1>3
  <2> QED
    BY <2>1, <2>2
<1> QED
  BY <1>1, <1>2, <1>4

\* A command starts with models of the catalog, each named once.
LEMMA SelectionsList ==
  ASSUME NEW kind \in Kind, NEW catalog, NEW chosen \in Selections(kind, catalog)
  PROVE  /\ chosen \in Seq(Model) /\ Distinct(chosen)
         /\ kind = "updateAll" => chosen = <<>>
         /\ kind # "updateAll" => chosen # <<>>
<1>1. ASSUME NEW m \in Model PROVE <<m>> \in Seq(Model) /\ Distinct(<<m>>) /\ <<m>> # <<>>
  BY DEF Distinct
<1>2. ASSUME NEW f \in DOMAIN Families, NEW s \in Qualified(catalog, f)
      PROVE  s \in Seq(Model) /\ Distinct(s) /\ Range(s) \subseteq Model
  <2>1. Families[f] \in Seq(Model) /\ Distinct(Families[f])
    BY CatalogAssumption
  <2> DEFINE S == {m \in Range(Families[f]) : catalog[m] # None}
  <2>2. S \subseteq Model
    BY <2>1 DEF Range
  <2>3. s \in InOrder(Families[f], S)
    BY DEF Qualified
  <2> HIDE DEF S
  <2>4. s \in Seq(S) /\ Distinct(s) /\ Range(s) = S
    BY <2>1, <2>3, InOrderLists
  <2> QED
    BY <2>2, <2>4
<1>3. CASE kind = "updateAll"
  BY <1>3 DEF Selections, Distinct
<1>4. CASE kind = "update"
  <2>1. chosen \in {<<m>> : m \in Model}
    BY <1>4 DEF Selections
  <2> QED
    BY <1>1, <1>4, <2>1
<1>5. CASE kind = "install"
  <2>0. chosen # <<>>
    BY <1>5 DEF Selections
  <2>1. ASSUME NEW id \in DOMAIN Families \union Model, NEW requested \in Lists(Model),
               NEW all \in BOOLEAN, chosen \in InstallSelection(catalog, id, requested, all)
        PROVE  chosen \in Seq(Model) /\ Distinct(chosen)
    <3>1. requested \in Seq(Model)
      BY CatalogAssumption DEF Lists
    <3> QED
      BY <1>1, <1>2, <2>1, <3>1 DEF InstallSelection
  <2>2. ASSUME NEW f \in DOMAIN Families, NEW parts \in Choices, chosen \in GuidedSelection(catalog, f, parts)
        PROVE  chosen \in Seq(Model) /\ Distinct(chosen)
    <3> DEFINE picked(offered) == [k \in DOMAIN parts |->
                 IF parts[k] \in DOMAIN offered THEN offered[parts[k]] ELSE parts[k]]
    <3>1. PICK n \in Nat : DOMAIN parts = 1 .. n
      BY CatalogAssumption DEF Choices, Lists
    <3>2. PICK o \in Qualified(catalog, f) :
            chosen = picked(o) /\ Distinct(picked(o)) /\ Range(picked(o)) \subseteq Range(o)
      BY <2>2 DEF GuidedSelection
    <3>3. DOMAIN picked(o) = 1 .. n /\ picked(o) = [k \in 1 .. n |-> picked(o)[k]]
      BY <3>1
    <3> HIDE DEF picked
    <3>4. \A k \in 1 .. n : picked(o)[k] \in Model
      BY <1>2, <3>2, <3>3 DEF Range
    <3>5. picked(o) \in Seq(Model)
      BY <3>3, <3>4
    <3> QED
      BY <3>2, <3>5
  <2>3. \/ \E id \in DOMAIN Families \union Model, requested \in Lists(Model), all \in BOOLEAN :
             chosen \in InstallSelection(catalog, id, requested, all)
        \/ \E f \in DOMAIN Families, parts \in Choices :
             chosen \in GuidedSelection(catalog, f, parts)
    <3>1. chosen \in (UNION Installs(catalog)) \union UNION Guided(catalog)
      BY <1>5 DEF Selections
    <3>2. CASE \E S \in Installs(catalog) : chosen \in S
      BY <3>2 DEF Installs
    <3>3. CASE \E S \in Guided(catalog) : chosen \in S
      <4>1. PICK S \in Guided(catalog) : chosen \in S
        BY <3>3
      <4>2. PICK f \in DOMAIN Families, parts \in Choices : S = GuidedSelection(catalog, f, parts)
        BY <4>1 DEF Guided
      <4> QED
        BY <4>1, <4>2
    <3>4. (\E S \in Installs(catalog) : chosen \in S) \/ (\E S \in Guided(catalog) : chosen \in S)
      BY ONLY <3>1
    <3> QED
      BY <3>2, <3>3, <3>4
  <2> QED
    BY <1>5, <2>0, <2>1, <2>2, <2>3
<1> QED
  BY <1>3, <1>4, <1>5 DEF Kind

\* What "update -all" plans.
LEMMA PendingList ==
  ASSUME NEW catalog, NEW rows, NEW activate,
         NEW ps \in PendingPlans(catalog, rows, activate)
  PROVE  /\ ps \in Seq(Plan)
         /\ \A k \in DOMAIN ps :
              /\ rows[ps[k].model].versions # {} /\ catalog[ps[k].model] # None
              /\ ps[k].activate => rows[ps[k].model].configured
         /\ \A m \in Model :
              /\ \A k \in DOMAIN ps : ps[k].model # m
              /\ rows[m].versions # {} /\ catalog[m] # None
              => /\ catalog[m] \in rows[m].versions
                 /\ activate /\ rows[m].configured => rows[m].active = catalog[m]
<1> DEFINE pending == {m \in Model :
             /\ rows[m].versions # {} /\ catalog[m] # None
             /\ \/ catalog[m] \notin rows[m].versions
                \/ activate /\ rows[m].configured /\ rows[m].active # catalog[m]}
           plan(models) == [k \in DOMAIN models |->
             [model |-> models[k], activate |-> activate /\ rows[models[k]].configured]]
<1>1. PICK models \in InOrder(SortedNames, pending) : ps = plan(models)
  BY DEF PendingPlans
<1>2. models \in Seq(pending) /\ Range(models) = pending
  <2> HIDE DEF pending
  <2> QED
    BY InOrderLists, CatalogAssumption
<1>3. /\ DOMAIN ps = DOMAIN models
      /\ \A k \in DOMAIN models :
           /\ models[k] \in pending
           /\ ps[k].model = models[k]
           /\ ps[k].activate = (activate /\ rows[models[k]].configured)
           /\ ps[k] \in Plan
  BY <1>1, <1>2 DEF Plan
<1>4. ps \in Seq(Plan)
  <2>1. DOMAIN ps = 1 .. Len(models) /\ Len(models) \in Nat /\ ps = [k \in 1 .. Len(models) |-> ps[k]]
    BY <1>1, <1>2
  <2> QED
    BY <1>2, <1>3, <2>1
<1>5. ASSUME NEW k \in DOMAIN ps
      PROVE  /\ rows[ps[k].model].versions # {} /\ catalog[ps[k].model] # None
             /\ ps[k].activate => rows[ps[k].model].configured
  BY <1>3
<1>6. ASSUME NEW m \in Model, \A k \in DOMAIN ps : ps[k].model # m,
             rows[m].versions # {}, catalog[m] # None
      PROVE  /\ catalog[m] \in rows[m].versions
             /\ activate /\ rows[m].configured => rows[m].active = catalog[m]
  <2>1. m \notin pending
    <3> HIDE DEF pending
    <3> QED
      BY <1>2, <1>3, <1>6 DEF Range
  <2> QED
    BY <1>6, <2>1
<1> QED
  BY <1>4, <1>5, <1>6

----------------------------------------------------------------------------

LEMMA PlanInvInit == Init => PlanInv
<1> SUFFICES ASSUME Init PROVE PlanInv
  OBVIOUS
<1> DEFINE planned(chosen) ==
             [k \in DOMAIN chosen |-> [model |-> chosen[k], activate |-> command.activate]]
<1>1. /\ command \in [kind : Kind, activate : BOOLEAN, catalog : Catalogs]
      /\ cpc = IF command.kind = "updateAll" THEN "dial" ELSE "redial"
      /\ next = 1 /\ source = None /\ request = None
      /\ installed \in [Model -> SUBSET Revision]
  BY DEF Init, CommandInit
<1>2. PICK chosen \in Selections(command.kind, command.catalog) : plans = planned(chosen)
  BY DEF Init, CommandInit
<1>3. /\ chosen \in Seq(Model) /\ Distinct(chosen)
      /\ command.kind = "updateAll" => chosen = <<>>
      /\ command.kind # "updateAll" => chosen # <<>>
  BY <1>1, SelectionsList
<1>4. /\ DOMAIN plans = DOMAIN chosen
      /\ DOMAIN chosen = 1 .. Len(chosen) /\ Len(chosen) \in Nat
      /\ plans = [k \in 1 .. Len(chosen) |-> plans[k]]
  BY <1>2, <1>3
<1>5. \A k \in DOMAIN chosen : chosen[k] \in Model
  BY <1>3
<1>6. \A k \in DOMAIN chosen :
        plans[k] \in Plan /\ plans[k].model = chosen[k] /\ plans[k].activate = command.activate
  BY <1>1, <1>2, <1>5 DEF Plan
<1> HIDE DEF planned
<1>7. plans \in Seq(Plan)
  BY <1>4, <1>6
<1>8. command.kind = "updateAll" => plans = <<>> /\ DOMAIN plans = {}
  BY <1>3, <1>4
<1>9. command.kind # "updateAll" => next \in DOMAIN plans
  BY <1>1, <1>3, <1>4
<1>10. ASSUME NEW k \in DOMAIN plans, NEW l \in DOMAIN plans, plans[k].model = plans[l].model
       PROVE  k = l
  BY <1>3, <1>4, <1>6, <1>10 DEF Distinct
<1>11. command.kind \in Kind /\ installed = [m \in Model |-> installed[m]]
  BY <1>1
<1>12. \A k \in DOMAIN plans : plans[k].activate = command.activate
  BY <1>4, <1>6
<1> QED
  BY <1>1, <1>7, <1>8, <1>9, <1>10, <1>11, <1>12 DEF PlanInv, Asks

\* A step that leaves the command where it is.
LEMMA PlanInvElsewhere ==
  ASSUME PlanInv, UNCHANGED clientVars,
         installed' = [m \in Model |-> installed'[m]],
         request' = None \/ request' = request
  PROVE  PlanInv'
BY DEF PlanInv, clientVars

LEMMA PlanInvClient ==
  ASSUME CommandInv, PlanInv, ClientStep
  PROVE  PlanInv'
<1> USE DEF PlanInv, Asks, storeVars
<1>1. CASE Connect
  BY <1>1 DEF Connect
<1>2. CASE Breaks
  BY <1>2 DEF Breaks, wireVars
<1>3. CASE AskInstalled
  <2>1. request'.action = "installed"
    BY <1>3 DEF AskInstalled
  <2> QED
    BY <1>3, <2>1 DEF AskInstalled
<1>4. CASE ReadInventory
  <2>0. /\ command.kind = "updateAll" /\ plans = <<>> /\ next = 1
        /\ UNCHANGED <<installed, command, next, request>>
        /\ request = None
    BY <1>4 DEF ReadInventory, CommandInv, Turns
  <2>1. CASE cpc' = "stopped" /\ UNCHANGED plans
    BY <2>0, <2>1
  <2>2. CASE Head(inbox).type # "error"
    <3>1. /\ plans' \in PendingPlans(command.catalog, Head(inbox).rows, command.activate)
          /\ cpc' = IF plans' = <<>> THEN "ok" ELSE "redial"
      BY <1>4, <2>2 DEF ReadInventory
    <3>2. /\ plans' \in Seq(Plan)
          /\ \A k \in DOMAIN plans' : command.catalog[plans'[k].model] # None
      BY <3>1, PendingList
    <3>3. cpc' = "redial" => next \in DOMAIN plans'
      BY <2>0, <3>1, <3>2
    <3> QED
      BY <2>0, <3>1, <3>2, <3>3
  <2> QED
    BY <1>4, <2>1, <2>2 DEF ReadInventory
<1>5. CASE Send
  <2>1. /\ request'.action = IF command.kind = "install" THEN "download" ELSE "update"
        /\ request'.model = plans[next].model /\ request'.activate = plans[next].activate
        /\ cpc = "send" /\ cpc' = "read"
        /\ UNCHANGED <<installed, command, plans, next, source>>
    BY <1>5 DEF Send
  <2> QED
    BY <2>1
<1>6. CASE Read
  <2>1. /\ cpc = "read" /\ UNCHANGED <<installed, command, plans, source, request>>
        /\ next \in 1 .. Len(plans) /\ Len(plans) \in Nat /\ DOMAIN plans = 1 .. Len(plans)
    BY <1>6 DEF Read
  <2>2. CASE UNCHANGED <<cpc, next>>
    BY <2>1, <2>2
  <2>3. CASE Head(inbox).type # "progress"
    <3>1. request = None
      <4>1. PICK S : inbox \in Seq(S)
        BY DEF CommandInv, Shapes
      <4>2. 1 \in DOMAIN inbox /\ Head(inbox) = inbox[1]
        BY <1>6, <4>1 DEF Read
      <4> QED
        BY <1>6, <2>3, <4>2 DEF Read, CommandInv, Turns
    <3>2. \/ cpc' = "ok" /\ next' = next + 1
          \/ cpc' = "send" /\ next' = next + 1 /\ next # Len(plans)
          \/ cpc' = "stopped" /\ next' = next
      BY <1>6, <2>3 DEF Read
    <3>3. next' \in Nat \ {0} /\ (cpc' = "send" => next' \in DOMAIN plans)
      BY <2>1, <3>2
    <3> QED
      BY <2>1, <3>1, <3>2, <3>3
  <2> QED
    BY <1>6, <2>2, <2>3 DEF Read
<1> QED
  BY <1>1, <1>2, <1>3, <1>4, <1>5, <1>6 DEF ClientStep

\* Every other step is the handler's or another client's.
LEMMA PlanInvStep == CommandInv /\ PlanInv /\ [Next]_allVars => PlanInv'
<1> SUFFICES ASSUME CommandInv, PlanInv, [Next]_allVars PROVE PlanInv'
  OBVIOUS
<1> USE DEF storeVars, wireVars, historyVars
<1>1. CASE ClientStep
  BY <1>1, PlanInvClient
<1>2. CASE HandlerStep \/ Progress
  <2>1. UNCHANGED clientVars /\ (request' = None \/ request' = request)
    BY <1>2 DEF HandlerStep, AcceptConn, ServeInstalled, Admit, Decide, Install, Activate,
       SwitchFails, HandlerFails, RepliesTrouble, Replies, Progress
  <2>2. installed' = installed \/ Install
    BY <1>2 DEF HandlerStep, AcceptConn, ServeInstalled, Admit, Decide, Activate,
       SwitchFails, HandlerFails, RepliesTrouble, Progress
  <2>3. installed' = [m \in Model |-> installed'[m]]
    BY <2>2 DEF PlanInv, Install
  <2> QED
    BY <2>1, <2>3, PlanInvElsewhere
<1>3. ASSUME NEW p \in Process, NEW m \in Model, OtherClient(p, m) PROVE PlanInv'
  <2>1. installed' = [n \in Model |-> installed'[n]]
    BY <1>3 DEF OtherClient, PlanInv
  <2> QED
    BY <1>3, <2>1, PlanInvElsewhere DEF OtherClient
<1>4. CASE UNCHANGED commandVars
  BY <1>4, PlanInvElsewhere DEF commandVars, PlanInv
<1> QED
  BY <1>1, <1>2, <1>3, <1>4 DEF Next, CommandStep, allVars

----------------------------------------------------------------------------

LEMMA StoreInvInit == Init => StoreInv
<1> SUFFICES ASSUME Init PROVE StoreInv
  OBVIOUS
<1>1. /\ next = 1 /\ source = None /\ handler = "none" /\ inbox = <<>>
      /\ cpc \in {"dial", "redial"}
  BY DEF Init, CommandInit
<1>2. command.kind = "updateAll" => DOMAIN plans = {}
  BY PlanInvInit, <1>1 DEF PlanInv, Init, CommandInit, Asks
<1> QED
  BY <1>1, <1>2 DEF StoreInv, PlansServed, Activating, InboxTrue, PlannedAll

\* What the command does leaves the store as it is.
LEMMA StoreInvClient ==
  ASSUME CommandInv, PlanInv, StoreInv, ClientStep
  PROVE  StoreInv'
<1> SUFFICES ASSUME others' = 0 PROVE (PlansServed /\ Activating /\ InboxTrue /\ PlannedAll)'
  BY DEF StoreInv
<1>1. /\ UNCHANGED <<installed, active, command>>
      /\ PlansServed /\ Activating /\ InboxTrue /\ PlannedAll
  BY DEF StoreInv, ClientStep, Connect, Breaks, AskInstalled, ReadInventory, Send, Read, storeVars,
     historyVars
<1>2. ASSUME UNCHANGED <<plans, source>>, cpc # "stopped" PROVE PlannedAll'
  <2>1. \A m : UpToDate(m)' <=> UpToDate(m)
    BY <1>1, <1>2 DEF UpToDate
  <2> QED
    BY <1>1, <1>2, <2>1 DEF PlannedAll
<1>3. ASSUME UNCHANGED <<plans, conn>> PROVE \A k : Served(k)' <=> Served(k)
  BY <1>1, <1>3 DEF Served
<1>4. ASSUME UNCHANGED <<plans, conn, next>> PROVE PlansServed'
  BY <1>1, <1>3, <1>4 DEF PlansServed
<1>5. next' = 1 => PlansServed'
  BY DEF PlansServed
<1>6. handler' # "activate" \/ UNCHANGED <<handler, request, conn>> => Activating'
  BY <1>1 DEF Activating, Offered
<1>7. cpc' \notin {"read", "inventory"} \/ DOMAIN inbox' = {} => InboxTrue'
  BY DEF InboxTrue
<1>8. PICK S : inbox \in Seq(S)
  BY DEF CommandInv, Shapes
<1>9. CASE Connect
  <2>1. /\ UNCHANGED <<plans, next, source>> /\ next = 1 /\ cpc # "stopped"
        /\ cpc' \in {"ask", "send", "failed"} /\ handler' # "activate"
    BY <1>9 DEF Connect, PlanInv, Asks, CommandInv, Turns
  <2> QED
    BY <1>2, <1>5, <1>6, <1>7, <2>1
<1>10. CASE Breaks
  <2>1. /\ UNCHANGED <<plans, next, source, conn, handler, request>> /\ cpc # "stopped" /\ cpc' = "failed"
    BY <1>10 DEF Breaks, wireVars
  <2> QED
    BY <1>2, <1>4, <1>6, <1>7, <2>1
<1>11. CASE AskInstalled
  <2>1. /\ UNCHANGED <<plans, next, source, conn, handler, inbox>> /\ cpc = "ask"
        /\ DOMAIN inbox = {} /\ handler # "activate"
    BY <1>11 DEF AskInstalled, CommandInv, Turns
  <2> QED
    BY <1>2, <1>4, <1>6, <1>7, <2>1
<1>12. CASE ReadInventory
  <2>0. /\ UNCHANGED <<next, conn, handler>> /\ handler # "activate" /\ next = 1
        /\ source' = conn /\ cpc' \in {"stopped", "ok", "redial"} /\ plans = <<>>
    BY <1>12 DEF ReadInventory, PlanInv, Asks, CommandInv, Turns
  <2>1. CASE cpc' = "stopped" /\ UNCHANGED plans
    <3>1. PlannedAll'
      BY <2>0, <2>1 DEF PlannedAll
    <3> QED
      BY <1>5, <1>6, <1>7, <2>0, <2>1, <3>1
  <2>2. CASE Head(inbox).type # "error"
    <3>1. Head(inbox).rows = Rows
      <4>1. cpc = "inventory" /\ 1 \in DOMAIN inbox /\ Head(inbox) = inbox[1]
        BY <1>8, <1>12 DEF ReadInventory
      <4> QED
        BY <1>1, <2>2, <4>1 DEF InboxTrue
    <3>2. plans' \in PendingPlans(command.catalog, Rows, command.activate)
      BY <1>12, <2>2, <3>1 DEF ReadInventory
    <3>3. /\ plans' \in Seq(Plan)
          /\ \A k \in DOMAIN plans' :
               /\ Rows[plans'[k].model].versions # {}
               /\ plans'[k].activate => Rows[plans'[k].model].configured
          /\ \A m \in Model :
               /\ \A k \in DOMAIN plans' : plans'[k].model # m
               /\ Rows[m].versions # {} /\ command.catalog[m] # None
               => /\ command.catalog[m] \in Rows[m].versions
                  /\ command.activate /\ Rows[m].configured => Rows[m].active = command.catalog[m]
      BY <3>2, PendingList
    <3>4. \A m \in Model : /\ Rows[m].versions = installed[m]
                           /\ Rows[m].active = active[m]
                           /\ Rows[m].configured <=> m \in Configured[source']
      BY <2>0 DEF Rows
    <3>5. ASSUME NEW k \in DOMAIN plans' PROVE plans'[k].model \in Model
      <4>1. plans'[k] \in Plan
        BY <3>3
      <4> QED
        BY <4>1 DEF Plan
    <3>6. ASSUME NEW k \in DOMAIN plans'
          PROVE  /\ installed'[plans'[k].model] # {}
                 /\ plans'[k].activate => plans'[k].model \in Configured[source']
      BY <1>1, <3>3, <3>4, <3>5
    <3>7. ASSUME NEW m \in Model, \A k \in DOMAIN plans' : plans'[k].model # m
          PROVE  UpToDate(m)'
      BY <1>1, <3>3, <3>4, <3>7 DEF UpToDate
    <3>8. PlannedAll'
      BY <3>6, <3>7 DEF PlannedAll
    <3> QED
      BY <1>5, <1>6, <1>7, <2>0, <3>8
  <2> QED
    BY <1>12, <2>1, <2>2 DEF ReadInventory
<1>13. CASE Send
  <2>1. /\ UNCHANGED <<plans, next, source, conn, handler, inbox>> /\ cpc = "send"
        /\ DOMAIN inbox = {} /\ handler # "activate"
    BY <1>13 DEF Send, CommandInv, Turns
  <2> QED
    BY <1>2, <1>4, <1>6, <1>7, <2>1
<1>14. CASE Read
  <2>1. /\ UNCHANGED <<plans, source, conn, handler, request>> /\ cpc = "read" /\ cpc' # "inventory"
        /\ inbox' = Tail(inbox) /\ inbox # <<>>
    BY <1>14 DEF Read
  <2>2. \A k \in DOMAIN inbox' : k + 1 \in DOMAIN inbox /\ inbox'[k] = inbox[k + 1]
    BY <1>8, <2>1
  <2>3. CASE UNCHANGED next
    <3>1. InboxTrue'
      BY <1>1, <1>3, <2>1, <2>2, <2>3 DEF InboxTrue
    <3> QED
      BY <1>2, <1>4, <1>6, <2>1, <2>3, <3>1
  <2>4. CASE Head(inbox).type = "done" /\ next' = next + 1
    <3>1. 1 \in DOMAIN inbox /\ Head(inbox) = inbox[1]
      BY <1>8, <2>1
    <3>2. Len(inbox) = 1
      BY <2>1, <2>4, <3>1 DEF CommandInv, Turns
    <3>3. DOMAIN inbox' = {}
      BY <1>8, <2>1, <3>2
    <3>4. Served(next)
      BY <1>1, <2>1, <2>4, <3>1 DEF InboxTrue
    <3>5. \A k \in 1 .. next' - 1 : k \in 1 .. next - 1 \/ k = next
      BY <2>4 DEF PlanInv
    <3>6. PlansServed'
      BY <1>1, <1>3, <2>1, <3>4, <3>5 DEF PlansServed
    <3> QED
      BY <1>2, <1>6, <1>7, <2>1, <3>3, <3>6
  <2> QED
    BY <1>14, <2>3, <2>4 DEF Read
<1> QED
  BY <1>9, <1>10, <1>11, <1>12, <1>13, <1>14 DEF ClientStep

\* An event that the handler adds, if it adds one.
LEMMA InboxGrows ==
  ASSUME CommandInv, NEW e, inbox' = inbox \/ inbox' = Append(inbox, e)
  PROVE  \A k \in DOMAIN inbox' :
           \/ k \in DOMAIN inbox /\ inbox'[k] = inbox[k]
           \/ inbox' # inbox /\ inbox'[k] = e
<1>1. PICK S : inbox \in Seq(S)
  BY DEF CommandInv, Shapes
<1>2. CASE inbox' = Append(inbox, e) /\ inbox' # inbox
  <2>1. inbox \in Seq(S \union {e})
    BY <1>1
  <2>2. /\ DOMAIN inbox = 1 .. Len(inbox) /\ Len(inbox) \in Nat
        /\ DOMAIN inbox' = 1 .. Len(inbox) + 1
        /\ inbox'[Len(inbox) + 1] = e
        /\ \A k \in 1 .. Len(inbox) : inbox'[k] = inbox[k]
    BY <1>2, <2>1
  <2>3. ASSUME NEW k \in DOMAIN inbox'
        PROVE  \/ k \in DOMAIN inbox /\ inbox'[k] = inbox[k]
               \/ inbox' # inbox /\ inbox'[k] = e
    <3>1. k \in 1 .. Len(inbox) \/ k = Len(inbox) + 1
      BY <2>2
    <3> QED
      BY <1>2, <2>2, <3>1
  <2> QED
    BY <2>3
<1>3. CASE inbox' = inbox
  BY <1>3
<1> QED
  BY <1>2, <1>3

\* A handler that leaves the store as it is.
LEMMA StoreUntouched ==
  ASSUME CommandInv, PlansServed, InboxTrue, PlannedAll,
         UNCHANGED clientVars, UNCHANGED storeVars,
         NEW e, inbox' = inbox \/ inbox' = Append(inbox, e),
         cpc = "read" /\ inbox' # inbox => e.type # "done",
         cpc = "inventory" /\ inbox' # inbox => e.type = "error" \/ e.rows = Rows
  PROVE  (PlansServed /\ InboxTrue /\ PlannedAll)'
<1>1. UNCHANGED <<cpc, plans, next, conn, source, command, installed, active>>
  BY DEF clientVars, storeVars
<1>2. Rows' = Rows /\ (\A k : Served(k)' <=> Served(k)) /\ (\A m : UpToDate(m)' <=> UpToDate(m))
  BY <1>1 DEF Rows, Served, UpToDate
<1>3. PlansServed'
  BY <1>1, <1>2 DEF PlansServed
<1>4. InboxTrue'
  BY <1>1, <1>2, InboxGrows DEF InboxTrue
<1>5. PlannedAll'
  BY <1>1, <1>2 DEF PlannedAll
<1> QED
  BY <1>3, <1>4, <1>5

\* A handler that adds the revision of its catalog, activates it, or both.
LEMMA StoreAdvances ==
  ASSUME CommandInv, PlanInv, PlansServed, InboxTrue, PlannedAll,
         UNCHANGED clientVars, request # None, request.action # "installed",
         \/ installed' = installed
         \/ installed' = [installed EXCEPT ![request.model] = @ \union {Offered}],
         active' = active \/ active' = [active EXCEPT ![request.model] = Offered],
         NEW e, inbox' = inbox \/ inbox' = Append(inbox, e),
         inbox' # inbox => e.type # "done" \/ Served(next)'
  PROVE  (PlansServed /\ InboxTrue /\ PlannedAll)'
<1> DEFINE m == request.model
<1>1. /\ UNCHANGED <<cpc, plans, next, conn, source, command>>
      /\ cpc \notin {"inventory", "stopped"}
      /\ m = plans[next].model /\ next \in 1 .. Len(plans)
      /\ Len(plans) \in Nat /\ DOMAIN plans = 1 .. Len(plans)
      /\ \A k \in DOMAIN plans : plans[k] \in Plan
  BY DEF clientVars, PlanInv, CommandInv, Turns
<1>2. \A k \in DOMAIN plans : plans[k].model \in Model
  BY <1>1 DEF Plan
<1>3. installed = [n \in Model |-> installed[n]] /\ active = [n \in Model |-> active[n]]
  BY DEF PlanInv, CommandInv, Shapes
<1>4. ASSUME NEW n \in Model
      PROVE  /\ installed[n] \subseteq installed'[n]
             /\ n # m => installed'[n] = installed[n] /\ active'[n] = active[n]
             /\ active'[n] = active[n] \/ (n = m /\ active'[n] = Offered)
  BY <1>3
<1> HIDE DEF m
<1>5. ASSUME NEW k \in 1 .. next - 1 PROVE Served(k)'
  <2>1. Served(k) /\ k \in DOMAIN plans
    BY <1>1 DEF PlansServed
  <2> QED
    BY <1>1, <1>2, <1>4, <2>1 DEF Served, Offered, m
<1>6. PlansServed'
  BY <1>1, <1>5 DEF PlansServed
<1>7. ASSUME NEW k \in DOMAIN inbox, cpc = "read" PROVE inbox[k].type # "done"
  BY <1>7 DEF CommandInv, Turns
<1>8. InboxTrue'
  BY <1>1, <1>7, InboxGrows DEF InboxTrue
<1>9. ASSUME NEW n \in Model, UpToDate(n), n # m PROVE UpToDate(n)'
  BY <1>1, <1>4, <1>9 DEF UpToDate
<1>10. PlannedAll'
  BY <1>1, <1>2, <1>4, <1>9 DEF PlannedAll
<1> QED
  BY <1>6, <1>8, <1>10

LEMMA StoreInvHandler ==
  ASSUME CommandInv, PlanInv, StoreInv, HandlerStep \/ Progress
  PROVE  StoreInv'
<1> SUFFICES ASSUME others' = 0 PROVE (PlansServed /\ Activating /\ InboxTrue /\ PlannedAll)'
  BY DEF StoreInv
<1> USE DEF At, storeVars
<1>0. /\ UNCHANGED clientVars
      /\ UNCHANGED <<conn, plans, next>>
      /\ PlansServed /\ Activating /\ InboxTrue /\ PlannedAll
  BY DEF StoreInv, HandlerStep, AcceptConn, ServeInstalled, Admit, Decide, Install, Activate,
     SwitchFails, HandlerFails, RepliesTrouble, Progress, clientVars, historyVars
<1>1. handler' # "activate" => Activating'
  BY DEF Activating
<1>2. CASE AcceptConn
  BY <1>0, <1>1, <1>2, StoreUntouched DEF AcceptConn
<1>3. ASSUME UNCHANGED storeVars, Replies("error") PROVE (PlansServed /\ Activating /\ InboxTrue /\ PlannedAll)'
  <2> DEFINE e == [type |-> "error", model |-> request.model]
  <2>1. inbox' = Append(inbox, e) /\ e.type = "error" /\ handler' = "idle"
    BY <1>3 DEF Replies, Writes
  <2> HIDE DEF e
  <2> QED
    BY <1>0, <1>1, <1>3, <2>1, StoreUntouched
<1>4. CASE RepliesTrouble
  BY <1>3, <1>4 DEF RepliesTrouble
<1>5. CASE ServeInstalled /\ ~RepliesTrouble
  <2> DEFINE e == [type |-> "installed_models", rows |-> Rows]
  <2>1. /\ inbox' = Append(inbox, e) /\ e.rows = Rows /\ UNCHANGED storeVars /\ handler' = "idle"
        /\ request # None /\ request.action = "installed"
    BY <1>5 DEF ServeInstalled, Writes, Rows
  <2>2. cpc # "read"
    BY <2>1 DEF CommandInv, Turns
  <2> HIDE DEF e
  <2> QED
    BY <1>0, <1>1, <2>1, <2>2, StoreUntouched
<1>6. CASE Admit /\ ~RepliesTrouble
  <2>1. CASE Replies("error")
    BY <1>3, <1>6, <2>1 DEF Admit
  <2>2. CASE ~Replies("error")
    <3>1. UNCHANGED storeVars /\ inbox' = inbox /\ handler' = "admitted"
      BY <1>6, <2>2 DEF Admit
    <3> QED
      BY <1>0, <1>1, <3>1, StoreUntouched
  <2> QED
    BY <2>1, <2>2
<1>7. ASSUME handler \in Working
      PROVE  /\ request # None /\ request.action # "installed"
             /\ handler = "activate" => request.activate
             /\ cpc \notin {"inventory", "stopped"}
             /\ next \in DOMAIN plans
             /\ request.model = plans[next].model /\ request.activate = plans[next].activate
             /\ request.model \in Model
  <2>1. request # None /\ request.action # "installed"
    BY <1>7 DEF CommandInv, Admitted
  <2>2. plans[next] \in Plan
    BY <2>1 DEF PlanInv
  <2>3. plans[next].model \in Model
    BY <2>2 DEF Plan
  <2> QED
    BY <1>7, <2>1, <2>3 DEF CommandInv, Turns, Admitted, PlanInv
<1>8. installed = [n \in Model |-> installed[n]] /\ active = [n \in Model |-> active[n]]
  BY DEF PlanInv, CommandInv, Shapes
<1>9. ASSUME Replies("done"), handler \in Working,
             \/ installed' = installed
             \/ installed' = [installed EXCEPT ![request.model] = @ \union {Offered}],
             active' = active \/ active' = [active EXCEPT ![request.model] = Offered],
             Offered \in installed'[request.model],
             request.activate => active'[request.model] = Offered
      PROVE  (PlansServed /\ Activating /\ InboxTrue /\ PlannedAll)'
  <2> DEFINE e == [type |-> "done", model |-> request.model]
  <2>1. inbox' = Append(inbox, e) /\ handler' = "idle"
    BY <1>9 DEF Replies, Writes
  <2>2. Served(next)'
    BY <1>0, <1>7, <1>9 DEF Served, Offered
  <2> HIDE DEF e
  <2> QED
    BY <1>0, <1>1, <1>7, <1>9, <2>1, <2>2, StoreAdvances
<1>10. CASE Decide
  <2>0. handler \in Working /\ UNCHANGED installed
    BY <1>10 DEF Decide
  <2>1. CASE Replies("error") /\ UNCHANGED active
    BY <1>3, <2>0, <2>1
  <2>2. CASE /\ Replies("done") /\ Offered \in installed[request.model]
             /\ active' = IF request.activate THEN [active EXCEPT ![request.model] = Offered] ELSE active
    <3>1. request.activate => active'[request.model] = Offered
      BY <1>7, <1>8, <2>0, <2>2
    <3> QED
      BY <1>9, <2>0, <2>2, <3>1
  <2>3. CASE handler' = "download" /\ UNCHANGED <<inbox, active>>
    BY <1>0, <1>1, <2>0, <2>3, StoreUntouched
  <2> QED
    BY <1>10, <2>1, <2>2, <2>3 DEF Decide
<1>11. CASE Install
  <2>0. /\ handler \in Working /\ UNCHANGED active
        /\ installed' = [installed EXCEPT ![request.model] = @ \union {Offered}]
    BY <1>11 DEF Install
  <2>1. Offered \in installed'[request.model]
    BY <1>7, <1>8, <2>0
  <2>2. CASE Replies("done") /\ ~request.activate
    BY <1>9, <2>0, <2>1, <2>2
  <2>3. CASE handler' = "activate" /\ UNCHANGED <<request, inbox>>
    <3>1. Activating'
      BY <1>0, <2>1, <2>3 DEF Activating, Offered
    <3> QED
      BY <1>0, <1>7, <2>0, <2>3, <3>1, StoreAdvances
  <2> QED
    BY <1>11, <2>2, <2>3 DEF Install
<1>12. CASE Activate
  <2>1. /\ handler = "activate" /\ UNCHANGED installed /\ Replies("done")
        /\ active' = [active EXCEPT ![request.model] = Offered]
    BY <1>12 DEF Activate
  <2>2. Offered \in installed'[request.model]
    BY <1>0, <2>1 DEF Activating
  <2>3. active'[request.model] = Offered
    BY <1>7, <1>8, <2>1
  <2> QED
    BY <1>9, <2>1, <2>2, <2>3
<1>13. CASE SwitchFails
  <2> DEFINE e == [type |-> "error", model |-> request.model]
  <2>1. /\ inbox' = Append(inbox, e) /\ e.type # "done" /\ handler' = "idle"
        /\ handler \in Working /\ UNCHANGED installed
        /\ active' = [active EXCEPT ![request.model] = Offered]
    BY <1>13 DEF SwitchFails, Replies, Writes
  <2> HIDE DEF e
  <2> QED
    BY <1>0, <1>1, <1>7, <2>1, StoreAdvances
<1>14. CASE Progress
  <2> DEFINE e == [type |-> "progress", model |-> request.model]
  <2>1. /\ inbox' = Append(inbox, e) /\ e.type # "done" /\ UNCHANGED storeVars
        /\ handler = "download" /\ handler' = handler
    BY <1>14 DEF Progress, Writes
  <2> HIDE DEF e
  <2> QED
    BY <1>0, <1>1, <1>7, <2>1, StoreUntouched
<1> QED
  BY <1>2, <1>4, <1>5, <1>6, <1>10, <1>11, <1>12, <1>13, <1>14 DEF HandlerStep, HandlerFails

LEMMA StoreInvStep == CommandInv /\ PlanInv /\ StoreInv /\ [Next]_allVars => StoreInv'
<1> SUFFICES ASSUME CommandInv, PlanInv, StoreInv, [Next]_allVars PROVE StoreInv'
  OBVIOUS
<1>1. CASE ClientStep
  BY <1>1, StoreInvClient
<1>2. CASE HandlerStep \/ Progress
  BY <1>2, StoreInvHandler
<1>3. ASSUME NEW p \in Process, NEW m \in Model, OtherClient(p, m) PROVE StoreInv'
  <2>1. others' # 0
    BY <1>3 DEF OtherClient, CommandInv, Shapes
  <2> QED
    BY <2>1 DEF StoreInv
<1>4. CASE UNCHANGED commandVars
  BY <1>4 DEF commandVars, storeVars, clientVars, wireVars, historyVars, StoreInv, PlansServed,
     Activating, InboxTrue, PlannedAll, Served, Rows, UpToDate, Offered
<1> QED
  BY <1>1, <1>2, <1>3, <1>4 DEF Next, CommandStep, allVars

----------------------------------------------------------------------------

\* A request that the daemon refuses is refused for a cause.
LEMMA RefusedForCause ==
  ASSUME PlanInv, StoreInv, others = 0, request # None, request.action # "installed",
         \/ Offered = None
         \/ request.activate /\ request.model \notin Configured[conn]
         \/ request.action = "update" /\ installed[request.model] = {}
         \/ request.action = "download" /\ Offered \in installed[request.model]
  PROVE  Cause
<1>1. /\ command.kind \in Kind /\ next \in DOMAIN plans /\ next \in Nat \ {0}
      /\ DOMAIN plans = 1 .. Len(plans) /\ Len(plans) \in Nat
      /\ request.model = plans[next].model /\ request.activate = plans[next].activate
      /\ request.action = IF command.kind = "install" THEN "download" ELSE "update"
  BY DEF PlanInv
<1>2. CASE command.kind = "updateAll"
  <2>1. /\ command.catalog[request.model] # None /\ installed[request.model] # {}
        /\ request.activate => request.model \in Configured[source]
    BY <1>1, <1>2 DEF PlanInv, StoreInv, PlannedAll
  <2>2. request.action = "update"
    BY <1>1, <1>2
  <2> QED
    BY <1>2, <2>1, <2>2 DEF Cause, Offered
<1>3. CASE command.kind = "update"
  <2>1. request.action = "update" /\ request.activate = command.activate
    BY <1>1, <1>3 DEF PlanInv
  <2> QED
    BY <1>1, <1>3, <2>1 DEF Cause, Offered
<1>4. CASE command.kind = "install"
  <2>1. request.action = "download" /\ request.activate = command.activate
    BY <1>1, <1>4 DEF PlanInv
  <2>2. ASSUME NEW k \in 1 .. next - 1 PROVE plans[k].model # request.model
    <3>1. k \in DOMAIN plans /\ k # next
      BY <1>1
    <3> QED
      BY <1>1, <1>4, <3>1 DEF PlanInv
  <2> QED
    BY <1>1, <1>4, <2>1, <2>2 DEF Cause, Offered
<1> QED
  BY <1>1, <1>2, <1>3, <1>4 DEF Kind

LEMMA CauseInvInit == Init => CauseInv
<1> SUFFICES ASSUME Init PROVE CauseInv
  OBVIOUS
<1>1. cpc \in {"dial", "redial"}
  BY DEF Init, CommandInit
<1> QED
  BY <1>1 DEF CauseInv, Explained

LEMMA CauseStays ==
  ASSUME UNCHANGED <<installed, command, plans, next, conn, source>>
  PROVE  Cause' <=> Cause
BY DEF Cause

LEMMA CauseInvClient ==
  ASSUME CommandInv, PlanInv, CauseInv, ClientStep
  PROVE  CauseInv'
<1> SUFFICES ASSUME ~trouble', others' = 0 PROVE Explained'
  BY DEF CauseInv
<1> USE DEF Explained, historyVars, storeVars
<1>0. PICK S : inbox \in Seq(S)
  BY DEF CommandInv, Shapes
<1>1. CASE Connect
  <2>1. cpc' \in {"ask", "send"}
    BY <1>1 DEF Connect
  <2> QED
    BY <2>1
<1>2. CASE Breaks
  BY <1>2 DEF Breaks
<1>3. CASE AskInstalled
  <2>1. cpc' = "inventory" /\ DOMAIN inbox' = {}
    BY <1>3 DEF AskInstalled, CommandInv, Turns
  <2> QED
    BY <2>1
<1>4. CASE ReadInventory
  <2>1. /\ cpc = "inventory" /\ 1 \in DOMAIN inbox /\ Head(inbox) = inbox[1]
        /\ ~trouble /\ others = 0
    BY <1>0, <1>4 DEF ReadInventory
  <2>2. Head(inbox).type # "error"
    BY <2>1 DEF CauseInv
  <2>3. cpc' \in {"ok", "redial"}
    BY <1>4, <2>2 DEF ReadInventory
  <2> QED
    BY <2>3
<1>5. CASE Send
  <2>1. cpc' = "read" /\ DOMAIN inbox' = {}
    BY <1>5 DEF Send, CommandInv, Turns
  <2> QED
    BY <2>1
<1>6. CASE Read
  <2>1. /\ cpc = "read" /\ 1 \in DOMAIN inbox /\ Head(inbox) = inbox[1]
        /\ ~trouble /\ others = 0 /\ Explained
        /\ UNCHANGED <<installed, command, plans, conn, source>>
    BY <1>0, <1>6 DEF Read, CauseInv
  <2>2. CASE UNCHANGED <<cpc, next>>
    <3>1. \A k \in DOMAIN inbox' : k + 1 \in DOMAIN inbox /\ inbox'[k] = inbox[k + 1]
      BY <1>0, <1>6 DEF Read
    <3> QED
      BY <2>1, <2>2, <3>1, CauseStays
  <2>3. CASE cpc' \in {"ok", "send"}
    BY <2>3
  <2>4. CASE Head(inbox).type = "error" /\ cpc' = "stopped" /\ UNCHANGED next
    <3>1. Cause
      BY <2>1, <2>4
    <3> QED
      BY <2>1, <2>4, <3>1, CauseStays
  <2> QED
    BY <1>6, <2>2, <2>3, <2>4 DEF Read
<1> QED
  BY <1>1, <1>2, <1>3, <1>4, <1>5, <1>6 DEF ClientStep

\* While a request is with the handler, nothing but progress has been sent.
LEMMA ExplainedWorking ==
  ASSUME CommandInv, PlanInv, UNCHANGED clientVars, request # None, request.action # "installed",
         NEW e, inbox' = inbox \/ inbox' = Append(inbox, e),
         inbox' # inbox => e.type # "error" \/ Cause'
  PROVE  Explained'
<1>1. cpc' = cpc /\ cpc \notin {"inventory", "stopped"}
  BY DEF clientVars, CommandInv, PlanInv, Turns
<1>2. ASSUME cpc = "read", NEW k \in DOMAIN inbox PROVE inbox[k].type # "error"
  BY <1>2 DEF CommandInv, Turns
<1>3. ASSUME cpc = "read", NEW k \in DOMAIN inbox', inbox'[k].type = "error" PROVE Cause'
  BY <1>2, <1>3, InboxGrows
<1> QED
  BY <1>1, <1>3 DEF Explained

LEMMA CauseInvHandler ==
  ASSUME CommandInv, PlanInv, StoreInv, CauseInv, HandlerStep \/ Progress
  PROVE  CauseInv'
<1> SUFFICES ASSUME ~trouble', others' = 0 PROVE Explained'
  BY DEF CauseInv
<1> USE DEF At, storeVars, historyVars
<1>0. UNCHANGED clientVars
  BY DEF HandlerStep, AcceptConn, ServeInstalled, Admit, Decide, Install, Activate,
     SwitchFails, HandlerFails, RepliesTrouble, Progress
<1>1. UNCHANGED <<cpc, command, plans, next, conn, source>>
  BY <1>0 DEF clientVars
<1>2. ~RepliesTrouble /\ ~SwitchFails
  BY DEF RepliesTrouble, SwitchFails
<1>3. /\ ~trouble /\ others = 0 /\ Explained
  BY <1>2 DEF CauseInv, HandlerStep, AcceptConn, ServeInstalled, Admit, Decide, Install, Activate,
     HandlerFails, Progress
<1>4. CASE AcceptConn
  BY <1>1, <1>3, <1>4, CauseStays DEF AcceptConn, Explained
<1>5. CASE ServeInstalled
  <2> DEFINE e == [type |-> "installed_models", rows |-> Rows]
  <2>1. /\ inbox' = Append(inbox, e) /\ e.type # "error" /\ UNCHANGED installed
        /\ request # None /\ request.action = "installed"
    BY <1>2, <1>5 DEF ServeInstalled, Writes, Rows
  <2> HIDE DEF e
  <2>2. \A k \in DOMAIN inbox' : inbox'[k].type = "error" => k \in DOMAIN inbox /\ inbox'[k] = inbox[k]
    BY <2>1, InboxGrows
  <2> QED
    BY <1>1, <1>3, <2>1, <2>2, CauseStays DEF Explained
<1>6. ASSUME handler \in Working PROVE request # None /\ request.action # "installed"
  BY <1>6 DEF CommandInv, Admitted
<1>7. ASSUME NEW type, Replies(type), request # None, request.action # "installed",
             type # "error" \/ Cause'
      PROVE  Explained'
  <2> DEFINE e == [type |-> type, model |-> request.model]
  <2>1. inbox' = Append(inbox, e) /\ e.type = type
    BY <1>7 DEF Replies, Writes
  <2> HIDE DEF e
  <2> QED
    BY <1>0, <1>7, <2>1, ExplainedWorking
<1>8. CASE Admit
  <2>1. request # None /\ request.action # "installed" /\ UNCHANGED installed
    BY <1>2, <1>8 DEF Admit
  <2>2. CASE Replies("error") /\ (Offered = None \/ (request.activate /\ request.model \notin Configured[conn]))
    <3>1. Cause
      BY <1>3, <2>1, <2>2, RefusedForCause
    <3> QED
      BY <1>1, <1>7, <2>1, <2>2, <3>1, CauseStays
  <2>3. CASE UNCHANGED inbox
    BY <1>0, <2>1, <2>3, ExplainedWorking
  <2> QED
    BY <1>2, <1>8, <2>2, <2>3 DEF Admit
<1>9. CASE Decide
  <2>1. request # None /\ request.action # "installed" /\ UNCHANGED installed
    BY <1>6, <1>9 DEF Decide
  <2>2. CASE /\ Replies("error")
             /\ \/ request.action = "update" /\ installed[request.model] = {}
                \/ request.action = "download" /\ Offered \in installed[request.model]
    <3>1. Cause
      BY <1>3, <2>1, <2>2, RefusedForCause
    <3> QED
      BY <1>1, <1>7, <2>1, <2>2, <3>1, CauseStays
  <2>3. CASE Replies("done")
    BY <1>7, <2>1, <2>3
  <2>4. CASE UNCHANGED inbox
    BY <1>0, <2>1, <2>4, ExplainedWorking
  <2> QED
    BY <1>9, <2>2, <2>3, <2>4 DEF Decide
<1>10. CASE Install
  <2>1. request # None /\ request.action # "installed"
    BY <1>6, <1>10 DEF Install
  <2>2. UNCHANGED inbox \/ Replies("done")
    BY <1>10 DEF Install
  <2> QED
    BY <1>0, <1>7, <2>1, <2>2, ExplainedWorking
<1>11. CASE Activate
  BY <1>6, <1>7, <1>11 DEF Activate
<1>12. CASE Progress
  <2> DEFINE e == [type |-> "progress", model |-> request.model]
  <2>1. inbox' = Append(inbox, e) /\ e.type # "error" /\ request # None /\ request.action # "installed"
    BY <1>6, <1>12 DEF Progress, Writes
  <2> HIDE DEF e
  <2> QED
    BY <1>0, <2>1, ExplainedWorking
<1> QED
  BY <1>2, <1>4, <1>5, <1>8, <1>9, <1>10, <1>11, <1>12 DEF HandlerStep, HandlerFails

LEMMA CauseInvStep ==
  CommandInv /\ PlanInv /\ StoreInv /\ CauseInv /\ [Next]_allVars => CauseInv'
<1> SUFFICES ASSUME CommandInv, PlanInv, StoreInv, CauseInv, [Next]_allVars PROVE CauseInv'
  OBVIOUS
<1>1. CASE ClientStep
  BY <1>1, CauseInvClient
<1>2. CASE HandlerStep \/ Progress
  BY <1>2, CauseInvHandler
<1>3. ASSUME NEW p \in Process, NEW m \in Model, OtherClient(p, m) PROVE CauseInv'
  <2>1. others' # 0
    BY <1>3 DEF OtherClient, CommandInv, Shapes
  <2> QED
    BY <2>1 DEF CauseInv
<1>4. CASE UNCHANGED commandVars
  BY <1>4 DEF commandVars, storeVars, clientVars, wireVars, historyVars, CauseInv, Explained, Cause
<1> QED
  BY <1>1, <1>2, <1>3, <1>4 DEF Next, CommandStep, allVars

\* The three hold in every behaviour, each on top of those before it.
LEMMA CommandDoes == Spec => [](PlanInv /\ StoreInv /\ CauseInv)
<1>1. Init => PlanInv /\ StoreInv /\ CauseInv
  BY PlanInvInit, StoreInvInit, CauseInvInit
<1>2. /\ CommandInv /\ PlanInv /\ StoreInv /\ CauseInv /\ [Next]_allVars
      => PlanInv' /\ StoreInv' /\ CauseInv'
  BY PlanInvStep, StoreInvStep, CauseInvStep
<1> QED
  BY <1>1, <1>2, CommandInvariant, PTL DEF Spec

\* For any catalogs, configurations and stores, and daemons replaced at any
\* moment: as long as no other client changes the store, a plan whose answer
\* runCatalogActionPlans has read is in the store, and active if that was
\* asked; and once the inventory is read, "update -all" leaves out of its plans
\* only models that are at the revision of yllmctl's catalog.
THEOREM CommandDoesAsAnswered == Spec => []DoneAsAnswered
<1>1. StoreInv => DoneAsAnswered
  BY DEF StoreInv, PlansServed, Served, PlannedAll, UpToDate, DoneAsAnswered
<1> QED
  BY <1>1, CommandDoes, PTL

\* For the same commands: one that no failing call and no other client has
\* disturbed is stopped only by what the user asked for, or, for
\* "update -all", by a daemon with another catalog than yllmctl's or another
\* configuration than that of the daemon that answered with the inventory.
THEOREM CommandStopsForCause == Spec => []StopsOnlyForCause
<1>1. CauseInv => StopsOnlyForCause
  BY DEF CauseInv, Explained, Cause, StopsOnlyForCause
<1> QED
  BY <1>1, CommandDoes, PTL
====
