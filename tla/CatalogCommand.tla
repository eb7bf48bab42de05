---- MODULE CatalogCommand ----
(***************************************************************************)
(* One catalog command of yllmctl (cmd/yllmctl/main.go: "models install",  *)
(* "models choose", "models update", "models update -all") against the     *)
(* daemons of SocketLifecycle.                                             *)
(*                                                                         *)
(* The command works on what it knew when it began: the catalog it was     *)
(* built with, and, for -all, an inventory that it read over an earlier    *)
(* connection.  Meanwhile the daemon may be replaced by one with another   *)
(* catalog and configuration, and other clients administer the same store. *)
(* It sends one request per plan and stops at the first error.             *)
(***************************************************************************)
EXTENDS SocketLifecycle, Sequences, Functions

CONSTANTS
  SortedNames, \* the variants of the catalogs, sorted by ID
  Families,    \* the variants of each family, in the order of the catalog
  Revision,    \* revisions of artifacts
  None,        \* no revision, no process, no request
  Catalogs,    \* catalogs: the qualified revision of each variant, or None
  CatalogOf,   \* the catalog each daemon was built with
  Configured,  \* the variants each daemon's configuration names
  MaxOther,    \* bound on changes by other clients
  MaxProgress  \* bound on unread progress reports

Model == Range(SortedNames)
Distinct(s) == \A k, l \in DOMAIN s : s[k] = s[l] => k = l

\* Validate (internal/catalog/catalog.go) refuses a variant that is listed twice.
ASSUME CatalogAssumption ==
  /\ SortedNames \in Seq(Model) /\ Distinct(SortedNames)
  /\ \A f \in DOMAIN Families : Families[f] \in Seq(Model) /\ Distinct(Families[f])
  /\ None \notin Revision \union Process
  /\ Catalogs \subseteq [Model -> Revision \union {None}]
  /\ CatalogOf \in [Process -> Catalogs]
  /\ Configured \in [Process -> SUBSET Model]
  /\ MaxOther \in Nat /\ MaxProgress \in Nat

VARIABLES
  installed,  \* the revisions of each model in the store
  active,     \* the one "current" points to
  command,    \* what the user asked for, and the catalog yllmctl was built with
  cpc,        \* where the command is
  plans,      \* its catalogActionPlans
  next,       \* the plan it is at
  source,     \* the daemon that answered with the inventory
  conn,       \* the daemon at the other end of its connection
  handler,    \* the handleConn goroutine there
  request,    \* the request it has not answered
  inbox,      \* events not yet read by the command
  others,     \* history: changes other clients have made
  trouble     \* history: something failed, or the daemon refused for a reason of its own

clientVars == <<command, cpc, plans, next, source, conn>>
wireVars == <<handler, request, inbox>>
storeVars == <<installed, active>>
historyVars == <<others, trouble>>
commandVars == <<storeVars, clientVars, wireVars, historyVars>>
allVars == <<socketVars, commandVars>>

Kind == {"updateAll", "update", "install"}
Ended == {"ok", "stopped", "failed"}

----------------------------------------------------------------------------
(* What is selected: a set of one selection, or of none for an error, which *)
(* ends the command before it connects.                                    *)

Lists(S) == UNION {[1 .. n -> S] : n \in 0 .. Len(SortedNames)}

\* The members of S, each once, in the order they have in "list".
InOrder(list, S) ==
  {s \in Lists(S) :
     /\ Range(s) = S
     /\ \A k, l \in DOMAIN s : k < l =>
          \E a, b \in DOMAIN list : a < b /\ list[a] = s[k] /\ list[b] = s[l]}

\* The qualified variants of a family, in the order of the catalog.
Qualified(catalog, f) == InOrder(Families[f], {m \in Range(Families[f]) : catalog[m] # None})

\* catalogInstallSelection, after "models install".
InstallSelection(catalog, id, requested, all) ==
  CASE id \in DOMAIN Families /\ all /\ requested = <<>> -> Qualified(catalog, id)
    [] id \in DOMAIN Families /\ ~all /\ Distinct(requested)
         /\ Range(requested) \subseteq Range(Families[id]) -> {requested}
    [] id \in Model /\ ~all /\ requested = <<>> -> {<<id>>}
    [] OTHER -> {}

\* selectedVariants, after "models choose": each part is a number in the list
\* of qualified variants or the ID of one of them.
GuidedSelection(catalog, f, parts) ==
  LET picked(offered) == [k \in DOMAIN parts |->
                            IF parts[k] \in DOMAIN offered THEN offered[parts[k]] ELSE parts[k]]
  IN {picked(offered) : offered \in
        {o \in Qualified(catalog, f) : Distinct(picked(o)) /\ Range(picked(o)) \subseteq Range(o)}}

Installs(catalog) ==
  {InstallSelection(catalog, id, requested, all) :
     id \in DOMAIN Families \union Model, requested \in Lists(Model), all \in BOOLEAN}
Choices == Lists(Model \union 0 .. Len(SortedNames) + 1)
Guided(catalog) == {GuidedSelection(catalog, f, parts) : f \in DOMAIN Families, parts \in Choices}

\* What a command of kind "kind" may have been given.
Selections(kind, catalog) ==
  CASE kind = "updateAll" -> {<<>>}
    [] kind = "update" -> {<<m>> : m \in Model}
    [] kind = "install" -> ((UNION Installs(catalog)) \union UNION Guided(catalog)) \ {<<>>}

\* Deliberate variant: the wish to activate is passed on for every model.
PendingPlansActivating(catalog, rows, activate) ==
  LET pending == {m \in Model :
        /\ rows[m].versions # {} /\ catalog[m] # None
        /\ catalog[m] \notin rows[m].versions \/ (activate /\ rows[m].active # catalog[m])}
  IN {[k \in DOMAIN models |-> [model |-> models[k], activate |-> activate]] :
        models \in InOrder(SortedNames, pending)}

\* Deliberate variant: a revision that is already there needs nothing.
PendingPlansMissing(catalog, rows, activate) ==
  LET pending == {m \in Model :
        rows[m].versions # {} /\ catalog[m] # None /\ catalog[m] \notin rows[m].versions}
  IN {[k \in DOMAIN models |->
         [model |-> models[k], activate |-> activate /\ rows[models[k]].configured]] :
        models \in InOrder(SortedNames, pending)}

\* catalogUpdateStatuses and pendingCatalogUpdatePlans, as a set of one list.
PendingPlans(catalog, rows, activate) ==
  LET pending == {m \in Model :
        /\ rows[m].versions # {} /\ catalog[m] # None
        /\ \/ catalog[m] \notin rows[m].versions
           \/ activate /\ rows[m].configured /\ rows[m].active # catalog[m]}
  IN {[k \in DOMAIN models |->
         [model |-> models[k], activate |-> activate /\ rows[models[k]].configured]] :
        models \in InOrder(SortedNames, pending)}

----------------------------------------------------------------------------
CommandInit ==
  /\ installed \in [Model -> SUBSET Revision]
  /\ active \in [Model -> Revision \union {None}]
  /\ \A m \in Model : active[m] \in installed[m] \union {None}
  /\ command \in [kind : Kind, activate : BOOLEAN, catalog : Catalogs]
  /\ \E chosen \in Selections(command.kind, command.catalog) :
       plans = [k \in DOMAIN chosen |-> [model |-> chosen[k], activate |-> command.activate]]
  /\ cpc = IF command.kind = "updateAll" THEN "dial" ELSE "redial"
  /\ next = 1
  /\ source = None /\ conn = None
  /\ handler = "none" /\ request = None /\ inbox = <<>>
  /\ others = 0 /\ trouble = FALSE

----------------------------------------------------------------------------
(* The command *)

\* ipc.Dial, for the inventory and again for the plans.
Connect ==
  /\ cpc \in {"dial", "redial"}
  /\ IF path \in listening
     THEN /\ conn' = path /\ handler' = "backlog"
          /\ cpc' = IF cpc = "dial" THEN "ask" ELSE "send"
          /\ UNCHANGED trouble
     ELSE cpc' = "failed" /\ trouble' = TRUE /\ UNCHANGED <<conn, handler>>
  /\ request' = None /\ inbox' = <<>>
  /\ UNCHANGED <<storeVars, command, plans, next, source, others>>

\* The daemon has ended, or has closed its listener before it accepted.
Broken == pc[conn] \in Over \/ (handler = "backlog" /\ conn \notin listening)

\* A send, or a read with nothing left to read, on a connection that is gone.
Breaks ==
  /\ cpc \in {"ask", "inventory", "send", "read"}
  /\ Broken /\ inbox = <<>>
  /\ cpc' = "failed" /\ trouble' = TRUE
  /\ UNCHANGED <<storeVars, command, plans, next, source, conn, wireVars, others>>

\* readInstalledInventory
AskInstalled ==
  /\ cpc = "ask" /\ ~Broken
  /\ request' = [action |-> "installed", model |-> None, activate |-> FALSE]
  /\ cpc' = "inventory"
  /\ UNCHANGED <<storeVars, command, plans, next, source, conn, handler, inbox, historyVars>>

\* installedCatalogUpdates and runModelsUpdateAll.  The first connection is
\* closed.
ReadInventory ==
  /\ cpc = "inventory" /\ inbox # <<>>
  /\ IF Head(inbox).type = "error"
     THEN cpc' = "stopped" /\ UNCHANGED plans
     ELSE /\ plans' \in PendingPlans(command.catalog, Head(inbox).rows, command.activate)
          /\ cpc' = IF plans' = <<>> THEN "ok" ELSE "redial"
  /\ source' = conn
  /\ inbox' = Tail(inbox)
  /\ UNCHANGED <<storeVars, command, next, conn, handler, request, historyVars>>

\* runCatalogActionPlans: a request, then events until its last.
Send ==
  /\ cpc = "send" /\ ~Broken
  /\ request' = [action |-> IF command.kind = "install" THEN "download" ELSE "update",
                 model |-> plans[next].model, activate |-> plans[next].activate]
  /\ cpc' = "read"
  /\ UNCHANGED <<storeVars, command, plans, next, source, conn, handler, inbox, historyVars>>

\* Deliberate variant: a progress report is taken for the answer.
ReadAnyEvent ==
  /\ cpc = "read" /\ inbox # <<>>
  /\ inbox' = Tail(inbox)
  /\ IF Head(inbox).type = "error"
     THEN cpc' = "stopped" /\ UNCHANGED next
     ELSE cpc' = (IF next = Len(plans) THEN "ok" ELSE "send") /\ next' = next + 1
  /\ UNCHANGED <<storeVars, command, plans, source, conn, handler, request, historyVars>>

Read ==
  /\ cpc = "read" /\ inbox # <<>>
  /\ inbox' = Tail(inbox)
  /\ \/ Head(inbox).type = "progress" /\ UNCHANGED <<cpc, next>>
     \/ /\ Head(inbox).type = "done"
        /\ cpc' = IF next = Len(plans) THEN "ok" ELSE "send"
        /\ next' = next + 1
     \/ Head(inbox).type = "error" /\ cpc' = "stopped" /\ UNCHANGED next
  /\ UNCHANGED <<storeVars, command, plans, source, conn, handler, request, historyVars>>

ClientStep == Connect \/ Breaks \/ AskInstalled \/ ReadInventory \/ Send \/ Read

----------------------------------------------------------------------------
(* The daemon's goroutine for this connection.  Goroutines run until the   *)
(* process ends, so also while it shuts down.                              *)

Works(p) == pc[p] \in {"serve", "failing", "drain"}
At(h) == conn # None /\ Works(conn) /\ handler = h
Writes(event) == inbox' = Append(inbox, event)

\* An event carries the ID of its request; here the model stands for it, since
\* the plans of a command are about different models.
Replies(type) ==
  /\ Writes([type |-> type, model |-> request.model])
  /\ request' = None /\ handler' = "idle"

\* Something the model does not explain: a failing call, or a refusal for the
\* license or because the daemon is not idle.
RepliesTrouble == Replies("error") /\ trouble' = TRUE /\ UNCHANGED <<storeVars, clientVars, others>>

AcceptConn ==
  /\ At("backlog") /\ pc[conn] = "serve"
  /\ handler' = "idle"
  /\ UNCHANGED <<storeVars, clientVars, request, inbox, historyVars>>

\* listInstalledModels, under modelMu.
ServeInstalled ==
  /\ At("idle") /\ request # None /\ request.action = "installed"
  /\ \/ /\ Writes([type |-> "installed_models",
                   rows |-> [m \in Model |-> [versions |-> installed[m], active |-> active[m],
                                              configured |-> m \in Configured[conn]]]])
        /\ request' = None /\ UNCHANGED handler
        /\ UNCHANGED <<storeVars, clientVars, historyVars>>
     \/ RepliesTrouble

Offered == CatalogOf[conn][request.model]

\* Deliberate variant: whether the model is configured is left to yllmctl.
AdmitTrusting ==
  /\ At("idle") /\ request # None /\ request.action # "installed"
  /\ \/ /\ IF Offered = None
           THEN Replies("error")
           ELSE handler' = "admitted" /\ UNCHANGED <<request, inbox>>
        /\ UNCHANGED <<storeVars, clientVars, historyVars>>
     \/ RepliesTrouble

\* installCatalogArtifact up to modelMu.
Admit ==
  /\ At("idle") /\ request # None /\ request.action # "installed"
  /\ \/ /\ IF Offered = None \/ (request.activate /\ request.model \notin Configured[conn])
           THEN Replies("error")
           ELSE handler' = "admitted" /\ UNCHANGED <<request, inbox>>
        /\ UNCHANGED <<storeVars, clientVars, historyVars>>
     \/ RepliesTrouble

\* Deliberate variant: an update that finds nothing to do says nothing.
DecideSilently ==
  /\ At("admitted")
  /\ LET m == request.model IN
       CASE request.action = "update" /\ installed[m] = {} ->
              Replies("error") /\ UNCHANGED active
         [] request.action = "download" /\ Offered \in installed[m] ->
              Replies("error") /\ UNCHANGED active
         [] request.action = "update" /\ Offered \in installed[m] ->
              /\ request' = None /\ handler' = "idle" /\ UNCHANGED inbox
              /\ active' = IF request.activate THEN [active EXCEPT ![m] = Offered] ELSE active
         [] OTHER -> handler' = "download" /\ UNCHANGED <<request, inbox, active>>
  /\ UNCHANGED <<installed, clientVars, historyVars>>

\* Under modelMu, to the decision about a download: model_not_installed,
\* version_exists, up_to_date.
Decide ==
  /\ At("admitted")
  /\ LET m == request.model IN
       CASE request.action = "update" /\ installed[m] = {} ->
              Replies("error") /\ UNCHANGED active
         [] request.action = "download" /\ Offered \in installed[m] ->
              Replies("error") /\ UNCHANGED active
         [] request.action = "update" /\ Offered \in installed[m] ->
              /\ Replies("done")
              /\ active' = IF request.activate THEN [active EXCEPT ![m] = Offered] ELSE active
         [] OTHER -> handler' = "download" /\ UNCHANGED <<request, inbox, active>>
  /\ UNCHANGED <<installed, clientVars, historyVars>>

Progress ==
  /\ At("download") /\ Len(inbox) < MaxProgress
  /\ Writes([type |-> "progress", model |-> request.model])
  /\ UNCHANGED <<storeVars, clientVars, handler, request, historyVars>>

\* The download is verified and InstallLocalFile moves it into the store; a
\* version that another daemon has put there meanwhile makes it fail.
Install ==
  /\ At("download") /\ Offered \notin installed[request.model]
  /\ installed' = [installed EXCEPT ![request.model] = @ \union {Offered}]
  /\ IF request.activate
     THEN handler' = "activate" /\ UNCHANGED <<request, inbox>>
     ELSE Replies("done")
  /\ UNCHANGED <<active, clientVars, historyVars>>

Activate ==
  /\ At("activate")
  /\ active' = [active EXCEPT ![request.model] = Offered]
  /\ Replies("done")
  /\ UNCHANGED <<installed, clientVars, historyVars>>

\* ActivateVersion switches the link and fails to write the record.
SwitchFails ==
  /\ \/ At("activate")
     \/ At("admitted") /\ request.action = "update" /\ request.activate
          /\ Offered \in installed[request.model]
  /\ active' = [active EXCEPT ![request.model] = Offered]
  /\ Replies("error") /\ trouble' = TRUE
  /\ UNCHANGED <<installed, clientVars, others>>

\* Any other call of these may fail.
HandlerFails == (At("admitted") \/ At("download") \/ At("activate")) /\ RepliesTrouble

HandlerStep ==
  \/ AcceptConn \/ ServeInstalled \/ Admit \/ Decide
  \/ Install \/ Activate \/ SwitchFails \/ HandlerFails

----------------------------------------------------------------------------
\* Another client's request to daemon p: it downloads or activates a version,
\* or deletes one or the whole model.  modelMu keeps it out of the present
\* request, but only in the same process.
OtherClient(p, m) ==
  /\ others < MaxOther
  /\ Works(p)
  /\ ~(p = conn /\ handler \in {"download", "activate"})
  /\ \/ /\ CatalogOf[p][m] # None
        /\ installed' = [installed EXCEPT ![m] = @ \union {CatalogOf[p][m]}]
        /\ UNCHANGED active
     \/ /\ m \in Configured[p]
        /\ \E r \in installed[m] : active' = [active EXCEPT ![m] = r]
        /\ UNCHANGED installed
     \/ /\ \E r \in installed[m] \ {active[m]} : installed' = [installed EXCEPT ![m] = @ \ {r}]
        /\ UNCHANGED active
     \/ /\ m \notin Configured[p] /\ active[m] = None
        /\ installed' = [installed EXCEPT ![m] = {}]
        /\ UNCHANGED active
  /\ others' = others + 1
  /\ UNCHANGED <<clientVars, wireVars, trouble>>

CommandStep == ClientStep \/ HandlerStep \/ Progress \/ \E p \in Process, m \in Model : OtherClient(p, m)

Init == SocketInit /\ CommandInit

Next ==
  \/ SocketNext /\ UNCHANGED commandVars
  \/ CommandStep /\ UNCHANGED socketVars

Spec == Init /\ [][Next]_allVars

\* Processes run.  A download ends one way or the other: the HTTP client has
\* no timeout, so this is an assumption about the server it loads from.
Fairness ==
  /\ \A p \in Process : WF_allVars(OwnStep(p) /\ Meets /\ UNCHANGED commandVars)
  /\ WF_allVars(ClientStep /\ UNCHANGED socketVars)
  /\ WF_allVars(HandlerStep /\ UNCHANGED socketVars)

----------------------------------------------------------------------------
(* Properties *)

\* Types of the command and its connection.
CommandTypeOK ==
  /\ installed \in [Model -> SUBSET Revision]
  /\ active \in [Model -> Revision \union {None}]
  /\ command \in [kind : Kind, activate : BOOLEAN, catalog : Catalogs]
  /\ cpc \in {"dial", "ask", "inventory", "redial", "send", "read"} \union Ended
  /\ plans \in Seq([model : Model, activate : BOOLEAN])
  /\ cpc \in {"redial", "send", "read"} => next \in DOMAIN plans
  /\ conn \in Process \union {None}
  /\ handler \in {"none", "backlog", "idle", "admitted", "download", "activate"}
  /\ others \in 0 .. MaxOther
  /\ trouble \in BOOLEAN

\* runCatalogActionPlans does not look at the IDs of events.  Still, what it
\* reads after a request is about that request's model, and nothing is left
\* unread or unanswered when it sends the next one.
AnswersMatchPlans ==
  /\ cpc = "send" => inbox = <<>> /\ request = None
  /\ cpc = "read" => \A k \in DOMAIN inbox : inbox[k].model = plans[next].model

\* What the command has reported is so, unless somebody else has changed the
\* store: a plan that was answered has its revision installed, and active if
\* that was asked; and "update -all" plans whatever is not at the revision of
\* its catalog (operations.md: it "downloads every available newer revision").
DoneAsAnswered ==
  others = 0 =>
    /\ \A k \in 1 .. next - 1 :
         LET m == plans[k].model IN
           /\ CatalogOf[conn][m] \in installed[m]
           /\ plans[k].activate => active[m] = CatalogOf[conn][m]
    /\ command.kind = "updateAll" /\ source # None /\ cpc # "stopped" =>
         \A m \in Model :
           (\A k \in DOMAIN plans : plans[k].model # m)
             /\ installed[m] # {} /\ command.catalog[m] # None =>
               /\ command.catalog[m] \in installed[m]
               /\ command.activate /\ m \in Configured[source] => active[m] = command.catalog[m]

\* A command that nobody disturbed and nothing failed for is not stopped by
\* requests of its own making: "update -all" only when the daemon was replaced
\* by a different one or has another catalog than yllmctl, an installation only
\* for what it was told to do.
StopsOnlyForCause ==
  cpc = "stopped" /\ ~trouble /\ others = 0 =>
    LET m == plans[next].model
        unfit == CatalogOf[conn][m] = None \/ (command.activate /\ m \notin Configured[conn])
    IN CASE command.kind = "updateAll" ->
              CatalogOf[conn] # command.catalog \/ Configured[conn] # Configured[source]
         [] command.kind = "update" -> unfit \/ installed[m] = {}
         [] command.kind = "install" ->
              \/ unfit
              \/ CatalogOf[conn][m] \in installed[m] /\ \A k \in 1 .. next - 1 : plans[k].model # m

\* docs/model-catalog.md: "Unconfigured models are updated but are not
\* activated".  Whatever configuration the inventory was read under, the
\* command activates only what the daemon that does it has configured.
UnconfiguredNeverActivated ==
  [][\A m \in Model :
       active'[m] # active[m] /\ others' = others => m \in Configured[conn]]_allVars

\* The command ends, whatever happens to the daemon it talks to: no read waits
\* for an answer that nobody will write.
CommandEnds == <>(cpc \in Ended)
====
