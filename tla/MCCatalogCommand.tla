---- MODULE MCCatalogCommand ----
(* Small instances of CatalogCommand for TLC. *)
EXTENDS CatalogCommand, TLC

CONSTANTS m1, m2, fam, d1, d2, d3

MCSortedNames == <<m1, m2>>
MCFamilies == fam :> <<m2, m1>>
Old == m1 :> 1 @@ m2 :> None
New == m1 :> 2 @@ m2 :> 1
MCCatalogs == {Old, New}
MCCatalogOf == d1 :> Old @@ d2 :> New @@ d3 :> New
MCConfigured == d1 :> {m1, m2} @@ d2 :> {m1} @@ d3 :> {m1}

\* Three daemons and nobody who talks to them.
Undisturbed ==
  /\ SocketInit
  /\ installed = [m \in Model |-> {}] /\ active = [m \in Model |-> None]
  /\ command = [kind |-> "update", activate |-> FALSE, catalog |-> New]
  /\ cpc = "ok" /\ plans = <<>> /\ next = 1
  /\ source = None /\ conn = None
  /\ handler = "none" /\ request = None /\ inbox = <<>>
  /\ others = MaxOther /\ trouble = FALSE

\* What an old daemon leaves behind, and a new one.
Stores ==
  {[versions |-> m1 :> {1} @@ m2 :> {}, current |-> m1 :> 1 @@ m2 :> None],
   [versions |-> m1 :> {1, 2} @@ m2 :> {1}, current |-> m1 :> 1 @@ m2 :> None]}

\* A command meets an old daemon, which a new one may replace.
Commanded ==
  /\ \E s \in Stores : installed = s.versions /\ active = s.current
  /\ pc = d1 :> "serve" @@ d2 :> "new" @@ d3 :> "done"
  /\ path = d1 /\ listening = {d1} /\ signalled = {} /\ met = {}
  /\ CommandInit
  /\ command.kind = "updateAll" \/ (command.catalog = New /\ 2 \notin installed[m1])
  /\ command.kind = "install" => Len(plans) = 2

SmallInit == Undisturbed \/ Commanded

SmallSpec == SmallInit /\ [][Next]_allVars /\ Fairness
====
