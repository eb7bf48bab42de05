---- MODULE Routing ----
(***************************************************************************)
(* From a configuration to the models a request is tried on: the checks of *)
(* routing in Validate (internal/config/config.go), NewRegistry and        *)
(* ResolveTargetWithAvailability (internal/models/registry.go), and        *)
(* NormalizedTarget (internal/protocol/protocol.go).                       *)
(*                                                                         *)
(* Two pieces of code give an identifier its meaning: the validator looks  *)
(* it up among the names first and then among the aliases, the registry    *)
(* fills one table while it ranges over a Go map, in any order.  Requests  *)
(* only read, so one at a time is enough.                                  *)
(***************************************************************************)
EXTENDS Integers, Sequences, Functions

CONSTANTS
  Model,    \* names of models
  Alias,    \* other identifiers
  Group,
  Profile,
  None,     \* the empty string
  Configs   \* the configurations the file may hold

Identifier == Model \union Alias
Policy == {"", "reject", "use_fallback", "other"}

\* What Parse has read.  "settings" stands for the settings that are checked
\* one by one and have nothing to do with routing.
IsConfig(c) ==
  /\ c.settings \in BOOLEAN
  /\ c.models \subseteq Model
  /\ c.enabled \subseteq c.models
  /\ c.aliases \in [c.models -> Seq(Identifier)]
  /\ c.resident \in Identifier \union {None}
  /\ c.policy \in Policy
  /\ DOMAIN c.groups \subseteq Group
  /\ \A g \in DOMAIN c.groups :
       /\ c.groups[g].default \in Profile \union {None}
       /\ DOMAIN c.groups[g].profiles \subseteq Profile
       /\ \A p \in DOMAIN c.groups[g].profiles :
            /\ c.groups[g].profiles[p] \in Seq(Identifier)
            /\ c.groups[g].profiles[p] # <<>>
  /\ c.route \in [group : Group \union {None}, profile : Profile \union {None}]

ASSUME NoneAssumption == None \notin Identifier \union Group \union Profile
ASSUME ConfigsAssumption == \A c \in Configs : IsConfig(c)

Target == [model : Identifier \union {None}, group : Group \union {None},
           profile : Profile \union {None}]
NoTarget == [model |-> None, group |-> None, profile |-> None]

VARIABLES
  cfg,           \* the configuration
  pc,            \* "parsed", "refused", "build", "ready", "exact", "route", "try", "collect"
  registered,    \* models the loop of NewRegistry has seen
  byIdentifier,  \* the registry's table
  asker,         \* who asks: a request, or the cooldown for the resident model
  target,        \* the target being resolved, or resolved last
  route,         \* the group and profile selected for it
  index,         \* the candidate under consideration
  models,        \* ResolvedModel and, after it, FallbackModels; empty on an error
  answer         \* the outcome of the last resolution

vars == <<cfg, pc, registered, byIdentifier, asker, target, route, index, models, answer>>
registryVars == <<cfg, registered, byIdentifier>>
resolution == <<asker, target, route, index, models, answer>>

NoRoute == [group |-> None, profile |-> None]
Answer == {"none", "resolved", "invalid_request", "unknown", "unavailable"}

Init ==
  /\ cfg \in Configs
  /\ pc = "parsed"
  /\ registered = {}
  /\ byIdentifier = [i \in Identifier |-> None]
  /\ asker = "request"
  /\ target = NoTarget /\ route = NoRoute /\ index = 1
  /\ models = <<>>
  /\ answer = "none"

----------------------------------------------------------------------------
(* Validate *)

\* resolveModelReference.  An alias of several models leads to any of them.
References(c, i) ==
  IF i \in c.models THEN {i} ELSE {m \in c.models : i \in Range(c.aliases[m])}

\* Deliberate variant: only aliases are compared with one another.
ClaimedOnceAliases(c) ==
  \A m, n \in c.models : \A k \in DOMAIN c.aliases[m], l \in DOMAIN c.aliases[n] :
    c.aliases[m][k] = c.aliases[n][l] => m = n /\ k = l

\* claimIdentifier: no identifier is claimed twice, as a name or as an alias.
ClaimedOnce(c) ==
  /\ \A m \in c.models : Range(c.aliases[m]) \intersect c.models = {}
  /\ \A m, n \in c.models : \A k \in DOMAIN c.aliases[m], l \in DOMAIN c.aliases[n] :
       c.aliases[m][k] = c.aliases[n][l] => m = n /\ k = l

\* Deliberate variant: candidates are compared as they are written.
CandidatesOKByName(c, list) ==
  /\ \A k \in DOMAIN list : References(c, list[k]) # {}
  /\ \A k, l \in DOMAIN list : k # l => list[k] # list[l]

\* Every candidate of a profile is configured, and none is repeated under any
\* of its names.
CandidatesOK(c, list) ==
  /\ \A k \in DOMAIN list : References(c, list[k]) # {}
  /\ \A k, l \in DOMAIN list :
       k # l => References(c, list[k]) \intersect References(c, list[l]) = {}

GroupsOK(c) ==
  \A g \in DOMAIN c.groups :
    LET group == c.groups[g] IN
      /\ DOMAIN group.profiles # {}
      /\ group.default \in DOMAIN group.profiles \union {None}
      /\ \A p \in DOMAIN group.profiles : CandidatesOK(c, group.profiles[p])

\* Deliberate variant: a default route without a profile is taken as it is.
DefaultOKGroupOnly(c) ==
  /\ c.route.group \in DOMAIN c.groups
  /\ c.route.profile \in DOMAIN c.groups[c.route.group].profiles \union {None}

DefaultOK(c) ==
  /\ c.route.group \in DOMAIN c.groups
  /\ LET group == c.groups[c.route.group] IN
       (IF c.route.profile # None THEN c.route.profile ELSE group.default)
         \in DOMAIN group.profiles

Valid(c) ==
  /\ c.settings
  /\ c.models # {}
  /\ ClaimedOnce(c)
  /\ c.resident # None => References(c, c.resident) # {}
  /\ c.policy # "other"
  /\ GroupsOK(c)
  /\ DefaultOK(c)

Validate ==
  /\ pc = "parsed"
  /\ pc' = IF Valid(cfg) THEN "build" ELSE "refused"
  /\ UNCHANGED <<registryVars, resolution>>

----------------------------------------------------------------------------
(* NewRegistry *)

\* One round of the loop over cfg.Models, in the order of a Go map.
Register(m) ==
  /\ pc = "build"
  /\ m \in cfg.models \ registered
  /\ registered' = registered \union {m}
  /\ byIdentifier' = [i \in Identifier |->
       IF i = m \/ i \in Range(cfg.aliases[m]) THEN m ELSE byIdentifier[i]]
  /\ pc' = IF registered' = cfg.models THEN "ready" ELSE "build"
  /\ UNCHANGED <<cfg, resolution>>

----------------------------------------------------------------------------
(* ResolveTarget *)

Rejects == cfg.policy = "reject"
Available(m) == m \in cfg.enabled

\* The resolution ends with "result" and the models "found".
Returns(result, found) ==
  /\ pc' = "ready"
  /\ answer' = result
  /\ models' = found

\* NormalizedTarget refuses a top-level model, a model with a route, and a
\* profile without its group.
Malformed(top, t) ==
  \/ top
  \/ t.model # None /\ (t.group # None \/ t.profile # None)
  \/ t.profile # None /\ t.group = None

\* enqueueGenerate normalises the target of a request, or Resident() asks for
\* the default route when no resident model is named.
Ask(who, top, t) ==
  /\ pc = "ready"
  /\ asker' = who /\ route' = NoRoute /\ index' = 1
  /\ IF Malformed(top, t)
     THEN Returns("invalid_request", <<>>) /\ target' = NoTarget
     ELSE /\ pc' = IF t.model # None THEN "exact" ELSE "route"
          /\ target' = t /\ answer' = "none" /\ models' = <<>>
  /\ UNCHANGED registryVars

AskResident == cfg.resident = None /\ Ask("resident", FALSE, NoTarget)

\* Resident() with a resident model: enabled or not.
NamedResident ==
  /\ pc = "ready"
  /\ cfg.resident # None
  /\ LET m == byIdentifier[cfg.resident] IN
       IF m = None THEN Returns("unknown", <<>>) ELSE Returns("resolved", <<m>>)
  /\ asker' = "resident" /\ target' = [NoTarget EXCEPT !.model = cfg.resident]
  /\ route' = NoRoute /\ index' = 1
  /\ UNCHANGED registryVars

Exact ==
  /\ pc = "exact"
  /\ LET m == byIdentifier[target.model] IN
       CASE m = None -> Returns("unknown", <<>>)
         [] m # None /\ ~Available(m) -> Returns("unavailable", <<>>)
         [] OTHER -> Returns("resolved", <<m>>)
  /\ UNCHANGED <<registryVars, asker, target, route, index>>

\* The group and the profile, from the request, the default route or the
\* group's default.
SelectRoute ==
  /\ pc = "route"
  /\ LET default == target.group = None
         g == IF default THEN cfg.route.group ELSE target.group
         asked == IF default THEN cfg.route.profile ELSE target.profile
         p == IF asked # None THEN asked ELSE cfg.groups[g].default
     IN IF g \in DOMAIN cfg.groups /\ p \in DOMAIN cfg.groups[g].profiles
        THEN /\ route' = [group |-> g, profile |-> p]
             /\ pc' = "try"
             /\ UNCHANGED <<models, answer>>
        ELSE Returns("unknown", <<>>) /\ UNCHANGED route
  /\ UNCHANGED <<registryVars, asker, target, index>>

Candidates == cfg.groups[route.group].profiles[route.profile]

\* Deliberate variant: a rejecting policy only drops the later fallbacks.
TryBeyondPrimary ==
  /\ pc = "try"
  /\ LET m == byIdentifier[Candidates[index]]
         last == index = Len(Candidates)
     IN CASE m = None -> Returns("unknown", <<>>) /\ UNCHANGED index
          [] m # None /\ ~Available(m) /\ ~last ->
               index' = index + 1 /\ UNCHANGED <<pc, answer, models>>
          [] m # None /\ ~Available(m) /\ last ->
               Returns("unavailable", <<>>) /\ UNCHANGED index
          [] m # None /\ Available(m) /\ (last \/ Rejects) ->
               Returns("resolved", <<m>>) /\ UNCHANGED index
          [] OTHER ->
               pc' = "collect" /\ models' = <<m>> /\ index' = index + 1 /\ UNCHANGED answer
  /\ UNCHANGED <<registryVars, asker, target, route>>

\* Deliberate variant: the loop over the candidates runs one too far.
TryPastEnd ==
  /\ pc = "try"
  /\ LET m == byIdentifier[Candidates[index]] IN
       IF m # None /\ Available(m)
       THEN Returns("resolved", <<m>>) /\ UNCHANGED index
       ELSE index' = index + 1 /\ UNCHANGED <<pc, answer, models>>
  /\ UNCHANGED <<registryVars, asker, target, route>>

\* One round of the loop over the candidates.
Try ==
  /\ pc = "try"
  /\ LET m == byIdentifier[Candidates[index]]
         last == index = Len(Candidates)
     IN CASE m = None -> Returns("unknown", <<>>) /\ UNCHANGED index
          [] m # None /\ ~Available(m) /\ ~last /\ ~(index = 1 /\ Rejects) ->
               index' = index + 1 /\ UNCHANGED <<pc, answer, models>>
          [] m # None /\ ~Available(m) /\ (last \/ (index = 1 /\ Rejects)) ->
               Returns("unavailable", <<>>) /\ UNCHANGED index
          [] m # None /\ Available(m) /\ (last \/ Rejects) ->
               Returns("resolved", <<m>>) /\ UNCHANGED index
          [] OTHER ->
               pc' = "collect" /\ models' = <<m>> /\ index' = index + 1 /\ UNCHANGED answer
  /\ UNCHANGED <<registryVars, asker, target, route>>

\* One round of the loop over the candidates after the one that was found.
Collect ==
  /\ pc = "collect"
  /\ LET m == byIdentifier[Candidates[index]]
         found == IF m # None /\ Available(m) THEN Append(models, m) ELSE models
     IN IF index = Len(Candidates)
        THEN Returns("resolved", found) /\ UNCHANGED index
        ELSE models' = found /\ index' = index + 1 /\ UNCHANGED <<pc, answer>>
  /\ UNCHANGED <<registryVars, asker, target, route>>

Next ==
  \/ Validate
  \/ \E m \in Model : Register(m)
  \/ \E t \in Target, top \in BOOLEAN : Ask("request", top, t)
  \/ AskResident
  \/ NamedResident
  \/ Exact
  \/ SelectRoute
  \/ Try
  \/ Collect

Spec == Init /\ [][Next]_vars

----------------------------------------------------------------------------
(* Properties *)

Serving == pc \notin {"parsed", "refused", "build"}
Asked == pc = "ready" /\ answer # "none"

\* The loops of ResolveTargetWithAvailability stay within the candidates, and
\* have found a model exactly when they collect or have resolved.
TypeOK ==
  /\ IsConfig(cfg)
  /\ pc \in {"parsed", "refused", "build", "ready", "exact", "route", "try", "collect"}
  /\ registered \subseteq cfg.models
  /\ byIdentifier \in [Identifier -> Model \union {None}]
  /\ asker \in {"request", "resident"}
  /\ target \in Target
  /\ models \in Seq(Model)
  /\ answer \in Answer
  /\ pc \in {"try", "collect"} =>
       /\ route.group \in DOMAIN cfg.groups
       /\ route.profile \in DOMAIN cfg.groups[route.group].profiles
       /\ index \in DOMAIN Candidates
  /\ models # <<>> <=> pc = "collect" \/ answer = "resolved"

\* The registry's table, filled in whatever order, gives every identifier the
\* meaning that the validator checked (NewRegistry, resolveModelReference).
RegistryAgrees ==
  Serving => \A i \in Identifier :
    IF byIdentifier[i] = None THEN References(cfg, i) = {}
                              ELSE References(cfg, i) = {byIdentifier[i]}

Name(c, i) == CHOOSE m \in References(c, i) : TRUE

\* The sequence "found" consists of the models that the candidates at the places
\* "among" stand for, in their order and without those that are disabled.
Selects(c, list, among, found) ==
  \E place \in [DOMAIN found -> among] :
    /\ \A a, b \in DOMAIN found : a < b => place[a] < place[b]
    /\ \A a \in DOMAIN found : found[a] = Name(c, list[place[a]])
    /\ \A k \in among : Name(c, list[k]) \in c.enabled <=> k \in Range(place)

\* What configuration.md promises of a route: its candidates in order without
\* the unavailable ones, or the primary alone.
Promised(list, found) == Selects(cfg, list, IF Rejects THEN {1} ELSE DOMAIN list, found)

\* The models a request is tried on are the promised ones: a route's available
\* candidates in order, an exact model without fallbacks, and an error if there
\* is none (ResolveTargetWithAvailability against the reference definition).
ResolvesAsPromised ==
  Asked =>
    /\ route # NoRoute => Promised(Candidates, models)
    /\ route = NoRoute /\ asker = "request" /\ answer # "invalid_request" /\ target.model # None
         => Len(models) <= 1 /\ Range(models) = References(cfg, target.model) \intersect cfg.enabled

\* Generate never prepares a model twice for one request: what is resolved are
\* different models, although profiles may name them by their aliases.
TriedOnce ==
  \A k, l \in DOMAIN models : models[k] = models[l] => k = l

\* A daemon that has accepted its configuration knows its default route and its
\* resident model: a request without a target, and the cooldown, fail only
\* because models are disabled.
DefaultIsKnown ==
  Asked /\ (asker = "resident" \/ target = NoTarget) => answer # "unknown"
====
