---- MODULE Routing_proofs ----
(***************************************************************************)
(* For every set of configurations: the loops of the registry keep to      *)
(* their types, its table agrees with the validator, no model is tried     *)
(* twice, the default route of an accepted configuration is known, and a   *)
(* request is tried on the models that the documentation promises.         *)
(***************************************************************************)
EXTENDS ConfigGen, TLAPS, WellFoundedInduction

Names(c, m) == {m} \union Range(c.aliases[m])

\* The table while NewRegistry fills it: an entry belongs to a model the loop
\* has seen, and every name of such a model has an entry.
Table ==
  /\ \A i \in Identifier : byIdentifier[i] # None =>
       byIdentifier[i] \in registered /\ i \in Names(cfg, byIdentifier[i])
  /\ \A m \in registered : \A i \in Names(cfg, m) : byIdentifier[i] # None

\* What has been checked when the daemon goes on, and what it then relies on.
Accepted ==
  /\ pc \notin {"parsed", "refused"} => Valid(cfg)
  /\ Serving => registered = cfg.models
  /\ ~Serving => answer = "none"
  /\ pc = "exact" => asker = "request" /\ target.model # None
  /\ pc = "route" => index = 1 /\ (asker = "resident" => target = NoTarget)

\* What has been collected are candidates before the one under consideration.
Collected ==
  pc = "collect" => \A k \in DOMAIN models :
    \E j \in 1 .. index - 1 : models[k] = byIdentifier[Candidates[j]]

RoutingInv == TypeOK /\ Table /\ Accepted /\ Collected /\ TriedOnce /\ DefaultIsKnown

----------------------------------------------------------------------------

\* A sequence that is not empty has a first element.
LEMMA FirstElement ==
  ASSUME NEW S, NEW s \in Seq(S), s # <<>>
  PROVE  1 \in DOMAIN s
OBVIOUS

\* The table agrees with the validator because no identifier is claimed twice.
LEMMA AgreesFromTable ==
  TypeOK /\ Table /\ Accepted => RegistryAgrees
<1> SUFFICES ASSUME TypeOK, Table, Accepted, Serving, NEW i \in Identifier
             PROVE  IF byIdentifier[i] = None THEN References(cfg, i) = {}
                                              ELSE References(cfg, i) = {byIdentifier[i]}
  BY DEF RegistryAgrees
<1>1. /\ registered = cfg.models
      /\ ClaimedOnce(cfg)
      /\ cfg.models \subseteq Model
      /\ cfg.aliases \in [cfg.models -> Seq(Identifier)]
  BY DEF TypeOK, IsConfig, Accepted, Serving, Valid
<1>2. CASE byIdentifier[i] = None
  BY <1>1, <1>2 DEF Table, Names, References
<1>3. CASE byIdentifier[i] # None
  <2> DEFINE m == byIdentifier[i]
  <2>1. m \in cfg.models /\ i \in Names(cfg, m)
    BY <1>1, <1>3 DEF Table
  <2>2. CASE i \in cfg.models
    <3>1. i \notin Range(cfg.aliases[m])
      BY <1>1, <2>1, <2>2 DEF ClaimedOnce
    <3> QED
      BY <1>3, <2>1, <2>2, <3>1 DEF Names, References
  <2>3. CASE i \notin cfg.models
    <3>1. i \in Range(cfg.aliases[m])
      BY <2>1, <2>3 DEF Names
    <3>2. ASSUME NEW n \in cfg.models, i \in Range(cfg.aliases[n])
          PROVE  n = m
      <4>1. PICK k \in DOMAIN cfg.aliases[m] : cfg.aliases[m][k] = i
        BY <3>1 DEF Range
      <4>2. PICK l \in DOMAIN cfg.aliases[n] : cfg.aliases[n][l] = i
        BY <3>2 DEF Range
      <4> QED
        BY <1>1, <2>1, <4>1, <4>2 DEF ClaimedOnce
    <3> QED
      BY <1>3, <2>1, <2>3, <3>1, <3>2 DEF References
  <2> QED
    BY <2>2, <2>3
<1> QED
  BY <1>2, <1>3

\* Candidates of an accepted profile are in the table, and are different models.
LEMMA CandidatesInTable ==
  ASSUME TypeOK, Table, Accepted, pc \in {"try", "collect"}
  PROVE  /\ Candidates \in Seq(Identifier)
         /\ Candidates # <<>>
         /\ index \in 1 .. Len(Candidates)
         /\ \A j \in 1 .. Len(Candidates) : byIdentifier[Candidates[j]] \in Model
         /\ \A j, k \in 1 .. Len(Candidates) :
              j # k => byIdentifier[Candidates[j]] # byIdentifier[Candidates[k]]
<1>1. /\ Candidates \in Seq(Identifier)
      /\ Candidates # <<>>
      /\ index \in 1 .. Len(Candidates)
  BY DEF TypeOK, IsConfig, Candidates
<1>2. CandidatesOK(cfg, Candidates)
  BY DEF TypeOK, Accepted, Valid, GroupsOK, Candidates
<1>3. RegistryAgrees /\ Serving
  BY AgreesFromTable DEF Serving
<1>4. ASSUME NEW j \in 1 .. Len(Candidates)
      PROVE  /\ byIdentifier[Candidates[j]] \in Model
             /\ References(cfg, Candidates[j]) = {byIdentifier[Candidates[j]]}
  <2>1. Candidates[j] \in Identifier
    BY <1>1
  <2>2. References(cfg, Candidates[j]) # {}
    BY <1>1, <1>2 DEF CandidatesOK
  <2> QED
    BY <1>3, <2>1, <2>2 DEF RegistryAgrees, TypeOK
<1>5. ASSUME NEW j \in 1 .. Len(Candidates), NEW k \in 1 .. Len(Candidates), j # k
      PROVE  byIdentifier[Candidates[j]] # byIdentifier[Candidates[k]]
  <2>1. References(cfg, Candidates[j]) \intersect References(cfg, Candidates[k]) = {}
    BY <1>1, <1>2, <1>5 DEF CandidatesOK
  <2> QED
    BY <1>4, <2>1
<1> QED
  BY <1>1, <1>4, <1>5

----------------------------------------------------------------------------

LEMMA RoutingInvInit == Init => RoutingInv
<1> SUFFICES ASSUME Init PROVE RoutingInv
  OBVIOUS
<1>1. IsConfig(cfg)
  BY ConfigsAssumption DEF Init
<1>2. TypeOK
  BY <1>1 DEF Init, TypeOK, NoTarget, Target, Answer
<1>3. Table /\ Accepted /\ Collected /\ TriedOnce /\ DefaultIsKnown
  BY DEF Init, Table, Accepted, Collected, TriedOnce, DefaultIsKnown, Asked, Serving
<1> QED
  BY <1>2, <1>3 DEF RoutingInv

\* Validation lets only accepted configurations pass.
LEMMA ValidateStep == RoutingInv /\ Validate => RoutingInv'
<1> SUFFICES ASSUME RoutingInv, Validate PROVE RoutingInv'
  OBVIOUS
<1> USE DEF RoutingInv, Validate, registryVars, resolution
<1>1. TypeOK'
  BY DEF TypeOK, Candidates
<1>2. Table'
  BY DEF Table, Names
<1>3. (Collected /\ TriedOnce /\ DefaultIsKnown)'
  BY DEF Collected, TriedOnce, DefaultIsKnown, Asked
<1>4. Accepted'
  <2>1. cfg' = cfg /\ answer' = answer /\ ~Serving /\ ~Serving'
    BY DEF Serving
  <2>2. Valid(cfg') = Valid(cfg)
    BY <2>1
  <2> QED
    BY <2>1, <2>2 DEF Accepted
<1> QED
  BY <1>1, <1>2, <1>3, <1>4

\* A round of NewRegistry: entries it overwrites still lead to a model that
\* has the identifier among its names.
LEMMA RegisterStep ==
  ASSUME RoutingInv, NEW m \in Model, Register(m)
  PROVE  RoutingInv'
<1> USE DEF RoutingInv, resolution
<1>1. /\ cfg' = cfg /\ resolution' = resolution
      /\ m \in cfg.models
      /\ registered' = registered \union {m}
      /\ pc = "build" /\ pc' \in {"ready", "build"}
      /\ pc' = "ready" => registered' = cfg.models
  BY DEF Register
<1>2. \A i \in Identifier :
        byIdentifier'[i] = IF i \in Names(cfg, m) THEN m ELSE byIdentifier[i]
  BY DEF Register, Names
<1>3. byIdentifier' \in [Identifier -> Model \union {None}]
  BY DEF Register, TypeOK
<1>4. TypeOK'
  BY <1>1, <1>3 DEF TypeOK, Candidates
<1>5. Table'
  <2>1. ASSUME NEW n \in registered'
        PROVE  Names(cfg', n) = Names(cfg, n) /\ Names(cfg, n) \subseteq Identifier
    BY <1>1 DEF Names, Range, TypeOK, IsConfig, Identifier
  <2>2. None \notin Model
    BY NoneAssumption DEF Identifier
  <2>3. ASSUME NEW i \in Identifier, byIdentifier'[i] # None
        PROVE  byIdentifier'[i] \in registered' /\ i \in Names(cfg', byIdentifier'[i])
    BY <1>1, <1>2, <2>1, <2>3 DEF Table
  <2>4. ASSUME NEW n \in registered', NEW i \in Names(cfg', n)
        PROVE  byIdentifier'[i] # None
    BY <1>1, <1>2, <2>1, <2>2, <2>4 DEF Table
  <2> QED
    BY <2>3, <2>4 DEF Table
<1>6. Accepted'
  <2>1. Valid(cfg') = Valid(cfg)
    BY <1>1
  <2> QED
    BY <1>1, <2>1 DEF Accepted, Serving
<1>7. (Collected /\ TriedOnce)'
  BY <1>1 DEF Collected, TriedOnce
<1>8. DefaultIsKnown'
  BY <1>1 DEF DefaultIsKnown, Asked, Accepted, Serving
<1> QED
  BY <1>4, <1>5, <1>6, <1>7, <1>8

\* A resolution leaves the configuration and the registry as they are.
LEMMA ResolutionKeepsRegistry ==
  ASSUME RoutingInv, UNCHANGED registryVars, Serving, Serving',
         pc' = "exact" => asker' = "request" /\ target'.model # None,
         pc' = "route" => index' = 1 /\ (asker' = "resident" => target' = NoTarget)
  PROVE  /\ Table'
         /\ Accepted'
         /\ Candidates' = cfg.groups[route'.group].profiles[route'.profile]
<1> USE DEF RoutingInv, registryVars
<1>1. Table'
  BY DEF Table, Names
<1>2. Accepted'
  <2>1. Valid(cfg') = Valid(cfg)
    OBVIOUS
  <2> QED
    BY <2>1 DEF Accepted, Serving
<1> QED
  BY <1>1, <1>2 DEF Candidates

\* A resolution that returns with at most one model.
LEMMA ReturnsStep ==
  ASSUME RoutingInv, UNCHANGED registryVars, Serving,
         NEW result \in Answer \ {"none"}, NEW found \in Seq(Model), Returns(result, found),
         found # <<>> <=> result = "resolved",
         asker' \in {"request", "resident"}, target' \in Target,
         \A k, l \in DOMAIN found : found[k] = found[l] => k = l,
         result = "unknown" => asker' = "request" /\ target' # NoTarget
  PROVE  RoutingInv'
<1> USE DEF RoutingInv, registryVars
<1>1. pc' = "ready" /\ answer' = result /\ models' = found
  BY DEF Returns
<1>2. Serving'
  BY <1>1 DEF Serving
<1>3. Table' /\ Accepted'
  BY <1>1, <1>2, ResolutionKeepsRegistry
<1>4. TypeOK'
  BY <1>1 DEF TypeOK
<1>5. (Collected /\ TriedOnce /\ DefaultIsKnown)'
  BY <1>1 DEF Collected, TriedOnce, DefaultIsKnown, Asked
<1> QED
  BY <1>3, <1>4, <1>5

LEMMA ReturnsNothing ==
  ASSUME RoutingInv, UNCHANGED registryVars, Serving,
         NEW result \in {"invalid_request", "unknown", "unavailable"}, Returns(result, <<>>),
         asker' \in {"request", "resident"}, target' \in Target,
         result = "unknown" => asker' = "request" /\ target' # NoTarget
  PROVE  RoutingInv'
<1> DEFINE found == <<>>
<1>1. found \in Seq(Model) /\ found = <<>> /\ DOMAIN found = {}
  OBVIOUS
<1>2. \A k, l \in DOMAIN found : found[k] = found[l] => k = l
  BY <1>1
<1>3. result \in Answer \ {"none"} /\ result # "resolved" /\ Returns(result, found)
  BY DEF Answer
<1> HIDE DEF found
<1> QED
  BY <1>1, <1>2, <1>3, ReturnsStep

LEMMA ReturnsOne ==
  ASSUME RoutingInv, UNCHANGED registryVars, Serving,
         NEW m \in Model, Returns("resolved", <<m>>),
         asker' \in {"request", "resident"}, target' \in Target
  PROVE  RoutingInv'
<1> DEFINE found == <<m>>
<1>1. found \in Seq(Model) /\ found # <<>> /\ DOMAIN found = {1}
  OBVIOUS
<1>2. \A k, l \in DOMAIN found : found[k] = found[l] => k = l
  BY <1>1
<1>3. "resolved" \in Answer \ {"none"} /\ Returns("resolved", found)
  BY DEF Answer
<1> HIDE DEF found
<1> QED
  BY <1>1, <1>2, <1>3, ReturnsStep

LEMMA AskStep ==
  ASSUME RoutingInv, NEW who \in {"request", "resident"}, NEW top \in BOOLEAN,
         NEW t \in Target, Ask(who, top, t), who = "resident" => t = NoTarget
  PROVE  RoutingInv'
<1>1. /\ UNCHANGED registryVars
      /\ pc = "ready" /\ Serving
      /\ asker' = who /\ NoTarget \in Target
  BY DEF Ask, Serving, NoTarget, Target
<1>2. CASE Malformed(top, t)
  <2>1. Returns("invalid_request", <<>>) /\ target' = NoTarget
    BY <1>2 DEF Ask
  <2> QED
    BY <1>1, <2>1, ReturnsNothing
<1>3. CASE ~Malformed(top, t)
  <2>1. /\ pc' = IF t.model # None THEN "exact" ELSE "route"
        /\ target' = t /\ answer' = "none" /\ models' = <<>>
    BY <1>3 DEF Ask
  <2>2. Serving'
    BY <2>1 DEF Serving
  <2>3. /\ pc' = "exact" => asker' = "request" /\ target'.model # None
        /\ pc' = "route" => index' = 1 /\ (asker' = "resident" => target' = NoTarget)
    BY <1>1, <2>1 DEF Ask, NoTarget
  <2>4. Table' /\ Accepted'
    BY <1>1, <2>2, <2>3, ResolutionKeepsRegistry
  <2>5. TypeOK'
    BY <1>1, <2>1 DEF RoutingInv, TypeOK, registryVars, Answer
  <2>6. (Collected /\ TriedOnce /\ DefaultIsKnown)'
    BY <2>1 DEF Collected, TriedOnce, DefaultIsKnown, Asked
  <2> QED
    BY <2>4, <2>5, <2>6 DEF RoutingInv
<1> QED
  BY <1>2, <1>3

\* Validate has looked up the resident model.
LEMMA NamedResidentStep == RoutingInv /\ NamedResident => RoutingInv'
<1> SUFFICES ASSUME RoutingInv, NamedResident PROVE RoutingInv'
  OBVIOUS
<1>1. /\ UNCHANGED registryVars
      /\ Serving
      /\ cfg.resident \in Identifier
      /\ asker' = "resident" /\ target' \in Target
  BY DEF NamedResident, Serving, RoutingInv, TypeOK, IsConfig, NoTarget, Target
<1>2. byIdentifier[cfg.resident] \in Model
  <2>1. References(cfg, cfg.resident) # {}
    BY <1>1 DEF RoutingInv, Accepted, Serving, Valid, NamedResident
  <2> QED
    BY <1>1, <2>1, AgreesFromTable DEF RoutingInv, TypeOK, RegistryAgrees
<1>3. Returns("resolved", <<byIdentifier[cfg.resident]>>)
  BY <1>2, NoneAssumption DEF NamedResident, Identifier
<1> QED
  BY <1>1, <1>2, <1>3, ReturnsOne

LEMMA ExactStep == RoutingInv /\ Exact => RoutingInv'
<1> SUFFICES ASSUME RoutingInv, Exact PROVE RoutingInv'
  OBVIOUS
<1> DEFINE m == byIdentifier[target.model]
<1>1. /\ UNCHANGED registryVars
      /\ Serving
      /\ asker' = "request" /\ target' = target /\ target \in Target
      /\ target.model # None
      /\ target # NoTarget
  BY DEF Exact, Serving, RoutingInv, TypeOK, Accepted, NoTarget
<1>2. m \in Model \union {None}
  BY <1>1 DEF RoutingInv, TypeOK, Target
<1>3. CASE Returns("unknown", <<>>)
  BY <1>1, <1>3, ReturnsNothing
<1>4. CASE Returns("unavailable", <<>>)
  BY <1>1, <1>4, ReturnsNothing
<1>5. CASE m \in Model /\ Returns("resolved", <<m>>)
  BY <1>1, <1>5, ReturnsOne
<1> QED
  BY <1>2, <1>3, <1>4, <1>5 DEF Exact

\* A request without a target finds the default route, since DefaultOK holds.
LEMMA SelectRouteStep == RoutingInv /\ SelectRoute => RoutingInv'
<1> SUFFICES ASSUME RoutingInv, SelectRoute PROVE RoutingInv'
  OBVIOUS
<1> DEFINE default == target.group = None
           g == IF default THEN cfg.route.group ELSE target.group
           asked == IF default THEN cfg.route.profile ELSE target.profile
           p == IF asked # None THEN asked ELSE cfg.groups[g].default
           known == g \in DOMAIN cfg.groups /\ p \in DOMAIN cfg.groups[g].profiles
<1>1. /\ UNCHANGED registryVars
      /\ Serving /\ pc = "route"
      /\ asker' = asker /\ target' = target /\ index' = index
      /\ asker \in {"request", "resident"} /\ target \in Target
  BY DEF SelectRoute, Serving, RoutingInv, TypeOK
<1>2. CASE known
  <2>1. /\ route' = [group |-> g, profile |-> p] /\ pc' = "try"
        /\ models' = models /\ answer' = answer
    BY <1>2 DEF SelectRoute
  <2>2. Serving'
    BY <2>1 DEF Serving
  <2>3. /\ Table' /\ Accepted'
        /\ Candidates' = cfg.groups[g].profiles[p]
    BY <1>1, <2>1, <2>2, ResolutionKeepsRegistry
  <2>4. TypeOK'
    <3>1. TypeOK /\ index = 1
      BY <1>1 DEF RoutingInv, Accepted
    <3>2. 1 \in DOMAIN cfg.groups[g].profiles[p]
      <4>1. cfg.groups[g].profiles[p] \in Seq(Identifier) /\ cfg.groups[g].profiles[p] # <<>>
        BY <1>2, <3>1 DEF TypeOK, IsConfig
      <4> HIDE DEF g, p
      <4> QED
        BY <4>1, FirstElement
    <3>3. IsConfig(cfg') = IsConfig(cfg)
      BY <1>1 DEF registryVars
    <3>4. /\ route'.group \in DOMAIN cfg'.groups
          /\ route'.profile \in DOMAIN cfg'.groups[route'.group].profiles
          /\ index' \in DOMAIN Candidates'
      <4>1. cfg' = cfg /\ route'.group = g /\ route'.profile = p /\ index' = 1
        BY <1>1, <2>1, <3>1 DEF registryVars
      <4> QED
        BY <1>2, <2>3, <3>2, <4>1
    <3> QED
      BY <1>1, <2>1, <3>1, <3>3, <3>4 DEF TypeOK, registryVars
  <2>5. (Collected /\ TriedOnce /\ DefaultIsKnown)'
    BY <2>1 DEF RoutingInv, Collected, TriedOnce, DefaultIsKnown, Asked
  <2> QED
    BY <2>3, <2>4, <2>5 DEF RoutingInv
<1>3. CASE ~known
  <2>1. Returns("unknown", <<>>)
    BY <1>3 DEF SelectRoute
  <2>2. ~default
    <3>1. DefaultOK(cfg)
      BY <1>1 DEF RoutingInv, Accepted, Valid
    <3> QED
      BY <1>3, <3>1 DEF DefaultOK
  <2>3. target # NoTarget
    BY <2>2 DEF NoTarget
  <2>4. asker = "request"
    BY <1>1, <2>3 DEF RoutingInv, Accepted
  <2> QED
    BY <1>1, <2>1, <2>3, <2>4, ReturnsNothing
<1> QED
  BY <1>2, <1>3

\* Every candidate is in the table, so that a round finds a model, available
\* or not.
LEMMA TryStep == RoutingInv /\ Try => RoutingInv'
<1> SUFFICES ASSUME RoutingInv, Try PROVE RoutingInv'
  OBVIOUS
<1> DEFINE m == byIdentifier[Candidates[index]]
<1>1. /\ UNCHANGED registryVars
      /\ Serving /\ pc = "try"
      /\ asker' = asker /\ target' = target /\ route' = route
      /\ asker \in {"request", "resident"} /\ target \in Target
  BY DEF Try, Serving, RoutingInv, TypeOK
<1>2. /\ Candidates \in Seq(Identifier)
      /\ index \in 1 .. Len(Candidates)
      /\ m \in Model
  BY <1>1, CandidatesInTable DEF RoutingInv
<1>3. m # None
  BY <1>2, NoneAssumption DEF Identifier
<1> HIDE DEF m
<1>4. CASE Returns("unavailable", <<>>)
  BY <1>1, <1>4, ReturnsNothing
<1>5. CASE Returns("resolved", <<m>>)
  BY <1>1, <1>2, <1>5, ReturnsOne
<1>6. CASE /\ index # Len(Candidates) /\ index' = index + 1
           /\ UNCHANGED <<pc, answer, models>>
  <2>1. Serving'
    BY <1>1, <1>6 DEF Serving
  <2>2. Table' /\ Accepted' /\ Candidates' = Candidates
    BY <1>1, <1>6, <2>1, ResolutionKeepsRegistry DEF Candidates
  <2>3. TypeOK'
    BY <1>1, <1>2, <1>6, <2>2 DEF RoutingInv, TypeOK, registryVars
  <2>4. (Collected /\ TriedOnce /\ DefaultIsKnown)'
    BY <1>1, <1>6 DEF RoutingInv, Collected, TriedOnce, DefaultIsKnown, Asked
  <2> QED
    BY <2>2, <2>3, <2>4 DEF RoutingInv
<1>7. CASE /\ index # Len(Candidates) /\ index' = index + 1
           /\ pc' = "collect" /\ models' = <<m>> /\ UNCHANGED answer
  <2>1. Serving'
    BY <1>7 DEF Serving
  <2>2. Table' /\ Accepted' /\ Candidates' = Candidates
    BY <1>1, <1>7, <2>1, ResolutionKeepsRegistry DEF Candidates
  <2>3. models' \in Seq(Model) /\ models' # <<>> /\ DOMAIN models' = {1} /\ models'[1] = m
    BY <1>2, <1>7
  <2>4. TypeOK'
    BY <1>1, <1>2, <1>7, <2>2, <2>3 DEF RoutingInv, TypeOK, registryVars
  <2>5. Collected'
    <3>1. index \in 1 .. index' - 1 /\ m = byIdentifier'[Candidates'[index]]
      BY <1>1, <1>2, <1>7, <2>2 DEF m, registryVars
    <3> QED
      BY <2>3, <3>1 DEF Collected
  <2>6. (TriedOnce /\ DefaultIsKnown)'
    BY <1>7, <2>3 DEF TriedOnce, DefaultIsKnown, Asked
  <2> QED
    BY <2>2, <2>4, <2>5, <2>6 DEF RoutingInv
<1> QED
  BY <1>3, <1>4, <1>5, <1>6, <1>7 DEF Try, m

\* A round of the inner loop appends a model that no earlier candidate is.
LEMMA CollectStep == RoutingInv /\ Collect => RoutingInv'
<1> SUFFICES ASSUME RoutingInv, Collect PROVE RoutingInv'
  OBVIOUS
<1> DEFINE m == byIdentifier[Candidates[index]]
           found == IF m # None /\ Available(m) THEN Append(models, m) ELSE models
<1>1. /\ UNCHANGED registryVars
      /\ Serving /\ pc = "collect"
      /\ asker' = asker /\ target' = target /\ route' = route
      /\ asker \in {"request", "resident"} /\ target \in Target
      /\ models \in Seq(Model) /\ models # <<>>
  BY DEF Collect, Serving, RoutingInv, TypeOK
<1>2. /\ Candidates \in Seq(Identifier)
      /\ index \in 1 .. Len(Candidates)
      /\ m \in Model
      /\ \A j \in 1 .. index - 1 : byIdentifier[Candidates[j]] # m
  BY <1>1, CandidatesInTable DEF RoutingInv
<1>3. \A k \in DOMAIN models :
        \E j \in 1 .. index - 1 : models[k] = byIdentifier[Candidates[j]]
  BY <1>1 DEF RoutingInv, Collected
<1>4. /\ found \in Seq(Model) /\ found # <<>>
      /\ \A k \in DOMAIN found : found[k] = m \/ \E l \in DOMAIN models : found[k] = models[l]
      /\ \A k, l \in DOMAIN found : found[k] = found[l] => k = l
  <2>1. \A k \in DOMAIN models : models[k] # m
    BY <1>2, <1>3
  <2>2. \A k, l \in DOMAIN models : models[k] = models[l] => k = l
    BY DEF RoutingInv, TriedOnce
  <2>3. CASE found = models
    BY <1>1, <2>2, <2>3
  <2>4. CASE found = Append(models, m)
    <3> HIDE DEF found, m
    <3>1. /\ found \in Seq(Model) /\ Len(found) = Len(models) + 1
          /\ found[Len(models) + 1] = m
          /\ \A k \in 1 .. Len(models) : found[k] = models[k]
          /\ DOMAIN models = 1 .. Len(models) /\ Len(models) \in Nat
          /\ DOMAIN found = 1 .. Len(models) + 1
      BY <1>1, <1>2, <2>4
    <3>2. found # <<>>
      BY <3>1
    <3> QED
      BY <2>1, <2>2, <3>1, <3>2
  <2> QED
    BY <2>3, <2>4
<1> HIDE DEF m, found
<1>5. CASE index = Len(Candidates)
  <2>1. Returns("resolved", found)
    BY <1>5 DEF Collect, found, m
  <2> QED
    BY <1>1, <1>4, <2>1, ReturnsStep, "resolved" \in Answer \ {"none"} DEF Answer
<1>6. CASE index # Len(Candidates)
  <2>1. models' = found /\ index' = index + 1 /\ pc' = pc /\ answer' = answer
    BY <1>6 DEF Collect, found, m
  <2>2. Serving'
    BY <1>1, <2>1 DEF Serving
  <2>3. Table' /\ Accepted' /\ Candidates' = Candidates
    BY <1>1, <2>1, <2>2, ResolutionKeepsRegistry DEF Candidates
  <2>4. TypeOK'
    BY <1>1, <1>2, <1>4, <1>6, <2>1, <2>3 DEF RoutingInv, TypeOK, registryVars
  <2>5. Collected'
    <3>1. m = byIdentifier[Candidates[index]]
      BY DEF m
    <3>2. ASSUME NEW k \in DOMAIN found
          PROVE  \E j \in 1 .. index : found[k] = byIdentifier[Candidates[j]]
      <4>1. CASE found[k] = m
        BY <1>2, <3>1, <4>1
      <4>2. CASE \E l \in DOMAIN models : found[k] = models[l]
        BY <1>2, <1>3, <4>2
      <4> QED
        BY <1>4, <4>1, <4>2
    <3> QED
      BY <1>1, <1>2, <2>1, <2>3, <3>2 DEF Collected, registryVars
  <2>6. (TriedOnce /\ DefaultIsKnown)'
    BY <1>1, <1>4, <2>1 DEF TriedOnce, DefaultIsKnown, Asked
  <2> QED
    BY <2>3, <2>4, <2>5, <2>6 DEF RoutingInv
<1> QED
  BY <1>5, <1>6

LEMMA RoutingInvStep == RoutingInv /\ [Next]_vars => RoutingInv'
<1> SUFFICES ASSUME RoutingInv, [Next]_vars PROVE RoutingInv'
  OBVIOUS
<1>1. CASE Validate
  BY <1>1, ValidateStep
<1>2. ASSUME NEW m \in Model, Register(m) PROVE RoutingInv'
  BY <1>2, RegisterStep
<1>3. ASSUME NEW t \in Target, NEW top \in BOOLEAN, Ask("request", top, t) PROVE RoutingInv'
  BY <1>3, AskStep
<1>4. CASE AskResident
  BY <1>4, AskStep DEF AskResident, NoTarget, Target
<1>5. CASE NamedResident
  BY <1>5, NamedResidentStep
<1>6. CASE Exact
  BY <1>6, ExactStep
<1>7. CASE SelectRoute
  BY <1>7, SelectRouteStep
<1>8. CASE Try
  BY <1>8, TryStep
<1>9. CASE Collect
  BY <1>9, CollectStep
<1>10. CASE UNCHANGED vars
  <2>1. TypeOK'
    BY <1>10 DEF RoutingInv, vars, TypeOK, Candidates
  <2>2. (Table /\ Accepted)'
    <3>1. Valid(cfg') = Valid(cfg)
      BY <1>10 DEF vars
    <3> QED
      BY <1>10, <3>1 DEF RoutingInv, vars, Table, Names, Accepted, Serving
  <2>3. (Collected /\ TriedOnce /\ DefaultIsKnown)'
    BY <1>10 DEF RoutingInv, vars, Collected, Candidates, TriedOnce, DefaultIsKnown, Asked
  <2> QED
    BY <2>1, <2>2, <2>3 DEF RoutingInv
<1> QED
  BY <1>1, <1>2, <1>3, <1>4, <1>5, <1>6, <1>7, <1>8, <1>9, <1>10 DEF Next

LEMMA RoutingInvariant == Spec => []RoutingInv
  BY RoutingInvInit, RoutingInvStep, PTL DEF Spec

----------------------------------------------------------------------------

\* The loops of ResolveTargetWithAvailability stay within the candidates of the
\* selected profile, for every configuration.
THEOREM RoutingTypeCorrect == Spec => []TypeOK
<1>1. RoutingInv => TypeOK
  BY DEF RoutingInv
<1> QED
  BY <1>1, RoutingInvariant, PTL

\* NewRegistry gives every identifier the meaning that Validate checked,
\* whatever the order in which Go ranges over the models.
THEOREM RegistryMeansWhatWasChecked == Spec => []RegistryAgrees
<1>1. RoutingInv => RegistryAgrees
  BY AgreesFromTable DEF RoutingInv
<1> QED
  BY <1>1, RoutingInvariant, PTL

\* A request is tried on a model at most once, under whatever names a profile
\* lists it.
THEOREM NoModelTriedTwice == Spec => []TriedOnce
<1>1. RoutingInv => TriedOnce
  BY DEF RoutingInv
<1> QED
  BY <1>1, RoutingInvariant, PTL

\* A daemon that has accepted its configuration always knows its default route
\* and its resident model.
THEOREM DefaultRouteResolves == Spec => []DefaultIsKnown
<1>1. RoutingInv => DefaultIsKnown
  BY DEF RoutingInv
<1> QED
  BY <1>1, RoutingInvariant, PTL

----------------------------------------------------------------------------
(* What a request is tried on.  ResolvesAsPromised speaks of a finished      *)
(* resolution; the invariant says what has been found on the way to it.      *)

ResolutionInv ==
  /\ pc \in {"exact", "route"} => route = NoRoute
  /\ pc \in {"route", "try", "collect"} => target.model = None
  /\ pc \in {"route", "try"} => models = <<>>
  /\ pc \in {"try", "collect"} =>
       /\ Selects(cfg, Candidates, 1 .. (index - 1), models)
       /\ Rejects => pc = "try" /\ index = 1
  /\ ResolvesAsPromised

\* Nothing is selected from no candidates.
LEMMA NothingSelected ==
  ASSUME NEW c, NEW list
  PROVE  Selects(c, list, {}, <<>>)
<1> DEFINE place == [a \in {} |-> 0]
<1>1. DOMAIN <<>> = {} /\ DOMAIN place = {} /\ place \in [{} -> {}]
  OBVIOUS
<1> HIDE DEF place
<1> QED
  BY <1>1 DEF Selects, Range

\* One more candidate, which is disabled ...
LEMMA DisabledPassed ==
  ASSUME NEW c, NEW list, NEW i \in Nat, NEW found \in Seq(Model),
         Selects(c, list, 1 .. (i - 1), found), Name(c, list[i]) \notin c.enabled, i > 0
  PROVE  Selects(c, list, 1 .. i, found)
<1>1. PICK place \in [DOMAIN found -> 1 .. (i - 1)] :
        /\ \A a, b \in DOMAIN found : a < b => place[a] < place[b]
        /\ \A a \in DOMAIN found : found[a] = Name(c, list[place[a]])
        /\ \A k \in 1 .. (i - 1) : Name(c, list[k]) \in c.enabled <=> k \in Range(place)
  BY DEF Selects
<1>2. place \in [DOMAIN found -> 1 .. i]
  OBVIOUS
<1>3. i \notin Range(place)
  BY DEF Range
<1>4. \A k \in 1 .. i : Name(c, list[k]) \in c.enabled <=> k \in Range(place)
  BY <1>1, <1>3
<1> QED
  BY <1>1, <1>2, <1>4 DEF Selects

\* ... or enabled.
LEMMA EnabledSelected ==
  ASSUME NEW c, NEW list, NEW i \in Nat, NEW found \in Seq(Model),
         Selects(c, list, 1 .. (i - 1), found), Name(c, list[i]) \in c.enabled, i > 0,
         Name(c, list[i]) \in Model
  PROVE  Selects(c, list, 1 .. i, Append(found, Name(c, list[i])))
<1>1. PICK place \in [DOMAIN found -> 1 .. (i - 1)] :
        /\ \A a, b \in DOMAIN found : a < b => place[a] < place[b]
        /\ \A a \in DOMAIN found : found[a] = Name(c, list[place[a]])
        /\ \A k \in 1 .. (i - 1) : Name(c, list[k]) \in c.enabled <=> k \in Range(place)
  BY DEF Selects
<1> DEFINE n == Len(found)
           m == Name(c, list[i])
           longer == Append(found, m)
           further == [a \in 1 .. n + 1 |-> IF a = n + 1 THEN i ELSE place[a]]
<1> HIDE DEF m
<1>2. /\ n \in Nat /\ DOMAIN found = 1 .. n
      /\ DOMAIN longer = 1 .. n + 1
      /\ longer[n + 1] = m
      /\ \A a \in 1 .. n : longer[a] = found[a]
  BY DEF m
<1> HIDE DEF n, longer
<1>3. /\ \A a \in 1 .. n : place[a] \in 1 .. (i - 1) /\ further[a] = place[a]
      /\ further[n + 1] = i
      /\ DOMAIN further = 1 .. n + 1
  BY <1>2
<1>4. further \in [DOMAIN longer -> 1 .. i]
  BY <1>2
<1> HIDE DEF further
<1>5. \A a, b \in DOMAIN longer : a < b => further[a] < further[b]
  BY <1>1, <1>2, <1>3
<1>6. ASSUME NEW a \in 1 .. n + 1 PROVE longer[a] = Name(c, list[further[a]])
  <2>1. CASE a = n + 1
    BY <1>2, <1>3, <2>1 DEF m
  <2>2. CASE a \in 1 .. n
    BY <1>1, <1>2, <1>3, <2>2
  <2> QED
    BY <1>2, <2>1, <2>2
<1>7. ASSUME NEW k \in 1 .. i PROVE Name(c, list[k]) \in c.enabled <=> k \in Range(further)
  <2>1. CASE k = i
    BY <1>2, <1>3, <2>1 DEF Range
  <2>2. CASE k # i
    <3>1. k \in 1 .. (i - 1)
      BY <2>2
    <3>2. DOMAIN place = 1 .. n
      BY <1>2
    <3>3. ASSUME k \in Range(place) PROVE k \in Range(further)
      <4>1. PICK a \in 1 .. n : place[a] = k
        BY <3>2, <3>3 DEF Range
      <4>2. a \in 1 .. n + 1 /\ further[a] = k
        BY <1>2, <1>3, <4>1
      <4> QED
        BY <1>3, <4>2 DEF Range
    <3>4. ASSUME k \in Range(further) PROVE k \in Range(place)
      <4>1. PICK a \in 1 .. n + 1 : further[a] = k
        BY <1>3, <3>4 DEF Range
      <4>2. a \in 1 .. n
        BY <1>2, <1>3, <2>2, <4>1
      <4>3. place[a] = k
        BY <1>3, <4>1, <4>2
      <4> QED
        BY <3>2, <4>2, <4>3 DEF Range
    <3> QED
      BY <1>1, <3>1, <3>3, <3>4
  <2> QED
    BY <2>1, <2>2
<1> QED
  BY <1>2, <1>4, <1>5, <1>6, <1>7 DEF Selects, longer, m

\* The candidates the loops look at mean what the validator looked up.
LEMMA CandidateNames ==
  ASSUME RoutingInv, pc \in {"try", "collect"}
  PROVE  /\ index \in 1 .. Len(Candidates) /\ Len(Candidates) \in Nat
         /\ DOMAIN Candidates = 1 .. Len(Candidates)
         /\ Name(cfg, Candidates[index]) = byIdentifier[Candidates[index]]
         /\ byIdentifier[Candidates[index]] \in Model
<1>1. /\ Candidates \in Seq(Identifier) /\ index \in 1 .. Len(Candidates)
      /\ byIdentifier[Candidates[index]] \in Model
  BY CandidatesInTable DEF RoutingInv
<1>2. References(cfg, Candidates[index]) = {byIdentifier[Candidates[index]]}
  <2>1. RegistryAgrees /\ Serving
    BY AgreesFromTable DEF RoutingInv, Serving
  <2>2. byIdentifier[Candidates[index]] # None /\ Candidates[index] \in Identifier
    BY <1>1, NoneAssumption DEF Identifier
  <2> QED
    BY <2>1, <2>2 DEF RegistryAgrees
<1> QED
  BY <1>1, <1>2 DEF Name

----------------------------------------------------------------------------

LEMMA ResolutionInvInit == Init => ResolutionInv
  BY DEF Init, ResolutionInv, ResolvesAsPromised, Asked

\* What a step has to show when the resolution returns.
LEMMA ReturnsAsPromised ==
  ASSUME NEW result, NEW found, Returns(result, found),
         UNCHANGED <<registryVars, asker, target, route>>,
         route # NoRoute => Promised(Candidates, found),
         route = NoRoute /\ target.model # None =>
           Len(found) <= 1 /\ Range(found) = References(cfg, target.model) \intersect cfg.enabled
  PROVE  ResolutionInv'
<1>1. pc' = "ready" /\ models' = found /\ cfg' = cfg /\ target' = target /\ route' = route
  BY DEF Returns, registryVars
<1>2. ASSUME route # NoRoute PROVE Promised(Candidates, models)'
  <2>1. Candidates' = Candidates /\ Rejects' = Rejects
    BY <1>1 DEF Candidates, Rejects
  <2> QED
    BY <1>1, <1>2, <2>1 DEF Promised
<1>3. References(cfg', target'.model) = References(cfg, target.model)
  BY <1>1
<1>4. ResolvesAsPromised'
  BY <1>1, <1>2, <1>3 DEF ResolvesAsPromised
<1> QED
  BY <1>1, <1>4 DEF ResolutionInv

\* The selection is complete after the last candidate, and after the first one
\* under a policy that rejects.
LEMMA SelectionComplete ==
  ASSUME NEW found, Selects(cfg, Candidates, 1 .. index, found),
         DOMAIN Candidates = 1 .. Len(Candidates), index \in 1 .. Len(Candidates),
         IF Rejects THEN index = 1 ELSE index = Len(Candidates)
  PROVE  Promised(Candidates, found)
<1>1. CASE Rejects
  <2>1. 1 .. index = {1}
    BY <1>1
  <2> QED
    BY <1>1, <2>1 DEF Promised
<1>2. CASE ~Rejects
  BY <1>2 DEF Promised
<1> QED
  BY <1>1, <1>2

\* The next round starts with what the candidates so far have given.
LEMMA SelectionGoesOn ==
  ASSUME NEW found, Selects(cfg, Candidates, 1 .. index, found),
         index \in Nat, index' = index + 1, models' = found,
         UNCHANGED <<registryVars, target, route, answer>>,
         pc' = "try" => found = <<>>, pc' \in {"try", "collect"},
         target.model = None, ~Rejects
  PROVE  ResolutionInv'
<1>1. cfg' = cfg /\ Candidates' = Candidates /\ Rejects' = Rejects /\ index' - 1 = index
  BY DEF Candidates, Rejects, registryVars
<1>2. Selects(cfg, Candidates, 1 .. (index - 1), models)'
  BY <1>1
<1>3. ResolvesAsPromised'
  BY DEF ResolvesAsPromised, Asked
<1> QED
  BY <1>1, <1>2, <1>3 DEF ResolutionInv

LEMMA ExactAsPromised == RoutingInv /\ ResolutionInv /\ Exact => ResolutionInv'
<1> SUFFICES ASSUME RoutingInv, ResolutionInv, Exact PROVE ResolutionInv'
  OBVIOUS
<1> DEFINE m == byIdentifier[target.model]
           given == References(cfg, target.model) \intersect cfg.enabled
<1>1. /\ UNCHANGED <<registryVars, asker, target, route>>
      /\ route = NoRoute
      /\ target.model \in Identifier
  BY DEF Exact, RoutingInv, TypeOK, Accepted, ResolutionInv, Target
<1>2. IF m = None THEN References(cfg, target.model) = {}
                  ELSE References(cfg, target.model) = {m}
  <2>1. RegistryAgrees /\ Serving
    BY AgreesFromTable DEF RoutingInv, Serving, Exact
  <2> QED
    BY <1>1, <2>1 DEF RegistryAgrees
<1>3. \E result, found :
        Returns(result, found) /\ Len(found) <= 1 /\ Range(found) = given
  <2>1. Len(<<>>) = 0 /\ Range(<<>>) = {} /\ Len(<<m>>) = 1 /\ Range(<<m>>) = {m}
    BY DEF Range
  <2> HIDE DEF m
  <2>2. CASE m = None
    <3>1. Returns("unknown", <<>>) /\ given = {}
      BY <1>2, <2>2 DEF Exact, m
    <3> QED
      BY <2>1, <3>1
  <2>3. CASE m # None /\ ~Available(m)
    <3>1. Returns("unavailable", <<>>) /\ given = {}
      BY <1>2, <2>3 DEF Exact, m, Available
    <3> QED
      BY <2>1, <3>1
  <2>4. CASE m # None /\ Available(m)
    <3>1. Returns("resolved", <<m>>) /\ given = {m}
      BY <1>2, <2>4 DEF Exact, m, Available
    <3> QED
      BY <2>1, <3>1
  <2> QED
    BY <2>2, <2>3, <2>4
<1> HIDE DEF m, given
<1>4. PICK result, found :
        Returns(result, found) /\ Len(found) <= 1 /\ Range(found) = given
  BY <1>3
<1> QED
  BY <1>1, <1>4, ReturnsAsPromised DEF given

LEMMA SelectRouteAsPromised == RoutingInv /\ ResolutionInv /\ SelectRoute => ResolutionInv'
<1> SUFFICES ASSUME RoutingInv, ResolutionInv, SelectRoute PROVE ResolutionInv'
  OBVIOUS
<1>1. /\ UNCHANGED <<registryVars, asker, target, index>>
      /\ pc = "route" /\ index = 1 /\ models = <<>>
      /\ route = NoRoute /\ target.model = None
  BY DEF SelectRoute, RoutingInv, Accepted, ResolutionInv
<1>2. CASE pc' = "try" /\ UNCHANGED models
  <2>1. 1 .. (index' - 1) = {}
    BY <1>1
  <2>2. Selects(cfg', Candidates', 1 .. (index' - 1), models')
    BY <1>1, <1>2, <2>1, NothingSelected
  <2>3. ResolvesAsPromised'
    BY <1>2 DEF ResolvesAsPromised, Asked
  <2> QED
    BY <1>1, <1>2, <2>2, <2>3 DEF ResolutionInv
<1>3. CASE Returns("unknown", <<>>) /\ UNCHANGED route
  BY <1>1, <1>3, ReturnsAsPromised
<1> QED
  BY <1>2, <1>3 DEF SelectRoute

LEMMA TryAsPromised == RoutingInv /\ ResolutionInv /\ Try => ResolutionInv'
<1> SUFFICES ASSUME RoutingInv, ResolutionInv, Try PROVE ResolutionInv'
  OBVIOUS
<1> DEFINE m == byIdentifier[Candidates[index]]
<1>1. /\ UNCHANGED <<registryVars, asker, target, route>>
      /\ pc = "try" /\ models = <<>> /\ target.model = None
      /\ Selects(cfg, Candidates, 1 .. (index - 1), <<>>)
      /\ Rejects => index = 1
  BY DEF Try, ResolutionInv
<1>2. /\ index \in 1 .. Len(Candidates) /\ Len(Candidates) \in Nat
      /\ DOMAIN Candidates = 1 .. Len(Candidates)
      /\ Name(cfg, Candidates[index]) = m
      /\ m \in Model /\ m # None
  BY <1>1, CandidateNames, NoneAssumption DEF Identifier
<1>3. <<>> \in Seq(Model) /\ index \in Nat /\ index > 0 /\ Append(<<>>, m) = <<m>>
  BY <1>2
<1> HIDE DEF m
<1>4. CASE ~Available(m)
  <2>1. Selects(cfg, Candidates, 1 .. index, <<>>)
    BY <1>1, <1>2, <1>3, <1>4, DisabledPassed DEF Available
  <2>2. CASE index = Len(Candidates) \/ Rejects
    <3>1. Returns("unavailable", <<>>)
      BY <1>1, <1>2, <1>4, <2>2 DEF Try, m
    <3>2. Promised(Candidates, <<>>)
      BY <1>1, <1>2, <2>1, <2>2, SelectionComplete
    <3> QED
      BY <1>1, <3>1, <3>2, ReturnsAsPromised
  <2>3. CASE index # Len(Candidates) /\ ~Rejects
    <3>1. index' = index + 1 /\ UNCHANGED <<pc, answer, models>>
      BY <1>2, <1>4, <2>3 DEF Try, m
    <3> QED
      BY <1>1, <1>3, <2>1, <2>3, <3>1, SelectionGoesOn
  <2> QED
    BY <2>2, <2>3
<1>5. CASE Available(m)
  <2>1. Selects(cfg, Candidates, 1 .. index, <<m>>)
    BY <1>1, <1>2, <1>3, <1>5, EnabledSelected DEF Available
  <2>2. CASE index = Len(Candidates) \/ Rejects
    <3>1. Returns("resolved", <<m>>)
      BY <1>2, <1>5, <2>2 DEF Try, m
    <3>2. Promised(Candidates, <<m>>)
      BY <1>1, <1>2, <2>1, <2>2, SelectionComplete
    <3> QED
      BY <1>1, <3>1, <3>2, ReturnsAsPromised
  <2>3. CASE index # Len(Candidates) /\ ~Rejects
    <3>1. pc' = "collect" /\ models' = <<m>> /\ index' = index + 1 /\ UNCHANGED answer
      BY <1>2, <1>5, <2>3 DEF Try, m
    <3> QED
      BY <1>1, <1>3, <2>1, <2>3, <3>1, SelectionGoesOn
  <2> QED
    BY <2>2, <2>3
<1> QED
  BY <1>4, <1>5

LEMMA CollectAsPromised == RoutingInv /\ ResolutionInv /\ Collect => ResolutionInv'
<1> SUFFICES ASSUME RoutingInv, ResolutionInv, Collect PROVE ResolutionInv'
  OBVIOUS
<1> DEFINE m == byIdentifier[Candidates[index]]
           found == IF m # None /\ Available(m) THEN Append(models, m) ELSE models
<1>1. /\ UNCHANGED <<registryVars, asker, target, route>>
      /\ pc = "collect" /\ target.model = None /\ ~Rejects
      /\ models \in Seq(Model)
      /\ Selects(cfg, Candidates, 1 .. (index - 1), models)
  BY DEF Collect, ResolutionInv, RoutingInv, TypeOK
<1>2. /\ index \in 1 .. Len(Candidates) /\ Len(Candidates) \in Nat
      /\ DOMAIN Candidates = 1 .. Len(Candidates)
      /\ Name(cfg, Candidates[index]) = m
      /\ m \in Model /\ m # None
  BY <1>1, CandidateNames, NoneAssumption DEF Identifier
<1>3. index \in Nat /\ index > 0
  BY <1>2
<1> HIDE DEF m
<1>4. Selects(cfg, Candidates, 1 .. index, found)
  <2>1. CASE Available(m)
    BY <1>1, <1>2, <1>3, <2>1, EnabledSelected DEF Available
  <2>2. CASE ~Available(m)
    BY <1>1, <1>2, <1>3, <2>2, DisabledPassed DEF Available
  <2> QED
    BY <2>1, <2>2
<1> HIDE DEF found
<1>5. CASE index = Len(Candidates)
  <2>1. Returns("resolved", found)
    BY <1>5 DEF Collect, found, m
  <2>2. Promised(Candidates, found)
    BY <1>1, <1>2, <1>4, <1>5, SelectionComplete
  <2> QED
    BY <1>1, <2>1, <2>2, ReturnsAsPromised
<1>6. CASE index # Len(Candidates)
  <2>1. models' = found /\ index' = index + 1 /\ pc' = pc /\ answer' = answer
    BY <1>6 DEF Collect, found, m
  <2> QED
    BY <1>1, <1>3, <1>4, <2>1, SelectionGoesOn
<1> QED
  BY <1>5, <1>6

LEMMA ResolutionInvStep ==
  RoutingInv /\ ResolutionInv /\ [Next]_vars => ResolutionInv'
<1> SUFFICES ASSUME RoutingInv, ResolutionInv, [Next]_vars PROVE ResolutionInv'
  OBVIOUS
<1>1. ASSUME pc' \in {"build", "refused", "ready"}, UNCHANGED answer, answer = "none"
      PROVE  ResolutionInv'
  BY <1>1 DEF ResolutionInv, ResolvesAsPromised, Asked
<1>2. CASE Validate
  BY <1>1, <1>2 DEF Validate, RoutingInv, Accepted, Serving, resolution
<1>3. ASSUME NEW m \in Model, Register(m) PROVE ResolutionInv'
  BY <1>1, <1>3 DEF Register, RoutingInv, Accepted, Serving, resolution
<1>4. ASSUME NEW who, NEW top, NEW t, Ask(who, top, t) PROVE ResolutionInv'
  <2>1. CASE Malformed(top, t)
    <3>1. pc' = "ready" /\ route' = NoRoute /\ answer' = "invalid_request"
      BY <1>4, <2>1 DEF Ask, Returns
    <3>2. ResolvesAsPromised'
      BY <3>1 DEF ResolvesAsPromised
    <3> QED
      BY <3>1, <3>2 DEF ResolutionInv
  <2>2. CASE ~Malformed(top, t)
    <3>1. /\ pc' = IF t.model # None THEN "exact" ELSE "route"
          /\ target' = t /\ route' = NoRoute /\ models' = <<>>
      BY <1>4, <2>2 DEF Ask
    <3>2. ResolvesAsPromised'
      BY <3>1 DEF ResolvesAsPromised, Asked
    <3> QED
      BY <3>1, <3>2 DEF ResolutionInv
  <2> QED
    BY <2>1, <2>2
<1>5. CASE NamedResident
  <2>1. pc' = "ready" /\ asker' = "resident" /\ route' = NoRoute
    BY <1>5 DEF NamedResident, Returns
  <2>2. ResolvesAsPromised'
    BY <2>1 DEF ResolvesAsPromised
  <2> QED
    BY <2>1, <2>2 DEF ResolutionInv
<1>6. CASE UNCHANGED vars
  <2>1. /\ Candidates' = Candidates /\ Rejects' = Rejects /\ Asked' = Asked
        /\ References(cfg', target'.model) = References(cfg, target.model)
    BY <1>6 DEF vars, Candidates, Rejects, Asked
  <2>2. Promised(Candidates, models)' = Promised(Candidates, models)
    BY <1>6, <2>1 DEF vars, Promised
  <2>3. ResolvesAsPromised'
    BY <1>6, <2>1, <2>2 DEF vars, ResolutionInv, ResolvesAsPromised
  <2> QED
    BY <1>6, <2>1, <2>3 DEF vars, ResolutionInv
<1> QED
  BY <1>2, <1>3, <1>4, <1>5, <1>6, ExactAsPromised, SelectRouteAsPromised, TryAsPromised,
     CollectAsPromised DEF Next, AskResident

\* A request is tried on what configuration.md promises: the available candidates
\* of its route in their order, the primary alone under a policy that rejects,
\* and an exact model without fallbacks (ResolveTargetWithAvailability).
THEOREM ResolutionKeepsPromise == Spec => []ResolvesAsPromised
<1>1. ResolutionInv => ResolvesAsPromised
  BY DEF ResolutionInv
<1> QED
  BY <1>1, RoutingInvariant, ResolutionInvInit, ResolutionInvStep, PTL DEF Spec

----------------------------------------------------------------------------
(* The configurations of ConfigGen.  GeneratedServes needs what Generate     *)
(* writes to be accepted, and the selection of a route to lead to the        *)
(* resident.                                                                 *)

\* A default route to the resident, and profiles of one model each.
SingleModels(c) ==
  /\ c.settings /\ c.policy = "use_fallback"
  /\ c.enabled = c.models
  /\ \A m \in c.models : c.aliases[m] = <<>>
  /\ c.resident \in c.models
  /\ c.route.group \in DOMAIN c.groups
  /\ c.route.profile \in DOMAIN c.groups[c.route.group].profiles
  /\ c.groups[c.route.group].default = c.route.profile
  /\ c.groups[c.route.group].profiles[c.route.profile] = <<c.resident>>
  /\ \A g \in DOMAIN c.groups :
       /\ c.groups[g].default \in DOMAIN c.groups[g].profiles
       /\ \A p \in DOMAIN c.groups[g].profiles :
            \E m \in c.models : c.groups[g].profiles[p] = <<m>>
  /\ \A m \in c.models :
       \E g \in DOMAIN c.groups : \E p \in DOMAIN c.groups[g].profiles :
         c.groups[g].profiles[p] = <<m>>

GeneratedInv ==
  cfg \in GeneratedConfigs =>
    /\ pc # "refused"
    /\ /\ pc \in {"try", "collect"} \/ (Asked /\ answer # "invalid_request")
       /\ target.model = None /\ target.profile = None
       /\ target.group \in {None, cfg.route.group}
       => route = cfg.route

LEMMA LeastElement ==
  ASSUME NEW T, T \subseteq Nat, T # {}
  PROVE  \E n \in T : \A m \in T : n <= m
<1> DEFINE R == OpToRel(<, Nat)
<1>1. IsWellFoundedOn(R, Nat)
  BY NatLessThanWellFounded
<1> HIDE DEF R
<1>2. PICK x \in T : \A y \in T : <<y, x>> \notin R
  BY <1>1, WFMin
<1>3. ASSUME NEW m \in T PROVE x <= m
  <2>1. m \in Nat /\ x \in Nat /\ <<m, x>> \notin R
    BY <1>2
  <2>2. ~(m < x)
    BY <2>1 DEF R, OpToRel
  <2> QED
    BY <2>1, <2>2
<1> QED
  BY <1>3

\* The first variant of a set is one of its variants.
LEMMA FirstIsMember ==
  ASSUME NEW S \in SUBSET Model, S # {}
  PROVE  First(S) \in S
<1> DEFINE T == {j \in DOMAIN SortedNames : SortedNames[j] \in S}
<1>1. DOMAIN SortedNames = 1 .. Len(SortedNames) /\ Len(SortedNames) \in Nat
  BY SortedNamesAssumption
<1>2. T \subseteq Nat
  BY <1>1
<1>3. T # {}
  BY SortedNamesAssumption DEF Range
<1>4. PICK k \in T : \A j \in T : k <= j
  BY <1>2, <1>3, LeastElement
<1>5. \A j \in 1 .. (k - 1) : SortedNames[j] \notin S
  <2> SUFFICES ASSUME NEW j \in 1 .. (k - 1), SortedNames[j] \in S PROVE FALSE
    OBVIOUS
  <2>1. k \in 1 .. Len(SortedNames)
    BY <1>1
  <2>2. j \in T /\ ~(k <= j)
    BY <1>1, <2>1
  <2> QED
    BY <1>4, <2>2
<1> QED
  BY <1>4, <1>5 DEF First

\* What Generate writes.
LEMMA GenerateWrites ==
  ASSUME NEW o \in Options, ~GenerateFails(o)
  PROVE  SingleModels(Generate(o))
<1> DEFINE chosen == Range(o.variants)
           resident == ResidentID(o)
           entry(m) == o.catalog[m]
           levels(g) == {p \in Profile : [type |-> g, level |-> p] \in {o.catalog[m] : m \in chosen}}
           variant(g, p) == CHOOSE m \in chosen : o.catalog[m] = [type |-> g, level |-> p]
           types == {o.catalog[m].type : m \in chosen}
           c == Generate(o)
<1>1. /\ chosen \subseteq Model
      /\ resident \in chosen
      /\ \A m \in chosen : entry(m).type \in Group /\ entry(m).level \in Profile
      /\ \A m \in chosen : entry(m) = [type |-> entry(m).type, level |-> entry(m).level]
  <2>1. o.catalog \in [Model -> [type : Group, level : Profile]]
    BY DEF Options
  <2>2. chosen \subseteq Model
    BY DEF Options, Range
  <2> QED
    BY <2>1, <2>2 DEF GenerateFails
<1>2. ASSUME NEW m \in chosen
      PROVE  /\ variant(entry(m).type, entry(m).level) = m
             /\ entry(m).type \in types
             /\ entry(m).level \in levels(entry(m).type)
  <2>1. ASSUME NEW n \in chosen, o.catalog[n] = o.catalog[m] PROVE n = m
    BY <2>1 DEF GenerateFails, Range
  <2> QED
    BY <1>1, <2>1
<1>3. ASSUME NEW g \in types, NEW p \in levels(g)
      PROVE  variant(g, p) \in chosen
  <2>1. \E m \in chosen : o.catalog[m] = [type |-> g, level |-> p]
    OBVIOUS
  <2> QED
    BY <2>1
<1>4. ASSUME NEW g \in types
      PROVE  DefaultProfile(o, g) \in levels(g)
  <2>1. CASE entry(resident).type = g
    BY <1>1, <1>2, <2>1 DEF DefaultProfile
  <2>2. CASE entry(resident).type # g
    <3>1. OfType(o, g) \subseteq Model /\ OfType(o, g) # {}
      BY <1>1 DEF OfType
    <3>2. First(OfType(o, g)) \in OfType(o, g)
      BY <3>1, FirstIsMember
    <3> QED
      BY <1>2, <2>2, <3>2 DEF DefaultProfile, OfType
  <2> QED
    BY <2>1, <2>2
<1>5. DefaultProfile(o, entry(resident).type) = entry(resident).level
  BY DEF DefaultProfile
<1>6. /\ c.settings /\ c.policy = "use_fallback"
      /\ c.models = chosen /\ c.enabled = chosen
      /\ c.aliases = [m \in chosen |-> <<>>]
      /\ c.resident = resident
      /\ c.route.group = entry(resident).type /\ c.route.profile = entry(resident).level
      /\ c.groups = [g \in types |->
                       [default |-> DefaultProfile(o, g),
                        profiles |-> [p \in levels(g) |-> <<variant(g, p)>>]]]
  BY DEF Generate
<1> HIDE DEF chosen, resident, entry, levels, variant, types, c
<1>7. /\ DOMAIN c.groups = types
      /\ \A g \in types : /\ c.groups[g].default = DefaultProfile(o, g)
                          /\ DOMAIN c.groups[g].profiles = levels(g)
                          /\ \A p \in levels(g) : c.groups[g].profiles[p] = <<variant(g, p)>>
  BY <1>6
<1>8. /\ entry(resident).type \in types
      /\ entry(resident).level \in levels(entry(resident).type)
      /\ variant(entry(resident).type, entry(resident).level) = resident
  BY <1>1, <1>2
<1>9. /\ c.route.profile \in DOMAIN c.groups[c.route.group].profiles
      /\ c.groups[c.route.group].default = c.route.profile
      /\ c.groups[c.route.group].profiles[c.route.profile] = <<c.resident>>
  BY <1>5, <1>6, <1>7, <1>8
<1>10. ASSUME NEW g \in types
       PROVE  /\ c.groups[g].default \in DOMAIN c.groups[g].profiles
              /\ \A p \in DOMAIN c.groups[g].profiles :
                   \E m \in chosen : c.groups[g].profiles[p] = <<m>>
  BY <1>3, <1>4, <1>7
<1>11. ASSUME NEW m \in chosen
       PROVE  \E g \in types : \E p \in DOMAIN c.groups[g].profiles :
                c.groups[g].profiles[p] = <<m>>
  BY <1>2, <1>7
<1>12. \A m \in chosen : c.aliases[m] = <<>>
  BY <1>6
<1>13. /\ c.settings
       /\ c.policy = "use_fallback"
       /\ c.enabled = c.models /\ c.models = chosen
       /\ c.resident \in chosen
       /\ c.route.group \in DOMAIN c.groups /\ DOMAIN c.groups = types
  BY <1>1, <1>6, <1>7, <1>8
<1>14. SingleModels(c)
  BY ONLY <1>9, <1>10, <1>11, <1>12, <1>13 DEF SingleModels
<1> QED
  BY <1>14 DEF c

\* A configuration of single models is accepted.
LEMMA SingleModelsValid ==
  ASSUME NEW c, IsConfig(c), SingleModels(c)
  PROVE  Valid(c)
<1>0. \A m \in c.models : c.aliases[m] = <<>>
  BY DEF SingleModels
<1>1. \A m \in c.models : References(c, m) = {m} /\ Range(c.aliases[m]) = {} /\ DOMAIN c.aliases[m] = {}
  BY ONLY <1>0 DEF References, Range
<1>2. ClaimedOnce(c)
  BY <1>1 DEF ClaimedOnce
<1>3. GroupsOK(c)
  <2> SUFFICES ASSUME NEW g \in DOMAIN c.groups
               PROVE  /\ DOMAIN c.groups[g].profiles # {}
                      /\ c.groups[g].default \in DOMAIN c.groups[g].profiles \union {None}
                      /\ \A p \in DOMAIN c.groups[g].profiles : CandidatesOK(c, c.groups[g].profiles[p])
    BY DEF GroupsOK
  <2>1. ASSUME NEW p \in DOMAIN c.groups[g].profiles PROVE CandidatesOK(c, c.groups[g].profiles[p])
    <3>1. PICK m \in c.models : c.groups[g].profiles[p] = <<m>>
      BY DEF SingleModels
    <3>2. CandidatesOK(c, <<m>>)
      BY <1>1 DEF CandidatesOK
    <3> QED
      BY <3>1, <3>2
  <2> QED
    BY <2>1 DEF SingleModels
<1>4. DefaultOK(c)
  BY DEF SingleModels, DefaultOK
<1>5. c.settings
  BY DEF SingleModels
<1>6. c.resident \in c.models /\ c.policy # "other"
  BY DEF SingleModels
<1>7. c.models # {} /\ References(c, c.resident) # {}
  BY ONLY <1>1, <1>6
<1> QED
  BY ZenonT(30), <1>2, <1>3, <1>4, <1>5, <1>6, <1>7 DEF Valid

LEMMA GeneratedFacts ==
  ASSUME TypeOK, cfg \in GeneratedConfigs
  PROVE  /\ SingleModels(cfg) /\ Valid(cfg)
         /\ cfg.resident # None /\ cfg.route # NoRoute
         /\ cfg.route.group # None /\ cfg.route.profile # None
         /\ cfg.route = [group |-> cfg.route.group, profile |-> cfg.route.profile]
<1>1. SingleModels(cfg)
  BY GenerateWrites DEF GeneratedConfigs
<1>2. IsConfig(cfg)
  BY DEF TypeOK
<1>3. /\ cfg.resident \in Identifier
      /\ cfg.route.group \in Group /\ cfg.route.profile \in Profile
      /\ cfg.route = [group |-> cfg.route.group, profile |-> cfg.route.profile]
  BY <1>1, <1>2 DEF SingleModels, IsConfig, Identifier
<1> QED
  BY <1>1, <1>2, <1>3, SingleModelsValid, NoneAssumption DEF NoRoute

LEMMA GeneratedInvStep == RoutingInv /\ GeneratedInv /\ [Next]_vars => GeneratedInv'
<1> SUFFICES ASSUME RoutingInv, GeneratedInv, [Next]_vars, cfg' \in GeneratedConfigs
             PROVE  /\ pc' # "refused"
                    /\ /\ pc' \in {"try", "collect"} \/ (Asked' /\ answer' # "invalid_request")
                       /\ target'.model = None /\ target'.profile = None
                       /\ target'.group \in {None, cfg'.route.group}
                       => route' = cfg'.route
  BY DEF GeneratedInv
<1>1. cfg' = cfg
  BY DEF Next, vars, registryVars, Validate, Register, Ask, AskResident, NamedResident, Exact,
     SelectRoute, Try, Collect
<1>2. /\ TypeOK
      /\ SingleModels(cfg) /\ Valid(cfg)
      /\ cfg.resident # None
      /\ cfg.route.group # None /\ cfg.route.profile # None
      /\ cfg.route = [group |-> cfg.route.group, profile |-> cfg.route.profile]
  BY <1>1, GeneratedFacts DEF RoutingInv
<1>3. CASE Validate
  BY <1>1, <1>2, <1>3 DEF Validate, Asked
<1>4. ASSUME NEW m \in Model, Register(m) PROVE pc' \in {"build", "ready"} /\ answer' = "none"
  BY <1>4 DEF Register, RoutingInv, Accepted, Serving, resolution
<1>5. ASSUME NEW who, NEW top, NEW t, Ask(who, top, t)
      PROVE  \/ pc' \in {"exact", "route"}
             \/ pc' = "ready" /\ answer' = "invalid_request"
  BY <1>5 DEF Ask, Returns
<1>6. CASE NamedResident
  BY <1>2, <1>6 DEF NamedResident, NoTarget, Returns
<1>7. CASE Exact
  <2>1. target'.model # None /\ pc' = "ready"
    BY <1>7 DEF Exact, RoutingInv, Accepted, Returns
  <2> QED
    BY <2>1
<1>8. CASE SelectRoute
  <2> SUFFICES ASSUME target.profile = None, target.group \in {None, cfg.route.group}
               PROVE  pc' = "try" /\ route' = cfg.route
    BY <1>1, <1>8 DEF SelectRoute, Returns
  <2> QED
    BY <1>2, <1>8 DEF SelectRoute, SingleModels
<1>9. ASSUME Try \/ Collect
      PROVE  pc \in {"try", "collect"} /\ target' = target /\ route' = route /\ pc' # "refused"
  BY <1>9 DEF Try, Collect, Returns
<1>10. CASE UNCHANGED vars
  BY <1>1, <1>10 DEF vars, GeneratedInv, Asked
<1> QED
  BY <1>1, <1>3, <1>4, <1>5, <1>6, <1>7, <1>8, <1>9, <1>10 DEF Next, AskResident, GeneratedInv, Asked

\* On the default route of a generated configuration there is the resident
\* alone, and it is enabled.
LEMMA OnlyResidentPromised ==
  ASSUME NEW c, NEW found \in Seq(Model), SingleModels(c),
         Selects(c, <<c.resident>>, {1}, found)
  PROVE  found = <<c.resident>>
<1> DEFINE list == <<c.resident>>
<1>1. Name(c, list[1]) = c.resident /\ c.resident \in c.enabled
  BY DEF SingleModels, Name, References
<1> HIDE DEF list
<1>2. PICK place \in [DOMAIN found -> {1}] :
        /\ \A a, b \in DOMAIN found : a < b => place[a] < place[b]
        /\ \A a \in DOMAIN found : found[a] = Name(c, list[place[a]])
        /\ 1 \in Range(place)
  BY <1>1 DEF Selects, list
<1>3. PICK a \in DOMAIN found : place[a] = 1
  BY <1>2 DEF Range
<1>4. DOMAIN found = 1 .. Len(found) /\ Len(found) \in Nat
  OBVIOUS
<1>5. ASSUME NEW b \in DOMAIN found, NEW d \in DOMAIN found, b < d PROVE FALSE
  <2>1. place[b] < place[d] /\ place[b] = 1 /\ place[d] = 1
    BY <1>2, <1>5
  <2> QED
    BY <2>1
<1>6. Len(found) = 1
  <2>1. a \in 1 .. Len(found)
    BY <1>4
  <2>2. CASE Len(found) > 1
    BY <1>4, <1>5, <2>2, 1 \in DOMAIN found, 2 \in DOMAIN found
  <2> QED
    BY <1>4, <2>1, <2>2
<1>7. found[1] = c.resident
  BY <1>1, <1>2, <1>3, <1>4, <1>6
<1> QED
  BY <1>6, <1>7

LEMMA ServesFromInv ==
  RoutingInv /\ GeneratedInv /\ ResolvesAsPromised => GeneratedServes
<1> SUFFICES ASSUME RoutingInv, GeneratedInv, ResolvesAsPromised, cfg \in GeneratedConfigs
             PROVE  GeneratedServes
  BY DEF GeneratedServes
<1>1. TypeOK /\ SingleModels(cfg) /\ cfg.route # NoRoute
  BY GeneratedFacts DEF RoutingInv
<1>2. ASSUME Asked, answer # "invalid_request", target.model = None, target.profile = None,
             target.group \in {None, cfg.route.group}
      PROVE  models = <<cfg.resident>>
  <2>1. route = cfg.route
    BY <1>2 DEF GeneratedInv
  <2>2. Promised(Candidates, models)
    BY <1>1, <1>2, <2>1 DEF ResolvesAsPromised
  <2>3. Candidates = <<cfg.resident>>
    BY <1>1, <2>1 DEF Candidates, SingleModels
  <2>4. DOMAIN Candidates = {1}
    BY <2>3
  <2>5. ~Rejects
    BY <1>1 DEF SingleModels, Rejects
  <2>6. Selects(cfg, <<cfg.resident>>, {1}, models)
    BY <2>2, <2>3, <2>4, <2>5 DEF Promised
  <2> QED
    BY <1>1, <2>6, OnlyResidentPromised DEF TypeOK
<1> QED
  BY <1>1, <1>2 DEF GeneratedServes, GeneratedInv, SingleModels

\* For any catalog and any choice of its variants: what configgen.Generate writes
\* is accepted by the daemon, gives every variant a route of its own, and leads to
\* the resident when the request leaves the choice to the daemon.
THEOREM GeneratedConfigServes == Spec => []GeneratedServes
<1>1. Init => GeneratedInv
  BY DEF Init, GeneratedInv, Asked
<1> QED
  BY <1>1, GeneratedInvStep, ServesFromInv, RoutingInvariant, ResolutionKeepsPromise, PTL DEF Spec
====
