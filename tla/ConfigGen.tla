---- MODULE ConfigGen ----
(***************************************************************************)
(* The configuration that "yllmctl config create" writes: Generate         *)
(* (internal/configgen/configgen.go) turns a choice of catalog variants    *)
(* into models, a group per model type, a profile per level and a default  *)
(* route.  yllmd reads the result like any other configuration (Routing).  *)
(***************************************************************************)
EXTENDS Routing

CONSTANT SortedNames  \* the variants, sorted by ID

ASSUME SortedNamesAssumption == SortedNames \in Seq(Model) /\ Range(SortedNames) = Model

\* The type and level of each variant, the variants and the resident that were
\* asked for, and whether mode, threads and GPU layers are acceptable.
Options ==
  [catalog : [Model -> [type : Group, level : Profile]],
   variants : UNION {[1 .. n -> Model] : n \in 0 .. Len(SortedNames)},
   resident : Model \union {None},
   sane : BOOLEAN]

\* The first of the variants in "S" after sort.Slice.
First(S) ==
  LET at == CHOOSE k \in DOMAIN SortedNames :
              /\ SortedNames[k] \in S
              /\ \A j \in 1 .. (k - 1) : SortedNames[j] \notin S
  IN SortedNames[at]

\* Without a wish, the first variant is the resident.
ResidentID(o) == IF o.resident = None THEN First(Range(o.variants)) ELSE o.resident

\* Two variants for one route are refused, and so is one variant twice.
GenerateFails(o) ==
  \/ ~o.sane
  \/ o.variants = <<>>
  \/ \E k, l \in DOMAIN o.variants : k # l /\ o.catalog[o.variants[k]] = o.catalog[o.variants[l]]
  \/ ResidentID(o) \notin Range(o.variants)

OfType(o, g) == {m \in Range(o.variants) : o.catalog[m].type = g}

\* Deliberate variant: a group's default is its first variant's level.
DefaultProfileFirst(o, g) == o.catalog[First(OfType(o, g))].level

\* The level of the first variant of the group, or of the resident.
DefaultProfile(o, g) ==
  LET resident == o.catalog[ResidentID(o)]
  IN IF resident.type = g THEN resident.level ELSE o.catalog[First(OfType(o, g))].level

Generate(o) ==
  LET chosen == Range(o.variants)
      levels(g) == {p \in Profile : [type |-> g, level |-> p] \in {o.catalog[m] : m \in chosen}}
      variant(g, p) == CHOOSE m \in chosen : o.catalog[m] = [type |-> g, level |-> p]
      resident == o.catalog[ResidentID(o)]
  IN [settings |-> TRUE,
      models |-> chosen, enabled |-> chosen, aliases |-> [m \in chosen |-> <<>>],
      resident |-> ResidentID(o),
      policy |-> "use_fallback",
      groups |-> [g \in {o.catalog[m].type : m \in chosen} |->
                    [default |-> DefaultProfile(o, g),
                     profiles |-> [p \in levels(g) |-> <<variant(g, p)>>]]],
      route |-> [group |-> resident.type, profile |-> resident.level]]

GeneratedConfigs == {Generate(o) : o \in {p \in Options : ~GenerateFails(p)}}

----------------------------------------------------------------------------
\* A generated configuration is never refused by the daemon, gives every
\* variant a route of its own, and leads to the resident whenever a request
\* leaves the choice to the daemon: without a target, or with the resident's
\* type alone.  The model that is kept loaded is so the one that is asked for.
GeneratedServes ==
  cfg \in GeneratedConfigs =>
    /\ pc # "refused"
    /\ \A m \in cfg.models :
         \E g \in DOMAIN cfg.groups : \E p \in DOMAIN cfg.groups[g].profiles :
           cfg.groups[g].profiles[p] = <<m>>
    /\ Asked /\ answer # "invalid_request" /\ target.model = None /\ target.profile = None
         /\ target.group \in {None, cfg.route.group} =>
           models = <<cfg.resident>>
====
