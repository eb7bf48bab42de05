---- MODULE MCRouting ----
(* Small configurations for Routing. *)
EXTENDS ConfigGen, TLC

CONSTANTS m1, m2, m3, nick, llm, fast

\* Candidate lists of one to three entries.
Lists == UNION {[1 .. n -> {m1, m2, nick}] : n \in 1 .. 3}

\* An alias of none, one or several models, one that is given twice, and one
\* that is the name of another model.
AliasTables ==
  [Model -> {<<>>, <<nick>>}] \union
    {m1 :> <<nick, nick>> @@ m2 :> <<>> @@ m3 :> <<>>, m1 :> <<m2>> @@ m2 :> <<>> @@ m3 :> <<nick>>}

OneAlias == m1 :> <<>> @@ m2 :> <<>> @@ m3 :> <<nick>>

OneGroup(default, list) == llm :> [default |-> default, profiles |-> fast :> list]

Config(enabled, aliases, policy, groups, default, resident) ==
  [settings |-> TRUE, models |-> Model, enabled |-> enabled, aliases |-> aliases,
   resident |-> resident, policy |-> policy, groups |-> groups, route |-> default]

Good == Config(Model, OneAlias, "", OneGroup(fast, <<m1, nick>>), [group |-> llm, profile |-> None], None)

\* All candidate lists with all aliases; all defaults and resident models;
\* single mistakes; and what configgen writes.
SmallConfigs ==
  {Config(enabled, aliases, policy, OneGroup(fast, list), [group |-> llm, profile |-> None], None) :
     enabled \in SUBSET Model, aliases \in AliasTables, policy \in Policy, list \in Lists}
  \union
  {Config(enabled, aliases, "use_fallback", OneGroup(default, <<m1, nick>>),
          [group |-> group, profile |-> profile], resident) :
     enabled \in SUBSET Model, aliases \in AliasTables, default \in Profile \union {None},
     group \in Group, profile \in Profile \union {None}, resident \in Identifier \union {None}}
  \union
  {[Good EXCEPT !.settings = FALSE],
   [Good EXCEPT !.models = {}, !.enabled = {}, !.aliases = <<>>],
   [Good EXCEPT !.models = {m1, m2}, !.enabled = {m1}, !.aliases = m1 :> <<nick>> @@ m2 :> <<>>],
   [Good EXCEPT !.groups = <<>>],
   [Good EXCEPT !.groups[llm].profiles = <<>>]}
  \union
  GeneratedConfigs

MCSortedNames == <<m1, m2, m3>>
====
