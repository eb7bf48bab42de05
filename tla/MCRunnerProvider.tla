---- MODULE MCRunnerProvider ----
EXTENDS RunnerProvider, TLC

CONSTANTS fast, deep

\* Exact requests for either model, and a route that falls back.
Routes == {<<fast>>, <<deep>>, <<deep, fast>>}

\* resident_model names a model.
NamedResident == {[named |-> fast, restored |-> fast]}

\* ... or it is an alias or omitted, and the default route leads to a model or
\* to none.
AnyResident ==
  NamedResident \union [named : {NoModel}, restored : {fast, NoModel}]
====
