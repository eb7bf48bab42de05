---- MODULE MCModelAdmin ----
(* Small instances of ModelAdmin for TLC. *)
EXTENDS ModelAdmin, FiniteSets, TLC

Symmetry == Permutations(Version) \union Permutations(Client) \union Permutations(Job)

\* A bound: a model with a model_path is asked for one generation at a time.
OneGenerationByPath ==
  path # NoVersion => Cardinality({j \in Job : work[j] # "new" \/ gen[j] # "none"}) <= 1
====
