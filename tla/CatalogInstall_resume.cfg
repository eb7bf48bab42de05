\* A server that always sends what was asked for.
CONSTANTS
  a1 = a1
  a2 = a2
  a3 = a3
  Artifact = {a1, a2, a3}
  Size <- Sizes
  Stray = {}
  Terms = {t1, t2}
  NoTerms = NoTerms
SPECIFICATION Spec
INVARIANT PartResumable
