\* Two requests of either format, pipelined or on two connections, that share
\* an ID and find a queue of two places.
CONSTANTS
  Conn = {c1, c2}
  ID = {a}
  Job = {j1, j2}
  Format = {"json", "text"}
  NoJob = NoJob
  MaxDepth = 2
  MaxDelta = 1
SPECIFICATION SmallSpec
SYMMETRY Symmetry
CHECK_DEADLOCK FALSE
INVARIANTS
  QueuedOwned ActiveOwned OnePlace ProviderAbandonedOnlyWhenCancelled
   OneOutcomeUnlessContextEnds
PROPERTIES ImplementsFifo
