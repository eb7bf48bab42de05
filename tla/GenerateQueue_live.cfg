\* Two jobs, one of each format, with the same ID.
CONSTANTS
  Conn = {c1, c2}
  ID = {a}
  Job = {j1, j2}
  Format = {"json", "text"}
  NoJob = NoJob
  MaxDepth = 1
SPECIFICATION LiveSpec
PROPERTIES CancelledNeverStarts ImplementsFairFifo EventuallyIdle ProviderEnds
CHECK_DEADLOCK FALSE
