CONSTANTS
  Conn = {c1, c2}
  ID = {a}
  Job = {j1, j2}
  Format = {"json", "text"}
  NoJob = NoJob
  MaxDepth = 1
  MaxDelta = 1
SPECIFICATION RepliesSpec
SYMMETRY Symmetry
CHECK_DEADLOCK FALSE
INVARIANT ExactlyOneOutcome
