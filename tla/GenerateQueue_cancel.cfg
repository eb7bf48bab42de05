CONSTANTS
  Conn = {c1, c2}
  ID = {a}
  Job = {j1, j2}
  Format = {"json"}
  NoJob = NoJob
  MaxDepth = 2
SPECIFICATION Spec
SYMMETRY Symmetry
INVARIANT CancelFindsEveryRequest
CHECK_DEADLOCK FALSE
