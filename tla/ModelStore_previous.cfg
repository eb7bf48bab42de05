CONSTANTS
  Version = {v1, v2}
  NoVersion = NoVersion
  Faults = FALSE
SPECIFICATION Spec
INVARIANT PreviousPreserved
