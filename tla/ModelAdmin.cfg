\* Two administrators and two generations on two versions.
CONSTANTS
  Version = {v1, v2}
  NoVersion = NoVersion
  Faults = TRUE
  Client = {c1, c2}
  Job = {j1, j2}
  Nobody = Nobody
  Elsewhere = Elsewhere
SPECIFICATION AdminSpec
SYMMETRY Symmetry
CONSTRAINT OneGenerationByPath
INVARIANTS
  CurrentComplete RollbackTargetComplete InactiveHasNoTarget
  AdminTypeOK SessionIsCurrent SessionOnDisk RunHasSession
