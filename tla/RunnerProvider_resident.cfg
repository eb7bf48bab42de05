SPECIFICATION FairSpec
CONSTANTS
  Request = {r1, r2}
  NoRequest = NoRequest
  fast = fast
  deep = deep
  Model = {fast, deep}
  NoModel = NoModel
  Residents <- NamedResident
  Candidates <- Routes
  MaxFrames = 2

PROPERTY ResidentRestored
