SPECIFICATION FairSpec
CONSTANTS
  Request = {r1, r2}
  NoRequest = NoRequest
  fast = fast
  deep = deep
  Model = {fast, deep}
  NoModel = NoModel
  Residents <- AnyResident
  Candidates <- Routes
  MaxFrames = 2
INVARIANTS TypeOK RunUsesItsModel SessionServesOneRequest CooldownUndisturbed
PROPERTIES EveryRunEnds ResidentRestoredUnlessRefused
