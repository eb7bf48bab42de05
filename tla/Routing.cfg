\* Three models, an alias, a group and a profile, and one of each that only
\* generated configurations know.
CONSTANTS
  m1 = m1
  m2 = m2
  m3 = m3
  nick = nick
  llm = llm
  fast = fast
  Model = {m1, m2, m3}
  Alias = {nick}
  Group = {llm, code}
  Profile = {fast, deep}
  None = None
  SortedNames <- MCSortedNames
  Configs <- SmallConfigs
SPECIFICATION Spec
INVARIANTS TypeOK RegistryAgrees ResolvesAsPromised TriedOnce DefaultIsKnown GeneratedServes
CHECK_DEADLOCK FALSE
