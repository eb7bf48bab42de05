\* Three daemons without a command; a command and two daemons.
CONSTANTS
  m1 = m1
  m2 = m2
  fam = fam
  d1 = d1
  d2 = d2
  d3 = d3
  Process = {d1, d2, d3}
  NoFile = NoFile
  Stale = Stale
  SortedNames <- MCSortedNames
  Families <- MCFamilies
  Revision = {1, 2}
  None = None
  Catalogs <- MCCatalogs
  CatalogOf <- MCCatalogOf
  Configured <- MCConfigured
  MaxOther = 1
  MaxProgress = 1
SPECIFICATION SmallSpec
CHECK_DEADLOCK FALSE
INVARIANTS KeepsItsSocket AnswersMatchPlans DoneAsAnswered StopsOnlyForCause
PROPERTIES AloneComesUp UnconfiguredNeverActivated CommandEnds
