SPECIFICATION RetestSpec
CONSTANTS
  web = web
  api = api
  Objects = {web, api}
  Layouts <- SomeLayouts
  NoSelector = NoSelector
  MaxPhases = 2
  MaxPhaseFaults = 2
  MaxRuns = 2
  MaxCrashes = 1
INVARIANTS ImprovementIsClean ImprovementIsMeasured ResidueIsBlocked EvidenceAgrees
CHECK_DEADLOCK FALSE
