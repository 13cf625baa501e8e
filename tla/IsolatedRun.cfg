SPECIFICATION FairSpec
CONSTANTS
  Modes <- AllModes
  MaxFaults = 3
  MaxDeaths = 2
INVARIANTS ResidueIsRecorded ReleasedIsAbsent
PROPERTIES NamespacesAreReleased
CHECK_DEADLOCK FALSE
