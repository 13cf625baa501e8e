SPECIFICATION Spec
CONSTANTS
  Families <- MixedFamilies
  MaxCalls = 2
  MaxCrashes = 1
INVARIANTS NoSilentResidue AttestedIsReal
CHECK_DEADLOCK FALSE
