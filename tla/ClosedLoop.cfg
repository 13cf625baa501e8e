SPECIFICATION FairSpec
CONSTANTS
  good = good
  bad = bad
  Profiles = {good, bad}
  ValidProfiles = {good}
  NoProfile = noProfile
  MaxCrashes = 2
  MaxFailures = 1
INVARIANTS OneProfile LiveIsAppendOnly
PROPERTIES InterruptedRunsFinish
CHECK_DEADLOCK FALSE
