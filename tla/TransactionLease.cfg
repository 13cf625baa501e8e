SPECIFICATION FairSpec
CONSTANTS
  p1 = p1
  p2 = p2
  r1 = r1
  r2 = r2
  project = project
  l1 = l1
  l2 = l2
  create = create
  update = update
  noRun = noRun
  Sessions = {p1, p2}
  Runs = {r1}
  Projects = {project}
  ProjectOf <- OneProject
  Leases = {l1}
  LeaseOf <- OneLease
  Ops = {create, update}
  Contract <- CreateThenUpdate
  CreatorOf <- ObjectOfCreate
  CleanupSteps <- NoDeletion
  Exclusive = TRUE
  ReleaseRequired = TRUE
  MaxCrashes = 2
  NoRun = noRun
PROPERTIES EnvironmentsAreReleased
CHECK_DEADLOCK FALSE
