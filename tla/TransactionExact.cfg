SPECIFICATION Spec
CONSTANTS
  p1 = p1
  p2 = p2
  r1 = r1
  r2 = r2
  project = project
  l1 = l1
  l2 = l2
  create = create
  update = update
  noRun = noRun
  Sessions = {p1, p2}
  Runs = {r1, r2}
  Projects = {project}
  ProjectOf <- OneProject
  Leases = {l1}
  LeaseOf <- OneLease
  Ops = {create, update}
  Contract <- CreateThenUpdate
  CreatorOf <- ObjectOfCreate
  CleanupSteps <- DeleteCreated
  Exclusive = FALSE
  ReleaseRequired = FALSE
  MaxCrashes = 1
  NoRun = noRun
INVARIANTS OneActiveRun NeverSentTwice LedgerCoversObjects
PROPERTIES CopiesSurvive
CHECK_DEADLOCK FALSE
SYMMETRY Interchangeable
