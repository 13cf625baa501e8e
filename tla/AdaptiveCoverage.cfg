SPECIFICATION Spec
CONSTANTS
  Candidates <- SomeCandidates
  Histories <- SomeHistories
  Budgets = {0, 2}
  Guarded = TRUE
  AuditFloor = 1
  MaxActions = 4
  MaxCrashes = 1
  NoCandidate = none
INVARIANTS BudgetHolds StopIsComplete CardsAreEarned FinishedIsPublished
CHECK_DEADLOCK FALSE
