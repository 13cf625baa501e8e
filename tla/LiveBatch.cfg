SPECIFICATION Spec
CONSTANTS
  c1 = c1
  c2 = c2
  Actions = {c1, c2}
  NoAction = noAction
  Selected <- InOrder
  MaxCrashes = 2
INVARIANTS ExperimentsAreIsolated InjectedOnce VerifiedIsClean LearnedOnce
CHECK_DEADLOCK FALSE
