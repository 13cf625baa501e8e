SPECIFICATION MeasureSpec
CONSTANTS
  p1 = p1
  p2 = p2
  p3 = p3
  p4 = p4
  Pods = {p1, p2, p3, p4}
  NoPod = noPod
  MaxReplicas = 2
  Disturbances = 1
  StableChecks = 3
  OtherRestarts = 1
SYMMETRY PodSymmetry
INVARIANTS RecoveryIsReal ResidueIsReported EffectsAreCaused
PROPERTIES ImplementsLifecycle
CHECK_DEADLOCK FALSE
