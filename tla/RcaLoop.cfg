SPECIFICATION Spec
CONSTANTS
  CaseOrder <- TwoCases
  Settings <- TwoSettings
  Results <- ReturnedResults
  NoCase = noCase
  NoAction = noAction
INVARIANTS ConfirmedIsEarned ReusableIsUncontradicted RoundsKeepTheirParent
