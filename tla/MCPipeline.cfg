SPECIFICATION Spec
CONSTANTS
  Options <- MCOptions
  MaxRuns = 2
CHECK_DEADLOCK FALSE
INVARIANTS
  OneRunPerTree
  SuccessIsWhole
  NoCommentsHandedOver
