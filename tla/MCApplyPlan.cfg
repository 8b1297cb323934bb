SPECIFICATION Spec
CONSTANTS
  Bad = Bad
  Torn = Torn
  Path <- MCPath
  Insert <- MCInsert
  Continuation <- MCContinuation
  Cases <- MCCases
CHECK_DEADLOCK FALSE
INVARIANTS
  RefusalTouchesNothing
  CreatesAfterEdits
  AppliedExactly
PROPERTY
  NoFileLost
