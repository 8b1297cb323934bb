SPECIFICATION Spec
CONSTANTS
  Bad = Bad
  Continuation <- MCContinuation
  Insert <- MCInsert
  File <- MCFile
  Sources <- MCSources
  Original <- MCOriginal
  Symbols <- MCSymbols
  MaxPasses = 3
CHECK_DEADLOCK FALSE
INVARIANTS
  TypeOK
  OnlyWholeReferences
  CountsReferences
PROPERTY
  Termination
