SPECIFICATION MCSpec
CONSTANTS
  x = x
  NoName = NoName
  Spelled = Spelled
  Size = 3
  Name <- MCName
  NewName <- MCNewName
  Program <- MCProgram
ACTION_CONSTRAINT InOrder
CHECK_DEADLOCK FALSE
INVARIANTS
  SameMeaning
  AllAreHidden
