SPECIFICATION MCSpec
CONSTANTS
  l1 = l1
  l2 = l2
  l3 = l3
  Literal <- MCLiteral
  ab = ab
  abc = abc
  cd = cd
  de = de
  ab_cd = ab_cd
  Value <- MCValue
  Within <- MCWithin
  Look <- MCLook
  Plan <- MCPlan
  Outside <- MCOutside
  Token <- MCToken
CHECK_DEADLOCK FALSE
INVARIANTS
  MappedIsGone
  HiddenWhole
  WritesTheSame
  CompileTimeIsEscaped
PROPERTY
  Finishes
