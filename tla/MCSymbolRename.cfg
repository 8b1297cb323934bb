SPECIFICATION Spec
CONSTANTS
  lib = lib
  main = main
  netrs = netrs
  deep = deep
  user = user
  Red = Red
  net = net
  LIMIT = LIMIT
  n1 = n1
  n2 = n2
  n3 = n3
  given1 = given1
  NoName = NoName
  NoWire = NoWire
  RuleNone = RuleNone
  wireName = wireName
  File <- MCFile
  Name <- MCName
  Spelling <- MCSpelling
  Rule <- MCRule
  Wire <- MCWire
  Cased <- MCCased
  PathOf <- MCPathOf
  Project <- MCProject
SYMMETRY Symmetry
CHECK_DEADLOCK FALSE
INVARIANTS
  WireKept
  ReferencesFollow
  NamesStayApart
  ModulesKeepTheirFiles
