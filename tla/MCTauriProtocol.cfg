SPECIFICATION Spec
CONSTANTS
  lib = lib
  cmd = cmd
  app = app
  view = view
  save = save
  load = load
  reload = reload
  tick = tick
  boot = boot
  n1 = n1
  n2 = n2
  n3 = n3
  NoName = NoName
  File <- MCFile
  Rust <- MCRust
  Script <- MCScript
  Name <- MCName
  Spelling <- MCSpelling
  Within <- MCWithin
  Framework <- MCFramework
  Project <- MCProject
SYMMETRY Symmetry
CHECK_DEADLOCK FALSE
INVARIANTS
  CallsReachAsBefore
  NothingLeftBehind
  CommandsStayInTheCopy
