SPECIFICATION WorkspaceSpec
CONSTANTS
  Size = 3
  Setup <- MCSetup
  NameOrder <- MCNameOrder
  IgnoredDirs <- MCIgnoredDirs
  IgnoredFiles <- MCIgnoredFiles
  StripSkips <- MCStripSkips
  ScanSkips <- MCScanSkips
  ShippingDirs <- MCShippingDirs
CHECK_DEADLOCK FALSE
INVARIANTS
  CopyIsExact
  CommentsGo
  LayoutStays
  NothingLeaks
  SearchesFind
