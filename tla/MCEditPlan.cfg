SPECIFICATION Spec
CONSTANTS
  t1 = t1
  t2 = t2
  NoText = NoText
  NoPath = NoPath
  NoMove = NoMove
  NoRequest = NoRequest
  Insert <- MCInsert
  File <- MCFile
  Text <- MCText
  Path <- MCPath
  Request <- MCRequest
  MaxRequests = 4
CHECK_DEADLOCK FALSE
INVARIANTS
  AllOrNothing
  OpsDisjoint
  TransactionsShareSnapshot
  PlacesClaimedOnce
  DistinctStartsDisjoint
PROPERTY AtomicStaging
