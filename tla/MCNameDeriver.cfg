SPECIFICATION DeriverSpec
CONSTANTS
  k1 = k1
  k2 = k2
  k3 = k3
  n1 = n1
  n2 = n2
  n3 = n3
  kw = kw
  NoName = NoName
  MaxAttempts = 2
  Key <- MCKey
  Name <- MCName
  Keywords <- MCKeywords
  Reservable <- MCReservable
  Draws <- MCDraws
INVARIANTS
  NoCapture
  CandidatesInTurn
PROPERTY
  FreshNaming
