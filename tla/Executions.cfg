SPECIFICATION MCSpec
CONSTANTS
  c1 = c1
  c2 = c2
  s1 = s1
  Call = {c1, c2}
  Stream = {s1}
  Conns = 1
  Room = 1
  RowCap = 1
  Pulls = 2
CHECK_DEADLOCK FALSE
INVARIANTS
  TableMatchesLives
  OnlyOwnHangUp
  CancelledInLine
PROPERTIES
  CancelEnds
  PullReturns
