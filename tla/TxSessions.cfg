SPECIFICATION FairSpec
CONSTANTS
  a = a
  b = b
  ra = ra
  rb = rb
  tenant = tenant
  Request = {ra, rb}
  Op = {a, b}
  ReqOf <- MCReqOf
  OwnerOf <- MCOwnerOf
  Session = {1, 2}
  Attacher = {ra}
  MaxSessions = 1
  MaxPerOwner = 1
  MaxEpoch = 1
  Reaper = Reaper
  None = None
INVARIANTS
  WithinQuota
PROPERTIES
  OnlyHolderEnds
  OldIsRefused
  ExpiredGoes
  CallReturns
