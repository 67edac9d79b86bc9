CONSTANTS
  Request = {r1}
  first = first
  second = second
  broken = broken
  Config <- Contents
  Refused <- Broken
  MaxGen = 1
  MaxEdits = 1
  NoOne = NoOne
SPECIFICATION FairSpec

PROPERTY SigtermStops
CHECK_DEADLOCK FALSE
