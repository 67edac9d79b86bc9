CONSTANTS
  Request = {r1, r2, r3}
  first = first
  second = second
  broken = broken
  Config <- Contents
  Refused <- Broken
  MaxGen = 3
  MaxEdits = 1
  NoOne = NoOne
SPECIFICATION FairSpec
INVARIANTS NoTwoGenerationsWork NoThreadLeftBehind OneGeneration UnchangedIsTrue
PROPERTIES ReloadAnswered
CHECK_DEADLOCK FALSE
