SPECIFICATION FairSpec
CONSTANTS
  a = a
  b = b
  Long <- OneTask
  Cron = {c}
  Endless = {}
  Workers = 2
  Trigger = {k1}
  Stopper = {s1}
  MaxPanics = 1
CHECK_DEADLOCK FALSE
INVARIANTS
  OneSessionPerTask
  NoWorkAfterJoin
  StoppedIsTornDown
PROPERTIES
  JoinReturns
  WishesAreMet
