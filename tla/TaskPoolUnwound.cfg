SPECIFICATION Spec
CONSTANTS
  a = a
  b = b
  Long <- TwoTasks
  Cron = {c}
  Endless = {}
  Workers = 1
  Trigger = {k1}
  Stopper = {s1}
  MaxPanics = 1
CHECK_DEADLOCK FALSE
INVARIANT
  NoSessionUnwound
