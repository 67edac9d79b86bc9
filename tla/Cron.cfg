SPECIFICATION MCSpec
CONSTANTS
  Field = {"min", "hour", "dom", "mon", "dow"}
  Step = {0, 1, 2, 5, 7}
  LastYear = 2110
  Entry = {c1, c2}
  Expr <- Exprs
  MaxTime = 3
CHECK_DEADLOCK FALSE
INVARIANTS
  CrontabAsRead
  NoDoubleTrigger
PROPERTY
  DueIsServed
