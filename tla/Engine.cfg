SPECIFICATION MCSpec
CONSTANTS
  Request = {r1, r2, r3}
  Threads = 1
  Cap = 1
  Boots = TRUE
  NoJob = NoJob
  Export = {e1, e2}
  Subject = {a}
  MaxExports = 2
  MaxOwn = 1
  Length = 1
  Import = {i1, i2}
  Other = i2
  Tenant = {a}
  MaxImports = 1
  MaxShare = 1
  Rows = 2
  Batch = 2
  Mail = {m1, m2}
  Worker = {w1, w2}
  QueueCap = 1
  StoreCap = 1
  Tx = {t1, t2}
  Pool = Pool
  MaxStatements = 2
CHECK_DEADLOCK FALSE
INVARIANTS
  NoDeadRuntimeKept
  TimeoutIsTold
  EntriesAreTrue
PROPERTIES
  RequestAnswered
  TransfersEnd
