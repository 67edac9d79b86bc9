SPECIFICATION FairSpec
CONSTANTS
  Caller = {l1, l2}
  Conn = {l1, l2, zero}
  Zero = zero
  Worker = {w1, w2, w3}
  WorkersMax = 1
  Preload = {"ok"}
  Outcomes = {"ok", "timeout"}
  NoFrame = NoFrame
CHECK_DEADLOCK FALSE
PROPERTY
  FireReturns
