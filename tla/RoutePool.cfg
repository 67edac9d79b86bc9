SPECIFICATION FairSpec
CONSTANTS
  Caller = {l1, l2}
  Conn = {l1, l2, zero}
  Zero = zero
  Worker = {w1, w2}
  WorkersMax = 1
  Preload = {"ok", "fail", "panic"}
  Outcomes = {"ok", "core", "timeout", "panic"}
  NoFrame = NoFrame
CHECK_DEADLOCK FALSE
INVARIANTS
  LiveIsExact
  WriteBackBeforeNextFrame
  NoFrameAfterDetach
PROPERTIES
  UsesScheduler
  FireReturnsIfKept
