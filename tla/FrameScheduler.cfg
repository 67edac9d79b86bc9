SPECIFICATION MCSpec
CONSTANTS
  Conn = {c1, c2}
  Caller = {p1, p2, p3}
  Worker = {w1, w2}
  NoFrame = NoFrame
  Zero = c2
  Socket = {s1, s2}
  Second = s2
  Pool = {q1, q2}
  Limits = {0, 1}
  OutCap = 1
  MaxInbox = 1
  NoSocket = NoSocket
INVARIANTS
  PerConnSerial
  ClosedIsDrained
  ReadyIsNoticed
  HeldBackOnlyInFlight
  SocketsAreTrue
  EndIsNotHeldUp
PROPERTY
  KeepsMailboxes
