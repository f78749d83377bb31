CONSTANTS
  Sockets = {s1, s2}
  Packets = {p1, p2, p3}
SPECIFICATION FairSpec
INVARIANTS SendInProgressIffQueued OneWaitEach
PROPERTIES ImplementsQueue EventuallyTried
CHECK_DEADLOCK FALSE
