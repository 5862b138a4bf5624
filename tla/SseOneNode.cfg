SPECIFICATION Spec
CONSTANTS
  Nodes = {m, n}
  None = None
  Reports = {p}
  Second = 2
  MaxDelay = 1
  MaxClock = 5
  MaxFaults = 0
  MaxMoves = 1
INVARIANT SentByOneNode
\* The system may stop: every report sent, the lock or the clock at its bound.
CHECK_DEADLOCK FALSE
