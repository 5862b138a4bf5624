SPECIFICATION FairSpec
CONSTANTS
  Nodes = {m, n}
  None = None
  Reports = {p, q}
  Second = 2
  MaxDelay = 1
  MaxClock = 5
  MaxFaults = 1
  MaxMoves = 1
INVARIANTS TypeOK CursorCovers NeverTwice InOrder
PROPERTY HandlesDue
\* The system may stop: every report sent, the lock or the clock at its bound.
CHECK_DEADLOCK FALSE
