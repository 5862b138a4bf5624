SPECIFICATION Spec
CONSTANTS
  Nodes = {m}
  None = None
  Vessels = {v}
  ClassB = {v}
  Fishing = {v}
  Known = {}
  CacheTime = 1
  MaxMessages = 2
  MaxClock = 1
  MaxFaults = 0
  MaxMoves = 1
INVARIANT ClassBIgnored
\* The system may stop: feed, clock and lock at their bounds.
CHECK_DEADLOCK FALSE
