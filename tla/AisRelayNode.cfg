SPECIFICATION FairSpec
CONSTANTS
  Nodes = {m}
  None = None
  Vessels = {w}
  ClassB = {}
  Fishing = {}
  Known = {w}
  CacheTime = 1
  MaxMessages = 3
  MaxClock = 1
  MaxFaults = 0
  MaxMoves = 1
PROPERTIES DecidesFreshly HolderStores
\* The system may stop: feed, clock and lock at their bounds.
CHECK_DEADLOCK FALSE
