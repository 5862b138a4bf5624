SPECIFICATION Spec
CONSTANTS
  Nodes = {m, n}
  None = None
  Vessels = {u, v, w}
  ClassB = {}
  Fishing = {v}
  Known = {w}
  CacheTime = 1
  MaxMessages = 2
  MaxClock = 0
  MaxFaults = 1
  MaxMoves = 1
INVARIANTS TypeOK FishingHidden LocatedIsKnown
PROPERTY NodeStoresInOrder
SYMMETRY Symmetry
\* The system may stop: feed, clock and lock at their bounds.
CHECK_DEADLOCK FALSE
