SPECIFICATION Spec
CONSTANTS
  KeepAlive = KeepAlive
  NoLine = NoLine
  Feed <- GoodAndLast
  Proxy = FALSE
  MaxLines = 3
  MaxWire = 1
  MaxFaults = 1
  QueueCapacity = 1
INVARIANTS TypeOK NoSocketLeaks DeliversInOrder NoNullReader
PROPERTIES JoinsNeighbours KeepsFeed
\* The process may stop: reader dead or destroyed, bounds used up.
CHECK_DEADLOCK FALSE
