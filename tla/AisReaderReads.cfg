SPECIFICATION MonitoredFairSpec
CONSTANTS
  KeepAlive = KeepAlive
  NoLine = NoLine
  Feed <- AnySentence
  Proxy = TRUE
  MaxLines = 1
  MaxWire = 1
  MaxFaults = 1
  QueueCapacity = 1
PROPERTIES Recovers NoSentenceWaitsForEver DestroyStopsReader
\* The process may stop: reader dead or destroyed, bounds used up.
CHECK_DEADLOCK FALSE
