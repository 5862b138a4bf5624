SPECIFICATION MonitoredFairSpec
CONSTANTS
  KeepAlive = KeepAlive
  NoLine = NoLine
  Feed <- NoFeed
  Proxy = FALSE
  MaxLines = 0
  MaxWire = 1
  MaxFaults = 0
  QueueCapacity = 1
PROPERTY HandlerReconnects
\* The process may stop: reader dead or destroyed, bounds used up.
CHECK_DEADLOCK FALSE
