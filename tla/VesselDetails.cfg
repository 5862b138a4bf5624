SPECIFICATION FairSpec
CONSTANTS
  Ids = {a, b}
  Skews <- AheadAndBehind
  MaxDelay = 1
  Second = 2
  MaxClock = 4
  Null = Null
  Day = 2
  MaxFaults = 1
INVARIANTS TypeOK NoGap
PROPERTIES KeepsMirror CatchesUp
