SPECIFICATION FairSpec
CONSTANTS
  Ids = {a, b}
  Skews <- AheadAndBehind
  MaxDelay = 1
  Second = 2
  MaxClock = 5
  Null = Null
  Margin = 2
  MaxFrame = 3
  Overlap = 1
  MaxFaults = 2
INVARIANTS TypeOK NoGap UpdatedCoversData CheckedAfterUpdated EstimatesFollowed
PROPERTIES KeepsMirror CatchesUp
