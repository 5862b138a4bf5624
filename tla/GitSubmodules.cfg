SPECIFICATION FairSpec
CONSTANTS
  p = p
  q = q
  u = u
  v = v
  None = None
  Bad = Bad
  Root = Root
  SuperUrl = SuperUrl
  NoUrl = NoUrl
  Paths = {p, q}
  Urls = {u, v}
  Commits = {1, 2}
  DefaultFiles <- Defaults
  OverrideFiles <- Overrides
  MaxRetries = 2
  MaxFaults = 1
  MaxEdits = 1
INVARIANTS TypeOK RemoteIsOwn DoneIsReady DoneIsUnstaged
PROPERTIES KeepsCheckouts UnignoredFails BecomesReady
