SPECIFICATION MCSpec
CONSTANTS
  Tasks = {"t1", "t2"}
  Observations <- TwoObservations
  Directs <- Snapshots
  Pages <- Listed
  Rank <- Order
  Source = "list"
  StaleAge = 1
  MaxOpen = 1
  MaxTasks = 2
  CollectionCap = 1
  IngestCap = 2
  MaxTime = 3
  MaxIngests = 4
CHECK_DEADLOCK FALSE
INVARIANT LatestWins
INVARIANT StagedWhole
INVARIANT SerialReplay
INVARIANT WalkComplete
SYMMETRY Symmetry
CONSTANTS
  Calls = {c1, c2, c3}
  Starts = {s1}
  Requests = {r1, r2}
  Prompts = {p1, p2}
  EventCap = 2
  MaxClock = 4
  Keys = {1, 2, 3}
  MaxLimit = 2
  StaleFor = 0
  LastTime = 2
