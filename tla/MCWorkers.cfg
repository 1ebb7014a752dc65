SPECIFICATION MCSpec
CONSTANTS
  Sides = {"native", "touches"}
  Workers = {w0, w1, w2}
  Parent = w0
  Requests = {r1}
  Coordinators = {p1, p2}
  Threads = {t1, t2}
  MaxOthers = 2
  CloseRequests = {a1}
  Commands = {k1}
  PRStates = {open}
  MaxOtherCommands = 0
  PRMoves = FALSE
  Reopens = FALSE
  Holders = {h1}
  Claims = {c1}
  Updates = {u1}
  None = None
  CacheCap = 2
  Scopes <- FewScopes
  Paths <- TreePaths
  Retention = 2
  ConflictCap = 2
  MaxLag = 1
  MaxTime = 3
  Touches <- Neighbours
SYMMETRY Symmetry
CHECK_DEADLOCK FALSE
INVARIANT BindAnswerTrue
INVARIANT StatusLands
PROPERTY OwnTaskCloses
INVARIANT TouchWarningsExact
