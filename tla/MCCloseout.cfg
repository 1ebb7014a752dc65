SPECIFICATION MCSpec
CONSTANTS
  Sides = {"close", "claims"}
  Workers = {w0}
  Parent = w0
  Requests = {r1}
  Coordinators = {p1}
  Threads = {t1}
  MaxOthers = 0
  CloseRequests = {a1, a2}
  Commands = {k1, k2, k3}
  PRStates = {open, merged}
  MaxOtherCommands = 1
  PRMoves = TRUE
  Reopens = TRUE
  Holders = {h1}
  Claims = {c1, c2}
  Updates = {u1}
  None = None
  CacheCap = 2
  Scopes <- FewScopes
  Paths <- TreePaths
  Retention = 2
  ConflictCap = 4
  MaxLag = 1
  MaxTime = 3
  Touches <- Neighbours
SYMMETRY Symmetry
CHECK_DEADLOCK FALSE
INVARIANT SuccessIsComplete
PROPERTY AppliedOncePerWindow
INVARIANT ClaimWarningsExact
