SPECIFICATION MCSpec
CONSTANTS
  Tasks = {t1, t2}
  TaskQuota = 1
  Files = {f1, f2}
  Size = 2
  IDs = {d1, d2}
  Outputs = {o1, o2}
  Sessions = {s1, s2}
  None = None
  MaxEdits = 2
  MaxMoves = 2
  Changesets = {c1}
  Instances = {l1, l2}
  Login = l1
  Commands = {s1, s2, k1}
  Commit = sha
  Machines = {d1, d2}
  Claims = {a1, old}
  Legacy = old
  Exchanges = {s1, s2}
  MaxClock = 2
SYMMETRY Symmetry
CHECK_DEADLOCK FALSE
INVARIANT LocalNeedsCentral
PROPERTY LocalRevocationSticks
INVARIANT FilesWhole
INVARIANT ClosureConfirmed
INVARIANT OrphanExplained
PROPERTY RecordHeals
PROPERTY PullKeepsNewer
