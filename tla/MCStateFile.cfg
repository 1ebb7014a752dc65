SPECIFICATION MCSpec
CONSTANTS
  Processes = {p1, p2, p3}
  Old = old
  None = None
  MaxKills = 2
  MaxLosses = 2
  MaxUses = 4
  Branches = {b1, b2}
  Paths = {w1, w2}
SYMMETRY Symmetry
CHECK_DEADLOCK FALSE
INVARIANT NothingLost
INVARIANT BackupKept
INVARIANT ReuseIsWhole
