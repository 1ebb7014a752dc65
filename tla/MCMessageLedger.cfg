SPECIFICATION MCSpec
CONSTANTS
  Sides = {"messages"}
  w1 = w1
  w2 = w2
  w3 = w3
  i1 = i1
  direct = direct
  subtree = subtree
  Requests = {r1, r2, r3}
  Payloads = {direct, subtree}
  Workers = {w1, w2}
  To <- Fanout
  RetentionCap = 2
  DeliveryCap = 3
  ReplayCap = 2
  MaxCalls = 4
  Authors = {w1}
  Issues = {i1}
  BadIssue = bad
  None = None
  Mistyped = mistyped
  MaxCommands = 1
  DecisionRequests = {k1}
  Lines <- NoLines
  Records <- MCRecords
  Host = "h"
  AttachHosts = {None}
  ThreadOf <- MCThreadOf
  MaxMoves = 0
  MaxChanges = 0
SYMMETRY Renaming
PROPERTY PendingNeverDropped
PROPERTY NoEarlyDuplicate
