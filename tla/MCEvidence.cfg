SPECIFICATION MCSpec
CONSTANTS
  Sides = {"decisions"}
  w1 = w1
  w2 = w2
  w3 = w3
  i1 = i1
  direct = direct
  subtree = subtree
  Requests = {r1}
  Payloads = {direct}
  Workers = {w1}
  To <- DirectOnly
  RetentionCap = 1
  DeliveryCap = 1
  ReplayCap = 1
  MaxCalls = 0
  Authors = {w1, w2, w3}
  Issues = {i1}
  BadIssue = bad
  None = None
  Mistyped = mistyped
  MaxCommands = 3
  DecisionRequests = {k1, k2, k3, k4}
  Lines <- MCLines
  Records <- MCRecords
  Host = "h"
  AttachHosts = {None}
  ThreadOf <- MCThreadOf
  MaxMoves = 1
  MaxChanges = 1
SYMMETRY Renaming
CHECK_DEADLOCK FALSE
PROPERTY ResolutionsAgree
PROPERTY RetryAnswered
