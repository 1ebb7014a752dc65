SPECIFICATION MCSpec
CONSTANTS
  Requests = {q1, q2, q3}
  Servers = {s1, s2}
  Prompts = {p1, p2}
  NoRequest = none
  StoreErrors = TRUE
  Crashes = TRUE
  Closes = TRUE
  None = None
  QueueCap = 2
  Deliveries = {d1}
  Signal = TRUE
  AwaitFinal = TRUE
  MayBreak = TRUE
  MaxEarly = 3
  MaxNotes = 3
  MaxAsks = 1
SYMMETRY Symmetry
CHECK_DEADLOCK FALSE
INVARIANT OneTurn
INVARIANT AnswersDurable
PROPERTY IdentityStays
INVARIANT AskedOnce
INVARIANT FailureGenuine
INVARIANT CompletionGenuine
