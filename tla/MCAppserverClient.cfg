SPECIFICATION FairSpec
CONSTANTS
  QueueCap = 2
  Deliveries = {d1}
  Signal = TRUE
  AwaitFinal = TRUE
  MayBreak = TRUE
  MaxEarly = 3
  MaxNotes = 3
  MaxAsks = 1
CHECK_DEADLOCK FALSE
PROPERTY HangsOnlyJammed
