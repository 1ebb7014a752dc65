SPECIFICATION FairSpec
CONSTANTS
  QueueCap = 2
  Deliveries = {d1}
  Signal = FALSE
  AwaitFinal = FALSE
  MayBreak = FALSE
  MaxEarly = 1
  MaxNotes = 3
  MaxAsks = 0
CHECK_DEADLOCK FALSE
PROPERTY OperationEnds
