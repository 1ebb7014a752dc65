SPECIFICATION Spec
CONSTANTS
  Turns = {}
  Natives = {n1, n2}
  MaxDeliveries = 1
  Faults = FALSE
  NoDelivery = none
PROPERTY SettledStays
CHECK_DEADLOCK FALSE
