SPECIFICATION Spec
CONSTANTS
  Turns = {t1, t2}
  Natives = {n1}
  MaxDeliveries = 2
  Faults = TRUE
  NoDelivery = none
INVARIANT NoFalseReceipt
