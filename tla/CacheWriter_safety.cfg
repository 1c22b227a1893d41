SPECIFICATION Spec
CONSTANTS
  MaxSync = 3
  MaxDbFail = 2
  PrepareFault <- AllFaults
  EarlyStop = TRUE
INVARIANT TypeOK
INVARIANT NoLostWakeup
INVARIANT TakenInOrder
INVARIANT UpdateHasConnection
PROPERTY QuietAfterStop
CHECK_DEADLOCK FALSE
