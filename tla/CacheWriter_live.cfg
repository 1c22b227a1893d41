SPECIFICATION FairSpec
CONSTANTS
  MaxSync = 2
  MaxDbFail = 2
  PrepareFault <- HandledFaults
  EarlyStop = FALSE
INVARIANT NoFreedConnectionUsed
PROPERTY EveryEntryTaken
PROPERTY StopReturns
CHECK_DEADLOCK FALSE
