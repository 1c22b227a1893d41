SPECIFICATION FairSpec
CONSTANTS
  MaxCalls = 3
  MaxLoads = 2
  InitFault = {"socket", "loop"}
INVARIANT CallsSound
PROPERTY EveryCallReturns
CHECK_DEADLOCK FALSE
