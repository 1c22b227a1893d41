SPECIFICATION FairSpec
CONSTANTS
  t1 = t1
  t2 = t2
  f1 = f1
  f2 = f2
  NoFd = NoFd
  Transfer <- TwoTransfers
  Timed <- TwoTimed
  Fd <- TwoFds
  Asked <- Asks
  LinkFault <- OneFault
  CurlFault = TRUE
INVARIANT TimerCoversTransfers
INVARIANT LoopSound
PROPERTY StopEndsLoop
PROPERTY ImplementsService
CHECK_DEADLOCK FALSE
