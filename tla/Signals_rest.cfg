SPECIFICATION FairSpec
CONSTANTS
  Receivers = {"main", "other"}
  AtRest = TRUE
  Sent = {"HUP", "TERM", "INT"}
  MaxRows = 1
INVARIANT LocksSound
PROPERTY TerminationEndsProgram
PROPERTY ReloadCompletes
CHECK_DEADLOCK FALSE
