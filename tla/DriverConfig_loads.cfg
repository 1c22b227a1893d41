SPECIFICATION Spec
CONSTANTS
  Tables <- AllTables
  Values = {"x", "y"}
  MaxLoads = 3
  PortMod = 16
  TimeoutMod = 32
  Default = 7
  Throw = Throw
  Unset = Unset
INVARIANT DriversReady
PROPERTY LoadIsTheTable
PROPERTY StaleFormatIsSafe
CHECK_DEADLOCK FALSE
