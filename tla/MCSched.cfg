SPECIFICATION FairSched
CONSTANTS
  N = 3
  Nobody = 99
  Boot = 0
  priority <- MCPriority
  ForkTicks = 2
  MaxLag = 2
INVARIANTS
  SchedTypeInv
  PickIsBest
  PickIsFirstBest
  RefillOnlyWhenSpent
PROPERTIES
  TicksOnlyFromRefill
  ImplementsDispatch
  NoStarvation
CHECK_DEADLOCK FALSE
