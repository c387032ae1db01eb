SPECIFICATION FairDemo
CONSTANTS
  Slots <- MCSlots
  Started = {2, 3}
  Vacant = {7}
  FirstProc = 0
  Segs = {0, 7}
  FlatSeg = 0
  Addr = {"s", "mm", "m", "c", "u"}
  Payload <- MCPayload
  Junk <- MCJunk
  NULL = NULL
  ANY = 45
  NO_TASK = 55
  StrayStores = {NULL}
  NullStores = {"ignored", "trapped"}
  SYS = 0
  MM = 2
  INIT_PROC = 3
  Garbage = 777
  StalePids = {0, 777}
  Statuses = {7}
  priority <- MCScaled
  ForkTicks = 3
  MaxLag = 0
INVARIANTS
  StatusIsReported
  OnlyInitReports
  CalmIsSafe
PROPERTY
  Completes
CHECK_DEADLOCK FALSE
