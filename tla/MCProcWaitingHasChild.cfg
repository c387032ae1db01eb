SPECIFICATION ClientsSpec
CONSTANTS
  Slots <- MCSlots
  Started = {2, 3}
  Vacant = {7, 8}
  FirstProc = 0
  Segs = {0, 7, 8}
  FlatSeg = 0
  Addr = {"s", "mm", "m", "c", "u"}
  Payload <- MCPayload
  Junk <- MCJunk
  NULL = NULL
  ANY = 45
  NO_TASK = 55
  StrayStores = {NULL}
  NullStores = {"ignored"}
  SYS = 0
  MM = 2
  INIT_PROC = 3
  Garbage = 777
  StalePids = {777}
  Statuses = {7}
  Menu <- PairMenu
  MaxCalls <- PairCalls
INVARIANT WaitingHasChild
CHECK_DEADLOCK FALSE
