SPECIFICATION IpcSpec
CONSTANTS
  Slots <- MCSlots
  Started <- MCStarted
  Vacant = {}
  FirstProc = 0
  Segs = {flat}
  FlatSeg = flat
  Addr <- MCSlots
  Buf <- MCBuf
  Payload = {m1}
  Junk = junk
  NULL = 99
  ANY = 45
  NO_TASK = 55
  StrayStores = {99}
  NullStores = {"ignored", "trapped"}
PROPERTY PointerKeptWhileBlocked
CHECK_DEADLOCK FALSE
