SPECIFICATION BootSpec
CONSTANTS
  Machines <- MCMachines
  BytsPerSec = 16
  SecPerTrk = 4
  FATSz = 2
  RootDirSectors = 2
  EntriesPerSec = 2
  Sectors = 26
  SegSize = 64
  LOADER_OFF = 8
  WordMB = 4096
  MaxErrors = 2
  AddrTss = 98304
  AddrLdts <- MCAddrLdts
INVARIANTS
  KernelUpTo512K
CHECK_DEADLOCK FALSE
