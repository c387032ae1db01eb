SPECIFICATION FairTerminal
CONSTANTS
  KB_IN_BYTES = 4
  Bytes <- MCBytes
  TTY_IN_BYTES = 2
  EmptyWaits = {"rereads", "hangs"}
  Printers = {"tty", "A", "B"}
  Tty = "tty"
  Height = 2
  Width = 2
  Wrap = 64
  Scenarios <- MCScenarios
INVARIANTS
  TerminalTypeInv
  EchoMatchesKeys
  FlagsFollowKeys
  ScreenShowsPage
  NumbersReadBack
PROPERTIES
  RingIsQueue
  KeysGetThrough
  PrintingEnds
CHECK_DEADLOCK FALSE
