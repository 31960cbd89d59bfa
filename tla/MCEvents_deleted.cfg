SPECIFICATION Spec
CONSTANTS
  Width = 2
  Rows = 3
  OS_MAX_TASKS = 3
  OS_MAX_EVENTS = 2
  OS_MAX_FLAGS = 1
  FlagBits = {1, 2}
  Msgs = {m1, m2}
  Timeouts = {0, 1}
  OS_SEM_MAX = 1
  OSQSize = 2
  OSMemNBlks = 2
  Profiles <- MCDeleted
  DeletionRaces = TRUE
  PrioChangeOfWoken = FALSE
  OS_TICKS_PER_SEC = 100
  Clocks <- MCClocks
  None = None
  Reserved = Reserved
INVARIANT CheckedIsThere
