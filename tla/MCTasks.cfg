SPECIFICATION FairSpec
CONSTANTS
  Width = 2
  Rows = 2
  OS_MAX_TASKS = 2
  OS_MAX_EVENTS = 1
  OS_MAX_FLAGS = 0
  FlagBits = {}
  Msgs = {}
  Timeouts = {0, 1, 2}
  OS_SEM_MAX = 1
  OSQSize = 1
  OSMemNBlks = 1
  Profiles <- MCProfiles
  DeletionRaces = FALSE
  PrioChangeOfWoken = FALSE
  OS_TICKS_PER_SEC = 100
  Clocks <- MCClocks
  None = None
  Reserved = Reserved
INVARIANTS TypeOK TablesOK ReadyAgrees WaitersAgree HighestRuns NothingLost
PROPERTIES LockHeld DelayEnds
