SPECIFICATION Spec
CONSTANTS
  Words = 32
  MaxReg = 2
  Code <- MCCode
  ResetPC = 9
  IntVec = 1
  ExcVec = 4
  DivStalls = 2
  WarmReset = FALSE
INVARIANTS TypeOK NoStaleData Interlock FetchBelongsToPc
PROPERTIES EveryAccessServed ArchSpec
