SPECIFICATION Spec
CONSTANTS
  Words = 32
  MaxReg = 2
  Code <- SmallCode
  ResetPC = 9
  IntVec = 1
  ExcVec = 4
  DivStalls = 2
  WarmReset = TRUE
PROPERTIES NoExceptionBeforeFetch
