SPECIFICATION Spec
CONSTANTS
  OS_TMR_CFG_MAX = 3
  OS_TMR_CFG_WHEEL_SIZE = 2
  TimeRange = 4
  Settings <- MCSettings
  SignalMax = 1
  CallbackTouchesNext = TRUE
  Null = Null
PROPERTIES StoppedStaysOff
