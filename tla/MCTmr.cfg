SPECIFICATION FairSpec
CONSTANTS
  OS_TMR_CFG_MAX = 3
  OS_TMR_CFG_WHEEL_SIZE = 2
  TimeRange = 4
  Settings <- MCSettings
  SignalMax = 1
  CallbackTouchesNext = FALSE
  Null = Null
INVARIANTS TypeOK LinksOK WheelOK
PROPERTIES AlarmsSpec WalkEnds
