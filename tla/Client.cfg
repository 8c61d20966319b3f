SPECIFICATION FairClient
INVARIANTS EndsForAReason HelloFirst
PROPERTIES NoFalseAlarm DeadLinkNoticed Reconnects CtrlCAborts
CONSTANTS
  Chunks <- SomeChunks
  Limit = 3
  HasEnv = TRUE
  Redraw = FALSE
  ShellCode = 3
  MaxKeys = 1
  MaxInbox = 2
CHECK_DEADLOCK FALSE
