SPECIFICATION FairTunnel
INVARIANTS TypeOK GivesUpOnlyIfFast StopLeavesNothing SomebodyWatches
PROPERTIES TunnelBack ConnectEnds
CONSTANTS
  MaxExits = 5
  Window = 10
  Pause = 1
  Deadline = 15
CHECK_DEADLOCK FALSE
