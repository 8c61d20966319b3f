SPECIFICATION Spec
INVARIANTS SurvivesDisconnect
CONSTANTS
  c1 = c1
  c2 = c2
  Conn <- TwoConns
  NoConn = NoConn
  Status <- Coded
  Kinds <- AnyFrame
  MaxFrames = 1
  MaxChunks = 1
  SockCap = 1
  InCap = 1
  OutCap = 1
  PtyHangup = FALSE
CHECK_DEADLOCK FALSE
