SPECIFICATION FairSession
PROPERTIES TakeoverServed ShellExitEndsSession
CONSTANTS
  c1 = c1
  c2 = c2
  Conn <- TwoConns
  NoConn = NoConn
  Status <- Coded
  Kinds <- DataOnly
  MaxFrames = 2
  MaxChunks = 1
  SockCap = 1
  InCap = 1
  OutCap = 1
  PtyHangup = FALSE
CHECK_DEADLOCK FALSE
