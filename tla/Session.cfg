SPECIFICATION Spec
SYMMETRY ConnSymmetry
INVARIANTS TypeOK LastWord OutputOnce ExitCodeTruthful EndAnnounced ShellFate AttachedFlag
PROPERTIES ImplementsTask
CONSTANTS
  c1 = c1
  c2 = c2
  Conn <- TwoConns
  NoConn = NoConn
  Status <- Signalled
  Kinds <- AnyFrame
  MaxFrames = 1
  MaxChunks = 2
  SockCap = 1
  InCap = 1
  OutCap = 1
  PtyHangup = TRUE
CHECK_DEADLOCK FALSE
