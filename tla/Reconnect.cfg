SPECIFICATION Solo
INVARIANT ReconnectOwn
CONSTANTS
  Proc = {d1, d2}
  NoProc = NoProc
  User = {u1, u2}
  Name = {}
  NoName = NoName
  Target = {}
CHECK_DEADLOCK FALSE
