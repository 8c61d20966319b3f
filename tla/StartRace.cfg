SPECIFICATION Spec
INVARIANT OneDaemon
CONSTANTS
  Proc = {d1, d2, d3}
  NoProc = NoProc
  User = {}
  Name = {work}
  NoName = NoName
  Target = {work, 0}
CHECK_DEADLOCK FALSE
