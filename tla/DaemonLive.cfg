SPECIFICATION FairDaemon
PROPERTIES RequestAnswered ShutdownCompletes
CONSTANTS
  a = a
  b = b
  c = c
  s = s
  Client <- WithStranger
  Stranger <- OneStranger
  NoClient = NoClient
  Text <- Texts
  NoName = ""
  IdText <- TextOfId
  MaxSessions = 2
  Request <- LastCalls
CHECK_DEADLOCK FALSE
