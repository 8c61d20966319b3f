SPECIFICATION Spec
INVARIANTS TypeOK LiveSessionsListed UniqueNames HandedWhereAsked
PROPERTIES KilledTakesNobody TasksKeepPromise
CONSTANTS
  a = a
  b = b
  c = c
  s = s
  Client <- ThreeClients
  Stranger = {}
  NoClient = NoClient
  Text <- Texts
  NoName = ""
  IdText <- TextOfId
  MaxSessions = 2
  Request <- NamedCalls
CHECK_DEADLOCK FALSE
