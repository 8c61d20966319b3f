SPECIFICATION FairSolo
INVARIANTS PathKept PidNeverMisleads ParentTruthful OnlyANamesakeHides
PROPERTIES Recovers
CONSTANTS
  Proc = {d1, d2}
  NoProc = NoProc
  User = {u1, u2}
  Name = {work, 0}
  NoName = NoName
  Target = {work, 0}
CHECK_DEADLOCK FALSE
