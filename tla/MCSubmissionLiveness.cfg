SPECIFICATION FairSpec
CONSTANTS
  Request = {q1}
  Run = {r1}
  Board = {b1}
  Cleaner = {c1}
  Place = {1}
  RunLifetime = 2
  Retention = 1
  RecheckInterval = 1
  TopN = 0
  PageLimit = 1
  ConsumeSeesBoard = FALSE
  GuardedBegin = FALSE
  MaxClock = 3
  NoRequest = NoRequest
  NoRun = NoRun
  NoBoard = NoBoard
PROPERTIES OrphansRemoved ImplementsLedger
