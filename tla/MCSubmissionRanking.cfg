SPECIFICATION Spec
CONSTANTS
  Request = {q1, q2, q3}
  Run = {r1, r2, r3}
  Board = {b1}
  Cleaner = {}
  Place = {1, 2, 3}
  RunLifetime = 1
  Retention = 1
  RecheckInterval = 1
  TopN = 1
  PageLimit = 1
  ConsumeSeesBoard = FALSE
  GuardedBegin = TRUE
  MaxClock = 0
  NoRequest = NoRequest
  NoRun = NoRun
  NoBoard = NoBoard
SYMMETRY RankingSymmetry
INVARIANTS PlacementDrift QualificationConsistent
CHECK_DEADLOCK FALSE
