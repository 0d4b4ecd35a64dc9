\* Ordinary archives; a challenge may outlive its archive, so the trigger's test matters.
SPECIFICATION Spec
CONSTANTS
  Request = {q1, q2}
  Run = {r1}
  Board = {b1}
  Cleaner = {c1}
  Place = {1, 2}
  RunLifetime = 2
  Retention = 1
  RecheckInterval = 1
  TopN = 0
  PageLimit = 1
  ConsumeSeesBoard = TRUE
  GuardedBegin = TRUE
  MaxClock = 2
  NoRequest = NoRequest
  NoRun = NoRun
  NoBoard = NoBoard
SYMMETRY RequestSymmetry
INVARIANTS OneEntryPerRun ArchiveOutlivesPromise AnswersTruthful

