CONSTANTS
  Width = 3
  Height = 2
  Scale = 3
  Blocked = {}
  InitialWalls = {}
  SparkStart <- BottomWall
  Bodies <- OneDrifter
  Filaments = {}
  Integrity = 2
  MoveEvery = 1
  TargetCells = 4
  TimeLimits <- SixTicks
  FilamentTouches <- NoTouch
  NoPoint = NoPoint
  Programs <- ThePrograms
  Steers <- TheSteers
  Watches = {w1}
  WatchTicks = {2, 4}
  SampleEvery = 2
  NoController = NoController
  MaxVersion = 2
  LpCall = {q1, q2}
  LpRuns = {g1}
  LpShares = {q1, q2}
  LpRunLife = 1
  LpProofLife = 1
  LpDays = {1, 2}
  LpHorizon = 3
  LpNobody = LpNobody
  FbPut = {q1, q2}
  FbSession = {u1, u2}
  FbNotes = {n1}
  FbKeep = 1
  FbHorizon = 1
  FbNothing = FbNothing
  HrTurns = 3
  HrIdle = 2
  HrRetries = 1
  HrCalls = 2
  HrFaults = 2
SYMMETRY ServicesSymmetry
SPECIFICATION ServicesSpec
CHECK_DEADLOCK FALSE
INVARIANTS
  ControlledRunReplays
  WatchesAreServed
  LpSpentAndKept
  FbOneValue
  HrRecordCanBeBelieved
