CONSTANTS
  Width = 4
  Height = 3
  Scale = 3
  Blocked <- BlockedCorner
  InitialWalls = {}
  SparkStart <- BottomWall
  Bodies <- TwoBodies
  Filaments = {2}
  Integrity = 2
  MoveEvery = 1
  TargetCells = 5
  TimeLimits <- SevenTicks
  FilamentTouches <- Upright
  NoPoint = NoPoint
  MaxTicks = 20
  SmPhysics <- SmallPhysics
  SmScenario <- SmallStage
  PfStages = 2
  PfLives = 4
  PfMaxRuns = 5
  PfMaxStageTicks = 4
  PfMaxTotalTicks = 6
  PfOutcome <- Countdown
  RpInputs = {"idle", "serve"}
  RpHistory = 3
  RpMaxSteps = 2
  RpSpeeds = {1, 2}
  RpMaxElapsed = 3
  RpMaxBacklog = 6
  RpNone = RpNone
  CkTicks = {2, 3}
  CkMaxCatchUp = 3
  CkMaxElapsed = 12
  CkMaxTotal = 24
  AuAssets = 2
  AuPlans = {q1, q2}
  AuRuns = 3
  AuFaults = 1
  LabPractice = 1
  LabLast = 3
  LabLives = 1
  LabInterruptions = 1
  LabTicks = 1
  LabDriven = {2}
  LabHorizon = 1
  LabFollow = FALSE
  Request = {q1, q2}
  Run = {r1}
  Variant = {v1, v2}
  Cleaner = {c1}
  Tampered = {}
  Lifetime = 2
  Retention = 3
  Grace = 2
  UploadTime = 1
  PageLimit = 2
  MaxClock = 3
  NoRun = NoRun
  NoBytes = NoBytes
  Foreign = Foreign
SYMMETRY GamesSymmetry
SPECIFICATION GamesSpec
CHECK_DEADLOCK FALSE
INVARIANTS
  FieldIsSealed
  TraceIsAnOpenCut
  RpRecordIsThePlay
  ClockKeepsTime
  AudioStands
  LabRecordStands
  ReadyIsReadable
  UploadNeverWasted
  AnswersHold
PROPERTY
  FirstVerdictStands
  StageKeepsLedger
