\* Two customers, two lanes and two flavors; one POST of one run, one Worker.
CONSTANTS
  Lanes = 2
  LaneLength = 4
  Stations <- TwoFlavors
  JarPool = 3
  BlendTicks = 1
  WashTicks = 1
  DrinkTicks = 1
  CustomerCount = 2
  InitialDelay = 1
  SpawnInterval = 3
  SpawnAcceleration = 1
  SpawnFloor = 1
  MarchSpeed = 1
  LeaveSpeed = 2
  SlideSpeed = 2
  ReturnSpeed = 2
  ResumeExit = 3
  StationRepeat = 1
  LaneRepeat = 2
  StartLives = 2
  StartScore = 0
  Reach = 2
  Stride = 1
  Home = 0
  CatchRadius = 1
  ServeBase = 2
  ServeStep = 1
  ServeCap = 1
  JarCatch = 2
  ClearBonus = 1
  MaxRequeues = 1
  Nothing = "nothing"
  Request = {q1}
  Run = {r1}
  Variant = {v1}
  Cleaner = {c1}
  Tampered = {r1}
  Lifetime = 1
  Retention = 2
  Grace = 2
  UploadTime = 1
  PageLimit = 1
  MaxClock = 4
  NoRun = NoRun
  NoBytes = NoBytes
  Foreign = Foreign
SPECIFICATION MaltlineSpec
CHECK_DEADLOCK FALSE
INVARIANTS
  AllAccounted
  ScoreIsEarned
PROPERTIES
  StageEnds
  NothingLingers
