CONSTANTS
  Width = 3
  Height = 2
  Scale = 3
  Blocked = {}
  InitialWalls = {}
  SparkStart <- BottomWall
  Bodies <- OneDrifter
  Filaments = {}
  Integrity = 2
  MoveEvery = 1
  TargetCells = 4
  TimeLimits <- SixTicks
  FilamentTouches <- NoTouch
  NoPoint = NoPoint
  Programs <- ThePrograms
  Steers <- TheSteers
  Watches = {w1}
  WatchTicks = {2, 4}
  SampleEvery = 2
  NoController = NoController
  MaxVersion = 2
SPECIFICATION Spec
CHECK_DEADLOCK FALSE
INVARIANT
  OpenReplayIsAccepted
