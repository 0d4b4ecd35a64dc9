CONSTANTS
  Width = 3
  Height = 2
  Scale = 3
  Blocked = {}
  InitialWalls = {}
  SparkStart <- BottomWall
  Bodies <- OneDrifter
  Filaments = {}
  Integrity = 2
  MoveEvery = 1
  TargetCells = 4
  TimeLimits <- ThreeTicks
  FilamentTouches <- NoTouch
  NoPoint = NoPoint
  Codes = {"Space", "up"}
  Pointers = {p1}
  Actions = {"trace", "right"}
  Stages = 2
  MaxRecord = 2
  SfStages = 3
  SfMoods = {"giggle", "cackle"}
  SfMaxRuns = 2
  SfNone = SfNone
  CoAttempts = 2
  CoStages = 2
  CoRequests = 2
  VtFields = {1, 2}
  VtNoted = {2}
  VtRequests = 2
  VtViewers = 2
  VtValues = {1}
  VtTexts = {"n"}
  VtGames = {"partition", "smilefall"}
  VtNone = VtNone
SPECIFICATION PagesSpec
CHECK_DEADLOCK FALSE
INVARIANTS
  NoSwallowedCut
  StageReplaysVerify
  SfSubmissionsVerify
  SfUnsavedRunsAreWarned
  CoAttemptsStayApart
  CoPanelKeepsFaith
  VtPageKnowsTheVote
