\* Two attempts of a two-stage campaign.
CONSTANTS
  Enabled = TRUE
  StageCount = 2
  Break = 1
  Window = 1
  MaxAttempt = 2
  MaxCountdown = 2
  MaxClock = 1
SPECIFICATION FairSpec
INVARIANTS
  ResultIsFairAndWhole
  ReceiptIsOurs
PROPERTIES
  CountdownIsPaced
  DiscardedOnPurpose
  KeepsPromise
  NothingHangs
