\* One Partition page with two fields in one session, all of whose requests are answered.
CONSTANTS
  VtFields = {1, 2}
  VtNoted = {2}
  VtRequests = 2
  VtViewers = 1
  VtValues = {1}
  VtTexts = {"n"}
  VtGames = {"partition"}
  VtNone = VtNone
SPECIFICATION VtHeardSpec
CHECK_DEADLOCK FALSE
INVARIANT
  NoteCarriesTheVote
