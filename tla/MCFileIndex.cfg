CONSTANTS
  Video = {v1, v2}
  NoVideo = NoVideo
  Poster = Poster
  Walker = Walker
  MaxRecords = 2
  MaxCrashes = 1
  MaxFaults = 1
SPECIFICATION FairSpec
INVARIANTS
  RowIsRight
PROPERTY EventuallyListed
CHECK_DEADLOCK FALSE
