CONSTANTS
  Video = {v1, v2}
  NoVideo = NoVideo
  Poster = Poster
  Walker = Walker
  MaxRecords = 2
  MaxCrashes = 0
  MaxFaults = 0
SPECIFICATION Spec
PROPERTY RefreshIsFresh
CHECK_DEADLOCK FALSE
