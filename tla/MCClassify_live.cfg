CONSTANTS
  Video = {v1, v2}
  Recent = {v1, v2}
  NoVideo = NoVideo
  Caller = {spool}
  Walker = Walker
  Worker = {w1}
  QueueSize = 1
  RetryMax = 1
  MaxCrashes = 1
  MaxFaults = 0
SPECIFICATION FairSpec
PROPERTY Decided
CHECK_DEADLOCK FALSE
