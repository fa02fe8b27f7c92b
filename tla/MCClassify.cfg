CONSTANTS
  Video = {v1, v2}
  Recent = {v1, v2}
  NoVideo = NoVideo
  Caller = {spool}
  Walker = Walker
  Worker = {w1, w2}
  QueueSize = 1
  RetryMax = 1
  MaxCrashes = 1
  MaxFaults = 1
SYMMETRY Interchangeable
SPECIFICATION Spec
INVARIANTS
  TypeOK
  OneHolder
  PendingIsOwed
  NotifiedOnce
  RefusedForWalk
PROPERTY KeepsService
CHECK_DEADLOCK FALSE
