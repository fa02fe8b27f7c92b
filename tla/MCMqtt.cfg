CONSTANTS
  Means <- MCMeans
  Percent = 10
  Threshold = 600
  NotifyCategories <- MCNotifyCategories
  Roster <- MCRoster
  Folder <- MCFolder
  TopicId <- MCTopicId
  Base <- MCBase
  Answer <- MCAnswer
  Worker = {w1, w2}
  NoFolder = NoFolder
  NoAnswer = NoAnswer
  MaxEvents = 2
  MaxOutages = 1
  MaxDeaths = 1
  MaxFaults = 1
SPECIFICATION FairSpec
INVARIANTS
  MotionCovered
  OnlineIsAlive
  CamerasAreDescribed
  AlertsAreSure
PROPERTY MotionEnds
CHECK_DEADLOCK FALSE
