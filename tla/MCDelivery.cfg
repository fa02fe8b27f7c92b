CONSTANTS
  Msg <- MCMsg
  None = None
  Size <- MCSize
  MetaSize = 1
  MaxBytes = 0
  Unparsable = {}
  MaxCrashes = 1
  MaxFaults = 1
  MaxOutages = 1
  MaxSets = 3
  MaxMissed = 1
SPECIFICATION DeliveryFairSpec
INVARIANTS
  AlertsAreEarned
PROPERTIES
  Delivered
CONSTRAINT OneTrouble
