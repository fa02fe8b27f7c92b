SPECIFICATION PowerSpec

CONSTANTS
  Msg <- MCMsg
  None = None
  Size <- MCSize
  MetaSize = 1
  MaxBytes = 0
  Unparsable = {}
  MaxCrashes = 0
  MaxFaults = 1
  MaxOutages = 0
  MaxLosses = 2

INVARIANT ItemsAreWhole
PROPERTY LossHasAWindow
