SPECIFICATION Spec

CONSTANTS
  Msg <- MCMsg
  None = None
  Size <- MCSize
  MetaSize = 1
  MaxBytes = 3
  Unparsable = {3}
  MaxCrashes = 1
  MaxFaults = 2
  MaxOutages = 1

INVARIANTS
  Custody
  DebrisBudget
  EachCopyIsGiven
  OutageSparesMessages
  NothingStranded
  SpoolBound

PROPERTIES
  KeepsPromise
