SPECIFICATION FairSpec

CONSTANTS
  c1 = c1
  c2 = c2
  c3 = c3
  Call = {c1, c2, c3}
  Slot = {noon, one}
  NoSlot = NoSlot
  Attachments <- MCAttachments

INVARIANTS
  StoredIntact
  TriesAreFew

PROPERTIES
  NoClobber
  CallsEnd
