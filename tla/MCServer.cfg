CONSTANTS
  Session = {s1, s2}
  Message = {good, bad}
  NoMessage = NoMessage
  Unparsable = {bad}
  Wiring = {"spool", "direct", "bare", "unspooled"}
  MaxSends = 2
  MaxOutages = 1
  MaxHangups = 1
  MaxDeaths = 1
SPECIFICATION FairSpec
INVARIANTS
  AcceptedIsKept
  DuplicatesHaveCause
  OutageIsHeard
PROPERTIES
  OutageRestarts
  ServesAgain
