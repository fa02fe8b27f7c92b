CONSTANTS
  Session = {s1, s2}
  Message = {good, bad}
  NoMessage = NoMessage
  Unparsable = {bad}
  Wiring = {"unspooled"}
  MaxSends = 2
  MaxOutages = 0
  MaxHangups = 0
  MaxDeaths = 1
SPECIFICATION Spec
INVARIANT SpoolIsOptional
