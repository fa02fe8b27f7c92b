CONSTANTS
  Browser = {b1}
  ConfigFile <- MCConfigFile
  WithBar = {"b|r"}
  Root = "root"
  Folder = {"porch", "yard"}
  File <- MCFile
  Temp <- MCTemp
  ReadAs <- MCReadAs
  NoPath = "nothing"
  BadPath = ".."
  Binary = {"binary"}
  NoConfig = NoConfig
  NoCookie = NoCookie
  NoLogin = NoLogin
  MaxTime = 6
SPECIFICATION Spec
INVARIANTS
  LoadedIsSafe
  LoginLasts
  SessionEnds
  RedirectsEnd
  LinksLead
CONSTRAINT OneSubject
