SPECIFICATION Spec
CONSTANTS
  d1 = d1
  d2 = d2
  app = app
  ctl = ctl
  NONE = NONE
  REFUSED = REFUSED
  Bodies <- MCBodies
  Colon <- MCColon
  At <- MCAt
  Blank <- MCBlank
  Addresses <- MCAddresses
  Codes <- MCCodes
  ShellReads <- MCShellReads
  Ending <- MCEnding
  Options <- MCOptions
  Settings <- MCSettings
  ArgLists <- MCArgLists
  Words <- MCWordTexts
  Samples <- MCSamples
  MaxMicros = 90
  Capacity = 3
  App = app
  Daemons <- MCDaemons
  Clients <- MCClients
  Callers <- MCCallers
  Kinds <- MCKinds
  Heeding <- MCHeeding
  MaxMishaps = 1
INVARIANTS
  TypeOK
  OneDaemon
  NobodyWaitsInVain
  UnderstoodAsMeant
PROPERTIES
  CrashEvidenceKept
  ShutdownEnds
CHECK_DEADLOCK FALSE
