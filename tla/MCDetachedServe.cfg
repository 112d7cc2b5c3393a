SPECIFICATION FairSpec
CONSTANTS
  p1 = p1
  p2 = p2
  c1 = c1
  c2 = c2
  c3 = c3
  Nobody = Nobody
  Pids <- MCPids
  Commands <- TwoCommands
  Operations <- AllOperations
  RootCount = 1
  BootSlack = 2
  DownTime = 1
  MaxInFlight = 2
  LastRestart = 3
  MaxReuse = 1
CHECK_DEADLOCK FALSE
INVARIANTS
  AnnouncedIsRecorded
  FailedDetachEndsItsServe
  StoppedHasExited
PROPERTIES
  SignalsOnlyServePids
  CommandsEnd
