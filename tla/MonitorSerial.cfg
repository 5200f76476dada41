SPECIFICATION Spec
CONSTANTS
  d = d
  home = home
  data = data
  None = None
  Calls <- TwoCalls
  Serial <- SameSerial
  Requests <- Asked
  MountPoints <- Dirs
  Luks <- Plain
  PendingTtl = 2
  MaxPending = 2
  MaxClock = 2
INVARIANT OnlyAuthorisedIsReported
CHECK_DEADLOCK FALSE
