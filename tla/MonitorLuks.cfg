SPECIFICATION Spec
CONSTANTS
  d = d
  home = home
  data = data
  None = None
  Calls <- TwoCalls
  Serial <- TwoSerials
  Requests <- Asked
  MountPoints <- Dirs
  Luks <- Encrypted
  PendingTtl = 2
  MaxPending = 2
  MaxClock = 2
PROPERTY LuksStaysLuks
CHECK_DEADLOCK FALSE
