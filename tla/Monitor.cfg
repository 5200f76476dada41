SPECIFICATION Spec
CONSTANTS
  d = d
  home = home
  data = data
  None = None
  Calls <- ThreeCalls
  Serial <- OwnSerials
  Requests <- Asked
  MountPoints <- Dirs
  Luks <- Plain
  PendingTtl = 2
  MaxPending = 2
  MaxClock = 2
INVARIANTS
  TypeOK
  OnlyAuthorisedIsReported
  DeclarationsFollowFstab
PROPERTIES
  EvictsOldest
  AuthorisedIsReported
CHECK_DEADLOCK FALSE
