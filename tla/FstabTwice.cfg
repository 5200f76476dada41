SPECIFICATION Spec
CONSTANTS
  a = a
  b = b
  home = home
  data = data
  srv = srv
  None = None
  Devices <- TwoDevices
  MountPoints <- Dirs
  Luks <- Plain
  Configurations <- Said
  AtStart <- OneDevice
  Initially <- First
  MaxPlugs = 3
  MaxEdits = 2
  MaxFaults = 1
  MaxEvents = 4
INVARIANT ReportedOnce
CHECK_DEADLOCK FALSE
