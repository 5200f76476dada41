SPECIFICATION SafeSpec
CONSTANTS
  c1 = c1
  m1 = m1
  w1 = w1
  h1 = h1
  Nobody = Nobody
  MaxNames = 2
  Commands <- MCCommands
  Reports <- MCReports
  Watchers <- MCWatchers
  Hostnames <- NoTasks
INVARIANT ExitSparesAll
CHECK_DEADLOCK FALSE
