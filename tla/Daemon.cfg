SPECIFICATION DaemonSpec
CONSTANTS
  c1 = c1
  c2 = c2
  w1 = w1
  Nobody = Nobody
  MaxNames = 2
  Commands <- MCCommands
  Reports <- NoTasks
  Watchers <- MCWatchers
  Hostnames <- NoTasks
  Served <- MCServed
  AtBoot <- MCAtBoot
INVARIANTS
  TypeOK
  CoveredExclusion
  ExitSparesCovered
  GuardIsAccountedFor
  OkMeansVisible
  EnrolsOnlyInSetupMode
  ReplyTellsTheOutcome
PROPERTIES
  AdmittedSettles
  TerminationStops
  TokensImplementGate
CHECK_DEADLOCK FALSE
