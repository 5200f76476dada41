SPECIFICATION Spec
CONSTANTS
  c1 = c1
  c2 = c2
  None = None
  Items <- AllItems
  AppId <- AppIds
  Pname <- Pnames
  Hits <- AllHits
  Dotted <- DottedIds
  Requests <- AllRequests
  Calls <- TwoCalls
  Declared <- AtFirst
  Touched <- Changing
  Ttl = 1
  PageTtl = 2
  MaxClock = 1
  MaxCommits = 1
  MaxEdits = 1
  MaxFaults = 1
INVARIANTS
  TypeOK
  OneRowPerGroup
  HiddenStayReachable
PROPERTIES
  FlagsAreRecent
  InstalledRepresents
CHECK_DEADLOCK FALSE
