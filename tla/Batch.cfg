SPECIFICATION Spec
CONSTANTS
  w = w
  x = x
  y = y
  z = z
  c1 = c1
  c2 = c2
  None = None
  Ids <- FourIds
  Listed <- ThreeListed
  Calls <- TwoCalls
  Requests <- Lists
  Limit = 2
  Budget = 3
  Ttl = 2
  Cap = 3
  MaxClock = 3
  MaxFaults = 1
INVARIANTS
  TypeOK
  CapIsPaidBack
  ReplyIsComplete
PROPERTIES
  CallMakesProgress
CHECK_DEADLOCK FALSE
