SPECIFICATION Spec
CONSTANTS
  a = a
  b = b
  c1 = c1
  c2 = c2
  None = None
  Ttl = 1
  Cap = 1
  MaxClock = 1
  MaxWorld = 1
  Keys <- TwoKeys
  Plain <- TwoCallers
  Arcs <- ArcIds
  Forced <- OneCaller
INVARIANTS
  TypeOK
  FlightIsShared
  CapIsPaidBack
PROPERTIES
  ClearIsBarrier
  CallsReturn
CHECK_DEADLOCK FALSE
