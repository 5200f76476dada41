SPECIFICATION Spec
CONSTANTS
  t1 = t1
  t2 = t2
  t3 = t3
  Tasks <- MCTasks
INVARIANTS
  TypeOK
  NoTransactionPastDrain
  CounterIsExact
  WaitIsOwedWake
PROPERTIES
  DrainTerminates
  ImplementsGate
\* The process really stops once it has exited.
CHECK_DEADLOCK FALSE
