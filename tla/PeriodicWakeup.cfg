CONSTANTS
  NsecPerSec = 5
  Period = 2
  Iterations = 3
  Runs = 2
  LoadThreads = 2
  MaxStart = 4
  MaxLate = 3
  MaxFaults = 1

SPECIFICATION FairSpec

\* The program ends; Terminates says that it does.
CHECK_DEADLOCK FALSE

INVARIANTS
  Inv
  NoDrift
  BacklogBounded

PROPERTIES
  MeasuresLatency
  Terminates
