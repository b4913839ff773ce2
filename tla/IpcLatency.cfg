CONSTANTS
  Iterations = 3
  MaxMsg = 2
  MaxRuns = 2
  MaxFaults = 1

SPECIFICATION FairSpec

\* After the last run nothing more happens.
CHECK_DEADLOCK FALSE

INVARIANTS
  Inv
  OwnRunOnly

PROPERTIES
  EveryRunReports
