CONSTANTS
  NumWorkers = 2
  NumLoaders = 1
  Interval = 1
  MaxJitter = 2
  MaxCount = 2
  MaxFaults = 1

SPECIFICATION FairSpec

\* The program ends; Terminates says that it does.
CHECK_DEADLOCK FALSE

INVARIANTS
  Inv
  LateByOneAtMost

PROPERTIES
  ReportIsFinal
  Terminates
