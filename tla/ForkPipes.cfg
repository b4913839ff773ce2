CONSTANTS
  N = 3
  LoadProcs = 1
  Batch = 7
  Interval = 1
  Duration = 2
  MaxDelay = 1
  MaxFaults = 2

SPECIFICATION ForkFairSpec

\* All processes end; EverybodyEnds says that they do.
CHECK_DEADLOCK FALSE

INVARIANTS
  ForkInv
  ReportFaithful

PROPERTIES
  EverybodyEnds
