CONSTANTS
  MaxIterations = 3
  Capacity = 2
  MaxFaults = 2

SPECIFICATION FairSpec

\* Both processes end; EverybodyEnds says that they do.
CHECK_DEADLOCK FALSE

INVARIANTS
  Inv

PROPERTIES
  ImplementsRoundTrip
  EverybodyEnds
