CONSTANTS
  Iterations = 4
  MaxMsg = 2
  MaxFaults = 2

SPECIFICATION FairSpec

\* The program ends, and it may hang after a failure: the temporal properties
\* say when.
CHECK_DEADLOCK FALSE

INVARIANTS
  Inv

PROPERTIES
  ImplementsRoundTrip
  EndsUnlessChildFails
