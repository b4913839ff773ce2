CONSTANTS
  Iterations = 3
  MaxMsg = 2
  MaxRuns = 1
  MaxFaults = 0

SPECIFICATION Spec

CHECK_DEADLOCK FALSE

INVARIANTS
  SamplesAreRoundTrips
