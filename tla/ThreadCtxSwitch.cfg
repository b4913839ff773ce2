CONSTANTS
  Iterations = 4
  MaxSpurious = 2

SPECIFICATION FairSpec

\* The program ends; Terminates catches every other state without a successor.
CHECK_DEADLOCK FALSE

INVARIANTS
  Inv
  NoLostWakeup

PROPERTIES
  ImplementsRoundTrip
  Terminates
