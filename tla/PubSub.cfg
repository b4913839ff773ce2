\* All three programs, cpu_load_pubsub_test.c with two workers.
CONSTANTS
  Count = 3
  LoadProcs = 2
  MaxFaults = 2
  MaxSpurious = 1

SPECIFICATION FairSpec

\* The program ends, and it may wait for ever after a disturbance.
CHECK_DEADLOCK FALSE

INVARIANTS
  Inv
  NoLostWakeup
  SamplesPaired

PROPERTIES
  Completes
