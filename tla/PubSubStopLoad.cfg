\* cpu_load_pubsub_test.c with one failing fork.
CONSTANTS
  Count = 1
  LoadProcs = 2
  MaxFaults = 1
  MaxSpurious = 0

SPECIFICATION Spec

CHECK_DEADLOCK FALSE

INVARIANTS
  StopLoadSignalsOnlyWorkers
