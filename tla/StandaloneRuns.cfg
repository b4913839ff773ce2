CONSTANTS
  MaxFaults = 2
  NumAllocs = 4
  MaxBlocks = 5
  NumFiles = 3
  MaxRuns = 2
  Transfers = 2
  Times = {1, 3}
  Ports = {22, 65535}
  MaxSockets = 2
  MaxCiphers = 1
  MaxNetRuns = 2
  Hold = 5
  Med = 8
  Gap = 1
  NumCpus = 3
  MaxLate = 2

SPECIFICATION FairSpec

\* Every program ends, or waits for ever for a thread that was not created.
CHECK_DEADLOCK FALSE

INVARIANTS
  Inv
  OnlyLiveFreed
  HeapAccounts
  FromScratch
  NothingLeft
  PortsExact
  DownloadAverageInRange
  TestFileCleaned
  InversionShown
  WaitIncludesHold

PROPERTIES
  EveryProgramEnds
