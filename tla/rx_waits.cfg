CONSTANTS
  r1 = r1
  r2 = r2
  Readers <- TwoReaders
  Capacity = 2
  BlockSamples = 1
  Requests <- OneSample
  Timings <- OneTiming
  MaxPushes = 2
  MaxSessions = 2
SPECIFICATION FairSpec
INVARIANTS NoWakeupLost
PROPERTIES ReadersReleased StopCompletes
