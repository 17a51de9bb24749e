CONSTANTS
  r1 = r1
  r2 = r2
  Readers <- OneReader
  Capacity = 1
  BlockSamples = 1
  Requests <- OneSample
  Timings <- OneTiming
  MaxPushes = 0
  MaxSessions = 2
SPECIFICATION Spec
INVARIANTS FailureSeenByWaiters
