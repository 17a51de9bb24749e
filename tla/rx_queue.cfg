CONSTANTS
  r1 = r1
  r2 = r2
  Readers <- OneReader
  Capacity = 2
  BlockSamples = 2
  Requests <- OneToThree
  Timings <- TwoTimings
  MaxPushes = 4
  MaxSessions = 2
SPECIFICATION Spec
INVARIANTS QueueWellFormed TimingStable HardwareOwned FailureEndsWait
PROPERTIES ImplementsHandoff
