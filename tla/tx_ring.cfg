CONSTANTS
  p1 = p1
  p2 = p2
  Pollers <- NoPollers
  TxBufferCount = 2
  MaxBlocks = 1
  MaxStreams = 2
  MaxUnderruns = 0
SPECIFICATION CompletingSpec
INVARIANTS TypeOK SlotOwnership SubmitsToRunningHardware HardwareOwned NoWakeupLost OwnCompletionsSeen
PROPERTIES ImplementsOwnership WriteReturns
