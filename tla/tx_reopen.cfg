CONSTANTS
  p1 = p1
  p2 = p2
  Pollers <- NoPollers
  TxBufferCount = 1
  MaxBlocks = 1
  MaxStreams = 2
  MaxUnderruns = 0
SPECIFICATION Spec
INVARIANTS FullWaitSeesCompletions
