CONSTANTS
  p1 = p1
  p2 = p2
  Pollers <- OnePoller
  TxBufferCount = 1
  MaxBlocks = 2
  MaxStreams = 1
  MaxUnderruns = 0
SPECIFICATION FairSpec
INVARIANTS Drained AcceptedPrefix
PROPERTIES StopCompletes
