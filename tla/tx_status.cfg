CONSTANTS
  p1 = p1
  p2 = p2
  Pollers <- TwoPollers
  TxBufferCount = 1
  MaxBlocks = 0
  MaxStreams = 1
  MaxUnderruns = 2
SPECIFICATION Spec
SYMMETRY PollerSymmetry
PROPERTIES UnderrunsReportedOnce
