CONSTANTS
  t1 = t1
  t2 = t2
  t3 = t3
  Tokens <- ThreeTokens
  Payloads <- TwoPayloads
  Channels = 2
SPECIFICATION Spec
SYMMETRY TokenSymmetry
INVARIANTS ServedAsAsked HardwareHasStream
PROPERTIES StartsConfigured
