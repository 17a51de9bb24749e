CONSTANTS
  Width = 7
  Billion = 10
  BillionBits = 4
  Pow <- PowersOfTwo
  Offsets <- SomeOffsets
  BlockRates <- SomeRates
SPECIFICATION Spec
INVARIANTS TypeOK DivisionExact ExactOrRefused BlockTimeExact
