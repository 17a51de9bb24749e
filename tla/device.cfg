CONSTANTS
  c1 = c1
  c2 = c2
  o1 = o1
  o2 = o2
  Callers <- TwoCallers
  Observers <- TwoObservers
  SampleRates <- TwoRates
SPECIFICATION ReadersSpec
SYMMETRY ThreadSymmetry
INVARIANTS TypeOK SdkLifetime SuccessHolds TimingAsCaptured SetOnlyIfArmed ReadsAgree AccelerometerBracketed
PROPERTIES OnlyRateSettersChangeRate
