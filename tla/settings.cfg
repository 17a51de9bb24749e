CONSTANTS
  Channels = 3
  MaxGain = 1
SPECIFICATION Spec
INVARIANTS TypeOK FailureRestores CacheAgrees
PROPERTIES SharedCalibrationKept
