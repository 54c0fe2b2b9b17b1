\* A log truncated and written again under a reader that stands past its end.
SPECIFICATION Spec
CONSTANTS
  Members = {"m"}
  Silent <- SilentDef
  MaxOffset = 3
  MaxGeneration = 1
  MaxLosses = 1
  MaxFaults = 0
INVARIANT NoRetainedRecordSkipped
CHECK_DEADLOCK FALSE
