CONSTANTS
  Size <- MCSize
  MaxFrame = 8
  MaxBytes = 2
  SegmentBytes = 3
  Policies = {"block", "drop_oldest", "drop_newest"}
  Window = 2
  MaxFaults = 1
  MaxStops = 1
SPECIFICATION Spec
INVARIANTS NothingLost StoreIsExact NoStrandedWait CleanStopReplaysNothing
PROPERTY CursorNeverGoesBack
CHECK_DEADLOCK FALSE
