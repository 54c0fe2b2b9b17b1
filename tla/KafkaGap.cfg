\* A part that cannot be encoded, in front of another part of its partition.
SPECIFICATION Spec
CONSTANTS
  Layouts <- OnePartition
  None = None
  Modes = {"idempotent"}
  Postures = {"at_least_once", "at_most_once"}
  NBatches = 2
  BatchRecords = 2
  MaxEpoch = 1
  MaxSequence = 9
  Kept = 2
  MaxFaults = 1
  MaxCuts = 0
INVARIANT NothingBehindAGap
CHECK_DEADLOCK FALSE
