\* Two batches of two records under every mode and posture, with answers lost, refused and late.
SPECIFICATION Spec
CONSTANTS
  Layouts <- MCLayouts
  None = None
  Modes = {"idempotent", "plain", "unacked"}
  Postures = {"at_least_once", "at_most_once"}
  NBatches = 2
  BatchRecords = 2
  MaxEpoch = 1
  MaxSequence = 9
  Kept = 2
  MaxFaults = 2
  MaxCuts = 1
INVARIANTS
  NothingLost
  CopiesExplained
  FirstCopiesInOrder
  NoGapInAnEpoch
CHECK_DEADLOCK FALSE
