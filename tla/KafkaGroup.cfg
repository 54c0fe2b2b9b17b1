SPECIFICATION Spec
CONSTANTS
  Members = {"m"}
  Silent <- SilentDef
  MaxOffset = 3
  MaxGeneration = 2
  MaxLosses = 1
  MaxFaults = 1
INVARIANTS
  CommittedIsAccepted
  NothingHoldsTheCommit
CHECK_DEADLOCK FALSE
