\* A log and its rotation on recycled inodes, renamed or copied, over a stop and a fault.
SPECIFICATION Spec
SYMMETRY InodeSymmetry
CONSTANTS
  None = None
  i1 = i1
  i2 = i2
  i3 = i3
  Inodes = {i1, i2, i3}
  MaxCells = 3
  HeadCells = 1
  ClaimMinHead = 1
  ClaimDeferScans = 2
  TruncationOffers = 2
  Chunk = 2
  MaxRotations = 2
  MaxStops = 1
  MaxFaults = 1
INVARIANTS
  NothingSkipped
  DeliveredOnce
CHECK_DEADLOCK FALSE
