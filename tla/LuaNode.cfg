SPECIFICATION Spec
CONSTANTS
    MaxBatches = 2
    MaxExtra = 1
    StallTicks = 3
    GraceTicks = 2
INVARIANTS
    EveryBatchCounted
PROPERTIES
    NodeEnds
    VerdictSettles
