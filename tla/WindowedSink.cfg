\* A sink whose window opens and shuts (one that stays at 1 is a send-only sink), and one that
\* collects a window and uploads it as one object, over every store and posture.
SPECIFICATION FairSpec
CONSTANTS
  NBatches = 3
  InboxCap = 1
  MaxQueued = 2
  Wide = 2
  MaxFaults = 1
  Kinds = {"memory", "disk"}
  Postures = {"at_least_once", "at_most_once"}
  Policies = {"block", "drop_oldest"}
  Sinks = {"windowed", "collecting"}
INVARIANTS
  EveryBatchAccounted
  NeverTwice
  DiskKeepsAtShutdown
  WindowIsPrefix
  ObservedOnce
PROPERTIES
  KeepsContract
  ShutdownEnds
  EveryBatchSettles
CHECK_DEADLOCK FALSE
