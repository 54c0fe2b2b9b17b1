\* A sink's queue, pushed by drain_inbox and taken from by write_loop, and a receive queue,
\* filled by push_many and emptied by pop_many and take_all, under fair scheduling.
SPECIFICATION FairSpec
CONSTANTS
  p1 = p1
  p2 = p2
  c = c
  none = none
  Producers = {p1}
  Consumer = c
  Nobody = none
  Policies = {"block", "drop_oldest", "drop_newest"}
  Styles = {"sink", "listener"}
  Weights = {1, 2, 4}
  MaxItems = 2
  MaxWeight = 3
  WeightCeiling = 5
  MaxPushed = 3
  MaxBatch = 2
  MaxCloses = 1
INVARIANTS
  TypeOK
  InFlightIsPrefix
  AtMostOneOver
  ExactlyOnePlace
  LeaveInPushOrder
  WeightIsSound
  NoLostWakeup
  BlockKeepsEverything
PROPERTIES
  EveryPushReturns
  CloseEndsTheConsumer
CHECK_DEADLOCK FALSE
