\* Weights whose sum passes u64::MAX, as in buffer.rs's saturation test.
SPECIFICATION Spec
CONSTANTS
  p1 = p1
  p2 = p2
  c = c
  none = none
  Producers = {p1}
  Consumer = c
  Nobody = none
  Policies = {"drop_oldest"}
  Styles = {"sink"}
  Weights = {3}
  MaxItems = 3
  MaxWeight = 5
  WeightCeiling = 5
  MaxPushed = 3
  MaxBatch = 1
  MaxCloses = 1
INVARIANTS
  ExactWheneverItFits
CHECK_DEADLOCK FALSE
