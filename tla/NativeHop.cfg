SPECIFICATION Spec
CONSTANTS
  Queue <- MCQueue
  Refused = {4}
  TooLarge = {5}
  Strangers = {"x"}
  MaxConnections = 2
  Window = 2
  CoalesceMax = 2
  MaxHelloSenders = 2
  MaxFaults = 2
INVARIANT NothingLost
INVARIANT FirstCopiesInOrder
INVARIANT DuplicatesExplained
INVARIANT GoingAwayIsClean
