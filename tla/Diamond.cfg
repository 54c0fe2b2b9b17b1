SPECIFICATION Spec
CONSTANTS
  Nodes <- MCNodes
  Cap <- MCCap
  Senders <- MCSenders
  Edges <- MCEdges
  Method <- MCMethod
  Count <- MCCount
  MayClose = {"b"}
INVARIANT AllOrNothing
PROPERTY NoSenderStarves
