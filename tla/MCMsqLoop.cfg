\* Two servers: the second move is back to the one that was lost.
CONSTANTS
  NServers = 2
SPECIFICATION FairSpec
INVARIANTS
  TypeOK
  FaultNeedsLoss
  StopIsFinal
PROPERTY LoopEnds
CHECK_DEADLOCK FALSE
