\* Two servers, of which one may be down.
CONSTANTS
  NTypes = 2
  MaxServers = 2
  MaxEvents = 0
SPECIFICATION FairSpec
PROPERTIES
  TriedUntilEstablished
CHECK_DEADLOCK FALSE
