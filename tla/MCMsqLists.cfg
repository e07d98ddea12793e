\* Three servers, so that one is in the middle; two types and ping.
CONSTANTS
  MaxServers = 3
  NEvents = 3
SPECIFICATION Spec
INVARIANTS
  TypeOK
  ListExact
  FreedOnce
CHECK_DEADLOCK FALSE
