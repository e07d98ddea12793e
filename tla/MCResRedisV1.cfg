\* Two configurable types and ping, two servers.
CONSTANTS
  NEvents = 3
  MaxServers = 2
SPECIFICATION Spec
INVARIANTS
  TypeOK
  ServersDistinct
  UnloadSafe
  SubscribedIsActive
CHECK_DEADLOCK FALSE
