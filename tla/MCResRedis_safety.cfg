\* Two configurable types and ping, two servers.
CONSTANTS
  NTypes = 3
  MaxServers = 2
  MaxEvents = 1
SPECIFICATION Spec
INVARIANTS
  TypeOK
  QuietAfterUnload
  ChannelSafe
  ContextSafeIfHealthy
PROPERTY EntryStableInCallback
CHECK_DEADLOCK FALSE
