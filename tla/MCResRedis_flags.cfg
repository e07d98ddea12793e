\* One configurable type.
CONSTANTS
  NTypes = 2
  MaxServers = 1
  MaxEvents = 0
SPECIFICATION FairSpec
PROPERTIES
  SubscribedAsConfigured
CHECK_DEADLOCK FALSE
