\* One configurable type and one event: what the threads owe each other.
CONSTANTS
  NTypes = 2
  MaxServers = 2
  MaxEvents = 1
SPECIFICATION FairSpec
PROPERTIES
  LoadedSubscribes
  LoadEnds
  OwnEventPublished
  UnloadEnds
CHECK_DEADLOCK FALSE
