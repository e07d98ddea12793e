\* Two servers, two states each, no crash.
CONSTANTS
  Nodes = {n1, n2}
  MaxVersion = 2
  MaxCrashes = 0
SPECIFICATION FairSpec
PROPERTY ChangeSpreads
CHECK_DEADLOCK FALSE
