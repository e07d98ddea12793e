\* Two servers, two states each, one crash.
CONSTANTS
  Nodes = {n1, n2}
  MaxVersion = 2
  MaxCrashes = 1
SPECIFICATION Spec
SYMMETRY Symmetry
INVARIANTS
  TypeOK
  NoEventStorm
  NothingElseLost
  Agreement
PROPERTIES
  NoStaleOverwrite
  Implements
CHECK_DEADLOCK FALSE
