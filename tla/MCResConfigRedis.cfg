\* Two threads, three contexts; no symmetry, for liveness.
CONSTANTS
  Threads = {t1, t2}
  Loader = loader
  MaxContexts = 3
SPECIFICATION FairSpec
INVARIANTS
  TypeOK
  Exclusion
  StatusHolds
  FaultNeedsUnload
  OpenBounded
PROPERTY UnloadCompletes
CHECK_DEADLOCK FALSE
