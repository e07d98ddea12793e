\* Two callers of one type, three subscriptions: one may be left behind.
CONSTANTS
  Callers = {c1, c2}
  EventTypes = {t1}
  Subs = {s1, s2, s3}
  NULL = NULL
SPECIFICATION FairSpec
INVARIANTS
  TypeOK
  SerialIsExact
PROPERTY CallsReturn
CHECK_DEADLOCK FALSE
