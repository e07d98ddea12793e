\* Up to three IEs and the EntityID; the longest events do not fit.
CONSTANTS
  MaxIEs = 3
  BufLen = 8
SPECIFICATION Spec
INVARIANTS
  TypeOK
  RoundTrip
  OwnMessageRecognised
  NullValueNeedsCause
CHECK_DEADLOCK FALSE
