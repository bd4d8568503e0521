CONSTANTS
  threads = 3
  kind = "secure"
SPECIFICATION Spec
INVARIANT StartTogether FreedLast
PROPERTY EndsOrUnset
CHECK_DEADLOCK FALSE
