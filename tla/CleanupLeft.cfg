SPECIFICATION Spec
CONSTANTS
  a = a
  b = b
  Keys = {a, b}
  MaxRev = 2
  Size <- MCSize
  Allowed = 1
  Faults = {"unlink"}
INVARIANTS TypeOK LeftRight LeftFits
CHECK_DEADLOCK FALSE
