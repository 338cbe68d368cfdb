SPECIFICATION Spec
CONSTANTS
  e1 = e1
  e2 = e2
  e3 = e3
  Edits = {e1, e2, e3}
  Junk = Junk
  Absent = Absent
  NoHandle = NoHandle
  MaxRev = 4
  Settings <- FailedCalls
PROPERTY FailuresLoseNothing
CHECK_DEADLOCK FALSE
