CONSTANTS
  Handles = {h1, h2}
  Paths = {p, q}
  Keys = {k1, k2}
  Edits = {e1, e2}
  None = None  Closed = Closed
  MaxRev = 3
  OpSets = {{"writers"}}
SPECIFICATION Spec
CHECK_DEADLOCK FALSE
INVARIANTS WritersStored
