SPECIFICATION Spec
CONSTANTS
  h1 = h1
  h2 = h2
  p = p
  q = q
  k1 = k1
  k2 = k2
  e1 = e1
  e2 = e2
  Handles = {h1, h2}
  Paths = {p, q}
  Keys = {k1, k2}
  Edits = {e1, e2}
  None = None
  Closed = Closed
  MaxRev = 2
  OpSets <- MCOpSets
INVARIANTS TypeOK BagsMatch FlushedStored
ACTION_CONSTRAINT FewEdits
SYMMETRY Symmetry
CHECK_DEADLOCK FALSE
