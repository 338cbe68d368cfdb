SPECIFICATION MCSpec
CONSTANTS
  d1 = d1
  d2 = d2
  f1 = f1
  Folders = {d1, d2}
  Files = {f1}
  Root = Root
  Trash = Trash
  None = None
  Chunk = 1
  Dangling = Dangling
  Bucket <- MCBucket
  MaxRev = 3
  FailRev = 3
  FailSets = {{}}
INVARIANT NoDanglingParent
CHECK_DEADLOCK FALSE
