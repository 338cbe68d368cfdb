SPECIFICATION MCSpec
CONSTANTS
  d1 = d1
  d2 = d2
  f1 = f1
  Folders = {d1, d2}
  Files = {f1}
  Root = Root
  Trash = Trash
  None = None
  Chunk = 1
  Dangling = Dangling
  Bucket <- MCBucket
  MaxRev = 2
  FailRev = 2
  FailSets = {{}}
PROPERTY RmdirEmpty
CHECK_DEADLOCK FALSE
