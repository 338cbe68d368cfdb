SPECIFICATION MCSpec
CONSTANTS
  d1 = d1
  d2 = d2
  f1 = f1
  Folders = {d1, d2}
  Files = {f1}
  Root = Root
  Trash = Trash
  None = None
  Chunk = 1
  Dangling = Dangling
  Bucket <- MCBucket
  MaxRev = 4
  FailRev = 3
  FailSets = {{}, {"status", "changes", "content"}, {"status", "changes", "info", "content"}}
INVARIANTS TypeOK ChildrenAgree ViewAccurate ChangesIntegrated
PROPERTY HousekeepingCleans
CHECK_DEADLOCK FALSE
