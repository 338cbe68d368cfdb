SPECIFICATION MCStoredFairSpec
CONSTANTS
  d1 = d1
  d2 = d2
  f1 = f1
  f2 = f2
  Folders = {d1, d2}
  Files = {f1, f2}
  Root = Root
  Trash = Trash
  None = None
  Chunk = 1
  Dangling = Dangling
  Bucket <- MCBucket
  MaxRev = 3
  FailRev = 2
  FailSets = {{}, {"status", "changes", "info"}, {"content"}}
  MaxMounts = 2
INVARIANTS StoredTypeOK NothingMissing ChangesIntegrated
CHECK_DEADLOCK FALSE
PROPERTIES Serves CatchesUp
