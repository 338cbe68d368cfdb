SPECIFICATION FairSpec
CONSTANTS
  e1 = e1
  e2 = e2
  Edits = {e1, e2}
  Junk = Junk
  Absent = Absent
  NoHandle = NoHandle
  MaxRev = 3
  Settings <- MCSettings
INVARIANTS TypeOK JunkStaysHome ReadTrue FlushedReached
PROPERTIES NothingLost AnsweredOpens Implements JobsEnd
CONSTRAINT Small
CHECK_DEADLOCK FALSE
