SPECIFICATION FairSpec
CONSTANTS
  MaxSize = 6
  Block = 2
  MaxFails = 2
  Runs = 2
  FaultSets = {{"interrupt", "full"}, {"short", "full"}, {"interrupt", "short", "error", "full"}, {"error", "transient"}}
INVARIANTS TypeOK Counted Honest
PROPERTY Returns
CHECK_DEADLOCK FALSE
