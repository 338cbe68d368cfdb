CONSTANTS
  MaxRetries = 3
  Mult = 3
  Modulus = 5
  SigMod = 2
  MaxLogins = 3
SPECIFICATION FairSpec
CHECK_DEADLOCK FALSE
INVARIANTS TypeOK KeysAgree RepeatsNeedTimeout Honest Recovers
PROPERTY PollEnds
