SPECIFICATION Spec
CONSTANTS
  MaxRetries = 3
  Mult = 3
  Modulus = 5
  SigMod = 2
  MaxLogins = 3
INVARIANT SuccessIsAnswered
CHECK_DEADLOCK FALSE
