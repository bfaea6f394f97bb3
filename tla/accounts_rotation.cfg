SPECIFICATION AccountsSpec
CONSTANTS
  Emails = {e1}
  CodeIds = {o1}
  Calls = {c1, c2}
  Nothing = Nothing
  RATE_MAX = 1
  OTP_MAX_VERIFY_ATTEMPTS = 1
  MaxTokens = 2
  MaxUncounted = 1
SYMMETRY AccountSymmetry
CHECK_DEADLOCK FALSE
INVARIANTS
  NewestTokenAccepted
