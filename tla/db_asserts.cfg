\* A buffer of two rows and one request are enough.
CONSTANTS
  Capacities = {2}
  Procs = {p}
  MaxTokens = 4
  MaxSends = 1
SPECIFICATION DbSpec
INVARIANT AssertionsHold
CHECK_DEADLOCK FALSE
