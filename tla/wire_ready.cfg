\* two requests, one other thread that cancels
CONSTANTS
  Cancellers = {c1}
  MaxRequests = 2
  MaxTokens = 1
  MaxCancels = 1
SPECIFICATION FairSpec
INVARIANT ReadyAfterCancel
CHECK_DEADLOCK FALSE
