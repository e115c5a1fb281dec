\* two requests, two other threads that cancel; a closed connection, and an
\* application that has sent all it wants to send, do nothing more
CONSTANTS
  Cancellers = {c1, c2}
  MaxRequests = 2
  MaxTokens = 1
  MaxCancels = 1
SPECIFICATION FairSpec
INVARIANTS TypeOK WireLocked CancelAnswered QuietWhenIdle OwnAnswer
PROPERTY ReadingEnds
CHECK_DEADLOCK FALSE
