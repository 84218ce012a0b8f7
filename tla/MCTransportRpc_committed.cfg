SPECIFICATION FairSpec
CONSTANTS
  r1 = r1
  r2 = r2
  r3 = r3
  NoRequest = NoRequest
  Requests <- Three
  Throwing <- None
  Sync <- None
  RetryOf <- FirstRetries
  ServerModes <- AllModes
  Encodes = FALSE
  IdleHandler = FALSE
  CloseIdle = FALSE
  MaxExceptions = 1
PROPERTIES
  EveryCallEnds
\* A closed connection whose calls have ended does nothing more.
CHECK_DEADLOCK FALSE
