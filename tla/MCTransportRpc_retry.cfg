SPECIFICATION Spec
CONSTANTS
  r1 = r1
  r2 = r2
  r3 = r3
  NoRequest = NoRequest
  Requests <- Two
  Throwing <- None
  Sync <- None
  RetryOf <- FirstRetries
  ServerModes <- Silent
  Encodes = TRUE
  IdleHandler = FALSE
  CloseIdle = FALSE
  MaxExceptions = 1
INVARIANTS
  DrainedCallsEnd
\* A closed connection whose calls have ended does nothing more.
CHECK_DEADLOCK FALSE
