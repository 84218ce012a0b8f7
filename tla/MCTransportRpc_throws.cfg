SPECIFICATION FairSpec
CONSTANTS
  r1 = r1
  r2 = r2
  r3 = r3
  NoRequest = NoRequest
  Requests <- Two
  Throwing <- First
  Sync <- Second
  RetryOf <- NoRetry
  ServerModes <- Few
  Encodes = TRUE
  IdleHandler = FALSE
  CloseIdle = FALSE
  MaxExceptions = 1
INVARIANTS
  NoCallDropped
PROPERTIES
  SyncCallsReturn
\* A closed connection whose calls have ended does nothing more.
CHECK_DEADLOCK FALSE
