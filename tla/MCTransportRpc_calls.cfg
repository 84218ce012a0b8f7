SPECIFICATION FairSpec
CONSTANTS
  r1 = r1
  r2 = r2
  r3 = r3
  NoRequest = NoRequest
  Requests <- Two
  Throwing <- None
  Sync <- First
  RetryOf <- NoRetry
  ServerModes <- AllModes
  Encodes = TRUE
  IdleHandler = TRUE
  CloseIdle = TRUE
  MaxExceptions = 1
INVARIANTS
  TypeOK
  DrainedCallsEnd
  OneOutcome
  TwiceOnlyByWrite
PROPERTIES
  ClearedThenClosed
  UnusableCallsEnd
  ImplementsCalls
\* A closed connection whose calls have ended does nothing more.
CHECK_DEADLOCK FALSE
