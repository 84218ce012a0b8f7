SPECIFICATION FairSpec
CONSTANTS
  k1 = k1
  t1 = t1
  t2 = t2
  NoKey = NoKey
  NoNode = 0
  Keys <- OneKey
  Threads <- TwoThreads
  ValidTime = 2
  HitNum = 1
  MaxTime = 4
  MaxPuts = 2
  MaxCleans = 1
  MaxClears = 1
INVARIANTS
  TypeOK
  NeverOvercounts
  MissesOne
  RemovedUnmapped
  LockOrder
PROPERTIES
  PutsReturnOrStuck
\* The bounded puts, rounds and clock come to an end.
CHECK_DEADLOCK FALSE
