SPECIFICATION FairSpec
CONSTANTS
  k1 = k1
  t1 = t1
  t2 = t2
  NoKey = NoKey
  NoNode = 0
  Keys <- OneKey
  Threads <- TwoThreads
  ValidTime = 1
  HitNum = 1
  MaxTime = 2
  MaxPuts = 2
  MaxCleans = 1
  MaxClears = 0
PROPERTIES
  PutsReturn
\* The bounded puts, rounds and clock come to an end.
CHECK_DEADLOCK FALSE
