SPECIFICATION Spec
CONSTANTS
  k1 = k1
  t1 = t1
  t2 = t2
  NoKey = NoKey
  NoNode = 0
  Keys <- OneKey
  Threads <- OneThread
  ValidTime = 1
  HitNum = 1
  MaxTime = 3
  MaxPuts = 2
  MaxCleans = 0
  MaxClears = 0
INVARIANTS
  CountsWindow
\* The bounded puts, rounds and clock come to an end.
CHECK_DEADLOCK FALSE
