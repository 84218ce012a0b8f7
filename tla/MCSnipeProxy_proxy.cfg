SPECIFICATION ProxyFairSpec
CONSTANTS
  f1 = f1
  f2 = f2
  f3 = f3
  here = here
  there = there
  p1 = p1
  p2 = p2
  None = None
  Callers <- ThreeFronts
  Length = 2
  MaxCalls = 1
  Keys <- TwoKeys
  KeyOf <- TwoHere
  Ports <- TwoPorts
  PortsOf <- SomePorts
INVARIANTS
  TypeOK
  Balanced
  HomeUnlessPortShared
  Isolated
  RequestsFindBack
  AnswersFindFront
  ClosedForgotten
PROPERTIES
  InTurn
  ChannelActiveEnds
\* The fronts are finitely many.
CHECK_DEADLOCK FALSE
