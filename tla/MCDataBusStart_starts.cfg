SPECIFICATION FairSpec
CONSTANTS
  n1 = n1
  n2 = n2
  n3 = n3
  None = None
  MaxKills = 1
  Nodes <- ThreeNodes
  Endpoints <- Roles
  Sound <- AllButThird
  Services <- Anybody
  Confs <- FirstOrBoth
INVARIANTS
  TypeOK
  StartedServes
  ServesUnstarted
PROPERTIES
  OpensAfterService
  StartEnds
\* Each process starts once.
CHECK_DEADLOCK FALSE
