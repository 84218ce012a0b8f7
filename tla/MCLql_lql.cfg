SPECIFICATION FairSpec
CONSTANTS
  v = v
  w = w
  t = t
  u = u
  None = None
  Vars <- TwoVars
  Strings <- OnlyW
  Prefix <- Heads
  Tables <- TwoTables
  Results <- Answers
  Programs <- Small
INVARIANTS
  TypeOK
  NeverOlder
PROPERTIES
  ImplementsLines
  ProgramEnds
\* A program ends.
CHECK_DEADLOCK FALSE
