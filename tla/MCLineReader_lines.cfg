SPECIFICATION FairSpec
CONSTANTS
  Bytes <- ABX
  Files <- SmallFiles
  MaxFile = 7
  Delimiter <- DelimiterABX
  NoLine = NoLine
  BufferSize = 3
  maxLineLength = 2
  maxBytesToConsume = 3
INVARIANTS
  TypeOK
  CountsConsumed
PROPERTIES
  SplitsAtDelimiters
  LimitsHold
  CallEnds
