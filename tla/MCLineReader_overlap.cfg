SPECIFICATION Spec
CONSTANTS
  Bytes <- ABX
  Files <- SmallFiles
  MaxFile = 6
  Delimiter <- DelimiterAAB
  NoLine = NoLine
  BufferSize = 2
  maxLineLength = 20
  maxBytesToConsume = 20
PROPERTIES
  SplitsAtDelimiters
