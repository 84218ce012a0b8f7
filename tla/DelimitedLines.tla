--------------------------- MODULE DelimitedLines ---------------------------
(***************************************************************************)
(* What a line reader promises: each call returns the bytes up to the next *)
(* delimiter and goes on behind it; what follows the last delimiter is the *)
(* last line; a call at the end of the file returns NoLine.  Of a line     *)
(* that is too long a call returns a part.                                 *)
(***************************************************************************)
EXTENDS Integers, Sequences

CONSTANTS
  Delimiter,  \* the delimiter, a sequence of bytes that is not empty
  NoLine,     \* null
  maxLineLength, maxBytesToConsume   \* what a call returns and consumes at most

VARIABLES
  file,       \* the bytes of the file
  offset,     \* how many of them the lines returned so far stand for
  line        \* what the last call returned

vars == <<file, offset, line>>

\* The delimiter stands behind the first i bytes.
DelimiterAt(i) ==
  /\ i + Len(Delimiter) <= Len(file)
  /\ \A j \in DOMAIN Delimiter : file[i + j] = Delimiter[j]

Init == offset = 0 /\ line = NoLine

ReadLine(end) ==
  /\ DelimiterAt(end)
  /\ \A i \in offset..(end - 1) : ~DelimiterAt(i)
  /\ line' = SubSeq(file, offset + 1, end)
  /\ offset' = end + Len(Delimiter)
  /\ UNCHANGED file

ReadLast ==
  /\ \A i \in offset..Len(file) : ~DelimiterAt(i)
  /\ line' = IF offset < Len(file) THEN SubSeq(file, offset + 1, Len(file)) ELSE NoLine
  /\ offset' = Len(file)
  /\ UNCHANGED file

\* The bytes t stand in the file between two offsets, in this order, others
\* left out.
Among(t, from, to) ==
  \E f \in [DOMAIN t -> (from + 1)..to] :
    /\ \A i \in DOMAIN t : file[f[i]] = t[i]
    /\ \A i, j \in DOMAIN t : i < j => f[i] < f[j]

\* The line is too long, and the call stops in it or at its end.
ReadPart(to) ==
  /\ to > offset /\ offset' = to
  /\ LET m == IF maxLineLength + 1 < maxBytesToConsume THEN maxLineLength + 1 ELSE maxBytesToConsume
     IN  offset + m <= Len(file) /\ \A i \in offset..(offset + m - 1) : ~DelimiterAt(i)
  /\ \A i \in offset..(to - Len(Delimiter) - 1) : ~DelimiterAt(i)
  /\ Among(line', offset, to)
  /\ UNCHANGED file

Next ==
  \/ ReadLast
  \/ \E end \in offset..Len(file) : ReadLine(end) \/ ReadPart(end)

Spec == Init /\ [][Next]_vars
=============================================================================
