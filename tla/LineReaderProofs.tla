-------------------------- MODULE LineReaderProofs --------------------------
(***************************************************************************)
(* Theorems about LineReader for any file, delimiter, size of the buffer   *)
(* and limits.  They rest on ReaderInv: a match reaches back to where the  *)
(* pass began, or to the ambiguous bytes in front of a buffer that was     *)
(* just filled, so that going back never leaves what was counted.          *)
(***************************************************************************)
EXTENDS LineReader, SequenceTheorems, TLAPS

USE SizeAssumption, LimitAssumption

\* A part of a sequence, between positions of it, is a sequence of its elements.
LEMMA PartOfSeq ==
  ASSUME NEW S, NEW s \in Seq(S), NEW m \in Nat \ {0}, NEW n \in Int, n <= Len(s)
  PROVE  /\ SubSeq(s, m, n) \in Seq(S)
         /\ Len(SubSeq(s, m, n)) = IF m <= n THEN n - m + 1 ELSE 0
<1>1. \A i \in m..n : i \in 1..Len(s)
  BY LenProperties
<1>2. \A i \in m..n : s[i] \in S
  BY <1>1, ElementOfSeq
<1> QED
  BY <1>2, SubSeqProperties

\* The numbers of a state are integers, and the delimiter has a length.
LEMMA Numbers ==
  ASSUME TypeOK
  PROVE  /\ file \in Seq(Bytes)
         /\ Len(file) \in Nat /\ read \in Nat /\ read <= Len(file)
         /\ Len(buffer) \in Nat
         /\ bufferPosn \in Nat /\ bufferPosn <= BufferSize
         /\ bufferLength \in Int /\ bufferLength >= -1 /\ bufferLength <= BufferSize
         /\ startPosn \in Nat /\ startPosn <= BufferSize
         /\ Len(Delimiter) \in Nat /\ Len(Delimiter) > 0
         /\ delPosn \in Nat /\ delPosn <= Len(Delimiter)
         /\ ambiguous \in Nat /\ ambiguous < Len(Delimiter)
         /\ txtLength \in Nat /\ txtLength <= maxLineLength
         /\ bytesConsumed \in Nat
         /\ offset \in Nat /\ offset <= Len(file)
<1>1. file \in Seq(Bytes)
  BY FileAssumption DEF TypeOK
<1>2. Len(file) \in Nat /\ Len(buffer) \in Nat
  BY <1>1, LenProperties DEF TypeOK
<1>3. Len(Delimiter) \in Nat /\ Len(Delimiter) > 0
  BY DelimiterAssumption, EmptySeq, LenProperties
<1> QED
  BY <1>1, <1>2, <1>3 DEF TypeOK

\* A call begins with nothing counted.
LEMMA BeginStep ==
  ASSUME ReaderInv, Begin
  PROVE  ReaderInv'
<1> USE DEF ReaderInv, Begin, input, ended
<1>1. TypeOK'
  BY Numbers, EmptySeq DEF TypeOK
<1> QED
  BY <1>1, Numbers DEF CountsConsumed, BufferRead, ScannedReturned, MatchLeft, MatchInPass, At, TypeOK

LEMMA ContinueStep ==
  ASSUME ReaderInv, Continue
  PROVE  ReaderInv'
<1> USE DEF ReaderInv, Continue, input, text, ended
<1>1. TypeOK'
  BY Numbers DEF TypeOK
<1> QED
  BY <1>1, Numbers DEF CountsConsumed, BufferRead, ScannedReturned, MatchLeft, MatchInPass, At, TypeOK

\* The buffer is used up, so that the bytes counted and the ambiguous ones are
\* all that was read: the new buffer begins behind them.
LEMMA FillBufferStep ==
  ASSUME ReaderInv, FillBuffer
  PROVE  ReaderInv'
<1> USE DEF ReaderInv
<1>0. /\ Len(file) \in Nat /\ read \in Nat /\ read <= Len(file)
      /\ bufferPosn \in Nat /\ bufferLength \in Int /\ startPosn \in Nat
      /\ Len(Delimiter) \in Nat /\ delPosn \in Nat /\ delPosn <= Len(Delimiter)
      /\ ambiguous \in Nat /\ ambiguous < Len(Delimiter)
      /\ txtLength \in Nat /\ txtLength <= maxLineLength
      /\ bytesConsumed \in Nat /\ offset \in Nat
  BY Numbers
<1>1. PICK n \in 1..BufferSize :
        /\ read + n <= Len(file)
        /\ buffer' = SubSeq(file, read + 1, read + n)
        /\ bufferLength' = n
        /\ read' = read + n
  BY DEF FillBuffer
<1>2. /\ n \in Nat /\ n >= 1 /\ n <= BufferSize
      /\ read + n <= Len(file) /\ bufferLength' = n /\ read' = read + n
  BY <1>1
<1>3. buffer' \in Seq(Bytes) /\ Len(buffer') = n
  <2>1. /\ read + 1 \in Nat \ {0} /\ read + n \in Int /\ read + 1 <= read + n
        /\ (read + n) - (read + 1) + 1 = n
    BY <1>0, <1>2
  <2>2. file \in Seq(Bytes)
    BY Numbers
  <2>3. /\ SubSeq(file, read + 1, read + n) \in Seq(Bytes)
        /\ Len(SubSeq(file, read + 1, read + n)) = n
    BY <1>2, <2>1, <2>2, PartOfSeq
  <2> QED
    BY <1>1, <2>3
<1>4. /\ pc = "pass" /\ pc' = "scan" /\ bufferPosn >= bufferLength
      /\ bufferPosn' = 0 /\ startPosn' = 0
      /\ UNCHANGED <<file, delPosn, ambiguous, str, txtLength, bytesConsumed, offset, line>>
  BY DEF FillBuffer, text, ended
<1>5. read' \in 0..Len(file)
  BY <1>0, <1>2
<1>6. TypeOK'
  BY <1>0, <1>2, <1>3, <1>4, <1>5 DEF TypeOK
<1>7. offset + bytesConsumed + ambiguous = read
  <2>1. CASE bufferLength = -1
    BY <1>4, <2>1 DEF CountsConsumed
  <2>2. CASE bufferLength # -1
    <3>1. bufferPosn = bufferLength
      BY <1>0, <1>4, <2>2 DEF BufferRead
    <3> QED
      BY <1>0, <1>4, <2>2, <3>1 DEF CountsConsumed, At
  <2> QED
    BY <2>1, <2>2
<1>8. BufferRead'
  BY <1>0, <1>2, <1>3, <1>4 DEF BufferRead
<1>9. MatchInPass'
  BY <1>0, <1>2, <1>4, <1>7 DEF MatchInPass, MatchLeft, At
<1> QED
  BY <1>4, <1>6, <1>8, <1>9 DEF CountsConsumed, ScannedReturned, MatchLeft

\* At the end of the file the ambiguous bytes are counted with the line.
LEMMA EndOfFileStep ==
  ASSUME ReaderInv, EndOfFile
  PROVE  ReaderInv'
<1> USE DEF ReaderInv
<1> DEFINE t == str \o SubSeq(Delimiter, 1, ambiguous)
<1>1. t \in Seq(Bytes)
  <2>1. SubSeq(Delimiter, 1, ambiguous) \in Seq(Bytes)
    BY DelimiterAssumption, Numbers, PartOfSeq
  <2>2. str \in Seq(Bytes)
    BY DEF TypeOK
  <2> QED
    BY <2>1, <2>2, ConcatProperties
<1>2. /\ str' = t
      /\ line' = IF bytesConsumed' = 0 THEN NoLine ELSE t
      /\ pc' = "idle" /\ read = Len(file) /\ offset' = read
      /\ bufferLength' = -1 /\ bufferPosn' = 0 /\ startPosn' = 0
      /\ bytesConsumed' = bytesConsumed + ambiguous
      /\ UNCHANGED <<file, read, buffer, delPosn, ambiguous, txtLength>>
  BY DEF EndOfFile, Return
<1> HIDE DEF t
<1>3. TypeOK'
  BY <1>1, <1>2, Numbers DEF TypeOK
<1> QED
  BY <1>2, <1>3 DEF CountsConsumed, BufferRead, ScannedReturned, MatchLeft, MatchInPass

LEMMA MatchByteStep ==
  ASSUME ReaderInv, MatchByte
  PROVE  ReaderInv'
<1> USE DEF ReaderInv, MatchByte, Scanning, input, text, ended
<1>1. TypeOK'
  BY Numbers DEF TypeOK
<1> QED
  BY <1>1, Numbers DEF CountsConsumed, BufferRead, ScannedReturned, MatchLeft, MatchInPass, At, TypeOK

LEMMA SkipByteStep ==
  ASSUME ReaderInv, SkipByte
  PROVE  ReaderInv'
<1> USE DEF ReaderInv, SkipByte, Scanning, input, text, ended
<1>1. TypeOK'
  BY Numbers DEF TypeOK
<1> QED
  BY <1>1, Numbers DEF CountsConsumed, BufferRead, ScannedReturned, MatchLeft, MatchInPass, At, TypeOK

\* Going back stays within the pass: without ambiguous bytes the match began in
\* it, with them the pass began at the buffer's first byte.
LEMMA BackUpStep ==
  ASSUME ReaderInv, BackUp
  PROVE  ReaderInv'
<1> USE DEF ReaderInv
<1>0. /\ Len(file) \in Nat /\ read \in Nat /\ read <= Len(file)
      /\ bufferPosn \in Nat /\ bufferLength \in Int /\ startPosn \in Nat
      /\ Len(Delimiter) \in Nat /\ delPosn \in Nat /\ delPosn <= Len(Delimiter)
      /\ ambiguous \in Nat /\ ambiguous < Len(Delimiter)
      /\ txtLength \in Nat /\ txtLength <= maxLineLength
      /\ bytesConsumed \in Nat /\ offset \in Nat
  BY Numbers
<1>1. /\ pc = "scan" /\ bufferPosn < bufferLength /\ delPosn # 0 /\ delPosn' = 0
      /\ bufferPosn' = (IF bufferPosn - delPosn < -1 THEN -1 ELSE bufferPosn - delPosn) + 1
      /\ UNCHANGED <<file, read, buffer, bufferLength, pc, startPosn, ambiguous, str,
                     txtLength, bytesConsumed, offset, line>>
  BY DEF BackUp, Scanning, input, text, ended
<1>2. bufferPosn' \in Nat /\ bufferPosn' <= bufferPosn
  BY <1>0, <1>1
<1>3. startPosn <= bufferPosn'
  <2>1. CASE ambiguous > 0
    BY <1>0, <1>1, <1>2, <2>1 DEF MatchInPass
  <2>2. CASE ambiguous = 0
    BY <1>0, <1>1, <2>2 DEF MatchInPass
  <2> QED
    BY <1>0, <2>1, <2>2
<1>4. TypeOK'
  BY <1>0, <1>1, <1>2, <1>3 DEF TypeOK
<1>5. MatchInPass'
  BY <1>0, <1>1, <1>2, <1>3 DEF MatchInPass, At
<1> QED
  BY <1>0, <1>1, <1>2, <1>4, <1>5 DEF CountsConsumed, BufferRead, ScannedReturned, MatchLeft

\* The end of a pass counts what was scanned, but a match that is left over only
\* in the pass that decides it.
LEMMA EndPassStep ==
  ASSUME ReaderInv, EndPass
  PROVE  ReaderInv'
<1> USE DEF ReaderInv
<1>0. /\ Len(file) \in Nat /\ read \in Nat /\ read <= Len(file)
      /\ bufferPosn \in Nat /\ bufferLength \in Int /\ startPosn \in Nat
      /\ Len(Delimiter) \in Nat /\ delPosn \in Nat /\ delPosn <= Len(Delimiter)
      /\ ambiguous \in Nat /\ ambiguous < Len(Delimiter)
      /\ txtLength \in Nat /\ txtLength <= maxLineLength
      /\ bytesConsumed \in Nat /\ offset \in Nat
  BY Numbers
<1> DEFINE append == AppendLength
           reported == append >= 0 /\ ambiguous > 0
           left == IF reported THEN 0 ELSE ambiguous
           partial == bufferPosn >= bufferLength /\ delPosn > 0 /\ delPosn < Len(Delimiter)
           head == IF reported THEN str \o SubSeq(Delimiter, 1, ambiguous) ELSE str
           tail == SubSeq(buffer, startPosn + 1, startPosn + append)
           consumed == bytesConsumed + (bufferPosn - startPosn) + ambiguous
                         - (IF partial THEN delPosn ELSE 0)
<1>1. /\ pc = "scan" /\ (delPosn = Len(Delimiter) \/ bufferPosn >= bufferLength)
      /\ txtLength' = IF append > 0 THEN txtLength + append ELSE txtLength
      /\ bytesConsumed' = consumed
      /\ ambiguous' = IF partial THEN delPosn ELSE left
      /\ UNCHANGED <<file, read, buffer, bufferLength, bufferPosn, startPosn, delPosn>>
  BY DEF EndPass, Scanned, FinishPass, Return, input
<1>2. /\ str' = head \o tail
      /\ IF delPosn < Len(Delimiter) /\ consumed < maxBytesToConsume
           THEN pc' = "pass" /\ UNCHANGED <<offset, line>>
           ELSE /\ pc' = "idle"
                /\ line' = IF consumed = 0 THEN NoLine ELSE head \o tail
                /\ offset' = At(bufferPosn)
  BY DEF EndPass, Scanned, FinishPass, Return, input, ended
<1>3. /\ startPosn <= bufferPosn /\ bufferPosn <= bufferLength
      /\ delPosn <= bufferPosn - startPosn + ambiguous
      /\ offset + bytesConsumed + ambiguous = At(startPosn)
      /\ bufferLength = Len(buffer) /\ bufferLength <= read /\ bufferLength >= 0
  BY <1>0, <1>1 DEF TypeOK, BufferRead, MatchInPass
<1>4. /\ append \in Int /\ append <= bufferPosn - startPosn - delPosn
      /\ append <= maxLineLength - txtLength
      /\ append < 0 => bufferPosn - startPosn < delPosn
  BY <1>0 DEF AppendLength
<1>5. head \o tail \in Seq(Bytes)
  <2>1. str \in Seq(Bytes) /\ buffer \in Seq(Bytes)
    BY DEF TypeOK
  <2>2. SubSeq(Delimiter, 1, ambiguous) \in Seq(Bytes)
    BY DelimiterAssumption, <1>0, PartOfSeq
  <2>3. head \in Seq(Bytes)
    BY <2>1, <2>2, ConcatProperties
  <2>4. startPosn + 1 \in Nat \ {0} /\ startPosn + append \in Int /\ startPosn + append <= Len(buffer)
    BY <1>0, <1>3, <1>4
  <2>5. tail \in Seq(Bytes)
    BY <2>1, <2>4, PartOfSeq
  <2> QED
    BY <2>3, <2>5, ConcatProperties
<1>6. txtLength' \in 0..maxLineLength
  BY <1>0, <1>1, <1>4
<1>7. consumed \in Nat
  BY <1>0, <1>3
<1>8. ambiguous' \in Nat /\ ambiguous' < Len(Delimiter)
  BY <1>0, <1>1
<1>9. At(bufferPosn) \in 0..Len(file)
  BY <1>0, <1>3 DEF At
<1>10. delPosn < Len(Delimiter) =>
        /\ bufferPosn >= bufferLength
        /\ ambiguous' = delPosn
        /\ offset + consumed + delPosn = At(bufferPosn)
  <2> SUFFICES ASSUME delPosn < Len(Delimiter)
               PROVE  /\ bufferPosn >= bufferLength
                      /\ ambiguous' = delPosn
                      /\ offset + consumed + delPosn = At(bufferPosn)
    OBVIOUS
  <2>1. bufferPosn >= bufferLength
    BY <1>0, <1>1
  <2>2. CASE delPosn > 0
    BY <1>0, <1>1, <1>3, <2>1, <2>2 DEF At
  <2>3. CASE delPosn = 0
    <3>1. append >= 0
      BY <1>0, <1>3, <1>4, <2>3
    <3> QED
      BY <1>0, <1>1, <1>3, <2>1, <2>3, <3>1 DEF At
  <2> QED
    BY <1>0, <2>2, <2>3
<1> HIDE DEF append, head, tail, consumed, partial, left, reported
<1>11. TypeOK'
  <2>1. str' \in Seq(Bytes)
    BY <1>2, <1>5
  <2>2. bytesConsumed' \in Nat /\ ambiguous' \in 0..(Len(Delimiter) - 1)
    BY <1>0, <1>1, <1>7, <1>8
  <2>3. /\ pc' \in {"pass", "idle"}
        /\ offset' \in 0..Len(file)
        /\ line' \in Seq(Bytes) \cup {NoLine}
    BY <1>2, <1>5, <1>9 DEF TypeOK
  <2> QED
    BY <1>1, <1>6, <2>1, <2>2, <2>3 DEF TypeOK
<1>12. BufferRead'
  BY <1>0, <1>1, <1>3 DEF BufferRead
<1>13. bufferLength' # -1 /\ At(bufferPosn)' = At(bufferPosn)
  BY <1>1, <1>3 DEF At
<1> QED
  BY <1>0, <1>1, <1>2, <1>10, <1>11, <1>12, <1>13 DEF CountsConsumed, ScannedReturned, MatchLeft, MatchInPass

LEMMA ReaderInvStep ==
  ASSUME ReaderInv, [Next]_vars
  PROVE  ReaderInv'
<1>1. CASE UNCHANGED vars
  BY <1>1 DEF vars, input, text, ended, ReaderInv, TypeOK, CountsConsumed, BufferRead,
              ScannedReturned, MatchLeft, MatchInPass, At
<1> QED
  BY <1>1, BeginStep, ContinueStep, FillBufferStep, EndOfFileStep, MatchByteStep,
     SkipByteStep, BackUpStep, EndPassStep DEF Next, Step

LEMMA ReaderInvCorrect == Spec => []ReaderInv
<1>1. ASSUME Init
      PROVE  ReaderInv
  <2>1. file \in Seq(Bytes)
    BY <1>1, FileAssumption DEF Init
  <2>2. Len(file) \in Nat /\ Len(Delimiter) \in Nat /\ Len(Delimiter) > 0
    BY <2>1, DelimiterAssumption, EmptySeq, LenProperties
  <2>3. buffer \in Seq(Bytes) /\ Len(buffer) = 0 /\ str \in Seq(Bytes)
    BY <1>1, EmptySeq DEF Init
  <2>4. TypeOK
    BY <1>1, <2>2, <2>3 DEF Init, TypeOK
  <2> QED
    BY <1>1, <2>3, <2>4 DEF Init, ReaderInv, CountsConsumed, BufferRead, ScannedReturned,
                            MatchLeft, MatchInPass, At
<1> QED
  BY <1>1, ReaderInvStep, PTL DEF Spec

\* The reader is well typed; in particular readCustomLine never goes back out of
\* its buffer, for any delimiter and wherever the refills fall.
THEOREM TypeCorrect == Spec => []TypeOK
<1>1. ReaderInv => TypeOK
  BY DEF ReaderInv
<1> QED
  BY <1>1, ReaderInvCorrect, PTL

\* Every byte scanned is counted once: the bytes consumed, the ambiguous ones and
\* those of the lines before make up the position in the file.
THEOREM CountsConsumedCorrect == Spec => []CountsConsumed
<1>1. ReaderInv => CountsConsumed
  BY DEF ReaderInv
<1> QED
  BY <1>1, ReaderInvCorrect, PTL

-----------------------------------------------------------------------------
(* Bytes of the file, in its order. *)

\* A stretch of the file stands in it.
LEMMA AmongPart ==
  ASSUME NEW u \in Seq(Bytes), NEW from \in Int, NEW to \in Int, from + Len(u) <= to,
         Stands(u, from)
  PROVE  Lines!Among(u, from, to)
<1> DEFINE f == [j \in DOMAIN u |-> from + j]
<1>1. Len(u) \in Nat /\ DOMAIN u = 1..Len(u)
  OBVIOUS
<1>2. f \in [DOMAIN u -> (from + 1)..to]
  BY <1>1
<1>3. \A i \in DOMAIN u : file[f[i]] = u[i]
  BY DEF Stands
<1>4. \A i, j \in DOMAIN u : i < j => f[i] < f[j]
  BY <1>1
<1> HIDE DEF f
<1> QED
  BY <1>2, <1>3, <1>4 DEF Lines!Among

\* No bytes stand anywhere.
LEMMA EmptyAmong ==
  ASSUME NEW from \in Int
  PROVE  Lines!Among(<<>>, from, from)
<1>1. <<>> \in Seq(Bytes) /\ Len(<<>>) = 0
  BY EmptySeq
<1>2. Stands(<<>>, from)
  <2>1. \A j \in 1..0 : FALSE
    OBVIOUS
  <2>2. DOMAIN <<>> = 1..0
    BY <1>1, LenProperties
  <2> QED
    BY <2>1, <2>2 DEF Stands
<1>3. from + Len(<<>>) <= from
  BY <1>1
<1> QED
  BY <1>1, <1>2, <1>3, AmongPart

\* What stands between two offsets and what stands behind it, joined.
LEMMA AmongConcat ==
  ASSUME NEW t \in Seq(Bytes), NEW u \in Seq(Bytes),
         NEW from \in Int, NEW mid \in Int, NEW to \in Int, from <= mid, mid <= to,
         Lines!Among(t, from, mid), Lines!Among(u, mid, to)
  PROVE  Lines!Among(t \o u, from, to)
<1> DEFINE lt == Len(t)
           lu == Len(u)
           tu == t \o u
<1>1. lt \in Nat /\ lu \in Nat /\ DOMAIN t = 1..lt /\ DOMAIN u = 1..lu
  OBVIOUS
<1>2. DOMAIN tu = 1..(lt + lu) /\ \A i \in 1..(lt + lu) : tu[i] = IF i <= lt THEN t[i] ELSE u[i - lt]
  BY ConcatProperties
<1>3. PICK f \in [1..lt -> (from + 1)..mid] :
        /\ \A i \in 1..lt : file[f[i]] = t[i]
        /\ \A i, j \in 1..lt : i < j => f[i] < f[j]
  BY <1>1 DEF Lines!Among
<1>4. PICK g \in [1..lu -> (mid + 1)..to] :
        /\ \A i \in 1..lu : file[g[i]] = u[i]
        /\ \A i, j \in 1..lu : i < j => g[i] < g[j]
  BY <1>1 DEF Lines!Among
<1> DEFINE h == [i \in 1..(lt + lu) |-> IF i <= lt THEN f[i] ELSE g[i - lt]]
<1> HIDE DEF lt, lu, tu
<1>5. \A i \in 1..(lt + lu) : i <= lt => i \in 1..lt
  BY <1>1
<1>6. \A i \in 1..(lt + lu) : ~(i <= lt) => i - lt \in 1..lu
  BY <1>1
<1>7. /\ \A i \in 1..lt : f[i] \in Int /\ from + 1 <= f[i] /\ f[i] <= mid
      /\ \A i \in 1..lu : g[i] \in Int /\ mid + 1 <= g[i] /\ g[i] <= to
  OBVIOUS
<1>8. ASSUME NEW i \in 1..(lt + lu)
      PROVE  h[i] \in (from + 1)..to /\ file[h[i]] = tu[i]
  <2>1. CASE i <= lt
    <3>1. h[i] = f[i] /\ tu[i] = t[i] /\ i \in 1..lt
      BY <1>2, <1>5, <2>1
    <3> QED
      BY <1>3, <1>7, <3>1
  <2>2. CASE ~(i <= lt)
    <3>1. h[i] = g[i - lt] /\ tu[i] = u[i - lt] /\ i - lt \in 1..lu
      BY <1>2, <1>6, <2>2
    <3> QED
      BY <1>4, <1>7, <3>1
  <2> QED
    BY <2>1, <2>2
<1>9. ASSUME NEW i \in 1..(lt + lu), NEW j \in 1..(lt + lu), i < j
      PROVE  h[i] < h[j]
  <2>1. CASE j <= lt
    <3>1. i \in 1..lt /\ j \in 1..lt /\ h[i] = f[i] /\ h[j] = f[j]
      BY <1>1, <1>9, <2>1
    <3> QED
      BY <1>3, <1>9, <3>1
  <2>2. CASE i <= lt /\ ~(j <= lt)
    <3>1. i \in 1..lt /\ j - lt \in 1..lu /\ h[i] = f[i] /\ h[j] = g[j - lt]
      BY <1>5, <1>6, <2>2
    <3> HIDE DEF h
    <3> QED
      BY <1>7, <3>1
  <2>3. CASE ~(i <= lt)
    <3>1. ~(j <= lt)
      BY <1>1, <1>9, <2>3
    <3>2. i - lt \in 1..lu /\ j - lt \in 1..lu /\ i - lt < j - lt
      BY <1>1, <1>6, <1>9, <2>3, <3>1
    <3>3. h[i] = g[i - lt] /\ h[j] = g[j - lt]
      BY <2>3, <3>1
    <3> HIDE DEF h
    <3> QED
      BY <1>4, <3>2, <3>3
  <2> QED
    BY <2>1, <2>2, <2>3
<1>10. h \in [1..(lt + lu) -> (from + 1)..to]
  BY <1>8
<1> HIDE DEF h
<1>11. Lines!Among(tu, from, to)
  BY <1>2, <1>8, <1>9, <1>10 DEF Lines!Among
<1> QED
  BY <1>11 DEF tu

\* The stretch may be longer.
LEMMA AmongWider ==
  ASSUME NEW t \in Seq(Bytes), NEW from \in Int, NEW mid \in Int, NEW to \in Int, mid <= to,
         Lines!Among(t, from, mid)
  PROVE  Lines!Among(t, from, to)
<1>1. PICK f \in [DOMAIN t -> (from + 1)..mid] :
        /\ \A i \in DOMAIN t : file[f[i]] = t[i]
        /\ \A i, j \in DOMAIN t : i < j => f[i] < f[j]
  BY DEF Lines!Among
<1>2. f \in [DOMAIN t -> (from + 1)..to]
  <2>1. (from + 1)..mid \subseteq (from + 1)..to
    OBVIOUS
  <2> QED
    BY <2>1
<1> QED
  BY <1>1, <1>2 DEF Lines!Among

\* The elements of a part of a sequence.
LEMMA PartElements ==
  ASSUME NEW S, NEW s \in Seq(S), NEW m \in Nat \ {0}, NEW n \in Int, n <= Len(s)
  PROVE  \A j \in DOMAIN SubSeq(s, m, n) : SubSeq(s, m, n)[j] = s[m + j - 1]
<1>1. \A i \in m..n : i \in 1..Len(s)
  BY LenProperties
<1>2. \A i \in m..n : s[i] \in S
  BY <1>1, ElementOfSeq
<1>3. /\ SubSeq(s, m, n) \in Seq(S)
      /\ Len(SubSeq(s, m, n)) = IF m <= n THEN n - m + 1 ELSE 0
      /\ \A j \in 1..(n - m + 1) : SubSeq(s, m, n)[j] = s[m + j - 1]
  BY <1>2, SubSeqProperties
<1> DEFINE part == SubSeq(s, m, n)
<1>4. DOMAIN part = 1..Len(part)
  BY <1>3
<1>5. DOMAIN part \subseteq 1..(n - m + 1)
  <2> HIDE DEF part
  <2> QED
    BY <1>3, <1>4 DEF part
<1> QED
  BY <1>3, <1>5

-----------------------------------------------------------------------------
(* Every step keeps the text a part of the file. *)

\* The text and the ambiguous bytes of a call that has not moved on.
LEMMA TextKept ==
  ASSUME TextInv, UNCHANGED <<file, str, bytesConsumed, offset, ambiguous>>, pc # "idle"
  PROVE  /\ TextOfFile'
         /\ \A j \in 1..ambiguous' : file'[offset' + bytesConsumed' + j] = Delimiter[j]
BY DEF TextInv, TextOfFile, MatchOfFile, Lines!Among

LEMMA TextBegin ==
  ASSUME ReaderInv, TextInv, Begin
  PROVE  TextInv'
<1>0. offset \in Nat
  BY Numbers DEF ReaderInv
<1>1. /\ pc' = "pass" /\ str' = <<>> /\ bytesConsumed' = 0 /\ ambiguous' = 0
      /\ UNCHANGED <<file, read, buffer, bufferLength, offset>>
  BY DEF Begin, input, ended
<1>2. BufferOfFile'
  BY <1>1 DEF TextInv, BufferOfFile, Stands
<1>3. MatchOfFile'
  BY <1>1 DEF MatchOfFile
<1>4. Lines!Among(<<>>, offset, offset)
  BY <1>0, EmptyAmong
<1>5. Lines!Among(str, offset, offset + bytesConsumed)'
  <2>1. offset' + bytesConsumed' = offset
    BY <1>0, <1>1
  <2> QED
    BY <1>1, <1>4, <2>1 DEF Lines!Among
<1>6. TextOfFile'
  BY <1>1, <1>5 DEF TextOfFile
<1> QED
  BY <1>2, <1>3, <1>6 DEF TextInv

LEMMA TextContinue ==
  ASSUME ReaderInv, TextInv, Continue
  PROVE  TextInv'
<1>1. /\ pc = "pass" /\ bufferPosn < bufferLength /\ delPosn' = delPosn
      /\ UNCHANGED <<file, read, buffer, bufferLength, str, bytesConsumed, offset, ambiguous>>
  BY DEF Continue, input, text, ended
<1>2. delPosn = 0
  <2>1. /\ bufferPosn \in Nat /\ bufferLength \in Int /\ ambiguous \in Nat
        /\ delPosn = ambiguous /\ (ambiguous > 0 => bufferPosn >= bufferLength)
    BY <1>1, Numbers DEF ReaderInv, MatchLeft
  <2> QED
    BY <1>1, <2>1
<1>3. BufferOfFile'
  BY <1>1 DEF TextInv, BufferOfFile, Stands
<1> QED
  BY <1>1, <1>2, <1>3, TextKept DEF TextInv, MatchOfFile

\* A refill: the match so far is the ambiguous bytes, the last that were read.
LEMMA TextFill ==
  ASSUME ReaderInv, TextInv, FillBuffer
  PROVE  TextInv'
<1>0. /\ file \in Seq(Bytes) /\ Len(file) \in Nat /\ read \in Nat /\ read <= Len(file)
      /\ bufferPosn \in Nat /\ bufferLength \in Int /\ ambiguous \in Nat
      /\ bytesConsumed \in Nat /\ offset \in Nat
  BY Numbers DEF ReaderInv
<1>1. /\ pc = "pass" /\ pc' = "scan" /\ bufferPosn >= bufferLength /\ bufferPosn' = 0
      /\ UNCHANGED <<file, delPosn, str, bytesConsumed, offset, ambiguous>>
  BY DEF FillBuffer, text, ended
<1>2. PICK n \in 1..BufferSize :
        /\ read + n <= Len(file)
        /\ buffer' = SubSeq(file, read + 1, read + n)
        /\ bufferLength' = n
        /\ read' = read + n
  BY DEF FillBuffer
<1>3. n \in Nat /\ read' - bufferLength' = read
  BY <1>0, <1>2
<1>4. Stands(buffer', read)
  <2>1. read + 1 \in Nat \ {0} /\ read + n \in Int
    BY <1>0, <1>3
  <2>2. \A j \in DOMAIN buffer' : buffer'[j] = file[(read + 1) + j - 1]
    BY <1>0, <1>2, <2>1, PartElements
  <2>3. buffer' \in Seq(Bytes)
    BY <1>0, <1>2, <2>1, PartOfSeq
  <2>4. \A j \in DOMAIN buffer' : (read + 1) + j - 1 = read + j
    BY <1>0, <2>3
  <2> QED
    BY <2>2, <2>4 DEF Stands
<1>5. BufferOfFile'
  BY <1>1, <1>3, <1>4 DEF BufferOfFile, Stands
<1>6. offset + bytesConsumed + ambiguous = read
  <2>1. CASE bufferLength = -1
    BY <1>1, <2>1 DEF ReaderInv, CountsConsumed
  <2>2. CASE bufferLength # -1
    <3>1. bufferPosn = bufferLength
      BY <1>0, <1>1, <2>2 DEF ReaderInv, BufferRead
    <3> QED
      BY <1>0, <1>1, <2>2, <3>1 DEF ReaderInv, CountsConsumed, At
  <2> QED
    BY <2>1, <2>2
<1>7. ASSUME NEW j \in 1..delPosn'
      PROVE  file'[At(bufferPosn)' - delPosn' + j] = Delimiter[j]
  <2>1. delPosn' = ambiguous
    BY <1>1 DEF ReaderInv, MatchLeft
  <2>2. At(bufferPosn)' - delPosn' + j = offset + bytesConsumed + j
    BY <1>0, <1>1, <1>3, <1>6, <2>1 DEF At
  <2>3. file[offset + bytesConsumed + j] = Delimiter[j]
    BY <1>1, <2>1 DEF TextInv, MatchOfFile
  <2> QED
    BY <1>1, <2>2, <2>3
<1> QED
  BY <1>1, <1>5, <1>7, TextKept DEF TextInv, MatchOfFile

\* A byte that continues the match stands in the file.
LEMMA TextMatch ==
  ASSUME ReaderInv, TextInv, MatchByte
  PROVE  TextInv'
<1>0. /\ read \in Nat /\ bufferPosn \in Nat /\ bufferLength \in Int /\ delPosn \in Nat
  BY Numbers DEF ReaderInv
<1>1. /\ pc = "scan" /\ bufferPosn < bufferLength
      /\ buffer[bufferPosn + 1] = Delimiter[delPosn + 1]
      /\ delPosn' = delPosn + 1 /\ bufferPosn' = bufferPosn + 1
      /\ UNCHANGED <<file, read, buffer, bufferLength, pc, str, bytesConsumed, offset, ambiguous>>
  BY DEF MatchByte, Scanning, Matches, input, text, ended
<1>2. buffer \in Seq(Bytes) /\ bufferLength = Len(buffer) /\ bufferLength # -1
  BY <1>1 DEF ReaderInv, TypeOK, BufferRead
<1>3. BufferOfFile'
  BY <1>1 DEF TextInv, BufferOfFile, Stands
<1>4. file[At(bufferPosn) + 1] = Delimiter[delPosn + 1]
  <2>1. bufferPosn + 1 \in DOMAIN buffer
    BY <1>0, <1>1, <1>2
  <2>2. file[(read - bufferLength) + (bufferPosn + 1)] = buffer[bufferPosn + 1]
    BY <1>2, <2>1 DEF TextInv, BufferOfFile, Stands
  <2>3. (read - bufferLength) + (bufferPosn + 1) = At(bufferPosn) + 1
    BY <1>0 DEF At
  <2> QED
    BY <1>1, <2>2, <2>3
<1>5. At(bufferPosn)' = At(bufferPosn) + 1 /\ At(bufferPosn) \in Int
  BY <1>0, <1>1 DEF At
<1>6. ASSUME NEW j \in 1..delPosn'
      PROVE  file'[At(bufferPosn)' - delPosn' + j] = Delimiter[j]
  <2>1. CASE j = delPosn + 1
    <3>1. At(bufferPosn)' - delPosn' + j = At(bufferPosn) + 1
      BY <1>0, <1>1, <1>5, <2>1
    <3> QED
      BY <1>1, <1>4, <2>1, <3>1
  <2>2. CASE j # delPosn + 1
    <3>1. j \in 1..delPosn /\ At(bufferPosn)' - delPosn' + j = At(bufferPosn) - delPosn + j
      BY <1>0, <1>1, <1>5, <2>2
    <3> QED
      BY <1>1, <3>1 DEF TextInv, MatchOfFile
  <2> QED
    BY <2>1, <2>2
<1> QED
  BY <1>1, <1>3, <1>6, TextKept DEF TextInv, MatchOfFile

LEMMA TextSkip ==
  ASSUME ReaderInv, TextInv, SkipByte \/ BackUp
  PROVE  TextInv'
<1>1. /\ pc = "scan" /\ delPosn' = 0
      /\ UNCHANGED <<file, read, buffer, bufferLength, str, bytesConsumed, offset, ambiguous>>
  BY DEF SkipByte, BackUp, Scanning, input, text, ended
<1>2. BufferOfFile'
  BY <1>1 DEF TextInv, BufferOfFile, Stands
<1> QED
  BY <1>1, <1>2, TextKept DEF TextInv, MatchOfFile

\* The ambiguous bytes are those of the file behind the bytes counted.
LEMMA AmbiguousStand ==
  ASSUME ReaderInv, TextInv, pc # "idle"
  PROVE  /\ SubSeq(Delimiter, 1, ambiguous) \in Seq(Bytes)
         /\ Len(SubSeq(Delimiter, 1, ambiguous)) = ambiguous
         /\ Stands(SubSeq(Delimiter, 1, ambiguous), offset + bytesConsumed)
<1> DEFINE d == SubSeq(Delimiter, 1, ambiguous)
<1>0. ambiguous \in Nat /\ ambiguous < Len(Delimiter) /\ Len(Delimiter) \in Nat
  BY Numbers DEF ReaderInv
<1>1. d \in Seq(Bytes) /\ Len(d) = ambiguous
  BY <1>0, DelimiterAssumption, PartOfSeq
<1>2. \A j \in DOMAIN d : d[j] = Delimiter[1 + j - 1]
  BY <1>0, DelimiterAssumption, PartElements
<1>3. DOMAIN d = 1..ambiguous
  BY <1>1
<1> HIDE DEF d
<1>4. ASSUME NEW j \in 1..ambiguous
      PROVE  file[offset + bytesConsumed + j] = d[j]
  <2>1. 1 + j - 1 = j
    OBVIOUS
  <2> QED
    BY <1>2, <1>3, <2>1 DEF TextInv, MatchOfFile
<1> QED
  BY <1>1, <1>3, <1>4 DEF Stands, d

\* The bytes of a pass are those of the file behind what was counted before.
LEMMA PassStands ==
  ASSUME ReaderInv, TextInv, pc = "scan", NEW n \in Nat, n <= bufferPosn - startPosn
  PROVE  /\ SubSeq(buffer, startPosn + 1, startPosn + n) \in Seq(Bytes)
         /\ Len(SubSeq(buffer, startPosn + 1, startPosn + n)) = n
         /\ Stands(SubSeq(buffer, startPosn + 1, startPosn + n), At(startPosn))
<1> DEFINE part == SubSeq(buffer, startPosn + 1, startPosn + n)
<1>0. /\ read \in Nat /\ bufferPosn \in Nat /\ bufferLength \in Int /\ startPosn \in Nat
      /\ buffer \in Seq(Bytes) /\ startPosn <= bufferPosn /\ bufferPosn <= bufferLength
      /\ bufferLength = Len(buffer) /\ bufferLength # -1
  BY Numbers DEF ReaderInv, TypeOK, BufferRead
<1>1. startPosn + 1 \in Nat \ {0} /\ startPosn + n \in Int /\ startPosn + n <= Len(buffer)
  BY <1>0
<1>2. /\ part \in Seq(Bytes)
      /\ Len(part) = IF startPosn + 1 <= startPosn + n
                       THEN (startPosn + n) - (startPosn + 1) + 1 ELSE 0
      /\ \A j \in DOMAIN part : part[j] = buffer[(startPosn + 1) + j - 1]
  BY <1>0, <1>1, PartOfSeq, PartElements
<1> HIDE DEF part
<1>3. Len(part) = n
  BY <1>0, <1>2
<1>4. ASSUME NEW j \in DOMAIN part
      PROVE  file[At(startPosn) + j] = part[j]
  <2>1. j \in 1..n /\ j \in Nat
    BY <1>2, <1>3
  <2>2. startPosn + j \in DOMAIN buffer
    BY <1>0, <1>1, <2>1
  <2>3. file[(read - bufferLength) + (startPosn + j)] = buffer[startPosn + j]
    BY <1>0, <2>2 DEF TextInv, BufferOfFile, Stands
  <2>4. (read - bufferLength) + (startPosn + j) = At(startPosn) + j
    BY <1>0, <2>1 DEF At
  <2>5. (startPosn + 1) + j - 1 = startPosn + j
    BY <1>0, <2>1
  <2> QED
    BY <1>2, <2>3, <2>4, <2>5
<1>5. Stands(part, At(startPosn))
  BY <1>4 DEF Stands
<1> QED
  BY <1>2, <1>3, <1>5 DEF part

\* The bytes that looked like a delimiter join the text.
LEMMA AmbiguousJoins ==
  ASSUME ReaderInv, TextInv, pc # "idle"
  PROVE  /\ str \o SubSeq(Delimiter, 1, ambiguous) \in Seq(Bytes)
         /\ Lines!Among(str \o SubSeq(Delimiter, 1, ambiguous), offset,
                        offset + bytesConsumed + ambiguous)
<1> DEFINE d == SubSeq(Delimiter, 1, ambiguous)
<1>0. /\ ambiguous \in Nat /\ bytesConsumed \in Nat /\ offset \in Nat /\ str \in Seq(Bytes)
  BY Numbers DEF ReaderInv, TypeOK
<1>1. d \in Seq(Bytes) /\ Len(d) = ambiguous /\ Stands(d, offset + bytesConsumed)
  BY AmbiguousStand
<1> HIDE DEF d
<1>2. Lines!Among(d, offset + bytesConsumed, offset + bytesConsumed + ambiguous)
  BY <1>0, <1>1, AmongPart
<1>3. Lines!Among(str, offset, offset + bytesConsumed)
  BY DEF TextInv, TextOfFile
<1>4. Lines!Among(str \o d, offset, offset + bytesConsumed + ambiguous)
  BY <1>0, <1>1, <1>2, <1>3, AmongConcat
<1> QED
  BY <1>0, <1>1, <1>4, ConcatProperties DEF d

\* The text of a pass is of the bytes that it scanned, and does not reach into
\* a match that is left over.
LEMMA EndPassText ==
  ASSUME ReaderInv, TextInv, EndPass
  PROVE  /\ str' \in Seq(Bytes)
         /\ Lines!Among(str', offset, offset + bytesConsumed')
         /\ \/ bytesConsumed' = bytesConsumed + (bufferPosn - startPosn) + ambiguous
            \/ /\ delPosn > 0
               /\ bytesConsumed' = bytesConsumed + (bufferPosn - startPosn) + ambiguous - delPosn
         /\ bytesConsumed' \in Nat
<1> DEFINE append == AppendLength
           reported == append >= 0 /\ ambiguous > 0
           partial == bufferPosn >= bufferLength /\ delPosn > 0 /\ delPosn < Len(Delimiter)
           d == SubSeq(Delimiter, 1, ambiguous)
           tail == SubSeq(buffer, startPosn + 1, startPosn + append)
           consumed == bytesConsumed + (bufferPosn - startPosn) + ambiguous
                         - (IF partial THEN delPosn ELSE 0)
<1>0. /\ read \in Nat /\ bufferPosn \in Nat /\ bufferLength \in Int /\ startPosn \in Nat
      /\ Len(Delimiter) \in Nat /\ delPosn \in Nat /\ delPosn <= Len(Delimiter)
      /\ ambiguous \in Nat /\ ambiguous < Len(Delimiter)
      /\ txtLength \in Nat /\ txtLength <= maxLineLength
      /\ bytesConsumed \in Nat /\ offset \in Nat
      /\ str \in Seq(Bytes) /\ buffer \in Seq(Bytes)
  BY Numbers DEF ReaderInv, TypeOK
<1>1. /\ pc = "scan"
      /\ bytesConsumed' = consumed
      /\ str' = (IF reported THEN str \o d ELSE str) \o tail
  BY DEF EndPass, Scanned, FinishPass, Return
<1>2. /\ startPosn <= bufferPosn /\ bufferPosn <= bufferLength
      /\ delPosn <= bufferPosn - startPosn + ambiguous
      /\ offset + bytesConsumed + ambiguous = At(startPosn)
      /\ bufferLength = Len(buffer) /\ bufferLength >= 0 /\ bufferLength # -1
  BY <1>0, <1>1 DEF ReaderInv, TypeOK, BufferRead, MatchInPass
<1>3. /\ append \in Int /\ append <= bufferPosn - startPosn - delPosn
      /\ append < 0 => bufferPosn - startPosn < delPosn
  BY <1>0 DEF AppendLength
<1>4. consumed \in Nat
  BY <1>0, <1>2
<1>5. startPosn + 1 \in Nat \ {0} /\ startPosn + append \in Int /\ startPosn + append <= Len(buffer)
  BY <1>0, <1>2, <1>3
<1>6. /\ tail \in Seq(Bytes)
      /\ Len(tail) = IF startPosn + 1 <= startPosn + append
                       THEN (startPosn + append) - (startPosn + 1) + 1 ELSE 0
      /\ \A j \in DOMAIN tail : tail[j] = buffer[(startPosn + 1) + j - 1]
  BY <1>0, <1>5, PartOfSeq, PartElements
<1>7. /\ d \in Seq(Bytes) /\ str \o d \in Seq(Bytes)
      /\ Lines!Among(str \o d, offset, offset + bytesConsumed + ambiguous)
  BY <1>0, <1>1, AmbiguousJoins, DelimiterAssumption, PartOfSeq
<1>8. Lines!Among(str, offset, offset + bytesConsumed)
  BY <1>1 DEF TextInv, TextOfFile
<1>9. consumed = bytesConsumed + (bufferPosn - startPosn) + ambiguous
        \/ (delPosn > 0 /\ consumed = bytesConsumed + (bufferPosn - startPosn) + ambiguous - delPosn)
  BY <1>0
<1> HIDE DEF tail, d
<1>10. CASE append < 0
  <2>1. Len(tail) = 0
    BY <1>0, <1>3, <1>6, <1>10
  <2>2. tail = <<>>
    BY <1>6, <2>1, EmptySeq
  <2>3. str' = str
    <3>1. ~reported
      <4> HIDE DEF append
      <4> QED
        BY <1>3, <1>10
    <3>2. str' = str \o <<>>
      BY <1>1, <2>2, <3>1
    <3> QED
      BY <1>0, <3>2, ConcatEmptySeq
  <2>4. bytesConsumed <= consumed
    BY <1>0, <1>2
  <2> HIDE DEF consumed, append
  <2>5. Lines!Among(str, offset, offset + consumed)
    BY <1>0, <1>4, <1>8, <2>4, AmongWider
  <2> QED
    BY <1>0, <1>1, <1>4, <1>9, <2>3, <2>5
<1>11. CASE append >= 0
  <2> DEFINE head == IF reported THEN str \o d ELSE str
             mid == offset + bytesConsumed + ambiguous
  <2>1. head \in Seq(Bytes) /\ Lines!Among(head, offset, mid)
    <3>1. CASE ambiguous > 0
      BY <1>7, <1>11, <3>1
    <3>2. CASE ambiguous = 0
      <4>1. mid = offset + bytesConsumed
        BY <1>0, <3>2
      <4>2. head = str
        BY <3>2
      <4> QED
        BY <1>0, <1>8, <4>1, <4>2
    <3> QED
      BY <1>0, <3>1, <3>2
  <2>2. PICK n \in Nat : n = append /\ n <= bufferPosn - startPosn
    <3> HIDE DEF append
    <3> QED
      BY <1>0, <1>3, <1>11
  <2>3. Len(tail) = append /\ Stands(tail, mid)
    BY <1>1, <1>2, <2>2, PassStands DEF tail
  <2>4. mid + append <= offset + consumed
    BY <1>0, <1>2, <1>3
  <2>5. mid \in Int /\ offset <= mid /\ mid <= offset + consumed /\ offset + consumed \in Int
    BY <1>0, <1>4, <1>11, <1>3, <2>4
  <2>6. str' = head \o tail
    BY <1>1
  <2> HIDE DEF consumed, append, head, mid
  <2>7. Lines!Among(tail, mid, offset + consumed)
    BY <1>6, <2>2, <2>3, <2>4, <2>5, AmongPart
  <2>8. Lines!Among(head \o tail, offset, offset + consumed)
    BY <1>0, <1>6, <2>1, <2>5, <2>7, AmongConcat
  <2>9. head \o tail \in Seq(Bytes)
    BY <1>6, <2>1, ConcatProperties
  <2> QED
    BY <1>1, <1>4, <1>9, <2>6, <2>8, <2>9
<1> QED
  BY <1>3, <1>10, <1>11

\* A pass that leaves the call going has counted up to the match that is left.
LEMMA TextEndPass ==
  ASSUME ReaderInv, TextInv, EndPass
  PROVE  TextInv'
<1>0. /\ read \in Nat /\ bufferPosn \in Nat /\ bufferLength \in Int
      /\ delPosn \in Nat /\ bytesConsumed \in Nat /\ offset \in Nat
  BY Numbers DEF ReaderInv
<1>1. /\ pc = "scan" /\ pc' \in {"idle", "pass"}
      /\ pc' = "pass" => UNCHANGED <<offset, line>> /\ bytesConsumed' < maxBytesToConsume
      /\ UNCHANGED <<file, read, buffer, bufferLength, bufferPosn, startPosn, delPosn>>
  BY DEF EndPass, Scanned, FinishPass, Return, input, ended
<1>2. BufferOfFile'
  BY <1>1 DEF TextInv, BufferOfFile, Stands
<1>3. CASE pc' = "idle"
  BY <1>2, <1>3 DEF TextInv, MatchOfFile, TextOfFile
<1>4. CASE pc' = "pass"
  <2>1. ReaderInv'
    BY EndPassStep
  <2>2. ambiguous' = delPosn
    BY <1>1, <1>4, <2>1 DEF ReaderInv, MatchLeft
  <2>3. bytesConsumed' \in Nat /\ Lines!Among(str', offset, offset + bytesConsumed')
    BY EndPassText
  <2>4. bufferLength # -1
    BY <1>1 DEF ReaderInv, BufferRead
  <2>5. offset' + bytesConsumed' + ambiguous' = At(bufferPosn)
    BY <1>1, <1>4, <2>1, <2>4 DEF ReaderInv, CountsConsumed, At
  <2>6. ASSUME NEW j \in 1..ambiguous'
        PROVE  file'[offset' + bytesConsumed' + j] = Delimiter[j]
    <3>1. file[At(bufferPosn) - delPosn + j] = Delimiter[j]
      BY <1>1, <2>2 DEF TextInv, MatchOfFile
    <3>2. offset' + bytesConsumed' + j = At(bufferPosn) - delPosn + j
      <4>1. At(bufferPosn) \in Int
        BY <1>0 DEF At
      <4>2. offset + bytesConsumed' + delPosn = At(bufferPosn)
        BY <1>1, <1>4, <2>2, <2>5
      <4>3. offset + bytesConsumed' + j = At(bufferPosn) - delPosn + j
        BY <1>0, <2>3, <4>1, <4>2
      <4> QED
        BY <1>1, <1>4, <4>3
    <3> QED
      BY <1>1, <3>1, <3>2
  <2>7. TextOfFile'
    <3>1. Lines!Among(str, offset, offset + bytesConsumed)'
      BY <1>1, <1>4, <2>3 DEF Lines!Among
    <3> QED
      BY <1>1, <1>4, <3>1 DEF TextOfFile
  <2> QED
    BY <1>2, <1>4, <2>6, <2>7 DEF TextInv, MatchOfFile
<1> QED
  BY <1>1, <1>3, <1>4

LEMMA TextEndOfFile ==
  ASSUME EndOfFile
  PROVE  TextInv'
BY DEF EndOfFile, Return, TextInv, BufferOfFile, MatchOfFile, TextOfFile

LEMMA TextStep ==
  ASSUME ReaderInv, TextInv, [Next]_vars
  PROVE  TextInv'
<1>1. CASE UNCHANGED vars
  BY <1>1 DEF vars, input, text, ended, TextInv, BufferOfFile, MatchOfFile, TextOfFile, Stands,
              At, Lines!Among
<1> QED
  BY <1>1, TextBegin, TextContinue, TextFill, TextMatch, TextSkip, TextEndPass, TextEndOfFile
     DEF Next, Step

LEMMA TextInvCorrect == Spec => [](ReaderInv /\ TextInv)
<1>1. Init => TextInv
  <2>1. ASSUME Init
        PROVE  BufferOfFile
    <3>1. buffer = <<>> /\ DOMAIN <<>> = 1..0
      BY <2>1, EmptySeq, LenProperties DEF Init
    <3>2. \A j \in 1..0 : FALSE
      OBVIOUS
    <3> QED
      BY <3>1, <3>2 DEF BufferOfFile, Stands
  <2> QED
    BY <2>1 DEF Init, TextInv, MatchOfFile, TextOfFile
<1>2. ReaderInv /\ TextInv /\ [Next]_vars => TextInv'
  BY TextStep
<1> QED
  BY <1>1, <1>2, ReaderInvCorrect, PTL DEF Spec

-----------------------------------------------------------------------------
(* The limits. *)

\* A text that a step does not touch stays as long as it was.
LEMMA LengthKept ==
  ASSUME LimitInv, pc # "idle", UNCHANGED <<file, str, txtLength, bytesConsumed, offset>>
  PROVE  LongByHeads'
BY DEF LimitInv, LongByHeads, HeadAt, Lines!DelimiterAt

LEMMA LimitBegin ==
  ASSUME ReaderInv, Begin
  PROVE  LimitInv'
<1>1. pc' = "pass" /\ str' = <<>> /\ txtLength' = 0
  BY DEF Begin
<1>2. Len(str') <= txtLength'
  BY <1>1, EmptySeq
<1> QED
  BY <1>1, <1>2 DEF LimitInv, HeadMatched, LongByHeads

\* A pass goes on in the buffer when nothing is ambiguous.
LEMMA LimitContinue ==
  ASSUME ReaderInv, LimitInv, Continue
  PROVE  LimitInv'
<1>1. /\ pc = "pass" /\ bufferPosn < bufferLength
      /\ UNCHANGED <<file, str, txtLength, bytesConsumed, offset, ambiguous>>
  BY DEF Continue, input, text, ended
<1>2. ~(ambiguous > 0)
  <2>1. bufferPosn \in Nat /\ bufferLength \in Int /\ (ambiguous > 0 => bufferPosn >= bufferLength)
    BY <1>1, Numbers DEF ReaderInv, MatchLeft
  <2> QED
    BY <1>1, <2>1
<1>3. HeadMatched'
  BY <1>1, <1>2 DEF HeadMatched
<1> QED
  BY <1>1, <1>3, LengthKept DEF LimitInv

\* After a refill the match so far is the ambiguous bytes.
LEMMA LimitFill ==
  ASSUME ReaderInv, LimitInv, FillBuffer
  PROVE  LimitInv'
<1>1. /\ pc = "pass" /\ bufferPosn' = 0 /\ startPosn' = 0 /\ delPosn' = ambiguous
      /\ UNCHANGED <<file, str, txtLength, bytesConsumed, offset, ambiguous>>
  BY DEF FillBuffer, text, ended, ReaderInv, MatchLeft
<1>2. delPosn' = bufferPosn' - startPosn' + ambiguous'
  <2>1. ambiguous \in Nat
    BY Numbers DEF ReaderInv
  <2> QED
    BY <1>1, <2>1
<1>3. HeadMatched'
  BY <1>2 DEF HeadMatched
<1> QED
  BY <1>1, <1>3, LengthKept DEF LimitInv

LEMMA LimitMatch ==
  ASSUME ReaderInv, LimitInv, MatchByte
  PROVE  LimitInv'
<1>1. /\ pc = "scan" /\ delPosn' = delPosn + 1 /\ bufferPosn' = bufferPosn + 1
      /\ UNCHANGED <<file, startPosn, str, txtLength, bytesConsumed, offset, ambiguous>>
  BY DEF MatchByte, Scanning, input, text, ended
<1>2. delPosn = bufferPosn - startPosn + ambiguous => delPosn' = bufferPosn' - startPosn' + ambiguous'
  <2>1. /\ delPosn \in Nat /\ bufferPosn \in Nat /\ startPosn \in Nat /\ ambiguous \in Nat
    BY Numbers DEF ReaderInv
  <2> QED
    BY <1>1, <2>1
<1>3. HeadMatched'
  BY <1>1, <1>2 DEF LimitInv, HeadMatched, Lines!DelimiterAt
<1> QED
  BY <1>1, <1>3, LengthKept DEF LimitInv

\* Text outside a match: the ambiguous bytes had failed to match before.
LEMMA LimitSkip ==
  ASSUME ReaderInv, LimitInv, SkipByte
  PROVE  LimitInv'
<1>1. /\ pc = "scan" /\ delPosn = 0
      /\ UNCHANGED <<file, str, txtLength, bytesConsumed, offset, ambiguous>>
  BY DEF SkipByte, Scanning, input, text, ended
<1>2. ambiguous > 0 => delPosn # bufferPosn - startPosn + ambiguous
  <2>1. /\ bufferPosn \in Nat /\ startPosn \in Nat /\ ambiguous \in Nat /\ startPosn <= bufferPosn
    BY <1>1, Numbers DEF ReaderInv, TypeOK
  <2> QED
    BY <1>1, <2>1
<1>3. HeadMatched'
  BY <1>1, <1>2 DEF LimitInv, HeadMatched, Lines!DelimiterAt
<1> QED
  BY <1>1, <1>3, LengthKept DEF LimitInv

\* Where a match that the ambiguous bytes began fails, no delimiter begins there.
LEMMA LimitBackUp ==
  ASSUME ReaderInv, TextInv, LimitInv, BackUp
  PROVE  LimitInv'
<1>0. /\ read \in Nat /\ bufferPosn \in Nat /\ bufferLength \in Int /\ startPosn \in Nat
      /\ delPosn \in Nat /\ ambiguous \in Nat /\ bytesConsumed \in Nat /\ offset \in Nat
      /\ Len(Delimiter) \in Nat
  BY Numbers DEF ReaderInv
<1>1. /\ pc = "scan" /\ bufferPosn < bufferLength /\ delPosn < Len(Delimiter)
      /\ buffer[bufferPosn + 1] # Delimiter[delPosn + 1]
      /\ UNCHANGED <<file, str, txtLength, bytesConsumed, offset, ambiguous>>
  BY DEF BackUp, Scanning, Matches, input, text, ended
<1>2. ASSUME ambiguous > 0, Lines!DelimiterAt(offset + bytesConsumed)
      PROVE  FALSE
  <2>1. delPosn = bufferPosn - startPosn + ambiguous
    BY <1>1, <1>2 DEF LimitInv, HeadMatched
  <2>2. offset + bytesConsumed + ambiguous = At(startPosn)
    BY <1>1 DEF ReaderInv, MatchInPass
  <2>3. offset + bytesConsumed + (delPosn + 1) = (read - bufferLength) + (bufferPosn + 1)
    BY <1>0, <2>1, <2>2 DEF At
  <2>4. delPosn + 1 \in DOMAIN Delimiter
    BY <1>0, <1>1, DelimiterAssumption
  <2>5. file[offset + bytesConsumed + (delPosn + 1)] = Delimiter[delPosn + 1]
    BY <1>2, <2>4 DEF Lines!DelimiterAt
  <2>6. buffer \in Seq(Bytes) /\ bufferLength = Len(buffer) /\ bufferLength # -1
    BY <1>1 DEF ReaderInv, TypeOK, BufferRead
  <2>7. bufferPosn + 1 \in DOMAIN buffer
    BY <1>0, <1>1, <2>6
  <2>8. file[(read - bufferLength) + (bufferPosn + 1)] = buffer[bufferPosn + 1]
    BY <2>6, <2>7 DEF TextInv, BufferOfFile, Stands
  <2> QED
    BY <1>1, <2>3, <2>5, <2>8
<1>3. HeadMatched'
  BY <1>1, <1>2 DEF HeadMatched, Lines!DelimiterAt
<1> QED
  BY <1>1, <1>3, LengthKept DEF LimitInv

\* A pass makes the text longer than it counts only when it puts a head back.
LEMMA EndPassLength ==
  ASSUME ReaderInv, TextInv, LimitInv, EndPass
  PROVE  /\ str' \in Seq(Bytes) /\ txtLength' \in Nat /\ txtLength' <= maxLineLength
         /\ bytesConsumed' \in Nat
         /\ \/ Len(str') <= txtLength'
            \/ \E i \in offset..(offset + bytesConsumed' - 1) : HeadAt(i)
<1> DEFINE append == AppendLength
           reported == append >= 0 /\ ambiguous > 0
           partial == bufferPosn >= bufferLength /\ delPosn > 0 /\ delPosn < Len(Delimiter)
           d == SubSeq(Delimiter, 1, ambiguous)
           tail == SubSeq(buffer, startPosn + 1, startPosn + append)
           consumed == bytesConsumed + (bufferPosn - startPosn) + ambiguous
                         - (IF partial THEN delPosn ELSE 0)
<1>0. /\ read \in Nat /\ bufferPosn \in Nat /\ bufferLength \in Int /\ startPosn \in Nat
      /\ Len(Delimiter) \in Nat /\ delPosn \in Nat /\ delPosn <= Len(Delimiter)
      /\ ambiguous \in Nat /\ ambiguous < Len(Delimiter)
      /\ txtLength \in Nat /\ txtLength <= maxLineLength
      /\ bytesConsumed \in Nat /\ offset \in Nat
      /\ str \in Seq(Bytes) /\ buffer \in Seq(Bytes)
  BY Numbers DEF ReaderInv, TypeOK
<1>1. /\ pc = "scan"
      /\ bytesConsumed' = consumed
      /\ str' = (IF reported THEN str \o d ELSE str) \o tail
      /\ txtLength' = IF append > 0 THEN txtLength + append ELSE txtLength
  BY DEF EndPass, Scanned, FinishPass, Return
<1>2. /\ startPosn <= bufferPosn /\ bufferPosn <= bufferLength
      /\ delPosn <= bufferPosn - startPosn + ambiguous
      /\ bufferLength = Len(buffer)
  BY <1>0, <1>1 DEF ReaderInv, TypeOK, BufferRead, MatchInPass
<1>3. /\ append \in Int /\ append <= bufferPosn - startPosn - delPosn
      /\ append <= maxLineLength - txtLength
  BY <1>0 DEF AppendLength
<1>4. startPosn + 1 \in Nat \ {0} /\ startPosn + append \in Int /\ startPosn + append <= Len(buffer)
  BY <1>0, <1>2, <1>3
<1>5. /\ tail \in Seq(Bytes)
      /\ Len(tail) = IF startPosn + 1 <= startPosn + append
                       THEN (startPosn + append) - (startPosn + 1) + 1 ELSE 0
  BY <1>0, <1>4, PartOfSeq
<1>6. /\ bytesConsumed <= consumed /\ consumed \in Nat
      /\ append >= 0 => bytesConsumed + ambiguous <= consumed
  BY <1>0, <1>2, <1>3
<1>7. str' \in Seq(Bytes) /\ bytesConsumed' \in Nat
  BY EndPassText
<1> HIDE DEF append, tail, consumed
<1>8. /\ txtLength' \in Nat /\ txtLength' <= maxLineLength
      /\ txtLength' = txtLength + Len(tail)
  BY <1>0, <1>1, <1>3, <1>5
<1>9. CASE reported
  <2>1. HeadAt(offset + bytesConsumed)
    <3>1. 1 \in 1..ambiguous
      BY <1>0, <1>9
    <3>2. file[offset + bytesConsumed + 1] = Delimiter[1]
      BY <1>1, <3>1 DEF TextInv, MatchOfFile
    <3>3. delPosn # bufferPosn - startPosn + ambiguous
      BY <1>0, <1>3, <1>9
    <3>4. ~Lines!DelimiterAt(offset + bytesConsumed)
      BY <1>1, <1>9, <3>3 DEF LimitInv, HeadMatched
    <3> QED
      BY <3>2, <3>4 DEF HeadAt
  <2>2. offset + bytesConsumed \in offset..(offset + bytesConsumed' - 1)
    BY <1>0, <1>1, <1>6, <1>9
  <2> QED
    BY <1>7, <1>8, <2>1, <2>2
<1>10. CASE ~reported
  <2>1. str' = str \o tail
    BY <1>1, <1>10
  <2>2. Len(str') = Len(str) + Len(tail) /\ Len(str) \in Nat /\ Len(tail) \in Nat
    BY <1>0, <1>5, <2>1, LenProperties
  <2>3. CASE Len(str) <= txtLength
    <3>1. Len(str') <= txtLength'
      BY <1>0, <1>8, <2>2, <2>3
    <3> QED
      BY <1>7, <1>8, <3>1
  <2>4. CASE ~(Len(str) <= txtLength)
    <3>1. PICK i \in offset..(offset + bytesConsumed - 1) : HeadAt(i)
      BY <1>1, <2>4 DEF LimitInv, LongByHeads
    <3>2. i \in offset..(offset + bytesConsumed' - 1)
      BY <1>0, <1>1, <1>6
    <3> QED
      BY <1>7, <1>8, <3>1, <3>2
  <2> QED
    BY <2>3, <2>4
<1> QED
  BY <1>9, <1>10

LEMMA LimitEndPass ==
  ASSUME ReaderInv, TextInv, LimitInv, EndPass
  PROVE  LimitInv'
<1>1. /\ pc' \in {"idle", "pass"} /\ UNCHANGED file
      /\ pc' = "pass" => UNCHANGED offset
  BY DEF EndPass, Scanned, FinishPass, Return, input, ended
<1>2. LongByHeads'
  BY <1>1, EndPassLength DEF LongByHeads, HeadAt, Lines!DelimiterAt
<1> QED
  BY <1>1, <1>2 DEF LimitInv, HeadMatched

LEMMA LimitStep ==
  ASSUME ReaderInv, TextInv, LimitInv, [Next]_vars
  PROVE  LimitInv'
<1>1. CASE EndOfFile
  BY <1>1 DEF EndOfFile, Return, LimitInv, HeadMatched, LongByHeads
<1>2. CASE UNCHANGED vars
  BY <1>2 DEF vars, input, text, ended, LimitInv, HeadMatched, LongByHeads, HeadAt,
              Lines!DelimiterAt
<1> QED
  BY <1>1, <1>2, LimitBegin, LimitContinue, LimitFill, LimitMatch, LimitSkip, LimitBackUp,
     LimitEndPass DEF Next, Step

LEMMA LimitInvCorrect == Spec => [](ReaderInv /\ TextInv /\ LimitInv)
<1>1. Init => LimitInv
  BY DEF Init, LimitInv, HeadMatched, LongByHeads
<1>2. ReaderInv /\ TextInv /\ LimitInv /\ [Next]_vars => LimitInv'
  BY LimitStep
<1> QED
  BY <1>1, <1>2, TextInvCorrect, PTL DEF Spec

\* At the end of the file a head that is put back begins no delimiter.
LEMMA EndOfFileLimits ==
  ASSUME ReaderInv, TextInv, LimitInv, EndOfFile
  PROVE  /\ offset' - offset <= (maxBytesToConsume - 1) + (Len(Delimiter) - 1) + BufferSize
         /\ line' # NoLine /\ Len(line') > maxLineLength =>
              \E i \in offset..(offset' - 1) : HeadAt(i)
<1> DEFINE t == str \o SubSeq(Delimiter, 1, ambiguous)
<1>0. /\ Len(file) \in Nat /\ read \in Nat
      /\ bufferPosn \in Nat /\ bufferLength \in Int
      /\ Len(Delimiter) \in Nat /\ ambiguous \in Nat /\ ambiguous < Len(Delimiter)
      /\ txtLength \in Nat /\ txtLength <= maxLineLength
      /\ bytesConsumed \in Nat /\ offset \in Nat /\ str \in Seq(Bytes) /\ Len(str) \in Nat
  BY Numbers, LenProperties DEF ReaderInv, TypeOK
<1>1. /\ pc = "pass" /\ offset' = read /\ line' \in {NoLine, t}
      /\ bufferPosn >= bufferLength /\ read = Len(file)
  BY DEF EndOfFile, Return
<1>2. offset + bytesConsumed + ambiguous = read
  <2>1. CASE bufferLength = -1
    BY <1>1, <2>1 DEF ReaderInv, CountsConsumed
  <2>2. CASE bufferLength # -1
    <3>1. bufferPosn = bufferLength
      BY <1>0, <1>1, <2>2 DEF ReaderInv, BufferRead
    <3> QED
      BY <1>0, <1>1, <2>2, <3>1 DEF ReaderInv, CountsConsumed, At
  <2> QED
    BY <2>1, <2>2
<1>3. bytesConsumed < maxBytesToConsume
  BY <1>1 DEF TextInv, TextOfFile
<1>4. offset' - offset <= (maxBytesToConsume - 1) + (Len(Delimiter) - 1) + BufferSize
  BY <1>0, <1>1, <1>2, <1>3
<1>5. ASSUME line' # NoLine, Len(line') > maxLineLength
      PROVE  \E i \in offset..(offset' - 1) : HeadAt(i)
  <2>1. line' = t
    BY <1>1, <1>5
  <2>2. CASE ambiguous > 0
    <3>1. 1 \in 1..ambiguous
      BY <1>0, <2>2
    <3>2. file[offset + bytesConsumed + 1] = Delimiter[1]
      BY <1>1, <3>1 DEF TextInv, MatchOfFile
    <3>3. ~Lines!DelimiterAt(offset + bytesConsumed)
      BY <1>0, <1>1, <1>2 DEF Lines!DelimiterAt
    <3>4. offset + bytesConsumed \in offset..(offset' - 1)
      BY <1>0, <1>1, <1>2, <2>2
    <3> QED
      BY <3>2, <3>3, <3>4 DEF HeadAt
  <2>3. CASE ambiguous = 0
    <3>1. Len(t) = Len(str)
      <4>1. /\ SubSeq(Delimiter, 1, ambiguous) \in Seq(Bytes)
            /\ Len(SubSeq(Delimiter, 1, ambiguous)) = ambiguous
        BY <1>1, AmbiguousStand
      <4> QED
        BY <1>0, <2>3, <4>1, ConcatProperties
    <3>2. ~(Len(str) <= txtLength)
      BY <1>0, <1>5, <2>1, <3>1
    <3>3. PICK i \in offset..(offset + bytesConsumed - 1) : HeadAt(i)
      BY <1>1, <3>2 DEF LimitInv, LongByHeads
    <3>4. i \in offset..(offset' - 1)
      BY <1>0, <1>1, <1>2
    <3> QED
      BY <3>3, <3>4
  <2> QED
    BY <1>0, <2>2, <2>3
<1> QED
  BY <1>4, <1>5

LEMMA EndPassLimits ==
  ASSUME ReaderInv, TextInv, LimitInv, EndPass, offset' # offset
  PROVE  /\ offset' - offset <= (maxBytesToConsume - 1) + (Len(Delimiter) - 1) + BufferSize
         /\ line' # NoLine /\ Len(line') > maxLineLength =>
              \E i \in offset..(offset' - 1) : HeadAt(i)
<1>0. /\ read \in Nat /\ bufferPosn \in Nat /\ bufferPosn <= BufferSize /\ startPosn \in Nat
      /\ bufferLength \in Int
      /\ Len(Delimiter) \in Nat /\ delPosn \in Nat
      /\ ambiguous \in Nat /\ ambiguous < Len(Delimiter)
      /\ bytesConsumed \in Nat /\ offset \in Nat
  BY Numbers DEF ReaderInv
<1>1. /\ pc = "scan" /\ offset' = At(bufferPosn) /\ line' \in {NoLine, str'}
  BY DEF EndPass, Scanned, FinishPass, Return, ended
<1>2. /\ offset + bytesConsumed + ambiguous = At(startPosn)
      /\ At(bufferPosn) = offset + bytesConsumed + ambiguous + (bufferPosn - startPosn)
  BY <1>0, <1>1 DEF ReaderInv, MatchInPass, At
<1>3. bytesConsumed < maxBytesToConsume /\ At(bufferPosn) \in Int
  BY <1>0, <1>1 DEF TextInv, TextOfFile, At
<1>4. offset' - offset <= (maxBytesToConsume - 1) + (Len(Delimiter) - 1) + BufferSize
  <2>1. At(bufferPosn) - offset <= (maxBytesToConsume - 1) + (Len(Delimiter) - 1) + BufferSize
    BY <1>0, <1>2, <1>3
  <2> QED
    BY <1>1, <2>1
<1>5. ASSUME line' # NoLine, Len(line') > maxLineLength
      PROVE  \E i \in offset..(offset' - 1) : HeadAt(i)
  <2>1. PICK c \in Nat : c = bytesConsumed'
    BY EndPassLength
  <2>2. PICK n \in Nat : n = txtLength' /\ n <= maxLineLength
    BY EndPassLength
  <2>3. PICK l \in Nat : l = Len(str')
    BY EndPassLength, LenProperties
  <2>4. l > maxLineLength
    BY <1>1, <1>5, <2>3
  <2>5. ~(l <= n)
    BY <2>2, <2>4
  <2>6. PICK i \in offset..(offset + c - 1) : HeadAt(i)
    BY <2>1, <2>2, <2>3, <2>5, EndPassLength
  <2>7. offset + c <= At(bufferPosn)
    <3>1. \/ c = bytesConsumed + (bufferPosn - startPosn) + ambiguous
          \/ delPosn > 0 /\ c = bytesConsumed + (bufferPosn - startPosn) + ambiguous - delPosn
      BY <2>1, EndPassText
    <3> QED
      BY <1>0, <1>2, <3>1
  <2>8. i \in offset..(At(bufferPosn) - 1)
    BY <1>0, <1>3, <2>7
  <2> QED
    BY <1>1, <2>6, <2>8
<1> QED
  BY <1>4, <1>5

\* For any file, delimiter, buffer size and limits, a call consumes at most what
\* the limit and the refill under way allow, and a line is longer than
\* maxLineLength only by what looked like a delimiter in it.
THEOREM LimitsHoldCorrect == Spec => LimitsHold
<1> DEFINE Limits ==
      offset' # offset =>
        /\ offset' - offset <= (maxBytesToConsume - 1) + (Len(Delimiter) - 1) + BufferSize
        /\ line' # NoLine /\ Len(line') > maxLineLength =>
             \E i \in offset..(offset' - 1) : HeadAt(i)
<1>1. ASSUME ReaderInv, TextInv, LimitInv, Next
      PROVE  Limits
  <2>1. CASE EndOfFile
    BY <1>1, <2>1, EndOfFileLimits
  <2>2. CASE EndPass
    BY <1>1, <2>2, EndPassLimits
  <2>3. CASE ~EndOfFile /\ ~EndPass
    BY <1>1, <2>3 DEF Next, Step, Begin, Continue, FillBuffer, MatchByte, SkipByte, BackUp, ended
  <2> QED
    BY <2>1, <2>2, <2>3
<1>2. ReaderInv /\ TextInv /\ LimitInv /\ [Next]_vars => [Limits]_vars
  BY <1>1
<1> QED
  BY <1>2, LimitInvCorrect, PTL DEF Spec, LimitsHold

-----------------------------------------------------------------------------
(* The lines are those of the file. *)

\* A stretch of the file and what stands behind it, joined.
LEMMA StretchConcat ==
  ASSUME file \in Seq(Bytes), NEW o \in Nat, NEW p \in Nat, o <= p,
         NEW u \in Seq(Bytes), p + Len(u) <= Len(file), Stands(u, p)
  PROVE  SubSeq(file, o + 1, p) \o u = SubSeq(file, o + 1, p + Len(u))
<1> DEFINE s == SubSeq(file, o + 1, p)
           w == SubSeq(file, o + 1, p + Len(u))
<1>0. /\ Len(u) \in Nat /\ Len(file) \in Nat /\ p <= Len(file)
      /\ o + 1 \in Nat \ {0} /\ p \in Int /\ p + Len(u) \in Int
  BY LenProperties
<1>1. /\ s \in Seq(Bytes) /\ Len(s) = p - o
      /\ \A j \in DOMAIN s : s[j] = file[(o + 1) + j - 1]
  <2>1. Len(s) = IF o + 1 <= p THEN p - (o + 1) + 1 ELSE 0
    BY <1>0, PartOfSeq
  <2> QED
    BY <1>0, <2>1, PartOfSeq, PartElements
<1>2. /\ w \in Seq(Bytes) /\ Len(w) = p + Len(u) - o
      /\ \A j \in DOMAIN w : w[j] = file[(o + 1) + j - 1]
  <2>1. Len(w) = IF o + 1 <= p + Len(u) THEN (p + Len(u)) - (o + 1) + 1 ELSE 0
    BY <1>0, PartOfSeq
  <2>2. Len(w) = p + Len(u) - o
    BY <1>0, <2>1
  <2> QED
    BY <1>0, <2>2, PartOfSeq, PartElements
<1>3. DOMAIN s = 1..(p - o) /\ DOMAIN w = 1..(p + Len(u) - o) /\ DOMAIN u = 1..Len(u)
  BY <1>1, <1>2, LenProperties
<1> HIDE DEF s, w
<1>4. /\ s \o u \in Seq(Bytes)
      /\ Len(s \o u) = Len(s) + Len(u)
      /\ \A i \in 1..(Len(s) + Len(u)) : (s \o u)[i] = IF i <= Len(s) THEN s[i] ELSE u[i - Len(s)]
  BY <1>1, ConcatProperties
<1>5. Len(s \o u) = Len(w)
  BY <1>0, <1>1, <1>2, <1>4
<1>6. ASSUME NEW i \in 1..Len(w)
      PROVE  (s \o u)[i] = w[i]
  <2>1. i \in 1..(Len(s) + Len(u)) /\ i \in DOMAIN w /\ i \in Nat /\ i >= 1 /\ (o + 1) + i - 1 = o + i
    BY <1>0, <1>1, <1>2, <1>3
  <2>2. w[i] = file[o + i]
    BY <1>2, <2>1
  <2>3. CASE i <= p - o
    <3>1. i \in DOMAIN s
      BY <1>3, <2>1, <2>3
    <3>2. (s \o u)[i] = s[i]
      BY <1>1, <1>4, <2>1, <2>3
    <3> QED
      BY <1>1, <2>1, <2>2, <3>1, <3>2
  <2>4. CASE ~(i <= p - o)
    <3>1. i - (p - o) \in DOMAIN u /\ p + (i - (p - o)) = o + i
      BY <1>0, <1>1, <1>3, <2>1, <2>4
    <3>2. (s \o u)[i] = u[i - (p - o)]
      BY <1>1, <1>4, <2>1, <2>4
    <3>3. file[p + (i - (p - o))] = u[i - (p - o)]
      BY <3>1 DEF Stands
    <3> QED
      BY <2>2, <3>1, <3>2, <3>3
  <2> QED
    BY <2>3, <2>4
<1>7. s \o u = w
  BY <1>2, <1>4, <1>5, <1>6, SeqEqual
<1> QED
  BY <1>7 DEF s, w

\* A text that is whole stays so when the bytes behind it join it.
LEMMA WholeGrows ==
  ASSUME file \in Seq(Bytes), NEW o \in Nat, NEW p \in Nat, o <= p,
         NEW t, NEW length \in Int, NEW longer \in Int,
         NEW u \in Seq(Bytes), p + Len(u) <= Len(file), Stands(u, p),
         longer <= length + Len(u), WholeText(t, length, o, p)
  PROVE  WholeText(t \o u, longer, o, p + Len(u))
<1>0. Len(u) \in Nat
  BY LenProperties
<1>1. CASE t = SubSeq(file, o + 1, p) /\ length <= p - o
  <2>1. t \o u = SubSeq(file, o + 1, p + Len(u))
    BY <1>1, StretchConcat
  <2> QED
    BY <1>0, <1>1, <2>1 DEF WholeText
<1>2. CASE maxLineLength < p - o
  BY <1>0, <1>2 DEF WholeText
<1> QED
  BY <1>1, <1>2 DEF WholeText

\* Where a match fails no delimiter begins where the match began.
LEMMA MatchFails ==
  ASSUME ReaderInv, TextInv, Scanning, ~Matches
  PROVE  ~Lines!DelimiterAt(At(bufferPosn) - delPosn)
<1>0. /\ read \in Nat /\ bufferPosn \in Nat /\ bufferLength \in Int /\ delPosn \in Nat
      /\ Len(Delimiter) \in Nat
  BY Numbers DEF ReaderInv
<1>1. /\ pc = "scan" /\ bufferPosn < bufferLength /\ delPosn < Len(Delimiter)
      /\ buffer[bufferPosn + 1] # Delimiter[delPosn + 1]
  BY DEF Scanning, Matches
<1>2. buffer \in Seq(Bytes) /\ bufferLength = Len(buffer) /\ bufferLength # -1
  BY <1>1 DEF ReaderInv, TypeOK, BufferRead
<1>3. file[At(bufferPosn) + 1] = buffer[bufferPosn + 1]
  <2>1. bufferPosn + 1 \in DOMAIN buffer
    BY <1>0, <1>1, <1>2
  <2>2. file[(read - bufferLength) + (bufferPosn + 1)] = buffer[bufferPosn + 1]
    BY <1>2, <2>1 DEF TextInv, BufferOfFile, Stands
  <2>3. (read - bufferLength) + (bufferPosn + 1) = At(bufferPosn) + 1
    BY <1>0 DEF At
  <2> QED
    BY <2>2, <2>3
<1>4. delPosn + 1 \in DOMAIN Delimiter
  BY <1>0, <1>1, DelimiterAssumption
<1>5. At(bufferPosn) - delPosn + (delPosn + 1) = At(bufferPosn) + 1
  BY <1>0 DEF At
<1> QED
  BY <1>1, <1>3, <1>4, <1>5 DEF Lines!DelimiterAt

\* The numbers of LineInv.
LEMMA LineNumbers ==
  ASSUME ReaderInv
  PROVE  /\ file \in Seq(Bytes) /\ Len(file) \in Nat /\ read \in Nat /\ read <= Len(file)
         /\ bufferPosn \in Nat /\ startPosn \in Nat /\ bufferLength \in Int
         /\ Len(Delimiter) \in Nat /\ Len(Delimiter) > 0
         /\ delPosn \in Nat /\ delPosn <= Len(Delimiter)
         /\ ambiguous \in Nat /\ ambiguous < Len(Delimiter)
         /\ txtLength \in Nat /\ txtLength <= maxLineLength
         /\ bytesConsumed \in Nat /\ offset \in Nat /\ str \in Seq(Bytes)
         /\ At(bufferPosn) \in Int /\ At(startPosn) \in Int /\ MatchBegin \in Int
BY Numbers DEF ReaderInv, TypeOK, At, MatchBegin

\* A call that has not moved on keeps its text.
LEMMA WholeKept ==
  ASSUME LineInv, UNCHANGED <<file, str, txtLength, bytesConsumed, offset>>, pc # "idle"
  PROVE  TextWhole'
BY DEF LineInv, TextWhole, WholeText

LEMMA LineBegin ==
  ASSUME ReaderInv, Begin
  PROVE  LineInv'
<1>1. /\ pc' = "pass" /\ str' = <<>> /\ txtLength' = 0 /\ bytesConsumed' = 0
      /\ UNCHANGED <<file, offset>>
  BY DEF Begin, input, ended
<1>2. NoneBefore'
  BY <1>1, LineNumbers DEF NoneBefore, MatchBegin
<1>3. TextWhole'
  <2>1. offset + 1 \in Nat \ {0} /\ offset \in Int /\ offset <= Len(file)
    BY Numbers DEF ReaderInv
  <2>2. Len(SubSeq(file, offset + 1, offset)) = IF offset + 1 <= offset THEN offset - (offset + 1) + 1 ELSE 0
    BY <2>1, LineNumbers, PartOfSeq
  <2>3. SubSeq(file, offset + 1, offset) \in Seq(Bytes)
    BY <2>1, LineNumbers, PartOfSeq
  <2>4. SubSeq(file, offset + 1, offset) = <<>>
    BY <2>1, <2>2, <2>3, EmptySeq
  <2>5. WholeText(<<>>, 0, offset, offset)
    BY <2>1, <2>4 DEF WholeText
  <2>6. offset' + bytesConsumed' = offset
    BY <1>1, <2>1
  <2> QED
    BY <1>1, <2>5, <2>6 DEF TextWhole, WholeText
<1> QED
  BY <1>1, <1>2, <1>3 DEF LineInv, MatchBegins

\* A pass begins where the counted bytes end.
LEMMA LineContinue ==
  ASSUME ReaderInv, LineInv, Continue
  PROVE  LineInv'
<1>1. /\ pc = "pass" /\ pc' = "scan" /\ bufferPosn < bufferLength
      /\ startPosn' = bufferPosn
      /\ UNCHANGED <<file, read, bufferLength, bufferPosn, delPosn, ambiguous, str, txtLength,
                     bytesConsumed, offset>>
  BY DEF Continue, input, text, ended
<1>2. delPosn = 0 /\ ambiguous = 0
  <2>1. delPosn = ambiguous /\ (ambiguous > 0 => bufferPosn >= bufferLength)
    BY <1>1 DEF ReaderInv, MatchLeft
  <2> QED
    BY <1>1, <2>1, LineNumbers
<1>3. bufferLength # -1
  BY <1>1, LineNumbers
<1>4. offset + bytesConsumed + ambiguous = At(bufferPosn)
  BY <1>1, <1>3 DEF ReaderInv, CountsConsumed
<1>5. MatchBegin' = MatchBegin
  BY <1>1, <1>2, <1>4, LineNumbers DEF MatchBegin, At
<1>6. NoneBefore'
  BY <1>1, <1>5 DEF LineInv, NoneBefore, Lines!DelimiterAt
<1>7. MatchBegins'
  BY <1>1, <1>2, LineNumbers DEF MatchBegins
<1>8. TextWhole'
  BY <1>1, WholeKept
<1> QED
  BY <1>6, <1>7, <1>8 DEF LineInv

\* With a new buffer the match begins at the ambiguous bytes.
LEMMA LineFill ==
  ASSUME ReaderInv, LineInv, FillBuffer
  PROVE  LineInv'
<1>1. /\ pc = "pass" /\ pc' = "scan" /\ bufferPosn >= bufferLength
      /\ bufferPosn' = 0 /\ startPosn' = 0
      /\ UNCHANGED <<file, delPosn, ambiguous, str, txtLength, bytesConsumed, offset>>
  BY DEF FillBuffer, text, ended
<1>2. PICK n \in 1..BufferSize : bufferLength' = n /\ read' = read + n
  BY DEF FillBuffer
<1>3. delPosn = ambiguous
  BY <1>1 DEF ReaderInv, MatchLeft
<1>4. offset + bytesConsumed + ambiguous = read
  <2>1. CASE bufferLength = -1
    BY <1>1, <2>1 DEF ReaderInv, CountsConsumed
  <2>2. CASE bufferLength # -1
    <3>1. bufferPosn = bufferLength
      BY <1>1, <2>2, LineNumbers DEF ReaderInv, BufferRead
    <3> QED
      BY <1>1, <2>2, <3>1, LineNumbers DEF ReaderInv, CountsConsumed, At
  <2> QED
    BY <2>1, <2>2
<1>5. MatchBegin' = MatchBegin
  <2>1. At(bufferPosn)' = read
    BY <1>1, <1>2, LineNumbers DEF At
  <2>2. MatchBegin' = read - ambiguous /\ MatchBegin = offset + bytesConsumed
    BY <1>1, <1>3, <2>1 DEF MatchBegin
  <2>3. read \in Int /\ ambiguous \in Int /\ offset + bytesConsumed \in Int
    BY LineNumbers
  <2>4. offset + bytesConsumed = read - ambiguous
    BY <1>4, <2>3
  <2> QED
    BY <2>2, <2>4
<1>6. NoneBefore'
  BY <1>1, <1>5 DEF LineInv, NoneBefore, Lines!DelimiterAt
<1>7. MatchBegins'
  BY <1>1, <1>3, LineNumbers DEF MatchBegins
<1>8. TextWhole'
  BY <1>1, WholeKept
<1> QED
  BY <1>6, <1>7, <1>8 DEF LineInv

LEMMA LineMatch ==
  ASSUME ReaderInv, LineInv, MatchByte
  PROVE  LineInv'
<1>0. /\ bufferPosn \in Nat /\ startPosn \in Nat /\ bufferLength \in Int /\ read \in Nat
      /\ delPosn \in Nat /\ ambiguous \in Nat /\ offset \in Nat /\ Len(Delimiter) \in Nat
      /\ At(bufferPosn) \in Int /\ MatchBegin \in Int
  BY LineNumbers
<1>1. /\ pc = "scan" /\ pc' = "scan"
      /\ bufferPosn' = bufferPosn + 1 /\ delPosn' = delPosn + 1
      /\ UNCHANGED <<file, read, bufferLength, startPosn, ambiguous, str, txtLength,
                     bytesConsumed, offset>>
  BY DEF MatchByte, Scanning, input, text, ended
<1>2. MatchBegin' = MatchBegin
  <2>1. At(bufferPosn)' = At(bufferPosn) + 1
    BY <1>1, <1>0 DEF At
  <2>2. MatchBegin' = At(bufferPosn)' - delPosn' /\ MatchBegin = At(bufferPosn) - delPosn
    BY <1>1 DEF MatchBegin
  <2> QED
    BY <1>1, <2>1, <2>2, <1>0
<1>3. NoneBefore'
  BY <1>1, <1>2 DEF LineInv, NoneBefore, Lines!DelimiterAt
<1>4. MatchBegins'
  <2>1. delPosn <= bufferPosn - startPosn \/ delPosn = bufferPosn - startPosn + ambiguous
    BY <1>1 DEF LineInv, MatchBegins
  <2> QED
    BY <1>1, <2>1, <1>0 DEF MatchBegins
<1>5. TextWhole'
  BY <1>1, WholeKept
<1> QED
  BY <1>3, <1>4, <1>5 DEF LineInv

\* The scan goes on at byte b of the buffer, with no match, and no delimiter begins
\* in front of it.
LEMMA LineBack ==
  ASSUME ReaderInv, LineInv,
         pc = "scan", pc' = "scan", delPosn' = 0,
         UNCHANGED <<file, read, bufferLength, startPosn, ambiguous, str, txtLength,
                     bytesConsumed, offset>>,
         NEW b \in Int, bufferPosn' = b, startPosn <= b,
         \A i \in MatchBegin..(At(b) - 1) : ~Lines!DelimiterAt(i)
  PROVE  LineInv'
<1>0. /\ startPosn \in Nat /\ bufferLength \in Int /\ read \in Nat /\ offset \in Nat
      /\ MatchBegin \in Int /\ At(b) \in Int
  BY LineNumbers DEF At
<1>1. MatchBegin' = At(b)
  BY <1>0 DEF MatchBegin, At
<1>2. ASSUME NEW i \in offset..(At(b) - 1)
      PROVE  ~Lines!DelimiterAt(i)
  <2>1. i \in offset..(MatchBegin - 1) \/ i \in MatchBegin..(At(b) - 1)
    BY <1>0
  <2> QED
    BY <2>1 DEF LineInv, NoneBefore
<1>3. NoneBefore'
  BY <1>1, <1>2 DEF NoneBefore, Lines!DelimiterAt
<1>4. MatchBegins'
  <2>1. 0 <= b - startPosn
    BY <1>0
  <2> QED
    BY <2>1 DEF MatchBegins
<1>5. TextWhole'
  BY WholeKept
<1> QED
  BY <1>3, <1>4, <1>5 DEF LineInv

\* No delimiter begins at a byte that is skipped.
LEMMA LineSkip ==
  ASSUME ReaderInv, TextInv, LineInv, SkipByte
  PROVE  LineInv'
<1>0. /\ bufferPosn \in Nat /\ startPosn \in Nat /\ bufferLength \in Int /\ read \in Nat
      /\ At(bufferPosn) \in Int
  BY LineNumbers
<1>1. /\ pc = "scan" /\ pc' = "scan" /\ delPosn' = 0 /\ Scanning /\ ~Matches
      /\ UNCHANGED <<file, read, bufferLength, startPosn, ambiguous, str, txtLength,
                     bytesConsumed, offset>>
  BY DEF SkipByte, Scanning, input, text, ended
<1>2. delPosn = 0 /\ bufferPosn' = bufferPosn + 1
  BY DEF SkipByte
<1>3. PICK b \in Int : b = bufferPosn + 1
  BY <1>0
<1>4. startPosn <= b
  <2>1. startPosn <= bufferPosn
    BY <1>1 DEF ReaderInv, TypeOK
  <2> QED
    BY <1>0, <1>3, <2>1
<1>5. MatchBegin = At(bufferPosn) /\ At(b) = At(bufferPosn) + 1
  <2>1. MatchBegin = At(bufferPosn) - 0
    BY <1>1, <1>2 DEF MatchBegin
  <2> QED
    BY <1>0, <1>3, <2>1 DEF At
<1>6. ~Lines!DelimiterAt(At(bufferPosn) - 0)
  BY <1>1, <1>2, MatchFails
<1>7. \A i \in MatchBegin..(At(b) - 1) : i = At(bufferPosn) - 0
  BY <1>0, <1>5
<1>8. \A i \in MatchBegin..(At(b) - 1) : ~Lines!DelimiterAt(i)
  BY <1>6, <1>7
<1> QED
  BY <1>1, <1>2, <1>3, <1>4, <1>8, LineBack

\* Nor does one between the byte where a match began that fails and the one that
\* the scan goes back to.
LEMMA LineBackUp ==
  ASSUME NoOverlap, ReaderInv, TextInv, LineInv, BackUp
  PROVE  LineInv'
<1>0. /\ bufferPosn \in Nat /\ startPosn \in Nat /\ bufferLength \in Int /\ read \in Nat
      /\ delPosn \in Nat /\ ambiguous \in Nat /\ Len(Delimiter) \in Nat
      /\ At(bufferPosn) \in Int
  BY LineNumbers
<1>1. /\ pc = "scan" /\ pc' = "scan" /\ delPosn' = 0 /\ Scanning /\ ~Matches
      /\ UNCHANGED <<file, read, bufferLength, startPosn, ambiguous, str, txtLength,
                     bytesConsumed, offset>>
  BY DEF BackUp, Scanning, input, text, ended
<1>2. PICK b \in Int :
        /\ b = bufferPosn'
        /\ \/ b = bufferPosn - delPosn + 1
           \/ b = 0 /\ bufferPosn - delPosn + 1 < 0
  BY <1>0 DEF BackUp
<1>3. delPosn < Len(Delimiter)
  BY <1>1 DEF Scanning
<1>4. startPosn <= b
  <2>1. ReaderInv'
    BY BackUpStep
  <2> QED
    BY <1>1, <1>2, <2>1 DEF ReaderInv, TypeOK
<1>5. MatchBegin = At(bufferPosn) - delPosn /\ At(b) = At(bufferPosn) - bufferPosn + b
  BY <1>0, <1>1 DEF MatchBegin, At
<1>6. ASSUME NEW i \in MatchBegin..(At(b) - 1)
      PROVE  ~Lines!DelimiterAt(i)
  <2>1. CASE i = At(bufferPosn) - delPosn
    BY <1>1, <2>1, MatchFails
  <2>2. CASE i # At(bufferPosn) - delPosn
    <3>1. PICK k \in Int : k = i - (At(bufferPosn) - delPosn) + 1
      BY <1>0, <1>5
    <3>2. 2 <= k /\ k <= delPosn /\ i + 1 = At(bufferPosn) - delPosn + k
      <4>1. i \in Int /\ At(bufferPosn) - delPosn <= i /\ i <= At(bufferPosn) - bufferPosn + b - 1
        BY <1>0, <1>5
      <4>2. PICK m \in Int : m = At(bufferPosn) - delPosn
        BY <1>0
      <4>3. m <= i /\ i # m
        BY <2>2, <4>1, <4>2
      <4>4. k = i - m + 1
        BY <3>1, <4>2
      <4>5. 2 <= k /\ i + 1 = m + k
        BY <3>1, <4>1, <4>3, <4>4
      <4>6. i - (At(bufferPosn) - delPosn) + 1 <= delPosn
        BY <1>0, <1>2, <2>2, <4>1
      <4> QED
        BY <3>1, <4>2, <4>5, <4>6
    <3>3. k \in 1..delPosn /\ k \in 2..(Len(Delimiter) - 1)
      BY <1>0, <1>3, <3>2
    <3>4. file[At(bufferPosn) - delPosn + k] = Delimiter[k]
      BY <1>1, <3>3 DEF TextInv, MatchOfFile
    <3>5. file[i + 1] # Delimiter[1]
      BY <3>2, <3>3, <3>4 DEF NoOverlap
    <3>6. 1 \in DOMAIN Delimiter
      BY <1>0, <1>3, DelimiterAssumption
    <3> QED
      BY <3>5, <3>6 DEF Lines!DelimiterAt
  <2> QED
    BY <2>1, <2>2
<1> QED
  BY <1>1, <1>2, <1>4, <1>6, LineBack

\* The text after a pass is that of the file up to the match that is left.
LEMMA EndPassLine ==
  ASSUME ReaderInv, TextInv, LineInv, EndPass
  PROVE  WholeText(str', txtLength', offset, At(bufferPosn) - delPosn)
<1> DEFINE append == AppendLength
           d == SubSeq(Delimiter, 1, ambiguous)
           tail == SubSeq(buffer, startPosn + 1, startPosn + append)
           mid == offset + bytesConsumed + ambiguous
<1>0. /\ file \in Seq(Bytes) /\ Len(file) \in Nat /\ read \in Nat /\ read <= Len(file)
      /\ bufferPosn \in Nat /\ startPosn \in Nat /\ bufferLength \in Int
      /\ Len(Delimiter) \in Nat /\ delPosn \in Nat /\ delPosn <= Len(Delimiter)
      /\ ambiguous \in Nat /\ ambiguous < Len(Delimiter)
      /\ txtLength \in Nat /\ txtLength <= maxLineLength
      /\ bytesConsumed \in Nat /\ offset \in Nat /\ str \in Seq(Bytes)
      /\ buffer \in Seq(Bytes) /\ Len(buffer) \in Nat /\ At(bufferPosn) \in Int
  BY LineNumbers, LenProperties DEF ReaderInv, TypeOK
<1>1. /\ pc = "scan"
      /\ str' = (IF append >= 0 /\ ambiguous > 0 THEN str \o d ELSE str) \o tail
      /\ txtLength' = IF append > 0 THEN txtLength + append ELSE txtLength
  BY DEF EndPass, Scanned, FinishPass
<1>2. /\ startPosn <= bufferPosn /\ bufferPosn <= bufferLength
      /\ delPosn <= bufferPosn - startPosn + ambiguous
      /\ mid = At(startPosn) /\ At(bufferPosn) = mid + (bufferPosn - startPosn)
      /\ bufferLength = Len(buffer)
      /\ At(bufferPosn) <= Len(file)
  BY <1>0, <1>1 DEF ReaderInv, TypeOK, BufferRead, MatchInPass, At
<1>3. /\ append \in Int
      /\ \/ append = bufferPosn - startPosn - delPosn
         \/ /\ append = maxLineLength - txtLength
            /\ append < bufferPosn - startPosn - delPosn
      /\ append < 0 => append = bufferPosn - startPosn - delPosn
  BY <1>0 DEF AppendLength
<1>4. WholeText(str, txtLength, offset, offset + bytesConsumed)
  BY <1>1 DEF LineInv, TextWhole
<1>5. CASE append < 0
  <2>1. delPosn = bufferPosn - startPosn + ambiguous
    <3>1. delPosn <= bufferPosn - startPosn \/ delPosn = bufferPosn - startPosn + ambiguous
      BY <1>1 DEF LineInv, MatchBegins
    <3> HIDE DEF append
    <3> QED
      BY <1>0, <1>3, <1>5, <3>1
  <2>2. At(bufferPosn) - delPosn = offset + bytesConsumed
    BY <1>0, <1>2, <2>1
  <2>3. tail = <<>>
    <3>1. startPosn + 1 \in Nat \ {0} /\ startPosn + append \in Int /\ startPosn + append <= Len(buffer)
      <4> HIDE DEF append
      <4> QED
        BY <1>0, <1>2, <1>3, <1>5
    <3>2. /\ tail \in Seq(Bytes)
          /\ Len(tail) = IF startPosn + 1 <= startPosn + append
                           THEN (startPosn + append) - (startPosn + 1) + 1 ELSE 0
      BY <1>0, <3>1, PartOfSeq
    <3> HIDE DEF append, tail
    <3>3. Len(tail) = 0
      BY <1>0, <1>3, <1>5, <3>2
    <3> QED
      BY <3>2, <3>3, EmptySeq
  <2> HIDE DEF append, tail
  <2>4. str' = str /\ txtLength' = txtLength
    <3>1. str' = str \o <<>> /\ txtLength' = txtLength
      BY <1>1, <1>3, <1>5, <2>3
    <3> QED
      BY <1>0, <3>1, ConcatEmptySeq
  <2> QED
    BY <1>4, <2>2, <2>4
<1>6. CASE append >= 0
  <2>1. d \in Seq(Bytes) /\ Len(d) = ambiguous /\ Stands(d, offset + bytesConsumed)
    BY <1>1, AmbiguousStand
  <2>2. PICK n \in Nat : n = append /\ n <= bufferPosn - startPosn
    <3> HIDE DEF append
    <3> QED
      BY <1>0, <1>3, <1>6
  <2>3. tail \in Seq(Bytes) /\ Len(tail) = n /\ Stands(tail, mid)
    BY <1>1, <1>2, <2>2, PassStands
  <2> HIDE DEF append, tail, d
  <2>4. WholeText(str \o d, txtLength, offset, mid)
    <3>1. offset + bytesConsumed \in Nat /\ offset <= offset + bytesConsumed
      BY <1>0
    <3>2. mid <= Len(file)
      BY <1>0, <1>2
    <3>3. txtLength \in Int /\ txtLength <= txtLength + Len(d) /\ offset + bytesConsumed + Len(d) = mid
      BY <1>0, <2>1
    <3> HIDE DEF mid
    <3> QED
      BY <1>0, <1>4, <2>1, <3>1, <3>2, <3>3, WholeGrows
  <2>5. str' = (str \o d) \o tail
    <3>1. CASE ambiguous > 0
      BY <1>1, <1>6, <3>1
    <3>2. CASE ambiguous = 0
      <4>1. d = <<>>
        BY <2>1, <3>2, EmptySeq
      <4>2. str' = str \o tail
        BY <1>0, <1>1, <3>2
      <4> QED
        BY <1>0, <4>1, <4>2, ConcatEmptySeq
    <3> QED
      BY <1>0, <3>1, <3>2
  <2>6. txtLength' = txtLength + n
    BY <1>0, <1>1, <1>6, <2>2
  <2>7. mid \in Nat /\ offset <= mid
    BY <1>0
  <2>8. CASE append = bufferPosn - startPosn - delPosn
    <3>1. At(bufferPosn) - delPosn = mid + Len(tail)
      BY <1>0, <1>2, <2>2, <2>3, <2>7, <2>8
    <3>2. mid + Len(tail) <= Len(file)
      BY <1>0, <1>2, <3>1
    <3>3. txtLength \in Int /\ txtLength + n \in Int /\ txtLength + n <= txtLength + Len(tail)
      BY <1>0, <2>2, <2>3
    <3> HIDE DEF mid
    <3>4. WholeText((str \o d) \o tail, txtLength + n, offset, mid + Len(tail))
      BY <1>0, <2>3, <2>4, <2>7, <3>2, <3>3, WholeGrows
    <3> QED
      BY <2>5, <2>6, <3>1, <3>4
  <2>9. CASE append = maxLineLength - txtLength /\ append < bufferPosn - startPosn - delPosn
    <3>1. txtLength <= mid - offset \/ maxLineLength < mid - offset
      BY <2>4 DEF WholeText
    <3>2. maxLineLength < At(bufferPosn) - delPosn - offset
      BY <1>0, <1>2, <1>3, <1>6, <2>7, <2>9, <3>1
    <3> QED
      BY <3>2 DEF WholeText
  <2> QED
    BY <1>3, <2>8, <2>9
<1> QED
  BY <1>3, <1>5, <1>6

\* What is counted at the end of a pass that leaves no whole delimiter reaches to
\* the match that is left.
LEMMA EndPassCounts ==
  ASSUME ReaderInv, EndPass, delPosn < Len(Delimiter)
  PROVE  offset + bytesConsumed' = At(bufferPosn) - delPosn
<1>0. /\ read \in Nat /\ bufferPosn \in Nat /\ startPosn \in Nat /\ bufferLength \in Int
      /\ delPosn \in Nat /\ ambiguous \in Nat /\ bytesConsumed \in Nat /\ offset \in Nat
  BY LineNumbers
<1>1. /\ pc = "scan" /\ bufferPosn >= bufferLength
      /\ bytesConsumed' = bytesConsumed + (bufferPosn - startPosn) + ambiguous
                            - (IF bufferPosn >= bufferLength /\ delPosn > 0 /\ delPosn < Len(Delimiter)
                                 THEN delPosn ELSE 0)
  BY DEF EndPass, Scanned, FinishPass
<1>2. bytesConsumed' = bytesConsumed + (bufferPosn - startPosn) + ambiguous - delPosn
  BY <1>0, <1>1
<1>3. offset + bytesConsumed + ambiguous = At(startPosn)
  BY <1>1 DEF ReaderInv, MatchInPass
<1> QED
  BY <1>0, <1>2, <1>3 DEF At

LEMMA LineEndPass ==
  ASSUME ReaderInv, TextInv, LineInv, EndPass
  PROVE  LineInv'
<1>1. /\ pc = "scan" /\ pc' \in {"idle", "pass"}
      /\ pc' = "pass" => offset' = offset /\ delPosn < Len(Delimiter)
      /\ file' = file
  BY DEF EndPass, Scanned, FinishPass, Return, input, ended
<1>2. CASE pc' = "idle"
  BY <1>2 DEF LineInv, NoneBefore, MatchBegins, TextWhole
<1>3. CASE pc' = "pass"
  <2>1. offset + bytesConsumed' = At(bufferPosn) - delPosn
    BY <1>1, <1>3, EndPassCounts
  <2>2. MatchBegin' = MatchBegin
    BY <1>1, <1>3, <2>1 DEF MatchBegin
  <2>3. NoneBefore'
    BY <1>1, <1>3, <2>2 DEF LineInv, NoneBefore, Lines!DelimiterAt
  <2>4. WholeText(str', txtLength', offset, offset + bytesConsumed')
    BY <2>1, EndPassLine
  <2>5. TextWhole'
    BY <1>1, <1>3, <2>4 DEF TextWhole, WholeText
  <2> QED
    BY <1>3, <2>3, <2>5 DEF LineInv, MatchBegins
<1> QED
  BY <1>1, <1>2, <1>3

LEMMA LineStep ==
  ASSUME NoOverlap, ReaderInv, TextInv, LineInv, [Next]_vars
  PROVE  LineInv'
<1>1. CASE UNCHANGED vars
  BY <1>1 DEF vars, input, text, ended, LineInv, NoneBefore, MatchBegins, MatchBegin, TextWhole,
              WholeText, At, Lines!DelimiterAt
<1>2. CASE EndOfFile
  BY <1>2 DEF EndOfFile, Return, LineInv, NoneBefore, MatchBegins, TextWhole
<1> QED
  BY <1>1, <1>2, LineBegin, LineContinue, LineFill, LineMatch, LineSkip, LineBackUp, LineEndPass
     DEF Next, Step

\* A line that is too long: the call stops behind more bytes than a line may have
\* or a call consumes, and no delimiter begins in front of c.
LEMMA PartStep ==
  ASSUME NEW c \in Int, NEW to \in Int, offset \in Nat, Len(Delimiter) \in Nat,
         c <= to, to <= c + Len(Delimiter), to <= Len(file), c <= Len(file), Len(file) \in Nat,
         maxLineLength < c - offset \/ maxBytesToConsume <= c - offset,
         \A i \in offset..(c - 1) : ~Lines!DelimiterAt(i),
         offset' = to, file' = file, Lines!Among(line', offset, to)
  PROVE  Lines!Next
<1> DEFINE m == IF maxLineLength + 1 < maxBytesToConsume THEN maxLineLength + 1 ELSE maxBytesToConsume
<1>1. m \in Nat /\ m >= 1 /\ offset + m <= c
  OBVIOUS
<1>2. to > offset /\ to \in offset..Len(file)
  BY <1>1
<1>3. \A i \in offset..(offset + m - 1) : i \in offset..(c - 1)
  BY <1>1
<1>4. \A i \in offset..(to - Len(Delimiter) - 1) : i \in offset..(c - 1)
  OBVIOUS
<1>5. offset + m <= Len(file) /\ \A i \in offset..(offset + m - 1) : ~Lines!DelimiterAt(i)
  BY <1>1, <1>3
<1>6. Lines!ReadPart(to)
  BY <1>2, <1>4, <1>5 DEF Lines!ReadPart
<1> QED
  BY <1>2, <1>6 DEF Lines!Next

\* The end of the file ends the last line.
LEMMA SplitEndOfFile ==
  ASSUME ReaderInv, TextInv, LineInv, EndOfFile
  PROVE  Lines!Next
<1> DEFINE t == str \o SubSeq(Delimiter, 1, ambiguous)
<1>0. /\ file \in Seq(Bytes) /\ Len(file) \in Nat /\ read \in Nat
      /\ bufferPosn \in Nat /\ bufferLength \in Int
      /\ Len(Delimiter) \in Nat
      /\ ambiguous \in Nat /\ ambiguous < Len(Delimiter)
      /\ txtLength \in Nat
      /\ bytesConsumed \in Nat /\ offset \in Nat
  BY LineNumbers
<1>1. /\ pc = "pass" /\ bufferPosn >= bufferLength /\ read = Len(file)
      /\ offset' = read /\ file' = file
      /\ line' = IF bytesConsumed + ambiguous = 0 THEN NoLine ELSE t
  BY DEF EndOfFile, Return
<1>2. offset + bytesConsumed + ambiguous = Len(file)
  <2>1. CASE bufferLength = -1
    BY <1>1, <2>1 DEF ReaderInv, CountsConsumed
  <2>2. CASE bufferLength # -1
    <3>1. bufferPosn = bufferLength
      BY <1>0, <1>1, <2>2 DEF ReaderInv, BufferRead
    <3> QED
      BY <1>0, <1>1, <2>2, <3>1 DEF ReaderInv, CountsConsumed, At
  <2> QED
    BY <2>1, <2>2
<1>3. \A i \in offset..(offset + bytesConsumed - 1) : ~Lines!DelimiterAt(i)
  <2>1. MatchBegin \in Int /\ MatchBegin = offset + bytesConsumed
    BY <1>0, <1>1 DEF MatchBegin
  <2>2. \A i \in offset..(MatchBegin - 1) : ~Lines!DelimiterAt(i)
    BY <1>1 DEF LineInv, NoneBefore
  <2> QED
    BY <1>0, <2>1, <2>2
<1>4. ASSUME NEW i \in offset..Len(file)
      PROVE  ~Lines!DelimiterAt(i)
  <2>1. CASE i + Len(Delimiter) <= Len(file)
    <3>1. i \in offset..(offset + bytesConsumed - 1)
      BY <1>0, <1>2, <2>1
    <3> QED
      BY <1>3, <3>1
  <2>2. CASE ~(i + Len(Delimiter) <= Len(file))
    BY <2>2 DEF Lines!DelimiterAt
  <2> QED
    BY <2>1, <2>2
<1>5. WholeText(t, txtLength, offset, Len(file))
  <2>1. /\ SubSeq(Delimiter, 1, ambiguous) \in Seq(Bytes)
        /\ Len(SubSeq(Delimiter, 1, ambiguous)) = ambiguous
        /\ Stands(SubSeq(Delimiter, 1, ambiguous), offset + bytesConsumed)
    BY <1>1, AmbiguousStand
  <2>2. PICK d \in Seq(Bytes) : d = SubSeq(Delimiter, 1, ambiguous)
    BY <2>1
  <2>3. Len(d) = ambiguous /\ Stands(d, offset + bytesConsumed)
    BY <2>1, <2>2
  <2>4. PICK p \in Nat : p = offset + bytesConsumed
    BY <1>0
  <2>5. /\ offset <= p /\ p + Len(d) <= Len(file) /\ p + Len(d) = Len(file)
        /\ txtLength \in Int /\ txtLength <= txtLength + Len(d)
    BY <1>0, <1>2, <2>3, <2>4
  <2>6. WholeText(str, txtLength, offset, p) /\ Stands(d, p)
    BY <1>1, <2>3, <2>4 DEF LineInv, TextWhole
  <2>7. WholeText(str \o d, txtLength, offset, p + Len(d))
    BY <1>0, <2>2, <2>5, <2>6, WholeGrows
  <2> QED
    BY <2>2, <2>5, <2>7
<1>6. t \in Seq(Bytes) /\ Lines!Among(t, offset, Len(file))
  BY <1>1, <1>2, AmbiguousJoins
<1> HIDE DEF t
<1>7. CASE t = SubSeq(file, offset + 1, Len(file))
  <2>1. bytesConsumed + ambiguous = 0 <=> ~(offset < Len(file))
    BY <1>0, <1>2
  <2>2. line' = IF offset < Len(file) THEN SubSeq(file, offset + 1, Len(file)) ELSE NoLine
    BY <1>1, <1>7, <2>1
  <2> QED
    BY <1>1, <1>4, <2>2 DEF Lines!ReadLast, Lines!Next
<1>8. CASE maxLineLength < Len(file) - offset
  <2>1. line' = t
    BY <1>0, <1>1, <1>2, <1>8
  <2>2. \A i \in offset..(Len(file) - 1) : ~Lines!DelimiterAt(i)
    <3>1. \A i \in offset..(Len(file) - 1) : i \in offset..Len(file)
      BY <1>0
    <3> QED
      BY <1>4, <3>1
  <2>3. PICK c \in Int : c = Len(file)
    BY <1>0
  <2>4. /\ c <= c /\ c <= c + Len(Delimiter) /\ c <= Len(file)
        /\ maxLineLength < c - offset
        /\ \A i \in offset..(c - 1) : ~Lines!DelimiterAt(i)
        /\ offset' = c /\ Lines!Among(line', offset, c)
    BY <1>0, <1>1, <1>6, <1>8, <2>1, <2>2, <2>3
  <2> QED
    BY <1>0, <1>1, <2>4, PartStep
<1> QED
  BY <1>5, <1>7, <1>8 DEF WholeText

\* The end of a pass returns the line in front of the delimiter that was found, or
\* a part of one that is too long, or nothing yet.
LEMMA SplitEndPass ==
  ASSUME ReaderInv, TextInv, LineInv, EndPass
  PROVE  Lines!Next \/ UNCHANGED <<file, offset, line>>
<1>0. /\ file \in Seq(Bytes) /\ Len(file) \in Nat /\ read \in Nat /\ read <= Len(file)
      /\ bufferPosn \in Nat /\ startPosn \in Nat /\ bufferLength \in Int
      /\ Len(Delimiter) \in Nat /\ Len(Delimiter) > 0
      /\ delPosn \in Nat /\ delPosn <= Len(Delimiter)
      /\ ambiguous \in Nat /\ bytesConsumed \in Nat /\ offset \in Nat
  BY LineNumbers
<1>1. /\ pc = "scan" /\ file' = file
      /\ IF delPosn < Len(Delimiter) /\ bytesConsumed' < maxBytesToConsume
           THEN UNCHANGED <<offset, line>>
           ELSE offset' = At(bufferPosn) /\ line' = IF bytesConsumed' = 0 THEN NoLine ELSE str'
  BY DEF EndPass, Scanned, FinishPass, Return, input, ended
<1>2. /\ startPosn <= bufferPosn /\ bufferPosn <= bufferLength
      /\ delPosn <= bufferPosn - startPosn + ambiguous
      /\ offset + bytesConsumed + ambiguous = At(startPosn)
      /\ At(bufferPosn) = offset + bytesConsumed + ambiguous + (bufferPosn - startPosn)
  BY <1>0, <1>1 DEF ReaderInv, TypeOK, MatchInPass, At
<1>3. PICK c \in Int : c = At(bufferPosn) - delPosn
  BY <1>0 DEF At
<1>4. /\ offset <= c /\ At(bufferPosn) = c + delPosn
      /\ At(bufferPosn) <= Len(file) /\ At(bufferPosn) \in Int
  BY <1>0, <1>2, <1>3 DEF At
<1>5. \A i \in offset..(c - 1) : ~Lines!DelimiterAt(i)
  BY <1>1, <1>3 DEF LineInv, NoneBefore, MatchBegin
<1>6. WholeText(str', txtLength', offset, c)
  BY <1>3, EndPassLine
<1>7. PICK n \in Nat :
        /\ n = bytesConsumed' /\ Lines!Among(str', offset, offset + n)
        /\ \/ n = bytesConsumed + (bufferPosn - startPosn) + ambiguous
           \/ n = bytesConsumed + (bufferPosn - startPosn) + ambiguous - delPosn
  BY EndPassText
<1>8. Lines!Among(str', offset, At(bufferPosn))
  <2>0. \/ n = bytesConsumed + (bufferPosn - startPosn) + ambiguous
        \/ n = bytesConsumed + (bufferPosn - startPosn) + ambiguous - delPosn
    BY <1>7
  <2>1. offset + n \in Int /\ offset + n <= At(bufferPosn)
    BY <1>0, <1>2, <1>4, <2>0
  <2>2. str' \in Seq(Bytes)
    BY EndPassText
  <2>3. PICK to \in Int : to = At(bufferPosn)
    BY <1>4
  <2>4. Lines!Among(str', offset, to)
    BY <1>0, <1>7, <2>1, <2>2, <2>3, AmongWider
  <2> QED
    BY <2>3, <2>4
<1>9. ASSUME offset' = At(bufferPosn), line' = str',
             maxLineLength < c - offset \/ maxBytesToConsume <= c - offset
      PROVE  Lines!Next
  <2>1. c <= c + delPosn /\ c + delPosn <= c + Len(Delimiter) /\ c + delPosn \in Int /\ c <= Len(file)
    BY <1>0, <1>4
  <2> QED
    BY <1>0, <1>1, <1>4, <1>5, <1>8, <1>9, <2>1, PartStep
<1>10. CASE delPosn = Len(Delimiter)
  <2>1. bytesConsumed' = bytesConsumed + (bufferPosn - startPosn) + ambiguous
                            - (IF bufferPosn >= bufferLength /\ delPosn > 0 /\ delPosn < Len(Delimiter)
                                 THEN delPosn ELSE 0)
    BY DEF EndPass, Scanned, FinishPass
  <2>2. n = bytesConsumed + (bufferPosn - startPosn) + ambiguous
    <3>1. bytesConsumed' = bytesConsumed + (bufferPosn - startPosn) + ambiguous - 0
      <4>1. ~(delPosn < Len(Delimiter))
        BY <1>0, <1>10
      <4> QED
        BY <2>1, <4>1
    <3> QED
      BY <1>0, <1>2, <1>7, <3>1
  <2>3. offset' = At(bufferPosn) /\ line' = str'
    <3>1. n # 0
      BY <1>0, <1>2, <1>10, <2>2
    <3> QED
      BY <1>0, <1>1, <1>7, <1>10, <3>1
  <2>4. CASE str' = SubSeq(file, offset + 1, c)
    <3>1. Lines!DelimiterAt(c)
      <4>1. DOMAIN Delimiter = 1..Len(Delimiter)
        BY DelimiterAssumption
      <4>2. \A j \in DOMAIN Delimiter : file[c + j] = Delimiter[j]
        BY <1>1, <1>3, <1>10, <4>1 DEF TextInv, MatchOfFile
      <4> QED
        BY <1>4, <1>10, <4>2 DEF Lines!DelimiterAt
    <3>2. c \in offset..Len(file)
      BY <1>0, <1>4
    <3>3. Lines!ReadLine(c)
      BY <1>1, <1>4, <1>5, <1>10, <2>3, <2>4, <3>1 DEF Lines!ReadLine
    <3> QED
      BY <3>2, <3>3 DEF Lines!Next
  <2>5. CASE maxLineLength < c - offset
    BY <1>9, <2>3, <2>5
  <2> QED
    BY <1>6, <2>4, <2>5 DEF WholeText
<1>11. CASE delPosn < Len(Delimiter) /\ ~(bytesConsumed' < maxBytesToConsume)
  <2>1. offset + n = c /\ ~(n < maxBytesToConsume)
    BY <1>3, <1>7, <1>11, EndPassCounts
  <2>2. maxBytesToConsume <= c - offset /\ n # 0
    BY <1>0, <2>1
  <2>3. offset' = At(bufferPosn) /\ line' = str'
    BY <1>1, <1>7, <1>11, <2>2
  <2> QED
    BY <1>9, <2>2, <2>3
<1>12. CASE delPosn < Len(Delimiter) /\ bytesConsumed' < maxBytesToConsume
  BY <1>1, <1>12
<1> QED
  BY <1>0, <1>10, <1>11, <1>12

\* Wherever the refills fall, the lines are those between the delimiters, and only
\* one that exceeds a limit is cut; of a delimiter whose first byte does not come
\* again in the middle of it.
THEOREM SplitsCorrect ==
  ASSUME NoOverlap
  PROVE  Spec => SplitsAtDelimiters
<1>1. Init => LineInv /\ Lines!Init
  BY DEF Init, LineInv, NoneBefore, MatchBegins, TextWhole, Lines!Init
<1>2. ReaderInv /\ TextInv /\ LineInv /\ [Next]_vars => LineInv'
  BY LineStep
<1>3. ASSUME ReaderInv, TextInv, LineInv, [Next]_vars
      PROVE  [Lines!Next]_(Lines!vars)
  <2>1. CASE EndOfFile
    BY <1>3, <2>1, SplitEndOfFile
  <2>2. CASE EndPass
    BY <1>3, <2>2, SplitEndPass DEF Lines!vars
  <2>3. CASE UNCHANGED vars
    BY <2>3 DEF vars, input, ended, Lines!vars
  <2>4. CASE Next /\ ~EndOfFile /\ ~EndPass
    BY <2>4 DEF Next, Step, Begin, Continue, FillBuffer, MatchByte, SkipByte, BackUp, input, ended,
                Lines!vars
  <2> QED
    BY <1>3, <2>1, <2>2, <2>3, <2>4
<1> QED
  BY <1>1, <1>2, <1>3, TextInvCorrect, PTL DEF Spec, SplitsAtDelimiters, Lines!Spec
=============================================================================
