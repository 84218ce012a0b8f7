----------------------------- MODULE LineReader -----------------------------
(***************************************************************************)
(* tran/.../extract/file/LineInputStream.readCustomLine: lines that end    *)
(* with a delimiter of several bytes, read through a buffer that is filled *)
(* anew when it is used up, possibly in the middle of a delimiter.         *)
(*                                                                         *)
(* A pass of the do loop is a fill of the buffer if it is used up, one     *)
(* step per byte of the scan, and the bookkeeping at its end.  Positions   *)
(* count from 0 as in the code: byte p of the buffer is buffer[p + 1].     *)
(* The text of a line is kept as bytes: the file's encoding is a           *)
(* single-byte one.                                                        *)
(***************************************************************************)
EXTENDS Integers, Sequences

CONSTANTS
  Bytes,
  Files,              \* the contents a file may have
  Delimiter,          \* recordDelimiterBytes
  NoLine,             \* null
  BufferSize,         \* buffer.length
  maxLineLength,
  maxBytesToConsume

ASSUME FileAssumption == Files \subseteq Seq(Bytes) /\ NoLine \notin Seq(Bytes)
ASSUME DelimiterAssumption == Delimiter \in Seq(Bytes) /\ Delimiter # <<>>
ASSUME SizeAssumption == BufferSize \in Nat \ {0}
ASSUME LimitAssumption == maxLineLength \in Nat \ {0} /\ maxBytesToConsume \in Nat \ {0}

VARIABLES
  file, read,                    \* the file, and how much of it was read
  buffer, bufferPosn, bufferLength,
  pc,                            \* where the call is
  startPosn, delPosn, ambiguous, \* startPosn, delPosn, ambiguousByteCount
  str, txtLength, bytesConsumed,
  offset, line                   \* where the last line ended, and what it was

input == <<file, read, buffer, bufferLength>>
text  == <<str, txtLength, bytesConsumed>>
ended == <<offset, line>>
vars  == <<input, bufferPosn, pc, startPosn, delPosn, ambiguous, text, ended>>

-----------------------------------------------------------------------------
\* The file offset of byte p of the buffer.
At(p) == read - bufferLength + p

\* readCustomLine returns t.
Return(t, consumed) ==
  /\ pc' = "idle"
  /\ line' = IF consumed = 0 THEN NoLine ELSE t

\* readCustomLine is called.
Begin ==
  /\ pc = "idle"
  /\ pc' = "pass"
  /\ str' = <<>> /\ txtLength' = 0 /\ bytesConsumed' = 0
  /\ delPosn' = 0 /\ ambiguous' = 0
  /\ UNCHANGED <<input, bufferPosn, startPosn, ended>>

\* A pass that goes on in the buffer.
Continue ==
  /\ pc = "pass"
  /\ bufferPosn < bufferLength
  /\ startPosn' = bufferPosn
  /\ pc' = "scan"
  /\ UNCHANGED <<input, bufferPosn, delPosn, ambiguous, text, ended>>

\* fillBuffer: read returns any number of bytes it has room for.
FillBuffer ==
  /\ pc = "pass"
  /\ bufferPosn >= bufferLength
  /\ \E n \in 1..BufferSize :
       /\ read + n <= Len(file)
       /\ buffer' = SubSeq(file, read + 1, read + n)
       /\ bufferLength' = n
       /\ read' = read + n
  /\ bufferPosn' = 0 /\ startPosn' = 0
  /\ pc' = "scan"
  /\ UNCHANGED <<file, delPosn, ambiguous, text, ended>>

\* Mutant of EndOfFile: the head of a delimiter at the end of the file is lost.
EndOfFileForgets ==
  /\ pc = "pass"
  /\ bufferPosn >= bufferLength
  /\ read = Len(file)
  /\ bufferLength' = -1 /\ bufferPosn' = 0 /\ startPosn' = 0
  /\ Return(str, bytesConsumed)
  /\ offset' = read
  /\ UNCHANGED <<file, read, buffer, delPosn, ambiguous, text>>

\* read returns -1: what looked like the head of a delimiter is text.
EndOfFile ==
  LET t == str \o SubSeq(Delimiter, 1, ambiguous)
  IN  /\ pc = "pass"
      /\ bufferPosn >= bufferLength
      /\ read = Len(file)
      /\ bufferLength' = -1 /\ bufferPosn' = 0 /\ startPosn' = 0
      /\ str' = t
      /\ bytesConsumed' = bytesConsumed + ambiguous
      /\ Return(t, bytesConsumed')
      /\ offset' = read
      /\ UNCHANGED <<file, read, buffer, delPosn, ambiguous, txtLength>>

Scanning == pc = "scan" /\ bufferPosn < bufferLength /\ delPosn < Len(Delimiter)
Matches  == buffer[bufferPosn + 1] = Delimiter[delPosn + 1]

\* The byte continues the delimiter, which may be complete with it.
MatchByte ==
  /\ Scanning
  /\ Matches
  /\ delPosn' = delPosn + 1
  /\ bufferPosn' = bufferPosn + 1
  /\ UNCHANGED <<input, pc, startPosn, ambiguous, text, ended>>

\* The byte is text.
SkipByte ==
  /\ Scanning
  /\ ~Matches
  /\ delPosn = 0
  /\ bufferPosn' = bufferPosn + 1
  /\ UNCHANGED <<input, pc, startPosn, delPosn, ambiguous, text, ended>>

\* Mutant of BackUp: nothing keeps the scan in the buffer.
BackUpOut ==
  /\ Scanning
  /\ ~Matches
  /\ delPosn # 0
  /\ bufferPosn' = bufferPosn - delPosn + 1
  /\ delPosn' = 0
  /\ UNCHANGED <<input, pc, startPosn, ambiguous, text, ended>>

\* Mutant of BackUp: it goes back to where the match began.
BackUpWhole ==
  /\ Scanning
  /\ ~Matches
  /\ delPosn # 0
  /\ bufferPosn' = IF bufferPosn < delPosn THEN 0 ELSE bufferPosn - delPosn
  /\ delPosn' = 0
  /\ UNCHANGED <<input, pc, startPosn, ambiguous, text, ended>>

\* The match fails: the scan goes back to the byte behind its first, but not
\* out of the buffer.
BackUp ==
  /\ Scanning
  /\ ~Matches
  /\ delPosn # 0
  /\ bufferPosn' = (IF bufferPosn - delPosn < -1 THEN -1 ELSE bufferPosn - delPosn) + 1
  /\ delPosn' = 0
  /\ UNCHANGED <<input, pc, startPosn, ambiguous, text, ended>>

\* The scan is over: the delimiter is complete or the buffer used up.
Scanned == pc = "scan" /\ (delPosn = Len(Delimiter) \/ bufferPosn >= bufferLength)

\* The end of a pass, when append bytes of the buffer are text; keep says
\* whether the ambiguous bytes stay ambiguous once they were appended.
FinishPass(append, keep) ==
  LET readLength == bufferPosn - startPosn
      reported == append >= 0 /\ ambiguous > 0
      left == IF reported /\ ~keep THEN 0 ELSE ambiguous
      partial == bufferPosn >= bufferLength /\ delPosn > 0 /\ delPosn < Len(Delimiter)
      t == (IF reported THEN str \o SubSeq(Delimiter, 1, ambiguous) ELSE str)
             \o SubSeq(buffer, startPosn + 1, startPosn + append)
      consumed == bytesConsumed + readLength + ambiguous - (IF partial THEN delPosn ELSE 0)
  IN  /\ str' = t
      /\ txtLength' = IF append > 0 THEN txtLength + append ELSE txtLength
      /\ bytesConsumed' = consumed
      /\ ambiguous' = IF partial THEN delPosn ELSE left
      /\ IF delPosn < Len(Delimiter) /\ consumed < maxBytesToConsume
           THEN pc' = "pass" /\ UNCHANGED ended
           ELSE Return(t, consumed) /\ offset' = At(bufferPosn)

\* Mutant of AppendLength: what earlier passes appended is not counted.
AppendLengthPerPass ==
  LET length == bufferPosn - startPosn - delPosn
  IN  IF length > maxLineLength THEN maxLineLength ELSE length

\* How many bytes of this pass are text, as far as maxLineLength allows.
AppendLength ==
  LET length == bufferPosn - startPosn - delPosn
  IN  IF length > maxLineLength - txtLength THEN maxLineLength - txtLength ELSE length

\* Mutant of EndPass: ambiguousByteCount is not reset.
EndPassKeeps ==
  /\ Scanned
  /\ FinishPass(AppendLength, TRUE)
  /\ UNCHANGED <<input, bufferPosn, startPosn, delPosn>>

EndPass ==
  /\ Scanned
  /\ FinishPass(AppendLength, FALSE)
  /\ UNCHANGED <<input, bufferPosn, startPosn, delPosn>>

-----------------------------------------------------------------------------
Init ==
  /\ file \in Files
  /\ read = 0
  /\ buffer = <<>> /\ bufferPosn = 0 /\ bufferLength = 0
  /\ pc = "idle"
  /\ startPosn = 0 /\ delPosn = 0 /\ ambiguous = 0
  /\ str = <<>> /\ txtLength = 0 /\ bytesConsumed = 0
  /\ offset = 0 /\ line = NoLine

\* What a call does once it was made.
Step ==
  \/ Continue \/ FillBuffer \/ EndOfFile
  \/ MatchByte \/ SkipByte \/ BackUp
  \/ EndPass

Next == Begin \/ Step

Spec == Init /\ [][Next]_vars

\* A call is not suspended.
FairSpec == Spec /\ WF_vars(Step)

-----------------------------------------------------------------------------
(* Properties. *)

\* The types of the reader's state; no position is out of the buffer.
TypeOK ==
  /\ file \in Files
  /\ read \in 0..Len(file)
  /\ buffer \in Seq(Bytes)
  /\ bufferLength \in -1..BufferSize
  /\ bufferPosn \in 0..BufferSize
  /\ pc = "scan" => bufferPosn <= bufferLength /\ startPosn <= bufferPosn
  /\ pc \in {"idle", "pass", "scan"}
  /\ startPosn \in 0..BufferSize
  /\ delPosn \in 0..Len(Delimiter)
  /\ ambiguous \in 0..(Len(Delimiter) - 1)
  /\ str \in Seq(Bytes)
  /\ txtLength \in 0..maxLineLength
  /\ bytesConsumed \in Nat
  /\ offset \in 0..Len(file)
  /\ line \in Seq(Bytes) \cup {NoLine}

Lines == INSTANCE DelimitedLines

\* Wherever the refills of the buffer fall, the lines returned are those between
\* the delimiters of the file; nothing is lost, repeated or split wrongly, and
\* only a line that exceeds a limit is cut, without passing its delimiter.
SplitsAtDelimiters == Lines!Spec

\* The bytes counted as consumed are those between the lines' ends, so that a
\* call returns null at the end of the file only: the head of a delimiter that a
\* refill cuts is counted once.
CountsConsumed ==
  pc = "pass" => offset + bytesConsumed + ambiguous = (IF bufferLength = -1 THEN read ELSE At(bufferPosn))

\* Every call ends: a failed match does not start over and over again.
CallEnds == pc # "idle" ~> pc = "idle"

\* What looks like a delimiter behind the first i bytes and is none.
HeadAt(i) == file[i + 1] = Delimiter[1] /\ ~Lines!DelimiterAt(i)

\* The limits are observed across refills: a call that has consumed less than
\* maxBytesToConsume goes on for one buffer more and the head of a delimiter in
\* front of it, and a line longer than maxLineLength is so only by what looked
\* like a delimiter in it, which is put back without being counted.
LimitsHold ==
  [][offset' # offset =>
       /\ offset' - offset <= (maxBytesToConsume - 1) + (Len(Delimiter) - 1) + BufferSize
       /\ line' # NoLine /\ Len(line') > maxLineLength => \E i \in offset..(offset' - 1) : HeadAt(i)]_vars

-----------------------------------------------------------------------------
(* The inductive invariant behind TypeOK and CountsConsumed. *)

\* What is in the buffer was read last; at the end of the file nothing is left.
BufferRead ==
  IF bufferLength = -1
    THEN read = Len(file) /\ pc # "scan"
    ELSE bufferLength = Len(buffer) /\ bufferLength <= read /\ bufferPosn <= bufferLength

\* Between calls the lines returned stand for all that was scanned.
ScannedReturned ==
  pc = "idle" => offset = (IF bufferLength = -1 THEN read ELSE At(bufferPosn))

\* A pass begins with the match that the last one left, which reaches to the end
\* of the buffer.
MatchLeft ==
  pc = "pass" => delPosn = ambiguous /\ (ambiguous > 0 => bufferPosn >= bufferLength)

\* During the scan the match begins in this pass, or at the ambiguous bytes of a
\* buffer that was just filled; what was counted reaches to startPosn.
MatchInPass ==
  pc = "scan" =>
    /\ delPosn <= bufferPosn - startPosn + ambiguous
    /\ ambiguous > 0 => startPosn = 0
    /\ offset + bytesConsumed + ambiguous = At(startPosn)

ReaderInv ==
  TypeOK /\ CountsConsumed /\ BufferRead /\ ScannedReturned /\ MatchLeft /\ MatchInPass

-----------------------------------------------------------------------------
(* What the text is made of. *)

\* The bytes t stand in the file behind offset p.
Stands(t, p) == \A j \in DOMAIN t : file[p + j] = t[j]

\* The buffer holds the bytes of the file that were read last.
BufferOfFile == bufferLength # -1 => Stands(buffer, read - bufferLength)

\* What the scan has matched stands in the file, though a refill has replaced the
\* buffer it began in; so do the ambiguous bytes, behind the ones counted.
MatchOfFile ==
  /\ pc = "scan" => \A j \in 1..delPosn : file[At(bufferPosn) - delPosn + j] = Delimiter[j]
  /\ pc # "idle" => \A j \in 1..ambiguous : file[offset + bytesConsumed + j] = Delimiter[j]

\* The text so far is of the bytes counted, and the call may count more.
TextOfFile ==
  pc # "idle" =>
    /\ Lines!Among(str, offset, offset + bytesConsumed)
    /\ bytesConsumed < maxBytesToConsume

TextInv == BufferOfFile /\ MatchOfFile /\ TextOfFile

-----------------------------------------------------------------------------
(* The inductive invariant behind SplitsAtDelimiters. *)

\* The first byte of the delimiter does not come again inside it (it may be the
\* last): where a match fails, no other has begun within it.
NoOverlap == \A j \in 2..(Len(Delimiter) - 1) : Delimiter[j] # Delimiter[1]

\* Where the match begins that the scan has made so far.
MatchBegin == IF pc = "scan" THEN At(bufferPosn) - delPosn ELSE offset + bytesConsumed

\* No delimiter begins before it.
NoneBefore == pc # "idle" => \A i \in offset..(MatchBegin - 1) : ~Lines!DelimiterAt(i)

\* A match begins in this pass, or with the ambiguous bytes.
MatchBegins ==
  pc = "scan" => delPosn <= bufferPosn - startPosn \/ delPosn = bufferPosn - startPosn + ambiguous

\* The text is all that was counted, unless that is more than a line may have.
WholeText(t, length, from, to) ==
  \/ t = SubSeq(file, from + 1, to) /\ length <= to - from
  \/ maxLineLength < to - from

TextWhole == pc # "idle" => WholeText(str, txtLength, offset, offset + bytesConsumed)

LineInv == NoneBefore /\ MatchBegins /\ TextWhole

-----------------------------------------------------------------------------
(* The inductive invariant behind LimitsHold, together with ReaderInv and      *)
(* TextInv.                                                                    *)

\* Ambiguous bytes that do begin a delimiter are still being matched.
HeadMatched ==
  pc = "scan" /\ ambiguous > 0 /\ Lines!DelimiterAt(offset + bytesConsumed) =>
    delPosn = bufferPosn - startPosn + ambiguous

\* The text is as long as txtLength says unless a head was put back into it.
LongByHeads ==
  pc # "idle" =>
    Len(str) <= txtLength \/ \E i \in offset..(offset + bytesConsumed - 1) : HeadAt(i)

LimitInv == HeadMatched /\ LongByHeads
=============================================================================
