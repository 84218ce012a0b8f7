----------------------------- MODULE LqlProofs -----------------------------
(***************************************************************************)
(* Theorems about Lql for any programs, tables and results of queries.     *)
(* They rest on LqlInv: the tree of actions follows the blocks of the      *)
(* lines, so that what is left to be done is below what was done, loops    *)
(* apart.                                                                  *)
(***************************************************************************)
EXTENDS Lql, SequenceTheorems, FiniteSetTheorems, WellFoundedInduction, TLAPS

USE ProgramAssumption, NoneAssumption

-----------------------------------------------------------------------------
(* Facts about the lines of a program. *)

LEMMA SameCardinality == \A S : Lines!Cardinality(S) = Cardinality(S)
BY DEF Lines!Cardinality, Cardinality

LEMMA LineKeys ==
  /\ Lines!Openers = {"IF", "WHILE", "FOREACH"}
  /\ Lines!End["IF"] = "ENDIF" /\ Lines!End["WHILE"] = "ENDWHILE" /\ Lines!End["FOREACH"] = "ENDFOREACH"
  /\ Lines!Closers = {"ENDIF", "ENDWHILE", "ENDFOREACH"}
BY DEF Lines!Openers, Lines!End, Lines!Closers

\* The lines of a program are a sequence.
LEMMA ProgramLines ==
  ASSUME program \in Programs
  PROVE  /\ Len(program) \in Nat /\ DOMAIN program = 1..Len(program)
         /\ \A i \in 1..Len(program) :
              /\ Lines!Key(i) = "QUERY" => program[i].into \in Tables \cup {None}
              /\ Lines!Key(i) = "FOREACH" => program[i].table \in Tables
              /\ Lines!Key(i) = "@" => program[i].from \in Int \cup Vars \cup Tables
<1>1. program \in Seq({program[i] : i \in DOMAIN program})
  OBVIOUS
<1>2. Len(program) \in Nat /\ DOMAIN program = 1..Len(program)
  BY <1>1, LenProperties
<1> QED
  BY <1>2 DEF Lines!Key

\* How many lines of a stretch have a key of K.
Counted(K, i, j) == Cardinality({k \in i..j : Lines!Key(k) \in K})

\* One more if the last line has.
LEMMA LinesCounted ==
  ASSUME NEW i \in Int, NEW j \in Int, i <= j, NEW K
  PROVE  /\ Counted(K, i, j) \in Nat /\ Counted(K, i, j - 1) \in Nat
         /\ Lines!Key(j) \in K => Counted(K, i, j) = Counted(K, i, j - 1) + 1
         /\ Lines!Key(j) \notin K => Counted(K, i, j) = Counted(K, i, j - 1)
<1> DEFINE upTo == {k \in i..j : Lines!Key(k) \in K}
           before == {k \in i..(j - 1) : Lines!Key(k) \in K}
<1>1. IsFiniteSet(i..j) /\ IsFiniteSet(i..(j - 1))
  BY FS_Interval
<1>2. IsFiniteSet(upTo) /\ IsFiniteSet(before)
  BY <1>1, FS_Subset
<1>3. Cardinality(upTo) \in Nat /\ Cardinality(before) \in Nat
  BY <1>2, FS_CardinalityType
<1>4. ASSUME Lines!Key(j) \in K
      PROVE  Cardinality(upTo) = Cardinality(before) + 1
  <2>1. upTo = before \cup {j} /\ j \notin before
    BY <1>4
  <2> HIDE DEF upTo, before
  <2> QED
    BY <1>2, <2>1, FS_AddElement
<1>5. ASSUME Lines!Key(j) \notin K
      PROVE  upTo = before
  BY <1>5
<1> QED
  BY <1>3, <1>4, <1>5 DEF Counted

LEMMA DepthCounted ==
  \A i, j : Lines!Depth(i, j) = Counted(Lines!Openers, i, j) - Counted(Lines!Closers, i, j)
BY SameCardinality DEF Lines!Depth, Counted

\* The depth behind a line, from the depth before it.
LEMMA DepthOfLine ==
  ASSUME NEW i \in Int, NEW j \in Int, i <= j
  PROVE  /\ Lines!Depth(i, j) \in Int /\ Lines!Depth(i, j - 1) \in Int
         /\ Lines!Key(j) \in Lines!Openers => Lines!Depth(i, j) = Lines!Depth(i, j - 1) + 1
         /\ Lines!Key(j) \in Lines!Closers => Lines!Depth(i, j) = Lines!Depth(i, j - 1) - 1
         /\ Lines!Key(j) \notin Lines!Openers \cup Lines!Closers =>
              Lines!Depth(i, j) = Lines!Depth(i, j - 1)
<1>1. Lines!Key(j) \in Lines!Openers => Lines!Key(j) \notin Lines!Closers
  BY LineKeys
<1>2. /\ Counted(Lines!Openers, i, j) \in Nat /\ Counted(Lines!Openers, i, j - 1) \in Nat
      /\ Lines!Key(j) \in Lines!Openers =>
           Counted(Lines!Openers, i, j) = Counted(Lines!Openers, i, j - 1) + 1
      /\ Lines!Key(j) \notin Lines!Openers =>
           Counted(Lines!Openers, i, j) = Counted(Lines!Openers, i, j - 1)
  BY LinesCounted
<1>3. /\ Counted(Lines!Closers, i, j) \in Nat /\ Counted(Lines!Closers, i, j - 1) \in Nat
      /\ Lines!Key(j) \in Lines!Closers =>
           Counted(Lines!Closers, i, j) = Counted(Lines!Closers, i, j - 1) + 1
      /\ Lines!Key(j) \notin Lines!Closers =>
           Counted(Lines!Closers, i, j) = Counted(Lines!Closers, i, j - 1)
  BY LinesCounted
<1> QED
  BY <1>1, <1>2, <1>3, DepthCounted

LEMMA DepthBefore ==
  ASSUME NEW i \in Int
  PROVE  Lines!Depth(i, i - 1) = 0
<1>1. ASSUME NEW K
      PROVE  Counted(K, i, i - 1) = 0
  <2>1. {k \in i..(i - 1) : Lines!Key(k) \in K} = {}
    OBVIOUS
  <2> QED
    BY <2>1, FS_EmptySet DEF Counted
<1> QED
  BY <1>1, DepthCounted

\* The depth behind a single line.
LEMMA DepthAlone ==
  ASSUME NEW i \in Int
  PROVE  /\ Lines!Key(i) \in Lines!Openers => Lines!Depth(i, i) = 1
         /\ Lines!Key(i) \notin Lines!Openers \cup Lines!Closers => Lines!Depth(i, i) = 0
BY DepthOfLine, DepthBefore

\* Only one line ends a block.
LEMMA ClosesIsMatch ==
  ASSUME NEW i \in Int, NEW j, Len(program) \in Nat, Closes(i, j)
  PROVE  Lines!Match(i) = j /\ Closes(i, Lines!Match(i))
<1> DEFINE Ended(k) == Lines!Depth(i, k) = 0 /\ \A l \in i..(k - 1) : Lines!Depth(i, l) > 0
<1>1. Lines!Match(i) = CHOOSE k \in i..Size : Ended(k)
  BY DEF Lines!Match, Lines!Size, Size
<1>2. j \in i..Size /\ Ended(j)
  BY DEF Closes
<1>3. ASSUME NEW k \in i..Size, Ended(k)
      PROVE  k = j
  <2>1. k \in Int /\ j \in Int /\ i <= k /\ i <= j
    BY <1>2 DEF Size
  <2>2. ~(k < j)
    BY <1>2, <1>3, <2>1
  <2>3. ~(j < k)
    BY <1>2, <1>3, <2>1
  <2> QED
    BY <2>1, <2>2, <2>3
<1> HIDE DEF Ended
<1> QED
  BY <1>1, <1>2, <1>3

-----------------------------------------------------------------------------
(* The program stays: what is said of its lines is said in the next state. *)

LEMMA SameLines ==
  ASSUME UNCHANGED program
  PROVE  /\ Size' = Size /\ Lines!Size' = Lines!Size
         /\ \A i : Lines!Key(i)' = Lines!Key(i)
         /\ \A i, j : Lines!Depth(i, j)' = Lines!Depth(i, j)
         /\ \A i : Lines!Match(i)' = Lines!Match(i)
         /\ \A t : Lines!Queries(t)' = Lines!Queries(t)
         /\ Lines!Queried' = Lines!Queried
         /\ Params' = Params
<1>1. /\ Size' = Size /\ Lines!Size' = Lines!Size
      /\ \A i : Lines!Key(i)' = Lines!Key(i)
  BY DEF Size, Lines!Size, Lines!Key
<1>2. \A i, j : Lines!Depth(i, j)' = Lines!Depth(i, j)
  BY <1>1 DEF Lines!Depth
<1>3. \A i : Lines!Match(i)' = Lines!Match(i)
  BY DEF Lines!Match, Lines!Depth, Lines!Key, Lines!Size
<1>4. Lines!Queried' = Lines!Queried /\ \A t : Lines!Queries(t)' = Lines!Queries(t)
  BY DEF Lines!Queries, Lines!Queried, Lines!Key, Lines!Size
<1>5. Params' = Params
  BY DEF Params
<1> QED
  BY <1>1, <1>2, <1>3, <1>4, <1>5

LEMMA SamePlaces ==
  ASSUME UNCHANGED program
  PROVE  /\ \A i, j : Closes(i, j)' = Closes(i, j)
         /\ \A s, from, to : Between(s, from, to)' = Between(s, from, to)
         /\ \A p, t, l : ParamAt(p, t, l)' = ParamAt(p, t, l)
         /\ \A p, t, l : FoundAt(p, t, l)' = FoundAt(p, t, l)
         /\ \A l, m : Leads(l, m)' = Leads(l, m)
         /\ QueriedOnce' = QueriedOnce
<1>1. \A i, j : Closes(i, j)' = Closes(i, j)
  BY SameLines DEF Closes
<1>2. \A s, from, to : Between(s, from, to)' = Between(s, from, to)
  BY SameLines DEF Between
<1>3. \A p, t, l : ParamAt(p, t, l)' = ParamAt(p, t, l)
  BY SameLines DEF ParamAt
<1>4. \A l, m : Leads(l, m)' = Leads(l, m)
  BY SameLines DEF Leads
<1>6. \A p, t, l : FoundAt(p, t, l)' = FoundAt(p, t, l)
  BY <1>3 DEF FoundAt
<1>5. QueriedOnce' = QueriedOnce
  BY DEF QueriedOnce, Lines!Around, Lines!Queried, Lines!Key, Lines!Size, Lines!Match, Lines!Depth
<1> QED
  BY <1>1, <1>2, <1>3, <1>4, <1>5, <1>6

LEMMA SameActions ==
  ASSUME UNCHANGED program, NEW S
  PROVE  /\ Actions(S)' = Actions(S) /\ Calls(S)' = Calls(S)
         /\ \A a : ActionOK(a, S)' = ActionOK(a, S)
<1>1. Actions(S)' = Actions(S) /\ Calls(S)' = Calls(S)
  BY SameLines DEF Actions, Calls
<1>2. ASSUME NEW a
      PROVE  ActionOK(a, S)' = ActionOK(a, S)
  BY <1>1, SameLines, SamePlaces DEF ActionOK
<1> QED
  BY <1>1, <1>2

-----------------------------------------------------------------------------
(* Facts about actions. *)

\* An action stays one of those when others are compiled.
LEMMA MoreActions ==
  ASSUME NEW S, NEW T, S \subseteq T
  PROVE  /\ Seq(S) \subseteq Seq(T)
         /\ Calls(S) \subseteq Calls(T)
         /\ \A a : ActionOK(a, S) => ActionOK(a, T)
<1>1. Seq(S) \subseteq Seq(T)
  BY SeqMonotonic
<1>2. Bodies(S) \subseteq Bodies(T)
  BY <1>1 DEF Bodies
<1>3. Calls(S) \subseteq Calls(T) /\ Actions(S) \subseteq Actions(T)
  BY <1>2 DEF Calls, Actions
<1>4. ASSUME NEW a, ActionOK(a, S)
      PROVE  ActionOK(a, T)
  BY <1>3, <1>4 DEF ActionOK
<1> QED
  BY <1>1, <1>3, <1>4

LEMMA ActionNumbers ==
  ASSUME NEW S, NEW a, ActionOK(a, S), program \in Programs
  PROVE  /\ a.line \in Nat /\ 1 <= a.line /\ a.line <= Size
         /\ Lines!Match(a.line) \in Int
         /\ a.line <= Lines!Match(a.line) /\ Lines!Match(a.line) <= Size
         /\ a.body \in Bodies(S) /\ \A b \in 1..2 : a.body[b] \in Seq(S)
<1>1. Size \in Nat
  BY ProgramLines DEF Size
<1>2. a.line \in 1..Size /\ a.body \in Bodies(S)
  BY DEF ActionOK, Actions
<1>3. Lines!Match(a.line) \in a.line..Size
  BY DEF ActionOK, Closes
<1> QED
  BY <1>1, <1>2, <1>3 DEF Bodies

\* The numbers of the actions of a list.
LEMMA ListNumbers ==
  ASSUME NEW S, \A a \in S : ActionOK(a, S), program \in Programs, NEW s \in Seq(S)
  PROVE  /\ Len(s) \in Nat /\ DOMAIN s = 1..Len(s)
         /\ \A i \in 1..Len(s) : /\ s[i] \in S /\ ActionOK(s[i], S)
                                 /\ s[i].line \in Nat /\ Lines!Match(s[i].line) \in Int
                                 /\ s[i].line <= Lines!Match(s[i].line)
<1>1. Len(s) \in Nat /\ DOMAIN s = 1..Len(s)
  BY LenProperties
<1>2. \A i \in 1..Len(s) : s[i] \in S
  BY ElementOfSeq
<1> QED
  BY <1>1, <1>2, ActionNumbers

LEMMA BetweenWider ==
  ASSUME NEW S, \A a \in S : ActionOK(a, S), program \in Programs, NEW s \in Seq(S),
         NEW from, NEW to \in Int, NEW wider \in Int, to <= wider, Between(s, from, to)
  PROVE  Between(s, from, wider)
<1>1. \A i \in DOMAIN s : Lines!Match(s[i].line) \in Int /\ Lines!Match(s[i].line) < to
  BY ListNumbers DEF Between
<1>2. \A i \in DOMAIN s : Lines!Match(s[i].line) < wider
  BY <1>1
<1> QED
  BY <1>2 DEF Between

\* An action that begins behind those of a list is the last of it.
LEMMA BetweenAppend ==
  ASSUME NEW S, \A a \in S : ActionOK(a, S), program \in Programs, NEW s \in Seq(S), NEW a \in S,
         NEW from \in Int, NEW to \in Int,
         Between(s, from, a.line), from < a.line, Lines!Match(a.line) < to
  PROVE  Between(Append(s, a), from, to)
<1> DEFINE t == Append(s, a)
           n == Len(s)
<1>1. /\ n \in Nat /\ DOMAIN s = 1..n
      /\ \A i \in 1..n : /\ s[i].line \in Nat /\ Lines!Match(s[i].line) \in Int
                         /\ s[i].line <= Lines!Match(s[i].line)
  BY ListNumbers
<1>2. a.line \in Nat /\ Lines!Match(a.line) \in Int /\ a.line <= Lines!Match(a.line)
  BY ActionNumbers
<1>3. /\ t \in Seq(S) /\ Len(t) = n + 1
      /\ \A i \in 1..n : t[i] = s[i]
      /\ t[n + 1] = a
  BY AppendProperties
<1>4. DOMAIN t = 1..(n + 1)
  BY <1>3, LenProperties
<1> HIDE DEF t, n
<1>5. ASSUME NEW i \in 1..(n + 1)
      PROVE  from < t[i].line /\ Lines!Match(t[i].line) < to
  <2>1. CASE i \in 1..n
    <3>1. t[i] = s[i] /\ from < s[i].line /\ Lines!Match(s[i].line) < a.line
      BY <1>1, <1>3, <2>1 DEF Between
    <3> QED
      BY <1>1, <1>2, <2>1, <3>1
  <2>2. CASE i = n + 1
    BY <1>3, <2>2
  <2> QED
    BY <1>1, <2>1, <2>2
<1>6. ASSUME NEW i \in 1..(n + 1), NEW j \in 1..(n + 1), i < j
      PROVE  Lines!Match(t[i].line) < t[j].line
  <2>1. i \in 1..n /\ t[i] = s[i]
    BY <1>1, <1>3, <1>6
  <2>2. CASE j \in 1..n
    BY <1>1, <1>3, <1>6, <2>1, <2>2 DEF Between
  <2>3. CASE j = n + 1
    BY <1>1, <1>3, <2>1, <2>3 DEF Between
  <2> QED
    BY <1>1, <2>2, <2>3
<1> QED
  BY <1>4, <1>5, <1>6 DEF Between, t

\* A Param keeps a name until the next QUERY.
LEMMA ParamLater ==
  ASSUME NEW p \in Params, NEW t, NEW l \in Nat, ParamAt(p, t, l), Lines!Key(l) # "QUERY",
         program \in Programs
  PROVE  ParamAt(p, t, l + 1)
<1>1. \A q \in Lines!Queries(t) : q \in Nat /\ q # l
  BY ProgramLines DEF Lines!Queries, Lines!Queried, Lines!Size
<1>2. p # None => p \in Nat
  BY ProgramLines DEF Params
<1> QED
  BY <1>1, <1>2 DEF ParamAt

-----------------------------------------------------------------------------
(* Compiling. *)

\* The calls, when the innermost adds an action.
Adding(calls, a) ==
  [calls EXCEPT ![1].body[calls[1].branch] = Append(@, a), ![1].must = FALSE]

\* What a call that adds an action keeps: o are the calls behind it.
Keeps(o, calls, a) ==
  /\ Len(o) = Len(calls)
  /\ \A n \in 1..Len(calls) : /\ o[n].line = calls[n].line
                              /\ o[n].param = calls[n].param
                              /\ o[n].branch = calls[n].branch
                              /\ n # 1 => o[n].body = calls[n].body
  /\ \A b \in 1..2 : \/ o[1].body[b] = calls[1].body[b]
                     \/ o[1].body[b] = Append(calls[1].body[b], a)

LEMMA AddedTo ==
  ASSUME NEW S, NEW calls \in Seq(Calls(S)), calls # <<>>, NEW a \in S
  PROVE  Adding(calls, a) \in Seq(Calls(S)) /\ Keeps(Adding(calls, a), calls, a)
<1> DEFINE c == calls[1]
           d == [c EXCEPT !.body[c.branch] = Append(@, a), !.must = FALSE]
           o == [calls EXCEPT ![1].body[calls[1].branch] = Append(@, a), ![1].must = FALSE]
<1>1. Len(calls) \in Nat /\ 1 \in 1..Len(calls)
  BY EmptySeq
<1>2. c \in Calls(S)
  BY <1>1, ElementOfSeq
<1>3. c.body \in Bodies(S) /\ c.branch \in 1..2
  BY <1>2 DEF Calls
<1>4. Append(c.body[c.branch], a) \in Seq(S)
  BY <1>3, AppendProperties DEF Bodies
<1> DEFINE added == [c.body EXCEPT ![c.branch] = Append(c.body[c.branch], a)]
<1>5. added \in Bodies(S)
  BY <1>3, <1>4 DEF Bodies
<1>6. d = [c EXCEPT !.body = added, !.must = FALSE]
  BY <1>2 DEF Calls
<1>7. /\ d \in Calls(S) /\ d.line = c.line /\ d.param = c.param /\ d.branch = c.branch
      /\ d.body = added
  <2> HIDE DEF added, c, d
  <2> QED
    BY <1>2, <1>5, <1>6 DEF Calls
<1>8. o = [calls EXCEPT ![1] = d]
  BY <1>1
<1> HIDE DEF c, d, o
<1>9. /\ o \in Seq(Calls(S)) /\ Len(o) = Len(calls)
      /\ \A n \in 1..Len(calls) : o[n] = IF n = 1 THEN d ELSE calls[n]
  BY <1>1, <1>7, <1>8, ExceptSeq
<1>10. \A b \in 1..2 : added[b] = c.body[b] \/ added[b] = Append(c.body[b], a)
  BY <1>3 DEF Bodies, c
<1> HIDE DEF added
<1> QED
  BY <1>1, <1>7, <1>9, <1>10 DEF c, o, added, Adding, Keeps

LEMMA SameCalls ==
  ASSUME UNCHANGED program
  PROVE  \A calls, n, r, l : CallOK(calls, n, r, l)' = CallOK(calls, n, r, l)
<1>1. ASSUME NEW calls, NEW n, NEW r, NEW l
      PROVE  CallOK(calls, n, r, l)' = CallOK(calls, n, r, l)
  <2> DEFINE c == calls[n]
  <2>1. FoundAt(c.param, program[c.line].table, c.line)' = FoundAt(c.param, program[c.line].table, c.line)
    BY SamePlaces
  <2> QED
    BY <2>1, SameLines, SamePlaces DEF CallOK, Reached
<1> QED
  BY <1>1

\* Put adds an action behind what its call has compiled.
LEMMA PutKeeps ==
  ASSUME NEW S, \A x \in S : ActionOK(x, S), program \in Programs, pos \in Nat,
         NEW calls \in Seq(Calls(S)), NEW a \in S, Lines!Match(a.line) = pos,
         actions \in Seq(S),
         \A n \in DOMAIN calls : CallOK(calls, n, a.line, pos),
         Between(actions, 0, Reached(calls, Len(calls) + 1, a.line)),
         Put(a, calls)
  PROVE  /\ open' \in Seq(Calls(S)) /\ actions' \in Seq(S) /\ Len(open') = Len(calls)
         /\ \A n \in DOMAIN calls : open'[n].line = calls[n].line /\ open'[n].branch = calls[n].branch
         /\ \A n \in DOMAIN open' : CallOK(open', n, pos + 1, pos)
         /\ Between(actions', 0, Reached(open', Len(open') + 1, pos + 1))
<1>0. /\ a.line \in Nat /\ 1 <= a.line /\ a.line <= pos
      /\ Len(calls) \in Nat /\ DOMAIN calls = 1..Len(calls)
  BY ActionNumbers, LenProperties
<1>1. CASE calls = <<>>
  <2>1. open' = <<>> /\ actions' = Append(actions, a) /\ Len(calls) = 0
    BY <1>1, EmptySeq DEF Put
  <2>2. Reached(calls, Len(calls) + 1, a.line) = a.line /\ Reached(open', Len(open') + 1, pos + 1) = pos + 1
    BY <1>1, <2>1 DEF Reached
  <2>3. Between(actions', 0, pos + 1)
    <3>1. Between(actions, 0, a.line) /\ 0 \in Int /\ pos + 1 \in Int
      BY <2>2
    <3>2. 0 < a.line /\ Lines!Match(a.line) < pos + 1
      BY <1>0
    <3>3. Between(Append(actions, a), 0, pos + 1)
      BY <3>1, <3>2, BetweenAppend
    <3> QED
      BY <2>1, <3>3
  <2>4. actions' \in Seq(S)
    BY <2>1, AppendProperties
  <2>5. \A n \in DOMAIN calls : FALSE
    BY <1>0, <2>1
  <2> QED
    BY <1>1, <2>1, <2>2, <2>3, <2>4, <2>5
<1>2. CASE calls # <<>>
  <2>1. /\ actions' = actions
        /\ open' \in Seq(Calls(S)) /\ Len(open') = Len(calls)
        /\ \A n \in 1..Len(calls) : /\ open'[n].line = calls[n].line
                                    /\ open'[n].param = calls[n].param
                                    /\ open'[n].branch = calls[n].branch
                                    /\ n # 1 => open'[n].body = calls[n].body
        /\ \A b \in 1..2 : \/ open'[1].body[b] = calls[1].body[b]
                           \/ open'[1].body[b] = Append(calls[1].body[b], a)
    <3>1. open' = Adding(calls, a) /\ actions' = actions
      BY <1>2 DEF Put, Adding
    <3>2. Adding(calls, a) \in Seq(Calls(S)) /\ Keeps(Adding(calls, a), calls, a)
      BY <1>2, AddedTo
    <3> QED
      BY <3>1, <3>2 DEF Keeps
  <2>2. DOMAIN open' = 1..Len(calls) /\ Len(calls) # 0
    BY <1>2, <2>1, EmptySeq, LenProperties
  <2>3. ASSUME NEW n \in 1..Len(calls)
        PROVE  CallOK(open', n, pos + 1, pos)
    <3> DEFINE c == calls[n]
               o == open'[n]
    <3>1. CallOK(calls, n, a.line, pos)
      BY <1>0
    <3>2. o.line = c.line /\ o.param = c.param /\ o.branch = c.branch
      BY <2>1
    <3>3. c.body \in Bodies(S) /\ c.line \in Nat
      <4>1. c \in Calls(S)
        BY ElementOfSeq
      <4>2. Size \in Nat
        BY ProgramLines DEF Size
      <4> QED
        BY <4>1, <4>2 DEF Calls
    <3>4. /\ o.line < Reached(open', n, pos + 1)
          /\ \A b \in 1..2 : Between(o.body[b], o.line, Reached(open', n, pos + 1))
      <4>1. CASE n = 1
        <5>1. Reached(open', n, pos + 1) = pos + 1 /\ Reached(calls, n, a.line) = a.line
          BY <4>1 DEF Reached
        <5>2. c.line < a.line /\ \A b \in 1..2 : Between(c.body[b], c.line, a.line)
          BY <3>1, <5>1 DEF CallOK
        <5>3. ASSUME NEW b \in 1..2
              PROVE  Between(o.body[b], c.line, pos + 1)
          <6>1. c.body[b] \in Seq(S) /\ Between(c.body[b], c.line, a.line)
            BY <3>3, <5>2 DEF Bodies
          <6>2. Between(c.body[b], c.line, pos + 1)
            BY <1>0, <6>1, BetweenWider
          <6>3. Between(Append(c.body[b], a), c.line, pos + 1)
            BY <1>0, <3>3, <5>2, <6>1, BetweenAppend
          <6>4. o.body[b] = c.body[b] \/ o.body[b] = Append(c.body[b], a)
            BY <2>1, <4>1
          <6> QED
            BY <6>2, <6>3, <6>4
        <5> QED
          BY <1>0, <3>2, <3>3, <5>1, <5>2, <5>3
      <4>2. CASE n # 1
        <5>1. n - 1 \in 1..Len(calls)
          BY <1>0, <4>2
        <5>2. Reached(open', n, pos + 1) = Reached(calls, n, a.line)
          BY <2>1, <4>2, <5>1 DEF Reached
        <5>3. o.body = c.body
          BY <2>1, <4>2
        <5> QED
          BY <3>1, <3>2, <5>2, <5>3 DEF CallOK
      <4> QED
        BY <4>1, <4>2
    <3> QED
      BY <3>1, <3>2, <3>4 DEF CallOK
  <2>4. Reached(open', Len(open') + 1, pos + 1) = Reached(calls, Len(calls) + 1, a.line)
    <3>1. (Len(calls) + 1) - 1 = Len(calls) /\ Len(calls) + 1 # 1 /\ Len(calls) \in 1..Len(calls)
      BY <1>0, <2>2
    <3> QED
      BY <2>1, <3>1 DEF Reached
  <2> QED
    BY <1>0, <2>1, <2>2, <2>3, <2>4
<1> QED
  BY <1>1, <1>2

LEMMA CompileNumbers ==
  ASSUME NEW S, TypeOK, LqlInv(S)
  PROVE  /\ Size \in Nat /\ DOMAIN program = 1..Size
         /\ pos \in Nat /\ 1 <= pos /\ pos <= Size + 1
         /\ Len(open) \in Nat /\ DOMAIN open = 1..Len(open)
         /\ \A n \in 1..Len(open) : /\ open[n] \in Calls(S)
                                    /\ open[n].line \in Nat /\ 1 <= open[n].line /\ open[n].line < pos
                                    /\ open[n].body \in Bodies(S)
<1>1. Size \in Nat /\ DOMAIN program = 1..Size
  BY ProgramLines DEF LqlInv, Size
<1>2. pos \in Nat /\ 1 <= pos /\ pos <= Size + 1
  BY <1>1 DEF TypeOK, Size
<1>3. open \in Seq(Calls(S))
  BY DEF LqlInv, CompileInv
<1>4. Len(open) \in Nat /\ DOMAIN open = 1..Len(open)
  BY <1>3, LenProperties
<1>5. ASSUME NEW n \in 1..Len(open)
      PROVE  /\ open[n] \in Calls(S)
             /\ open[n].line \in Nat /\ 1 <= open[n].line /\ open[n].line < pos
             /\ open[n].body \in Bodies(S)
  <2>1. open[n] \in Calls(S)
    BY <1>3, ElementOfSeq
  <2>2. open[n].line \in 1..(pos - 1)
    BY <1>4 DEF TypeOK
  <2> QED
    BY <1>2, <2>1, <2>2 DEF Calls
<1> QED
  BY <1>1, <1>2, <1>4, <1>5

\* What reading a line does to the blocks that are open.
LEMMA DepthRead ==
  ASSUME NEW S, TypeOK, LqlInv(S), NEW n \in 1..Len(open)
  PROVE  LET l == open[n].line
         IN  /\ \A k \in l..(pos - 1) : Lines!Depth(l, k) > 0
             /\ Lines!Key(pos) \in Lines!Openers => Lines!Depth(l, pos) = n + 1
             /\ Lines!Key(pos) \in Lines!Closers => Lines!Depth(l, pos) = n - 1
             /\ Lines!Key(pos) \notin Lines!Openers \cup Lines!Closers => Lines!Depth(l, pos) = n
<1> DEFINE l == open[n].line
<1>1. CallOK(open, n, pos, pos - 1)
  BY CompileNumbers DEF LqlInv, CompileInv
<1>2. Lines!Depth(l, pos - 1) = n /\ \A k \in l..(pos - 1) : Lines!Depth(l, k) > 0
  BY <1>1 DEF CallOK
<1>3. l \in Int /\ pos \in Int /\ l <= pos /\ n \in Int
  BY CompileNumbers
<1> HIDE DEF l
<1>4. /\ Lines!Key(pos) \in Lines!Openers => Lines!Depth(l, pos) = Lines!Depth(l, pos - 1) + 1
      /\ Lines!Key(pos) \in Lines!Closers => Lines!Depth(l, pos) = Lines!Depth(l, pos - 1) - 1
      /\ Lines!Key(pos) \notin Lines!Openers \cup Lines!Closers =>
           Lines!Depth(l, pos) = Lines!Depth(l, pos - 1)
  BY <1>3, DepthOfLine
<1> QED
  BY <1>2, <1>4 DEF l

\* Up to a line, and with it.
LEMMA DepthsTo ==
  ASSUME NEW l \in Int, NEW m \in Int, l <= m,
         \A k \in l..(m - 1) : Lines!Depth(l, k) > 0, Lines!Depth(l, m) > 0
  PROVE  \A k \in l..m : Lines!Depth(l, k) > 0
<1>1. \A k \in l..m : k \in l..(m - 1) \/ k = m
  OBVIOUS
<1> QED
  BY <1>1

\* What is known of the calls and the actions when the line was read.
Compiles(T) ==
  /\ open' \in Seq(Calls(T)) /\ actions' \in Seq(T)
  /\ \A n \in DOMAIN open' : CallOK(open', n, pos + 1, pos)
  /\ \A i \in DOMAIN open' : /\ open'[i].line \in 1..pos
                             /\ \A j \in 1..(i - 1) : open'[i].line < open'[j].line
  /\ Between(actions', 0, Reached(open', Len(open') + 1, pos + 1))
  /\ paramMap' \in [Tables -> Params]
  /\ \A t \in Tables : ParamAt(paramMap'[t], t, pos + 1)

\* A line that is no QUERY stores nothing.
LEMMA ParamsKept ==
  ASSUME NEW S, TypeOK, LqlInv(S), UNCHANGED paramMap, Lines!Key(pos) # "QUERY"
  PROVE  paramMap' \in [Tables -> Params] /\ \A t \in Tables : ParamAt(paramMap'[t], t, pos + 1)
<1>1. paramMap \in [Tables -> Params]
  BY DEF TypeOK, Params
<1>2. \A t \in Tables : ParamAt(paramMap[t], t, pos)
  BY DEF LqlInv, CompileInv
<1>3. \A t \in Tables : paramMap[t] \in Params
  BY <1>1
<1>4. \A t \in Tables : ParamAt(paramMap[t], t, pos + 1)
  BY <1>2, <1>3, CompileNumbers, ParamLater DEF LqlInv
<1> QED
  BY <1>1, <1>4

LEMMA NoBodies ==
  ASSUME NEW S
  PROVE  <<<<>>, <<>>>> \in Bodies(S)
<1> DEFINE e == <<>>
<1>1. e \in Seq(S)
  BY EmptySeq
<1> HIDE DEF e
<1>2. <<e, e>> \in Seq(Seq(S)) /\ Len(<<e, e>>) = 2
  BY <1>1
<1>3. <<e, e>> \in [1..2 -> Seq(S)]
  BY <1>2, LenProperties
<1> QED
  BY <1>3 DEF Bodies, e

\* A block begins in the one around it.
LEMMA BeginsStep ==
  ASSUME NEW S, TypeOK, LqlInv(S), Reading, Lines!Key(pos) \in Lines!Openers, NEW param \in Params,
         Lines!Key(pos) = "FOREACH" => FoundAt(param, program[pos].table, pos),
         Begins(param)
  PROVE  Compiles(S)
<1> DEFINE c == [line |-> pos, body |-> <<<<>>, <<>>>>, param |-> param, branch |-> 1, must |-> FALSE]
           m == Len(open)
<1>0. /\ Size \in Nat /\ pos \in Nat /\ 1 <= pos /\ pos <= Size /\ m \in Nat /\ DOMAIN open = 1..m
      /\ open \in Seq(Calls(S)) /\ actions \in Seq(S)
  BY CompileNumbers DEF Reading, Size, LqlInv, CompileInv
<1>1. open' = <<c>> \o open /\ actions' = actions /\ paramMap' = paramMap
  BY DEF Begins
<1>2. c \in Calls(S)
  <2>1. <<<<>>, <<>>>> \in Bodies(S)
    BY NoBodies
  <2> QED
    BY <1>0, <2>1 DEF Calls
<1>3. /\ c.line = pos /\ c.param = param /\ c.branch = 1
      /\ \A b \in 1..2 : c.body[b] = <<>>
  OBVIOUS
<1> HIDE DEF c, m
<1>4. /\ <<c>> \in Seq(Calls(S)) /\ Len(<<c>>) = 1 /\ <<c>>[1] = c
  BY <1>2
<1>5. /\ open' \in Seq(Calls(S)) /\ Len(open') = m + 1
      /\ \A n \in 1..(m + 1) : open'[n] = IF n = 1 THEN c ELSE open[n - 1]
  <2>1. /\ <<c>> \o open \in Seq(Calls(S)) /\ Len(<<c>> \o open) = 1 + m
        /\ \A n \in 1..(1 + m) : (<<c>> \o open)[n] = IF n <= 1 THEN <<c>>[n] ELSE open[n - 1]
    BY <1>0, <1>4, ConcatProperties DEF m
  <2> QED
    BY <1>0, <1>1, <1>4, <2>1
<1>6. DOMAIN open' = 1..(m + 1)
  BY <1>5, LenProperties
<1>7. Lines!Key(pos) \notin {"QUERY", "ENDIF", "ENDWHILE", "ENDFOREACH"}
  BY LineKeys
<1>8. ASSUME NEW n \in 1..(m + 1)
      PROVE  CallOK(open', n, pos + 1, pos)
  <2>1. CASE n = 1
    <3>1. open'[n] = c /\ Reached(open', n, pos + 1) = pos + 1
      BY <1>5, <2>1 DEF Reached
    <3>2. Lines!Depth(pos, pos) = 1 /\ \A k \in pos..pos : k = pos
      BY <1>0, DepthAlone
    <3>3. \A b \in 1..2 : Between(<<>>, pos, pos + 1)
      BY EmptySeq DEF Between
    <3> QED
      BY <1>0, <1>3, <2>1, <3>1, <3>2, <3>3 DEF CallOK
  <2>2. CASE n # 1
    <3> DEFINE i == n - 1
    <3>1. i \in 1..m /\ i \in Nat /\ n = i + 1
      BY <1>0, <2>2
    <3>2. open'[n] = open[i]
      BY <1>5, <2>2
    <3>3. CallOK(open, i, pos, pos - 1)
      BY <1>0, <3>1 DEF LqlInv, CompileInv
    <3>4. Reached(open', n, pos + 1) = Reached(open, i, pos)
      <4>1. CASE i = 1
        BY <1>0, <1>3, <1>5, <3>1, <4>1 DEF Reached
      <4>2. CASE i # 1
        <5>1. i \in 1..(m + 1) /\ open'[i] = open[i - 1]
          BY <1>0, <1>5, <3>1, <4>2
        <5> QED
          BY <2>2, <4>2, <5>1 DEF Reached
      <4> QED
        BY <4>1, <4>2
    <3> HIDE DEF i
    <3>5. /\ Lines!Depth(open[i].line, pos) = n
          /\ \A k \in open[i].line..(pos - 1) : Lines!Depth(open[i].line, k) > 0
      BY <3>1, DepthRead DEF m
    <3>6. open[i].line \in Int /\ open[i].line <= pos
      BY <1>0, <3>1, CompileNumbers DEF m
    <3>7. \A k \in open[i].line..pos : Lines!Depth(open[i].line, k) > 0
      BY <1>0, <3>1, <3>5, <3>6, DepthsTo
    <3> QED
      BY <3>2, <3>3, <3>4, <3>5, <3>7 DEF CallOK
  <2> QED
    BY <2>1, <2>2
<1>9. ASSUME NEW i \in 1..(m + 1)
      PROVE  open'[i].line \in 1..pos /\ \A j \in 1..(i - 1) : open'[i].line < open'[j].line
  <2>1. CASE i = 1
    BY <1>0, <1>3, <1>5, <2>1
  <2>2. CASE i # 1
    <3>1. i - 1 \in 1..m /\ open'[i] = open[i - 1]
      BY <1>0, <1>5, <2>2
    <3>2. open[i - 1].line \in Nat /\ 1 <= open[i - 1].line /\ open[i - 1].line < pos
      BY <3>1, CompileNumbers DEF m
    <3>3. ASSUME NEW j \in 1..(i - 1)
          PROVE  open'[i].line < open'[j].line
      <4>1. CASE j = 1
        BY <1>0, <1>3, <1>5, <3>1, <3>2, <4>1
      <4>2. CASE j # 1
        <5>1. j - 1 \in 1..(i - 1 - 1) /\ j \in 1..(m + 1)
          BY <1>0, <4>2
        <5>2. open[i - 1].line < open[j - 1].line
          BY <1>0, <3>1, <5>1 DEF TypeOK
        <5> QED
          BY <1>5, <3>1, <4>2, <5>1, <5>2
      <4> QED
        BY <4>1, <4>2
    <3> QED
      BY <1>0, <3>1, <3>2, <3>3
  <2> QED
    BY <2>1, <2>2
<1>10. Between(actions', 0, Reached(open', Len(open') + 1, pos + 1))
  <2>1. Between(actions, 0, Reached(open, m + 1, pos))
    BY DEF LqlInv, CompileInv, m
  <2>2. Reached(open', m + 2, pos + 1) = Reached(open, m + 1, pos)
    <3>1. CASE m = 0
      BY <1>3, <1>5, <3>1 DEF Reached
    <3>2. CASE m # 0
      <4>1. (m + 2) - 1 = m + 1 /\ (m + 1) - 1 = m /\ m + 1 \in 1..(m + 1) /\ m + 1 # 1 /\ m + 2 # 1
        BY <1>0, <3>2
      <4> QED
        BY <1>5, <4>1 DEF Reached
    <3> QED
      BY <3>1, <3>2
  <2>3. Len(open') + 1 = m + 2
    BY <1>0, <1>5
  <2> QED
    BY <1>1, <2>1, <2>2, <2>3
<1>11. paramMap' \in [Tables -> Params] /\ \A t \in Tables : ParamAt(paramMap'[t], t, pos + 1)
  BY <1>1, <1>7, ParamsKept
<1> QED
  BY <1>0, <1>1, <1>5, <1>6, <1>8, <1>9, <1>10, <1>11 DEF Compiles

\* An ELSE turns to the second branch of its IF.
LEMMA TurnsElseStep ==
  ASSUME NEW S, TypeOK, LqlInv(S), Reading, TurnsElse
  PROVE  Compiles(S)
<1> DEFINE m == Len(open)
           c == open[1]
           d == [c EXCEPT !.branch = 2, !.must = TRUE]
<1>0. /\ Size \in Nat /\ pos \in Nat /\ 1 <= pos /\ pos <= Size /\ m \in Nat /\ DOMAIN open = 1..m
      /\ open \in Seq(Calls(S)) /\ actions \in Seq(S) /\ \A a \in S : ActionOK(a, S)
      /\ program \in Programs
  BY CompileNumbers DEF Reading, Size, LqlInv, CompileInv
<1>1. /\ Lines!Key(pos) = "ELSE" /\ open # <<>> /\ Lines!Key(c.line) = "IF"
      /\ actions' = actions /\ paramMap' = paramMap
  BY DEF TurnsElse, Lien, In, Lines!Key
<1>2. 1 \in 1..m
  BY <1>0, <1>1, EmptySeq
<1>3. c \in Calls(S)
  BY <1>0, <1>2, ElementOfSeq
<1>4. open' = [open EXCEPT ![1] = d]
  BY <1>0, <1>2 DEF TurnsElse
<1>5. d \in Calls(S) /\ d.line = c.line /\ d.body = c.body /\ d.param = c.param
  <2> HIDE DEF c
  <2> DEFINE e == [c EXCEPT !.branch = 2]
  <2>1. e \in Calls(S)
    BY <1>3 DEF Calls
  <2>2. d \in Calls(S)
    <3>1. d = [e EXCEPT !.must = TRUE]
      OBVIOUS
    <3> HIDE DEF d, e
    <3> QED
      BY <2>1, <3>1 DEF Calls
  <2>3. d.line = c.line /\ d.body = c.body /\ d.param = c.param
    BY <1>3 DEF Calls
  <2> QED
    BY <2>2, <2>3
<1> HIDE DEF d, m
<1>6. /\ open' \in Seq(Calls(S)) /\ Len(open') = m
      /\ \A n \in 1..m : open'[n] = IF n = 1 THEN d ELSE open[n]
  BY <1>0, <1>2, <1>4, <1>5, ExceptSeq DEF m
<1>7. DOMAIN open' = 1..m
  BY <1>6, LenProperties
<1>8. \A n \in 1..m : /\ open'[n].line = open[n].line
                      /\ open'[n].body = open[n].body
                      /\ open'[n].param = open[n].param
  BY <1>5, <1>6
<1>9. ASSUME NEW n \in 1..m
      PROVE  CallOK(open', n, pos + 1, pos)
  <2> DEFINE l == open[n].line
  <2>1. CallOK(open, n, pos, pos - 1)
    BY <1>0 DEF LqlInv, CompileInv
  <2>2. /\ Lines!Depth(l, pos) = n /\ \A k \in l..(pos - 1) : Lines!Depth(l, k) > 0
    <3>1. Lines!Key(pos) \notin Lines!Openers \cup Lines!Closers
      BY <1>1, LineKeys
    <3> QED
      BY <3>1, DepthRead DEF m
  <2>3. l \in Nat /\ l < pos /\ open[n].body \in Bodies(S)
    BY CompileNumbers DEF m
  <2>4. \A k \in l..pos : Lines!Depth(l, k) > 0
    <3> HIDE DEF l
    <3> QED
      BY <1>0, <2>2, <2>3, DepthsTo
  <2>5. /\ l < Reached(open', n, pos + 1)
        /\ \A b \in 1..2 : Between(open[n].body[b], l, Reached(open', n, pos + 1))
    <3>1. CASE n = 1
      <4>1. Reached(open', n, pos + 1) = pos + 1 /\ Reached(open, n, pos) = pos
        BY <3>1 DEF Reached
      <4>2. ASSUME NEW b \in 1..2
            PROVE  Between(open[n].body[b], l, pos + 1)
        <5>1. Between(open[n].body[b], l, pos) /\ open[n].body[b] \in Seq(S)
          BY <2>1, <2>3, <4>1 DEF CallOK, Bodies
        <5> HIDE DEF l
        <5> QED
          BY <1>0, <5>1, BetweenWider
      <4> QED
        BY <1>0, <2>3, <4>1, <4>2
    <3>2. CASE n # 1
      <4>1. n - 1 \in 1..m
        BY <1>0, <3>2
      <4>2. Reached(open', n, pos + 1) = Reached(open, n, pos)
        BY <1>8, <3>2, <4>1 DEF Reached
      <4> QED
        BY <2>1, <4>2 DEF CallOK
    <3> QED
      BY <3>1, <3>2
  <2>6. open'[n].branch = 2 => Lines!Key(l) = "IF"
    BY <1>1, <1>6, <2>1 DEF CallOK
  <2> QED
    BY <1>8, <2>1, <2>2, <2>4, <2>5, <2>6 DEF CallOK
<1>10. ASSUME NEW i \in 1..m
       PROVE  open'[i].line \in 1..pos /\ \A j \in 1..(i - 1) : open'[i].line < open'[j].line
  <2>1. open[i].line \in Nat /\ 1 <= open[i].line /\ open[i].line < pos
    BY CompileNumbers DEF m
  <2>2. \A j \in 1..(i - 1) : open[i].line < open[j].line
    BY <1>0 DEF TypeOK
  <2>3. \A j \in 1..(i - 1) : j \in 1..m
    BY <1>0
  <2>4. /\ open'[i].line = open[i].line
        /\ \A j \in 1..(i - 1) : open'[j].line = open[j].line
    BY <1>8, <2>3
  <2>5. open[i].line \in 1..pos
    BY <1>0, <2>1
  <2> QED
    BY <2>2, <2>4, <2>5
<1>11. Between(actions', 0, Reached(open', Len(open') + 1, pos + 1))
  <2>1. (m + 1) - 1 = m /\ m \in 1..m /\ m + 1 # 1
    BY <1>0, <1>2
  <2>2. Reached(open', m + 1, pos + 1) = Reached(open, m + 1, pos)
    BY <1>8, <2>1 DEF Reached
  <2> QED
    BY <1>1, <1>6, <2>2 DEF LqlInv, CompileInv, m
<1>12. paramMap' \in [Tables -> Params] /\ \A t \in Tables : ParamAt(paramMap'[t], t, pos + 1)
  BY <1>1, ParamsKept
<1> QED
  BY <1>0, <1>1, <1>6, <1>7, <1>9, <1>10, <1>11, <1>12 DEF Compiles

\* An action that is complete with this line: the calls around it are those that
\* were open, but the one that compiled it.
LEMMA PutStep ==
  ASSUME NEW S, TypeOK, LqlInv(S), NEW a, NEW calls,
         ActionOK(a, S \cup {a}), Lines!Match(a.line) = pos,
         calls \in Seq(Calls(S)),
         \A n \in DOMAIN calls : /\ CallOK(calls, n, a.line, pos)
                                 /\ calls[n].line \in 1..pos
                                 /\ \A j \in 1..(n - 1) : calls[n].line < calls[j].line,
         Between(actions, 0, Reached(calls, Len(calls) + 1, a.line)),
         Put(a, calls),
         paramMap' \in [Tables -> Params], \A t \in Tables : ParamAt(paramMap'[t], t, pos + 1)
  PROVE  Compiles(S \cup {a})
<1> DEFINE T == S \cup {a}
<1>1. \A x \in T : ActionOK(x, T)
  BY MoreActions DEF LqlInv
<1>2. calls \in Seq(Calls(T)) /\ actions \in Seq(T) /\ a \in T
  <2>1. calls \in Seq(Calls(T))
    BY MoreActions, SeqMonotonic
  <2> QED
    BY <2>1, MoreActions DEF LqlInv, CompileInv
<1>3. program \in Programs /\ pos \in Nat
  BY CompileNumbers DEF LqlInv
<1> HIDE DEF T
<1>4. /\ open' \in Seq(Calls(T)) /\ actions' \in Seq(T) /\ Len(open') = Len(calls)
      /\ \A n \in DOMAIN calls : open'[n].line = calls[n].line
      /\ \A n \in DOMAIN open' : CallOK(open', n, pos + 1, pos)
      /\ Between(actions', 0, Reached(open', Len(open') + 1, pos + 1))
  BY <1>1, <1>2, <1>3, PutKeeps
<1>5. DOMAIN open' = DOMAIN calls /\ \A n \in DOMAIN calls : \A j \in 1..(n - 1) : j \in DOMAIN calls
  <2>1. DOMAIN open' = 1..Len(calls) /\ DOMAIN calls = 1..Len(calls) /\ Len(calls) \in Nat
    BY <1>2, <1>4, LenProperties
  <2> QED
    BY <2>1
<1> QED
  BY <1>4, <1>5 DEF Compiles, T

\* A line without a block is an action of its own.
LEMMA LeafStep ==
  ASSUME NEW S, TypeOK, LqlInv(S), Reading, Lines!Key(pos) \in {"@", "QUERY"}, NEW param \in Params,
         Lines!Key(pos) = "QUERY" /\ program[pos].into # None => param = pos,
         Leaf(param),
         paramMap' \in [Tables -> Params], \A t \in Tables : ParamAt(paramMap'[t], t, pos + 1)
  PROVE  \E T : (\A a \in T : ActionOK(a, T)) /\ Compiles(T)
<1> DEFINE a == [line |-> pos, body |-> <<<<>>, <<>>>>, param |-> param]
           T == S \cup {a}
<1>0. /\ Size \in Nat /\ pos \in Nat /\ 1 <= pos /\ pos <= Size
      /\ DOMAIN open = 1..Len(open) /\ Len(open) \in Nat
      /\ open \in Seq(Calls(S))
  BY CompileNumbers DEF Reading, Size, LqlInv, CompileInv
<1>1. Put(a, open)
  BY DEF Leaf
<1>2. /\ a.line = pos /\ a.param = param /\ a.body = <<<<>>, <<>>>> /\ ~Rows(a)
      /\ \A b \in 1..2 : a.body[b] = <<>>
  BY DEF Rows
<1>3. a \in Actions(T)
  BY <1>0, NoBodies DEF Actions
<1> HIDE DEF a
<1>4. Lines!Key(pos) \notin Lines!Openers \cup Lines!Closers
  BY LineKeys
<1>5. Closes(pos, pos)
  BY <1>0, <1>4, DepthAlone DEF Closes
<1>6. Lines!Match(pos) = pos
  BY <1>0, <1>5, ClosesIsMatch DEF Size
<1>7. ActionOK(a, T)
  <2>1. Between(<<>>, pos, pos)
    BY EmptySeq DEF Between
  <2>2. Lines!Key(pos) # "FOREACH"
    OBVIOUS
  <2> QED
    BY <1>2, <1>3, <1>5, <1>6, <2>1, <2>2 DEF ActionOK
<1>8. ASSUME NEW n \in 1..Len(open)
      PROVE  /\ CallOK(open, n, pos, pos)
             /\ open[n].line \in 1..pos
             /\ \A j \in 1..(n - 1) : open[n].line < open[j].line
  <2>1. CallOK(open, n, pos, pos - 1)
    BY <1>0 DEF LqlInv, CompileInv
  <2>2. open[n].line \in Nat /\ 1 <= open[n].line /\ open[n].line < pos
    BY CompileNumbers
  <2>3. /\ Lines!Depth(open[n].line, pos) = n
        /\ \A k \in open[n].line..(pos - 1) : Lines!Depth(open[n].line, k) > 0
    BY <1>4, DepthRead
  <2>4. \A k \in open[n].line..pos : Lines!Depth(open[n].line, k) > 0
    BY <1>0, <2>2, <2>3, DepthsTo
  <2>5. CallOK(open, n, pos, pos)
    BY <2>1, <2>3, <2>4 DEF CallOK
  <2> QED
    BY <1>0, <2>2, <2>5 DEF TypeOK
<1>9. Between(actions, 0, Reached(open, Len(open) + 1, pos))
  BY DEF LqlInv, CompileInv
<1>10. Compiles(T)
  BY <1>0, <1>1, <1>2, <1>6, <1>7, <1>8, <1>9, PutStep
<1>11. \A x \in T : ActionOK(x, T)
  BY <1>7, MoreActions DEF LqlInv
<1> QED
  BY <1>10, <1>11

\* The innermost block ends, and is an action of the one around it.
LEMMA EndsStep ==
  ASSUME NEW S, TypeOK, LqlInv(S), Reading, Ends
  PROVE  \E T : (\A a \in T : ActionOK(a, T)) /\ Compiles(T)
<1> DEFINE c == open[1]
           calls == Tail(open)
           m == Len(open)
           a == [line |-> c.line, body |-> c.body, param |-> c.param]
           T == S \cup {a}
<1>0. /\ Size \in Nat /\ pos \in Nat /\ 1 <= pos /\ pos <= Size /\ m \in Nat /\ DOMAIN open = 1..m
      /\ open \in Seq(Calls(S))
  BY CompileNumbers DEF Reading, Size, LqlInv, CompileInv
<1>1. /\ open # <<>> /\ Lines!Key(pos) \in Lines!Closers /\ Put(a, calls) /\ paramMap' = paramMap
  <2>1. PICK k \in Lines!Openers : In(k) /\ Lien.key = Lines!End[k]
    BY DEF Ends, EndsBlock
  <2>2. Lines!Key(pos) \in Lines!Closers
    BY <2>1, LineKeys DEF Lien, Lines!Key
  <2> QED
    BY <2>1, <2>2 DEF Ends, In
<1>2. 1 \in 1..m
  BY <1>0, <1>1, EmptySeq
<1>3. c \in Calls(S) /\ c.line \in Nat /\ 1 <= c.line /\ c.line < pos
  BY <1>0, <1>2, CompileNumbers
<1>4. a.line = c.line /\ a.body = c.body /\ a.param = c.param /\ ~Rows(a)
  BY DEF Rows
<1>5. a \in Actions(T)
  <2>1. c.line \in 1..Size /\ c.body \in Bodies(S) /\ c.param \in Params
    BY <1>3 DEF Calls
  <2>2. c.body \in Bodies(T)
    <3>1. Seq(S) \subseteq Seq(T)
      BY MoreActions
    <3> HIDE DEF T
    <3> QED
      BY <2>1, <3>1 DEF Bodies
  <2> QED
    BY <2>1, <2>2 DEF Actions
<1>6. /\ calls \in Seq(Calls(S)) /\ Len(calls) = m - 1
      /\ \A i \in 1..(m - 1) : calls[i] = open[i + 1]
  BY <1>0, <1>1, HeadTailProperties
<1>7. DOMAIN calls = 1..(m - 1)
  BY <1>6, LenProperties
<1> HIDE DEF a, c, calls, m
<1>8. CallOK(open, 1, pos, pos - 1) /\ Reached(open, 1, pos) = pos
  BY <1>0, <1>2 DEF LqlInv, CompileInv, Reached
<1>9. Closes(c.line, pos)
  <2>1. Lines!Depth(c.line, pos) = 1 - 1 /\ \A k \in c.line..(pos - 1) : Lines!Depth(c.line, k) > 0
    BY <1>1, <1>2, DepthRead DEF c, m
  <2> QED
    BY <1>0, <1>3, <2>1 DEF Closes
<1>10. Lines!Match(c.line) = pos
  BY <1>0, <1>3, <1>9, ClosesIsMatch DEF Size
<1>11. ActionOK(a, T)
  <2>1. /\ Lines!Key(c.line) \in Lines!Openers
        /\ \A b \in 1..2 : Between(c.body[b], c.line, pos)
        /\ Lines!Key(c.line) = "FOREACH" => FoundAt(c.param, program[c.line].table, c.line)
    BY <1>8 DEF CallOK, c
  <2>2. Lines!Key(c.line) # "QUERY"
    BY <2>1, LineKeys
  <2>3. Lines!Key(a.line) = "FOREACH" => FoundAt(a.param, program[a.line].table, a.line)
    BY <1>4, <2>1
  <2>4. \A b \in 1..2 : Between(a.body[b], a.line, Lines!Match(a.line))
    BY <1>4, <1>10, <2>1
  <2>5. Closes(a.line, Lines!Match(a.line))
    BY <1>4, <1>9, <1>10
  <2>6. ~Rows(a) /\ Lines!Key(a.line) \in Lines!Openers /\ Lines!Key(a.line) # "QUERY"
    BY <1>4, <2>1, <2>2
  <2> HIDE DEF T
  <2> QED
    BY <1>5, <2>3, <2>4, <2>5, <2>6 DEF ActionOK
<1>12. ASSUME NEW n \in 1..(m - 1)
       PROVE  /\ CallOK(calls, n, c.line, pos)
              /\ calls[n].line \in 1..pos
              /\ \A j \in 1..(n - 1) : calls[n].line < calls[j].line
  <2> DEFINE i == n + 1
  <2>0. i \in 1..m /\ i \in Nat /\ i - 1 = n /\ n \in Nat /\ n >= 1
    BY <1>0
  <2>1. calls[n] = open[i]
    BY <1>6
  <2>2. CallOK(open, i, pos, pos - 1)
    BY <1>0, <2>0 DEF LqlInv, CompileInv
  <2>3. open[i].line \in Nat /\ 1 <= open[i].line /\ open[i].line < pos
    BY <2>0, CompileNumbers DEF m
  <2>4. Reached(calls, n, c.line) = Reached(open, i, pos)
    <3>1. CASE n = 1
      BY <2>0, <3>1 DEF Reached, c
    <3>2. CASE n # 1
      <4>1. n - 1 \in 1..(m - 1) /\ (n - 1) + 1 = n
        BY <1>0, <2>0, <3>2
      <4>2. calls[n - 1] = open[n]
        BY <1>6, <4>1
      <4> QED
        BY <2>0, <3>2, <4>2 DEF Reached
    <3> QED
      BY <3>1, <3>2
  <2> HIDE DEF i
  <2>5. /\ Lines!Depth(open[i].line, pos) = i - 1
        /\ \A k \in open[i].line..(pos - 1) : Lines!Depth(open[i].line, k) > 0
    BY <1>1, <2>0, DepthRead DEF m
  <2>6. \A k \in open[i].line..pos : Lines!Depth(open[i].line, k) > 0
    BY <1>0, <2>0, <2>3, <2>5, DepthsTo
  <2>7. CallOK(calls, n, c.line, pos)
    BY <2>0, <2>1, <2>2, <2>4, <2>5, <2>6 DEF CallOK
  <2>8. \A j \in 1..(n - 1) : calls[n].line < calls[j].line
    <3>1. ASSUME NEW j \in 1..(n - 1)
          PROVE  calls[n].line < calls[j].line
      <4>1. j + 1 \in 1..(i - 1) /\ j \in 1..(m - 1)
        BY <1>0, <2>0
      <4>2. open[i].line < open[j + 1].line
        BY <1>0, <2>0, <4>1 DEF TypeOK
      <4> QED
        BY <1>6, <2>1, <4>1, <4>2
    <3> QED
      BY <3>1
  <2> QED
    BY <1>0, <2>1, <2>3, <2>7, <2>8
<1>13. Between(actions, 0, Reached(calls, Len(calls) + 1, c.line))
  <2>1. Between(actions, 0, Reached(open, m + 1, pos))
    BY DEF LqlInv, CompileInv, m
  <2>2. Len(calls) + 1 = m /\ (m + 1) - 1 = m /\ m + 1 # 1
    BY <1>0, <1>2, <1>6
  <2>3. Reached(calls, m, c.line) = open[m].line
    <3>1. CASE m = 1
      BY <3>1 DEF Reached, c
    <3>2. CASE m # 1
      <4>1. m - 1 \in 1..(m - 1) /\ (m - 1) + 1 = m
        BY <1>0, <1>2, <3>2
      <4>2. calls[m - 1] = open[m]
        BY <1>6, <4>1
      <4> QED
        BY <3>2, <4>2 DEF Reached
    <3> QED
      BY <3>1, <3>2
  <2> QED
    BY <2>1, <2>2, <2>3 DEF Reached
<1>14. paramMap' \in [Tables -> Params] /\ \A t \in Tables : ParamAt(paramMap'[t], t, pos + 1)
  <2>1. Lines!Key(pos) # "QUERY"
    BY <1>1, LineKeys
  <2> QED
    BY <1>1, <2>1, ParamsKept
<1>15. Compiles(T)
  BY <1>1, <1>4, <1>6, <1>7, <1>10, <1>11, <1>12, <1>13, <1>14, PutStep
<1>16. \A x \in T : ActionOK(x, T)
  BY <1>11, MoreActions DEF LqlInv
<1> QED
  BY <1>15, <1>16

\* The Param of a QUERY takes the name over.
LEMMA QueriesStep ==
  ASSUME NEW S, TypeOK, LqlInv(S), Reading, Queries
  PROVE  \E T : (\A a \in T : ActionOK(a, T)) /\ Compiles(T)
<1> DEFINE into == program[pos].into
<1>0. /\ Size \in Nat /\ pos \in Nat /\ 1 <= pos /\ pos <= Size /\ DOMAIN program = 1..Size
      /\ program \in Programs
  BY CompileNumbers DEF Reading, Size, LqlInv
<1>1. Lines!Key(pos) = "QUERY" /\ into \in Tables \cup {None}
  BY <1>0, ProgramLines DEF Queries, Lien, Lines!Key, Size
<1>2. /\ paramMap \in [Tables -> Params] /\ pos \in Params /\ None \in Params
      /\ \A t \in Tables : ParamAt(paramMap[t], t, pos)
  BY <1>0 DEF TypeOK, Params, LqlInv, CompileInv
<1>3. \A t \in Tables : \A q \in Lines!Queries(t) : q \in Nat
  BY <1>0 DEF Lines!Queries, Lines!Queried, Lines!Size, Size
<1>4. ASSUME NEW t \in Tables, t # into
      PROVE  ParamAt(paramMap[t], t, pos + 1)
  <2>1. pos \notin Lines!Queries(t)
    BY <1>4 DEF Lines!Queries
  <2>2. paramMap[t] \in Params
    BY <1>2
  <2>3. paramMap[t] # None => paramMap[t] \in Nat
    BY <1>0, <2>2 DEF Params
  <2> QED
    BY <1>0, <1>2, <1>3, <2>1, <2>3 DEF ParamAt
<1>5. CASE into = None
  <2>1. Leaf(None) /\ paramMap' = paramMap
    BY <1>5 DEF Queries, Lien
  <2>2. \A t \in Tables : t # into
    BY <1>5
  <2>3. paramMap' \in [Tables -> Params] /\ \A t \in Tables : ParamAt(paramMap'[t], t, pos + 1)
    BY <1>2, <1>4, <2>1, <2>2
  <2> QED
    BY <1>1, <1>2, <1>5, <2>1, <2>3, LeafStep
<1>6. CASE into # None
  <2>1. Leaf(pos) /\ paramMap' = [paramMap EXCEPT ![into] = pos] /\ into \in Tables
    BY <1>1, <1>6 DEF Queries, Lien
  <2>2. ParamAt(pos, into, pos + 1)
    <3>1. pos \in Lines!Queries(into)
      BY <1>0, <1>1 DEF Lines!Queries, Lines!Queried, Lines!Size, Size
    <3>2. pos # None /\ \A q \in Lines!Queries(into) : q < pos + 1 => q <= pos
      BY <1>0, <1>3, <2>1
    <3> QED
      BY <1>0, <3>1, <3>2 DEF ParamAt
  <2>3. paramMap' \in [Tables -> Params]
    BY <1>2, <2>1
  <2>4. \A t \in Tables : ParamAt(paramMap'[t], t, pos + 1)
    BY <1>2, <1>4, <2>1, <2>2
  <2> QED
    BY <1>1, <1>2, <2>1, <2>3, <2>4, LeafStep
<1> QED
  BY <1>5, <1>6

LEMMA ReadCompiles ==
  ASSUME NEW S, TypeOK, LqlInv(S), ReadLine
  PROVE  \E T : (\A a \in T : ActionOK(a, T)) /\ Compiles(T)
<1>0. /\ \A a \in S : ActionOK(a, S)
      /\ Reading /\ None \in Params
      /\ program \in Programs /\ pos \in 1..Len(program)
  BY CompileNumbers DEF LqlInv, ReadLine, Reading, Params, Size
<1>1. CASE BeginsIf \/ BeginsWhile
  <2>1. Lines!Key(pos) \in {"IF", "WHILE"} /\ Begins(None)
    BY <1>1 DEF BeginsIf, BeginsWhile, Lien, Lines!Key
  <2> QED
    BY <1>0, <2>1, BeginsStep, LineKeys
<1>2. CASE BeginsForeach
  <2> DEFINE t == program[pos].table
  <2>1. Lines!Key(pos) = "FOREACH" /\ paramMap[t] # None /\ Begins(paramMap[t])
    BY <1>2 DEF BeginsForeach, Lien, Lines!Key
  <2>2. t \in Tables
    BY <1>0, <2>1, ProgramLines
  <2>3. paramMap[t] \in Params /\ FoundAt(paramMap[t], t, pos)
    BY <2>1, <2>2 DEF TypeOK, Params, LqlInv, CompileInv, FoundAt
  <2> QED
    BY <1>0, <2>1, <2>3, BeginsStep, LineKeys
<1>3. CASE TurnsElse
  BY <1>0, <1>3, TurnsElseStep
<1>4. CASE Ends
  BY <1>0, <1>4, EndsStep
<1>5. CASE Assigns
  <2>1. Lines!Key(pos) = "@" /\ Leaf(None) /\ paramMap' = paramMap
    BY <1>5 DEF Assigns, Lien, Lines!Key
  <2>2. paramMap' \in [Tables -> Params] /\ \A t \in Tables : ParamAt(paramMap'[t], t, pos + 1)
    BY <2>1, ParamsKept
  <2> QED
    BY <1>0, <2>1, <2>2, LeafStep
<1>6. CASE Queries
  BY <1>0, <1>6, QueriesStep
<1> QED
  BY <1>1, <1>2, <1>3, <1>4, <1>5, <1>6 DEF ReadLine

LEMMA ReadLineStep ==
  ASSUME NEW S, TypeOK, LqlInv(S), ReadLine
  PROVE  TypeOK' /\ \E T : LqlInv(T)'
<1>1. PICK T : (\A a \in T : ActionOK(a, T)) /\ Compiles(T)
  BY ReadCompiles
<1>2. /\ pos' = pos + 1 /\ phase = "compile" /\ pos <= Len(program)
      /\ UNCHANGED <<program, phase, value, sent, result, todo, chage, latest>>
  BY DEF ReadLine, Reading, running
<1>3. /\ Size \in Nat /\ DOMAIN program = 1..Size /\ pos \in Nat /\ 1 <= pos /\ program \in Programs
  BY CompileNumbers DEF LqlInv
<1>4. TypeOK'
  <2>1. /\ pos' \in 1..(Len(program') + 1) /\ pos' - 1 = pos
        /\ paramMap' \in [Tables -> DOMAIN program' \cup {None}]
    BY <1>1, <1>2, <1>3 DEF Compiles, Params, Size
  <2>2. ASSUME NEW i \in DOMAIN open'
        PROVE  /\ open'[i].line \in 1..pos
               /\ \A j \in 1..(i - 1) : open'[i].line < open'[j].line
               /\ open'[i].branch = 2 => program'[open'[i].line].key = "IF"
    BY <1>1, <1>2 DEF Compiles, CallOK, Lines!Key
  <2> QED
    BY <1>2, <2>1, <2>2 DEF TypeOK
<1>5. CompileInv(T)'
  <2>1. /\ open' \in Seq(Calls(T)') /\ actions' \in Seq(T)
        /\ \A n \in DOMAIN open' : CallOK(open', n, pos', pos)
        /\ Between(actions', 0, Reached(open', Len(open') + 1, pos'))
        /\ \A t \in Tables : ParamAt(paramMap'[t], t, pos')
    BY <1>1, <1>2, SameActions DEF Compiles
  <2>2. pos' - 1 = pos
    BY <1>2, <1>3
  <2>3. \A n \in DOMAIN open' : CallOK(open, n, pos, pos - 1)'
    BY <1>2, <2>1, <2>2, SameCalls
  <2>4. Between(actions, 0, Reached(open, Len(open) + 1, pos))'
    BY <1>2, <2>1, SamePlaces DEF Reached
  <2>5. \A t \in Tables : ParamAt(paramMap[t], t, pos)'
    BY <1>2, <2>1, SamePlaces
  <2> QED
    BY <2>1, <2>3, <2>4, <2>5 DEF CompileInv
<1>6. \A a \in T : ActionOK(a, T)'
  BY <1>1, <1>2, SameActions
<1>7. RunInv(T)' /\ PhaseInv' /\ HistoryInv'
  BY <1>2, EmptySeq DEF LqlInv, RunInv, InOrder, PhaseInv, HistoryInv
<1>8. LqlInv(T)'
  BY <1>2, <1>3, <1>5, <1>6, <1>7 DEF LqlInv
<1> QED
  BY <1>4, <1>8

LEMMA SameCompiled ==
  ASSUME NEW S, NEW T, S \subseteq T, LqlInv(S), UNCHANGED <<program, compiling>>
  PROVE  CompileInv(T)'
<1>1. open' \in Seq(Calls(T)') /\ actions' \in Seq(T)
  <2>1. open \in Seq(Calls(T)) /\ actions \in Seq(T)
    BY MoreActions, SeqMonotonic DEF LqlInv, CompileInv
  <2> QED
    BY <2>1, SameActions DEF compiling
<1>2. /\ \A n \in DOMAIN open' : CallOK(open, n, pos, pos - 1)'
      /\ Between(actions, 0, Reached(open, Len(open) + 1, pos))'
      /\ \A t \in Tables : ParamAt(paramMap[t], t, pos)'
  BY SameCalls, SamePlaces DEF LqlInv, CompileInv, compiling, Reached
<1> QED
  BY <1>1, <1>2 DEF CompileInv

\* The program is rejected, or ends.
LEMMA PhaseStep ==
  ASSUME NEW S, TypeOK, LqlInv(S), Reject \/ Throw \/ Done
  PROVE  TypeOK' /\ LqlInv(S)'
<1>1. phase' \in {"rejected", "threw", "done"} /\ UNCHANGED <<program, compiling, running>>
  BY DEF Reject, Throw, Done
<1>2. TypeOK'
  BY <1>1 DEF TypeOK, compiling, running
<1>3. CompileInv(S)'
  BY <1>1, SameCompiled
<1>4. \A a \in S : ActionOK(a, S)'
  BY <1>1, SameActions DEF LqlInv
<1>5. RunInv(S)'
  BY <1>1, SamePlaces DEF LqlInv, RunInv, InOrder, running
<1> QED
  BY <1>1, <1>2, <1>3, <1>4, <1>5 DEF LqlInv, PhaseInv, HistoryInv

\* The program runs: its actions are one behind the other.
LEMMA CompiledStep ==
  ASSUME NEW S, TypeOK, LqlInv(S), Compiled
  PROVE  TypeOK' /\ LqlInv(S)'
<1>1. /\ phase = "compile" /\ phase' = "run" /\ todo' = actions /\ ~(pos <= Len(program))
      /\ UNCHANGED <<program, compiling, value, sent, result, latest>>
  BY DEF Compiled, Reading
<1>2. TypeOK'
  BY <1>1 DEF TypeOK, compiling
<1>3. CompileInv(S)'
  BY <1>1, SameCompiled
<1>4. \A a \in S : ActionOK(a, S)'
  BY <1>1, SameActions DEF LqlInv
<1>5. RunInv(S)'
  <2>1. actions \in Seq(S) /\ \A i, j \in DOMAIN actions : i < j => Leads(actions[i].line, actions[j].line)
    BY DEF LqlInv, CompileInv, Between, Leads
  <2> QED
    BY <1>1, <2>1, SamePlaces DEF RunInv, InOrder
<1>6. PhaseInv'
  <2>1. pos' = Size' + 1
    BY <1>1, CompileNumbers DEF compiling, Size
  <2> QED
    BY <1>1, <2>1 DEF PhaseInv
<1>7. HistoryInv'
  BY <1>1 DEF LqlInv, PhaseInv, HistoryInv
<1> QED
  BY <1>1, <1>2, <1>3, <1>4, <1>5, <1>6, <1>7 DEF LqlInv

-----------------------------------------------------------------------------
(* Executing. *)

\* What follows a line follows those in its block.
LEMMA LeadsWithin ==
  ASSUME NEW l \in Int, NEW x \in Int, NEW m \in Int,
         Lines!Match(l) \in Int, Lines!Match(x) \in Int, Lines!Match(m) \in Int,
         l <= x, Lines!Match(x) <= Lines!Match(l), Leads(l, m)
  PROVE  Leads(x, m)
BY DEF Leads

\* The first action that is left, and those behind it.
LEMMA TodoFirst ==
  ASSUME NEW S, LqlInv(S), todo # <<>>
  PROVE  /\ Act \in S /\ ActionOK(Act, S) /\ 1 \in DOMAIN todo
         /\ Act.line \in Nat /\ Lines!Match(Act.line) \in Int /\ Act.line <= Lines!Match(Act.line)
         /\ \A b \in 1..2 : Act.body[b] \in Seq(S)
         /\ Tail(todo) \in Seq(S) /\ InOrder(Tail(todo))
         /\ \A i \in DOMAIN Tail(todo) : /\ i + 1 \in DOMAIN todo
                                         /\ Tail(todo)[i] = todo[i + 1]
                                         /\ Leads(Act.line, Tail(todo)[i].line)
<1> DEFINE m == Len(todo)
           rest == Tail(todo)
<1>1. todo \in Seq(S) /\ InOrder(todo) /\ program \in Programs /\ \A a \in S : ActionOK(a, S)
  BY DEF LqlInv, RunInv
<1>2. m \in Nat /\ m # 0 /\ DOMAIN todo = 1..m
  BY <1>1, EmptySeq, LenProperties
<1>3. /\ rest \in Seq(S) /\ Len(rest) = m - 1
      /\ \A i \in 1..(m - 1) : rest[i] = todo[i + 1]
  BY <1>1, HeadTailProperties
<1>4. DOMAIN rest = 1..(m - 1)
  BY <1>3, LenProperties
<1> HIDE DEF m, rest
<1>5. \A i \in 1..(m - 1) : i + 1 \in 1..m /\ 1 < i + 1
  BY <1>2
<1>6. \A i \in 1..(m - 1) : Leads(todo[1].line, rest[i].line)
  BY <1>1, <1>2, <1>3, <1>5 DEF InOrder
<1>7. InOrder(rest)
  <2>1. ASSUME NEW i \in 1..(m - 1), NEW j \in 1..(m - 1), i < j
        PROVE  Leads(rest[i].line, rest[j].line)
    <3>1. i + 1 < j + 1
      BY <2>1
    <3> QED
      BY <1>1, <1>2, <1>3, <1>5, <3>1 DEF InOrder
  <2> QED
    BY <1>4, <2>1 DEF InOrder
<1>8. Act \in S
  BY <1>1, <1>2, ElementOfSeq DEF Act, m
<1>9. /\ Act.line \in Nat /\ Lines!Match(Act.line) \in Int /\ Act.line <= Lines!Match(Act.line)
      /\ \A b \in 1..2 : Act.body[b] \in Seq(S)
  BY <1>1, <1>8, ActionNumbers
<1> QED
  BY <1>1, <1>2, <1>3, <1>4, <1>5, <1>6, <1>7, <1>8, <1>9 DEF Act, rest

\* The actions s are in order, below line l or among the rest.
Follow(s, l, rest) ==
  /\ InOrder(s)
  /\ \A i \in DOMAIN s : l < s[i].line \/ \E j \in DOMAIN rest : s[i] = rest[j]

\* The actions of a branch come before what follows the action they are in.
LEMMA BodyFirst ==
  ASSUME NEW S, \A a \in S : ActionOK(a, S), program \in Programs, NEW h \in S, NEW b \in 1..2,
         NEW rest \in Seq(S), InOrder(rest), \A i \in DOMAIN rest : Leads(h.line, rest[i].line)
  PROVE  h.body[b] \o rest \in Seq(S) /\ Follow(h.body[b] \o rest, h.line, rest)
<1> DEFINE s == h.body[b]
           both == s \o rest
           n == Len(s)
           m == Len(rest)
<1>1. /\ h.line \in Nat /\ Lines!Match(h.line) \in Int /\ s \in Seq(S)
      /\ Between(s, h.line, Lines!Match(h.line))
  BY ActionNumbers DEF ActionOK
<1>2. /\ n \in Nat /\ DOMAIN s = 1..n
      /\ \A i \in 1..n : s[i].line \in Nat /\ Lines!Match(s[i].line) \in Int
  BY <1>1, ListNumbers
<1>3. /\ m \in Nat /\ DOMAIN rest = 1..m
      /\ \A i \in 1..m : rest[i].line \in Nat /\ Lines!Match(rest[i].line) \in Int
  BY ListNumbers
<1>4. /\ both \in Seq(S) /\ Len(both) = n + m
      /\ \A i \in 1..(n + m) : both[i] = IF i <= n THEN s[i] ELSE rest[i - n]
  BY <1>1, ConcatProperties
<1>5. DOMAIN both = 1..(n + m)
  BY <1>4, LenProperties
<1> HIDE DEF s, both, n, m
<1>6. \A i \in 1..n : h.line < s[i].line /\ Lines!Match(s[i].line) < Lines!Match(h.line)
  BY <1>1, <1>2 DEF Between
<1>7. \A i \in 1..(n + m) : IF i <= n THEN i \in 1..n /\ both[i] = s[i]
                                      ELSE i - n \in 1..m /\ both[i] = rest[i - n]
  BY <1>2, <1>3, <1>4
<1>8. ASSUME NEW i \in 1..(n + m), NEW j \in 1..(n + m), i < j
      PROVE  Leads(both[i].line, both[j].line)
  <2>1. CASE j <= n
    <3>1. i <= n
      BY <1>2, <1>8, <2>1
    <3>2. Lines!Match(s[i].line) < s[j].line
      BY <1>1, <1>2, <1>7, <1>8, <2>1, <3>1 DEF Between
    <3> QED
      BY <1>7, <2>1, <3>1, <3>2 DEF Leads
  <2>2. CASE i <= n /\ ~(j <= n)
    <3>1. /\ i \in 1..n /\ both[i] = s[i] /\ j - n \in 1..m /\ both[j] = rest[j - n]
      BY <1>7, <2>2
    <3>2. Leads(h.line, rest[j - n].line)
      BY <1>3, <3>1
    <3>3. h.line <= s[i].line /\ Lines!Match(s[i].line) <= Lines!Match(h.line)
      BY <1>1, <1>2, <1>6, <3>1
    <3>4. /\ h.line \in Int /\ s[i].line \in Int /\ rest[j - n].line \in Int
          /\ Lines!Match(s[i].line) \in Int /\ Lines!Match(rest[j - n].line) \in Int
      BY <1>1, <1>2, <1>3, <3>1
    <3> QED
      BY <1>1, <3>1, <3>2, <3>3, <3>4, LeadsWithin
  <2>3. CASE ~(i <= n)
    <3>1. ~(j <= n)
      BY <1>2, <1>8, <2>3
    <3>2. i - n \in 1..m /\ both[i] = rest[i - n] /\ j - n \in 1..m /\ both[j] = rest[j - n]
      BY <1>7, <2>3, <3>1
    <3>3. i - n < j - n
      BY <1>2, <1>8
    <3> QED
      BY <1>3, <3>2, <3>3 DEF InOrder
  <2> QED
    BY <2>1, <2>2, <2>3
<1>9. InOrder(both)
  BY <1>5, <1>8 DEF InOrder
<1>10. ASSUME NEW i \in 1..(n + m)
       PROVE  h.line < both[i].line \/ \E j \in DOMAIN rest : both[i] = rest[j]
  BY <1>3, <1>6, <1>7
<1> QED
  BY <1>4, <1>5, <1>9, <1>10 DEF both, s, Follow

\* A variable has a value, or null.
Stored == Lines!Values \cup {None}

\* No action of s is above all that was left.
NotAbove(s) == \A i \in DOMAIN s : \E j \in DOMAIN todo : todo[j].line <= s[i].line

\* The actions of s were left, and follow the first.
Remain(s) == \A i \in DOMAIN s : /\ Leads(Act.line, s[i].line)
                                 /\ \E j \in DOMAIN todo : todo[j].line = s[i].line

\* s has the lines of what was left.
Again(s) == Len(s) = Len(todo) /\ \A i \in DOMAIN todo : s[i].line = todo[i].line

\* A step that stores nothing: what is left is not above what was.
LEMMA RunStep ==
  ASSUME NEW S, NEW T, TypeOK, LqlInv(S), S \subseteq T, \A a \in T : ActionOK(a, T),
         phase = "run", UNCHANGED <<program, phase, compiling, result, latest>>,
         value' \in [Vars -> Stored],
         todo' \in Seq(T), InOrder(todo'),
         NotAbove(todo')
  PROVE  TypeOK' /\ LqlInv(T)'
<1>1. TypeOK'
  BY DEF TypeOK, compiling, Stored
<1>2. CompileInv(T)'
  BY SameCompiled
<1>3. \A a \in T : ActionOK(a, T)'
  BY SameActions
<1>4. RunInv(T)'
  BY SamePlaces DEF RunInv, InOrder
<1>5. PhaseInv'
  BY DEF LqlInv, PhaseInv, compiling, Size
<1>6. HistoryInv'
  <2> SUFFICES ASSUME QueriedOnce
               PROVE  /\ \A t \in Tables : latest[t] # None =>
                           /\ latest[t] \in Lines!Queries(t)
                           /\ \A i \in DOMAIN todo' : latest[t] < todo'[i].line
                      /\ \A q \in DOMAIN program : result[q] # None =>
                           /\ q \in Lines!Queried /\ program[q].into \in Tables
                           /\ latest[program[q].into] # None /\ q <= latest[program[q].into]
    BY SamePlaces, SameLines DEF HistoryInv
  <2>1. /\ \A t \in Tables : latest[t] # None =>
             /\ latest[t] \in Lines!Queries(t)
             /\ \A i \in DOMAIN todo : latest[t] < todo[i].line
        /\ \A q \in DOMAIN program : result[q] # None =>
             /\ q \in Lines!Queried /\ program[q].into \in Tables
             /\ latest[program[q].into] # None /\ q <= latest[program[q].into]
    BY DEF LqlInv, HistoryInv
  <2>2. ASSUME NEW t \in Tables, latest[t] # None, NEW i \in DOMAIN todo'
        PROVE  latest[t] < todo'[i].line
    <3>1. PICK j \in DOMAIN todo : todo[j].line <= todo'[i].line
      BY DEF NotAbove
    <3>2. latest[t] < todo[j].line
      BY <2>1, <2>2, <3>1
    <3>3. latest[t] \in Int
      <4>1. Size \in Nat /\ DOMAIN program = 1..Size
        BY CompileNumbers
      <4>2. latest[t] \in DOMAIN program \cup {None}
        BY DEF TypeOK
      <4> QED
        BY <2>2, <4>1, <4>2
    <3>4. todo[j].line \in Int
      <4>1. todo \in Seq(S) /\ program \in Programs /\ \A a \in S : ActionOK(a, S)
        BY DEF LqlInv, RunInv
      <4>2. \A k \in 1..Len(todo) : todo[k].line \in Nat
        BY <4>1, ListNumbers
      <4> QED
        BY <3>1, <4>1, <4>2, LenProperties
    <3>5. todo'[i].line \in Int
      <4>1. \A k \in 1..Len(todo') : todo'[k].line \in Nat
        BY ListNumbers DEF LqlInv
      <4> QED
        BY <2>2, <4>1, LenProperties
    <3> QED
      BY <3>1, <3>2, <3>3, <3>4, <3>5
  <2> QED
    BY <2>1, <2>2
<1> QED
  BY <1>1, <1>2, <1>3, <1>4, <1>5, <1>6 DEF LqlInv

\* The rest is left; nothing is stored.
LEMMA RestStep ==
  ASSUME NEW S, TypeOK, LqlInv(S), phase = "run", todo # <<>>, todo' = Tail(todo),
         UNCHANGED <<program, phase, compiling, result, latest>>,
         value' \in [Vars -> Stored]
  PROVE  TypeOK' /\ LqlInv(S)'
<1>1. todo' \in Seq(S) /\ InOrder(todo')
  BY TodoFirst
<1>2. NotAbove(todo')
  <2>1. ASSUME NEW i \in DOMAIN todo'
        PROVE  \E j \in DOMAIN todo : todo[j].line <= todo'[i].line
    <3>1. i + 1 \in DOMAIN todo /\ todo'[i] = todo[i + 1]
      BY TodoFirst
    <3>2. todo[i + 1].line \in Nat
      BY <3>1, ListNumbers DEF LqlInv, RunInv
    <3>3. todo[i + 1].line <= todo'[i].line
      BY <3>1, <3>2
    <3> QED
      BY <3>1, <3>3
  <2> QED
    BY <2>1 DEF NotAbove
<1>3. \A a \in S : ActionOK(a, S)
  BY DEF LqlInv
<1> QED
  BY <1>1, <1>2, <1>3, RunStep

\* A branch or the body of a loop is done next, then the rest, or the loop again.
LEMMA BodyStep ==
  ASSUME NEW S, NEW T, TypeOK, LqlInv(S), S \subseteq T, \A a \in T : ActionOK(a, T),
         phase = "run", todo # <<>>, NEW h \in T, h.line = Act.line, NEW b \in 1..2,
         NEW rest \in Seq(T), InOrder(rest),
         Remain(rest),
         todo' = h.body[b] \o rest,
         UNCHANGED <<program, phase, compiling, result, latest>>,
         value' \in [Vars -> Stored]
  PROVE  TypeOK' /\ LqlInv(T)'
<1>1. program \in Programs
  BY DEF LqlInv
<1>2. /\ todo' \in Seq(T) /\ InOrder(todo')
      /\ \A i \in DOMAIN todo' : \/ h.line < todo'[i].line
                                 \/ \E j \in DOMAIN rest : todo'[i] = rest[j]
  <2>1. \A i \in DOMAIN rest : Leads(h.line, rest[i].line)
    BY DEF Remain
  <2>2. todo' \in Seq(T) /\ Follow(todo', h.line, rest)
    BY <1>1, <2>1, BodyFirst
  <2> QED
    BY <2>2 DEF Follow
<1>3. NotAbove(todo')
  <2>1. ASSUME NEW i \in DOMAIN todo'
        PROVE  \E j \in DOMAIN todo : todo[j].line <= todo'[i].line
    <3>1. todo'[i].line \in Nat
      <4>1. \A k \in 1..Len(todo') : todo'[k].line \in Nat
        BY <1>1, <1>2, ListNumbers
      <4>2. i \in 1..Len(todo')
        BY <1>2, LenProperties
      <4> QED
        BY <4>1, <4>2
    <3>2. CASE h.line < todo'[i].line
      <4>1. 1 \in DOMAIN todo /\ todo[1].line = h.line /\ h.line \in Nat
        BY TodoFirst DEF Act
      <4> QED
        BY <3>1, <3>2, <4>1
    <3>3. CASE \E j \in DOMAIN rest : todo'[i] = rest[j]
      <4>1. PICK k \in DOMAIN todo : todo[k].line = todo'[i].line
        BY <3>3 DEF Remain
      <4>2. todo[k].line <= todo'[i].line
        BY <3>1, <4>1
      <4> QED
        BY <4>2
    <3> QED
      BY <1>2, <3>2, <3>3
  <2> QED
    BY <2>1 DEF NotAbove
<1> QED
  BY <1>2, <1>3, RunStep

LEMMA RestLines ==
  ASSUME NEW S, LqlInv(S), todo # <<>>
  PROVE  Remain(Tail(todo))
BY TodoFirst DEF Remain

LEMMA IfStep ==
  ASSUME NEW S, TypeOK, LqlInv(S), IfAction
  PROVE  TypeOK' /\ LqlInv(S)'
<1>1. /\ phase = "run" /\ todo # <<>>
      /\ UNCHANGED <<program, phase, compiling, value, result, latest>>
  BY DEF IfAction, Do
<1>2. PICK b \in 1..2 : todo' = Act.body[b] \o Tail(todo)
  <2>1. PICK b \in 1..2 : b = IF Lines!Holds(L, ReadsTable(L.left)) THEN 1 ELSE 2
    OBVIOUS
  <2> QED
    BY <2>1 DEF IfAction
<1>3. Act \in S /\ Tail(todo) \in Seq(S) /\ InOrder(Tail(todo))
  BY <1>1, TodoFirst
<1>4. \A a \in S : ActionOK(a, S)
  BY DEF LqlInv
<1>5. value' \in [Vars -> Stored]
  BY <1>1 DEF TypeOK, Stored
<1> QED
  BY <1>1, <1>2, <1>3, <1>4, <1>5, RestLines, BodyStep

\* A loop is around what is in it.
LEMMA LoopLeads ==
  ASSUME NEW l \in Int, Lines!Match(l) \in Int, Lines!Key(l) \in {"WHILE", "FOREACH"}
  PROVE  Leads(l, l)
BY DEF Leads

LEMMA WhileStep ==
  ASSUME NEW S, TypeOK, LqlInv(S), WhileAction
  PROVE  TypeOK' /\ LqlInv(S)'
<1>1. /\ phase = "run" /\ todo # <<>> /\ Lines!Key(Act.line) = "WHILE"
      /\ UNCHANGED <<program, phase, compiling, value, result, latest>>
      /\ todo' = Act.body[1] \o todo \/ todo' = Tail(todo)
  BY DEF WhileAction, Do, Act, Lines!Key
<1>2. Act \in S /\ todo \in Seq(S) /\ InOrder(todo) /\ \A a \in S : ActionOK(a, S)
  BY <1>1, TodoFirst DEF LqlInv, RunInv
<1>3. value' \in [Vars -> Stored]
  BY <1>1 DEF TypeOK, Stored
<1>4. \A i \in DOMAIN todo : Leads(Act.line, todo[i].line)
  <2>1. Leads(Act.line, todo[1].line)
    BY <1>1, TodoFirst, LoopLeads DEF Act
  <2>2. ASSUME NEW i \in DOMAIN todo, i # 1
        PROVE  Leads(Act.line, todo[i].line)
    <3>1. 1 \in DOMAIN todo /\ 1 < i
      BY <1>1, <1>2, <2>2, TodoFirst
    <3> QED
      BY <1>2, <3>1 DEF InOrder, Act
  <2> QED
    BY <2>1, <2>2
<1>5. CASE todo' = Act.body[1] \o todo
  <2>1. Remain(todo)
    BY <1>4 DEF Remain
  <2>2. PICK b \in 1..2 : todo' = Act.body[b] \o todo
    BY <1>5
  <2> QED
    BY <1>1, <1>2, <1>3, <2>1, <2>2, BodyStep
<1>6. CASE todo' = Tail(todo)
  BY <1>1, <1>3, <1>6, RestStep
<1> QED
  BY <1>1, <1>5, <1>6

\* What an operand gives is a value, or null.
LEMMA GivesStored ==
  ASSUME TypeOK, NEW o \in Int \cup Vars \cup Tables, Lines!Readable(o, ReadsTable(o))
  PROVE  Lines!Gives(o, ReadsTable(o)) \in Stored
<1>1. CASE o \in Int
  BY <1>1 DEF Lines!Gives, Lines!Literal, Lines!Values, Lines!Kinds, Stored
<1>2. CASE o \notin Int /\ o \in Vars
  BY <1>2 DEF Lines!Gives, TypeOK, Stored
<1>3. CASE o \notin Int \cup Vars
  <2> DEFINE rows == ReadsTable(o)
  <2>1. o \in Tables /\ rows \notin {None, <<>>}
    BY <1>3 DEF Lines!Readable
  <2>2. rows \in Results \ {None}
    BY <2>1 DEF ReadsTable, TypeOK
  <2>3. rows \in Seq(Seq(Stored) \ {<<>>}) /\ rows # <<>>
    BY <2>1, <2>2, ResultAssumption DEF Stored
  <2>4. Lines!Gives(o, rows) = rows[1][1]
    BY <1>3 DEF Lines!Gives
  <2> HIDE DEF rows
  <2>5. Len(rows) \in Nat /\ Len(rows) # 0
    BY <2>3, EmptySeq, LenProperties
  <2>6. rows[1] \in Seq(Stored) /\ rows[1] # <<>>
    BY <2>3, <2>5, ElementOfSeq
  <2>7. Len(rows[1]) \in Nat /\ Len(rows[1]) # 0
    BY <2>6, EmptySeq, LenProperties
  <2>8. rows[1][1] \in Stored
    BY <2>6, <2>7, ElementOfSeq
  <2> QED
    BY <2>4, <2>8 DEF rows
<1> QED
  BY <1>1, <1>2, <1>3

LEMMA AssignmentStep ==
  ASSUME NEW S, TypeOK, LqlInv(S), AssignmentAction
  PROVE  TypeOK' /\ LqlInv(S)'
<1>1. /\ phase = "run" /\ todo # <<>> /\ todo' = Tail(todo) /\ Lines!Key(Act.line) = "@"
      /\ UNCHANGED <<program, phase, compiling, result, latest>>
      /\ Lines!Readable(L.from, ReadsTable(L.from))
      /\ value' = [value EXCEPT ![L.var] = Lines!Gives(L.from, ReadsTable(L.from))]
  BY DEF AssignmentAction, Do, Act, Lines!Key
<1>2. L.from \in Int \cup Vars \cup Tables
  <2>1. program \in Programs /\ \A a \in S : ActionOK(a, S)
    BY DEF LqlInv
  <2>2. Act.line \in 1..Len(program)
    BY <1>1, <2>1, TodoFirst, ActionNumbers DEF Size
  <2> QED
    BY <1>1, <2>1, <2>2, ProgramLines DEF L
<1>3. PICK y \in Stored : value' = [value EXCEPT ![L.var] = y]
  BY <1>1, <1>2, GivesStored
<1>4. value' \in [Vars -> Stored]
  BY <1>3 DEF TypeOK, Stored
<1> QED
  BY <1>1, <1>4, RestStep

\* A set of numbers of a sequence that is not empty has a greatest element.
LEMMA GreatestPlace ==
  ASSUME NEW n \in Nat, NEW V, V \subseteq 1..n, V # {}
  PROVE  \E i \in V : \A j \in V : j <= i
<1> DEFINE W == {k \in 0..n : n - k \in V}
<1>1. W \subseteq Nat /\ W # {}
  <2>1. PICK i \in V : TRUE
    OBVIOUS
  <2>2. n - i \in 0..n /\ n - (n - i) = i
    BY <2>1
  <2>3. n - i \in W
    BY <2>1, <2>2
  <2>4. W \subseteq Nat
    OBVIOUS
  <2> QED
    BY <2>3, <2>4
<1>2. PICK k \in W : \A l \in W : ~ (<<l, k>> \in OpToRel(<, Nat))
  <2> HIDE DEF W
  <2> QED
    BY <1>1, NatLessThanWellFounded, WFMin
<1>3. ASSUME NEW j \in V
      PROVE  j <= n - k
  <2>1. n - j \in W
    <3>1. n - j \in 0..n /\ n - (n - j) = j
      BY <1>3
    <3> QED
      BY <3>1
  <2>2. n - j \in Nat /\ k \in Nat
    BY <1>1, <2>1
  <2>3. ~ (n - j < k)
    BY <1>2, <2>1, <2>2 DEF OpToRel
  <2>4. j \in Int
    OBVIOUS
  <2> QED
    BY <2>2, <2>3, <2>4
<1>4. n - k \in V
  OBVIOUS
<1> QED
  BY <1>3, <1>4

\* The values of a row are stored, null or not.
LEMMA AssignedType ==
  ASSUME TypeOK, NEW names, NEW row \in Seq(Stored)
  PROVE  Lines!Assigned(names, row) \in [Vars -> Stored]
<1>1. Len(row) \in Nat /\ DOMAIN row = 1..Len(row) /\ \A i \in DOMAIN row : row[i] \in Stored
  BY LenProperties, ElementOfSeq
<1> DEFINE at(v) == {i \in DOMAIN row : names[i] = v}
           last(v) == CHOOSE i \in at(v) : \A j \in at(v) : j <= i
<1>2. ASSUME NEW v \in Vars, at(v) # {}
      PROVE  last(v) \in DOMAIN row
  <2>1. at(v) \subseteq 1..Len(row)
    BY <1>1
  <2> HIDE DEF at
  <2>2. last(v) \in at(v)
    BY <1>1, <1>2, <2>1, GreatestPlace
  <2> QED
    BY <1>1, <2>1, <2>2
<1>3. ASSUME NEW v \in Vars
      PROVE  (IF at(v) = {} THEN value[v] ELSE row[last(v)]) \in Stored
  <2>1. value[v] \in Stored
    BY DEF TypeOK, Stored
  <2>2. at(v) # {} => row[last(v)] \in Stored
    BY <1>1, <1>2
  <2> HIDE DEF at, last
  <2> QED
    BY <2>1, <2>2
<1>4. Lines!Assigned(names, row)
        = [v \in Vars |-> IF at(v) = {} THEN value[v] ELSE row[last(v)]]
  BY DEF Lines!Assigned
<1> HIDE DEF at, last
<1> QED
  BY <1>3, <1>4

\* FOREACH with the rows that are left of it is an action like the others.
LEMMA RowsAction ==
  ASSUME NEW S, program \in Programs, \A a \in S : ActionOK(a, S), NEW h \in S,
         Lines!Key(h.line) = "FOREACH", NEW rows \in AllRows,
         NEW r, r = [line |-> h.line, body |-> h.body, rows |-> rows]
  PROVE  \A a \in S \cup {r} : ActionOK(a, S \cup {r})
<1> DEFINE T == S \cup {r}
<1>1. \A a \in S : ActionOK(a, T)
  BY MoreActions
<1>2. /\ h.line \in 1..Size /\ h.body \in Bodies(T)
      /\ Closes(h.line, Lines!Match(h.line))
      /\ \A b \in 1..2 : Between(h.body[b], h.line, Lines!Match(h.line))
      /\ Lines!Key(h.line) \in Lines!Openers \cup {"@", "QUERY"}
  BY <1>1 DEF ActionOK, Actions
<1> HIDE DEF T
<1>3. r \in Actions(T)
  BY <1>2 DEF Actions
<1>4. r.line = h.line /\ r.body = h.body /\ Rows(r)
  BY DEF Rows
<1>5. ActionOK(r, T)
  BY <1>2, <1>3, <1>4 DEF ActionOK
<1> QED
  BY <1>1, <1>5 DEF T

\* What is left, with the rows of a loop in the place of its action.
LEMMA AgainFirst ==
  ASSUME NEW S, NEW T, S \subseteq T, LqlInv(S), todo # <<>>, NEW r \in T, r.line = Act.line
  PROVE  <<r>> \o Tail(todo) \in Seq(T) /\ Again(<<r>> \o Tail(todo))
<1> DEFINE m == Len(todo)
           rest == Tail(todo)
<1>1. todo \in Seq(S) /\ todo \in Seq(T)
  BY MoreActions DEF LqlInv, RunInv
<1>2. m \in Nat /\ m # 0 /\ DOMAIN todo = 1..m
  BY <1>1, EmptySeq, LenProperties
<1>3. /\ rest \in Seq(T) /\ Len(rest) = m - 1
      /\ \A i \in 1..(m - 1) : rest[i] = todo[i + 1]
  BY <1>1, HeadTailProperties
<1>4. /\ <<r>> \o rest \in Seq(T) /\ Len(<<r>> \o rest) = m
      /\ \A i \in 1..m : (<<r>> \o rest)[i].line = todo[i].line
  <2>1. <<r>> \in Seq(T) /\ Len(<<r>>) = 1 /\ <<r>>[1] = r
    OBVIOUS
  <2>2. /\ <<r>> \o rest \in Seq(T) /\ Len(<<r>> \o rest) = 1 + (m - 1)
        /\ \A i \in 1..(1 + (m - 1)) : (<<r>> \o rest)[i] = IF i <= 1 THEN <<r>>[i] ELSE rest[i - 1]
    BY <1>3, <2>1, ConcatProperties
  <2> HIDE DEF m, rest
  <2>3. ASSUME NEW i \in 1..m
        PROVE  (<<r>> \o rest)[i].line = todo[i].line
    <3>1. CASE i = 1
      BY <1>2, <2>1, <2>2, <3>1 DEF Act
    <3>2. CASE i # 1
      <4>1. i - 1 \in 1..(m - 1) /\ ~(i <= 1) /\ (i - 1) + 1 = i /\ i \in 1..(1 + (m - 1))
        BY <1>2, <3>2
      <4>2. (<<r>> \o rest)[i] = rest[i - 1] /\ rest[i - 1] = todo[i]
        BY <1>3, <2>2, <4>1
      <4> QED
        BY <4>2
    <3> QED
      BY <3>1, <3>2
  <2> QED
    BY <1>2, <2>2, <2>3
<1> QED
  BY <1>2, <1>4 DEF Again

LEMMA AgainOrder ==
  ASSUME NEW S, NEW T, S \subseteq T, LqlInv(S), todo # <<>>, Lines!Key(Act.line) = "FOREACH",
         NEW s \in Seq(T), Again(s)
  PROVE  InOrder(s) /\ Remain(s)
<1>1. todo \in Seq(S) /\ InOrder(todo)
  BY DEF LqlInv, RunInv
<1>2. DOMAIN s = DOMAIN todo /\ DOMAIN todo = 1..Len(todo) /\ Len(todo) \in Nat
  BY <1>1, LenProperties DEF Again
<1>3. InOrder(s)
  BY <1>1, <1>2 DEF InOrder, Again
<1>4. ASSUME NEW i \in DOMAIN todo
      PROVE  Leads(Act.line, todo[i].line)
  <2>1. CASE i = 1
    BY <2>1, TodoFirst, LoopLeads DEF Act
  <2>2. CASE i # 1
    <3>1. 1 \in DOMAIN todo /\ 1 < i
      BY <1>2, <2>2, TodoFirst
    <3> QED
      BY <1>1, <3>1 DEF InOrder, Act
  <2> QED
    BY <2>1, <2>2
<1> QED
  BY <1>2, <1>3, <1>4 DEF Again, Remain

LEMMA ForeachStep ==
  ASSUME NEW S, TypeOK, LqlInv(S), ForeachAction
  PROVE  TypeOK' /\ \E T : LqlInv(T)'
<1> DEFINE r == [line |-> Act.line, body |-> Act.body, rows |-> result[Act.param]]
<1>1. /\ phase = "run" /\ todo # <<>> /\ Lines!Key(Act.line) = "FOREACH" /\ ~Rows(Act)
      /\ result[Act.param] # None
      /\ todo' = <<r>> \o Tail(todo)
      /\ UNCHANGED <<program, phase, compiling, value, result, latest>>
  BY DEF ForeachAction, Loop, Do, Act, Lines!Key, Entry
<1>2. Act \in S /\ ActionOK(Act, S) /\ program \in Programs /\ \A a \in S : ActionOK(a, S)
  BY <1>1, TodoFirst DEF LqlInv
<1>3. Act.param \in DOMAIN program
  <2>1. FoundAt(Act.param, program[Act.line].table, Act.line)
    BY <1>1, <1>2 DEF ActionOK
  <2>2. Act.param # None /\ Act.param \in Lines!Queries(program[Act.line].table)
    BY <2>1 DEF FoundAt, ParamAt
  <2> QED
    BY <1>2, <2>2, ProgramLines DEF Lines!Queries, Lines!Queried, Lines!Size
<1>4. result[Act.param] \in AllRows
  <2>1. result[Act.param] \in Results \ {None}
    BY <1>1, <1>3 DEF TypeOK
  <2> QED
    BY <2>1, ResultAssumption DEF AllRows
<1>0. PICK T : T = S \cup {r}
  OBVIOUS
<1>5. \A a \in T : ActionOK(a, T)
  BY <1>0, <1>1, <1>2, <1>4, RowsAction
<1>6. r \in T /\ S \subseteq T /\ r.line = Act.line
  BY <1>0
<1> HIDE DEF r
<1>7. todo' \in Seq(T) /\ Again(todo')
  BY <1>1, <1>6, AgainFirst
<1>8. InOrder(todo') /\ Remain(todo')
  BY <1>1, <1>6, <1>7, AgainOrder
<1>9. NotAbove(todo')
  <2>1. ASSUME NEW i \in DOMAIN todo'
        PROVE  \E j \in DOMAIN todo : todo[j].line <= todo'[i].line
    <3>1. PICK j \in DOMAIN todo : todo[j].line = todo'[i].line
      BY <1>8 DEF Remain
    <3>2. todo'[i].line \in Nat
      BY <1>2, <1>5, <1>7, ListNumbers
    <3> QED
      BY <3>1, <3>2
  <2> QED
    BY <2>1 DEF NotAbove
<1>10. value' \in [Vars -> Stored]
  BY <1>1 DEF TypeOK, Stored
<1>11. TypeOK' /\ LqlInv(T)'
  BY <1>1, <1>5, <1>6, <1>7, <1>8, <1>9, <1>10, RunStep
<1> QED
  BY <1>11

LEMMA ForeachRowStep ==
  ASSUME NEW S, TypeOK, LqlInv(S), ForeachRow
  PROVE  TypeOK' /\ \E T : LqlInv(T)'
<1> DEFINE r == [line |-> Act.line, body |-> Act.body, rows |-> Tail(Act.rows)]
           rest == <<r>> \o Tail(todo)
<1>1. /\ phase = "run" /\ todo # <<>> /\ Lines!Key(Act.line) = "FOREACH"
      /\ Rows(Act) /\ Act.rows # <<>>
      /\ value' = Lines!Assigned(L.names, Act.rows[1])
      /\ todo' = Act.body[1] \o rest
      /\ UNCHANGED <<program, phase, compiling, result, latest>>
  BY DEF ForeachRow, Loop, Do, Act, Lines!Key, Entry
<1>2. Act \in S /\ ActionOK(Act, S) /\ program \in Programs /\ \A a \in S : ActionOK(a, S)
  BY <1>1, TodoFirst DEF LqlInv
<1>3. Act \in [line : 1..Size, body : Bodies(S), rows : AllRows]
  <2>1. Act \in Actions(S)
    BY <1>2 DEF ActionOK
  <2>2. Act \notin [line : 1..Size, body : Bodies(S), param : Params]
    <3>1. \A A, B, C : \A a \in [line : A, body : B, param : C] : DOMAIN a = {"line", "body", "param"}
      OBVIOUS
    <3>2. "rows" \in DOMAIN Act
      BY <1>1 DEF Rows
    <3> QED
      BY <3>1, <3>2
  <2> QED
    BY <2>1, <2>2 DEF Actions
<1>4. Act.rows \in AllRows /\ Tail(Act.rows) \in AllRows
  <2>1. Act.rows \in AllRows
    BY <1>3
  <2> QED
    BY <1>1, <2>1, HeadTailProperties DEF AllRows
<1>5. value' \in [Vars -> Stored]
  <2>1. Len(Act.rows) \in Nat /\ Len(Act.rows) # 0
    BY <1>1, <1>4, EmptySeq, LenProperties DEF AllRows
  <2>2. Act.rows[1] \in Seq(Stored)
    BY <1>4, <2>1, ElementOfSeq DEF AllRows, Stored
  <2> QED
    BY <1>1, <2>2, AssignedType
<1>6. PICK T : T = S \cup {r}
  OBVIOUS
<1>7. \A a \in T : ActionOK(a, T)
  BY <1>1, <1>2, <1>4, <1>6, RowsAction
<1>8. r \in T /\ S \subseteq T /\ r.line = Act.line /\ r.body = Act.body
  BY <1>6
<1> HIDE DEF r
<1>9. rest \in Seq(T) /\ Again(rest)
  BY <1>1, <1>8, AgainFirst
<1>10. InOrder(rest) /\ Remain(rest)
  BY <1>1, <1>8, <1>9, AgainOrder
<1>11. PICK b \in 1..2 : todo' = r.body[b] \o rest
  <2>1. PICK b \in 1..2 : b = 1
    OBVIOUS
  <2> QED
    BY <1>1, <1>8, <2>1
<1>12. TypeOK' /\ LqlInv(T)'
  <2> HIDE DEF rest
  <2> QED
    BY <1>1, <1>5, <1>7, <1>8, <1>9, <1>10, <1>11, BodyStep
<1> QED
  BY <1>12

LEMMA ForeachEndsStep ==
  ASSUME NEW S, TypeOK, LqlInv(S), ForeachEnds
  PROVE  TypeOK' /\ LqlInv(S)'
<1>1. /\ phase = "run" /\ todo # <<>> /\ todo' = Tail(todo)
      /\ UNCHANGED <<program, phase, compiling, value, result, latest>>
  BY DEF ForeachEnds, Do
<1>2. value' \in [Vars -> Stored]
  BY <1>1 DEF TypeOK, Stored
<1> QED
  BY <1>1, <1>2, RestStep

\* Where no query is repeated, nothing above a query, or around it, follows it.
LEMMA LinesBelow ==
  ASSUME NEW S, LqlInv(S), todo # <<>>, QueriedOnce, Lines!Key(Act.line) = "QUERY"
  PROVE  \A i \in DOMAIN Tail(todo) : Act.line < Tail(todo)[i].line
<1> DEFINE q == Act.line
<1>1. /\ q \in Nat /\ 1 <= q /\ q <= Size /\ Lines!Match(q) \in Int /\ q <= Lines!Match(q)
      /\ program \in Programs /\ \A a \in S : ActionOK(a, S)
  BY TodoFirst, ActionNumbers DEF LqlInv
<1>2. q \in Lines!Queried
  BY <1>1, ProgramLines DEF Lines!Queried, Lines!Size, Size
<1>3. ASSUME NEW i \in DOMAIN Tail(todo)
      PROVE  q < Tail(todo)[i].line
  <2> DEFINE m == Tail(todo)[i].line
  <2>1. Leads(q, m)
    BY TodoFirst
  <2>2. m \in Nat /\ 1 <= m /\ Lines!Match(m) \in Int
    <3>1. Tail(todo) \in Seq(S)
      BY TodoFirst
    <3>2. i \in 1..Len(Tail(todo)) /\ Tail(todo)[i] \in S
      BY <3>1, LenProperties, ElementOfSeq
    <3> QED
      BY <1>1, <3>2, ActionNumbers
  <2> HIDE DEF m, q
  <2>3. ASSUME Lines!Match(q) < m
        PROVE  q < m
    BY <1>1, <2>2, <2>3
  <2>4. CASE Lines!Key(m) \in {"WHILE", "FOREACH"} /\ m <= q /\ Lines!Match(q) <= Lines!Match(m)
    <3>1. m # q
      BY <2>4 DEF q
    <3>2. m \in 1..(q - 1) /\ Lines!Match(m) >= q
      BY <1>1, <2>2, <2>4, <3>1
    <3>3. m \in Lines!Around(q)
      BY <2>4, <3>2, LineKeys DEF Lines!Around
    <3>4. Lines!Key(m) = "IF"
      BY <1>2, <3>3 DEF QueriedOnce, Lines!Key, q
    <3> QED
      BY <2>4, <3>4
  <2> QED
    BY <2>1, <2>3, <2>4 DEF Leads, m, q
<1> QED
  BY <1>3

LEMMA StoredType ==
  ASSUME NEW A, NEW B, NEW f \in [A -> B], NEW x, NEW y \in B, NEW g, g = [f EXCEPT ![x] = y]
  PROVE  g \in [A -> B]
OBVIOUS

\* A query stores in its own Param, which is then the last of its name.
LEMMA StoreStep ==
  ASSUME NEW S, TypeOK, LqlInv(S), phase = "run", todo # <<>>, Lines!Key(Act.line) = "QUERY",
         NEW q, q = Act.line, NEW into \in Tables, q \in Lines!Queries(into),
         todo' = Tail(todo), NEW r \in Results,
         result' = [result EXCEPT ![q] = r], latest' = [latest EXCEPT ![into] = q],
         UNCHANGED <<program, phase, compiling, value>>
  PROVE  TypeOK' /\ LqlInv(S)'
<1>1. /\ program \in Programs /\ \A a \in S : ActionOK(a, S) /\ ActionOK(Act, S)
      /\ Tail(todo) \in Seq(S) /\ InOrder(Tail(todo))
  BY TodoFirst DEF LqlInv
<1>2. Size \in Nat /\ DOMAIN program = 1..Size /\ q \in 1..Size
  <2>1. q \in Nat /\ 1 <= q /\ q <= Size
    BY <1>1, TodoFirst, ActionNumbers
  <2> QED
    BY <1>1, <2>1, ProgramLines DEF Size
<1>3. into \in Tables /\ q \in Lines!Queried /\ program[q].into = into
  BY DEF Lines!Queries
<1>7. TypeOK'
  <2>0. /\ result \in [DOMAIN program -> Results \cup {None}]
        /\ latest \in [Tables -> DOMAIN program \cup {None}]
    BY DEF TypeOK
  <2>1. result' \in [DOMAIN program -> Results \cup {None}]
    BY <2>0, StoredType
  <2>2. q \in DOMAIN program
    BY <1>2
  <2>3. latest' \in [Tables -> DOMAIN program \cup {None}]
    BY <2>0, <2>2, StoredType
  <2> QED
    BY <2>1, <2>3 DEF TypeOK, compiling
<1>8. CompileInv(S)' /\ \A a \in S : ActionOK(a, S)'
  BY <1>1, SameCompiled, SameActions
<1>9. RunInv(S)'
  BY <1>1, SamePlaces DEF RunInv, InOrder
<1>10. PhaseInv'
  BY DEF LqlInv, PhaseInv, compiling, Size
<1>11. HistoryInv'
  <2> SUFFICES ASSUME QueriedOnce
               PROVE  /\ \A t \in Tables : latest'[t] # None =>
                           /\ latest'[t] \in Lines!Queries(t)
                           /\ \A i \in DOMAIN todo' : latest'[t] < todo'[i].line
                      /\ \A p \in DOMAIN program : result'[p] # None =>
                           /\ p \in Lines!Queried /\ program[p].into \in Tables
                           /\ latest'[program[p].into] # None /\ p <= latest'[program[p].into]
    BY SamePlaces, SameLines DEF HistoryInv
  <2>1. /\ \A t \in Tables : latest[t] # None =>
             /\ latest[t] \in Lines!Queries(t)
             /\ \A i \in DOMAIN todo : latest[t] < todo[i].line
        /\ \A p \in DOMAIN program : result[p] # None =>
             /\ p \in Lines!Queried /\ program[p].into \in Tables
             /\ latest[program[p].into] # None /\ p <= latest[program[p].into]
    BY DEF LqlInv, HistoryInv
  <2>2. /\ latest'[into] = q
        /\ \A t \in Tables : t # into => latest'[t] = latest[t]
        /\ \A p \in DOMAIN program : p # q => result'[p] = result[p]
    BY DEF TypeOK
  <2>3. ASSUME NEW t \in Tables, latest'[t] # None
        PROVE  /\ latest'[t] \in Lines!Queries(t)
               /\ \A i \in DOMAIN todo' : latest'[t] < todo'[i].line
    <3>1. CASE t = into
      <4>1. \A i \in DOMAIN Tail(todo) : q < Tail(todo)[i].line
        BY LinesBelow
      <4> QED
        BY <2>2, <3>1, <4>1
    <3>2. CASE t # into
      <4>1. \A i \in DOMAIN Tail(todo) : i + 1 \in DOMAIN todo /\ Tail(todo)[i] = todo[i + 1]
        BY TodoFirst
      <4> QED
        BY <2>1, <2>2, <2>3, <3>2, <4>1
    <3> QED
      BY <3>1, <3>2
  <2>4. ASSUME NEW p \in DOMAIN program, result'[p] # None
        PROVE  /\ p \in Lines!Queried /\ program[p].into \in Tables
               /\ latest'[program[p].into] # None /\ p <= latest'[program[p].into]
    <3>1. q # None
      BY <1>2
    <3>2. CASE p = q
      BY <1>2, <1>3, <2>2, <3>1, <3>2
    <3>3. CASE p # q /\ program[p].into # into
      BY <2>1, <2>2, <2>4, <3>3
    <3>4. CASE p # q /\ program[p].into = into
      <4>1. /\ p \in Lines!Queried /\ latest[into] # None /\ p <= latest[into]
        BY <2>1, <2>2, <2>4, <3>4
      <4>2. latest[into] < q
        BY <1>3, <2>1, <4>1, TodoFirst DEF Act
      <4>3. p \in Int /\ latest[into] \in Int /\ q \in Int
        BY <1>2, <1>3, <4>1 DEF TypeOK
      <4> QED
        BY <1>3, <2>2, <3>1, <3>4, <4>1, <4>2, <4>3
    <3> QED
      BY <3>2, <3>3, <3>4
  <2> QED
    BY <2>3, <2>4
<1> QED
  BY <1>1, <1>7, <1>8, <1>9, <1>10, <1>11 DEF LqlInv

\* paramChage changes nothing but the SQL.
LEMMA ChageStep ==
  ASSUME NEW S, TypeOK, LqlInv(S),
         UNCHANGED <<program, phase, compiling, value, result, latest, todo>>
  PROVE  TypeOK' /\ LqlInv(S)'
<1>2. TypeOK'
  BY DEF TypeOK, compiling
<1>3. CompileInv(S)' /\ \A a \in S : ActionOK(a, S)'
  BY SameCompiled, SameActions DEF LqlInv
<1>4. RunInv(S)'
  BY SamePlaces DEF LqlInv, RunInv, InOrder
<1>5. PhaseInv'
  BY DEF LqlInv, PhaseInv, compiling, Size
<1>6. HistoryInv'
  BY SamePlaces, SameLines DEF LqlInv, HistoryInv
<1> QED
  BY <1>2, <1>3, <1>4, <1>5, <1>6 DEF LqlInv

LEMMA QueryStep ==
  ASSUME NEW S, TypeOK, LqlInv(S), QueryAction
  PROVE  TypeOK' /\ LqlInv(S)'
<1>1. /\ phase = "run" /\ todo # <<>> /\ Lines!Key(Act.line) = "QUERY" /\ todo' = Tail(todo)
      /\ UNCHANGED <<program, phase, compiling, value>>
  BY DEF QueryAction, Changing, Do, Act, Lines!Key
<1>2. CASE L.into = None
  <2>1. UNCHANGED <<result, latest>>
    BY <1>2 DEF QueryAction
  <2>2. value' \in [Vars -> Stored]
    BY <1>1 DEF TypeOK, Stored
  <2> QED
    BY <1>1, <2>1, <2>2, RestStep
<1>3. CASE L.into # None
  <2>1. PICK r \in Results : /\ result' = [result EXCEPT ![Act.param] = r]
                             /\ latest' = [latest EXCEPT ![L.into] = Act.param]
    BY <1>3 DEF QueryAction
  <2>2. ActionOK(Act, S) /\ program \in Programs
    BY <1>1, TodoFirst DEF LqlInv
  <2>3. Act.line \in 1..Size /\ Size = Len(program)
    BY <2>2, ActionNumbers DEF Size
  <2>4. Act.param = Act.line
    BY <1>1, <1>3, <2>2, LineKeys DEF ActionOK, L
  <2>5. L.into \in Tables
    BY <1>1, <1>3, <2>2, <2>3, ProgramLines DEF L
  <2>6. Act.line \in Lines!Queries(L.into)
    BY <1>1, <2>3 DEF Lines!Queries, Lines!Queried, Lines!Size, L
  <2>7. PICK q, into : q = Act.line /\ into = L.into
    OBVIOUS
  <2>8. result' = [result EXCEPT ![q] = r] /\ latest' = [latest EXCEPT ![into] = q]
    BY <2>1, <2>4, <2>7
  <2> QED
    BY <1>1, <2>5, <2>6, <2>7, <2>8, StoreStep
<1> QED
  BY <1>2, <1>3

-----------------------------------------------------------------------------
(* The invariant and the theorems. *)

TreeInv == TypeOK /\ \E S : LqlInv(S)

LEMMA InitTree == Init => TreeInv
<1> SUFFICES ASSUME Init
             PROVE  TreeInv
  OBVIOUS
<1>1. /\ program \in Programs /\ phase = "compile" /\ pos = 1
      /\ open = <<>> /\ actions = <<>> /\ todo = <<>>
      /\ \A t \in Tables : paramMap[t] = None /\ latest[t] = None
      /\ \A i \in DOMAIN program : result[i] = None
  BY DEF Init
<1>2. Len(program) \in Nat /\ DOMAIN program = 1..Len(program)
  BY <1>1, ProgramLines
<1>3. DOMAIN open = {} /\ DOMAIN actions = {} /\ DOMAIN todo = {}
  BY <1>1
<1>4. TypeOK
  <2>1. /\ value \in [Vars -> Stored]
        /\ paramMap \in [Tables -> DOMAIN program \cup {None}]
        /\ latest \in [Tables -> DOMAIN program \cup {None}]
        /\ result \in [DOMAIN program -> Results \cup {None}]
    BY DEF Init, Stored
  <2>2. pos \in 1..(Len(program) + 1)
    BY <1>1, <1>2
  <2> QED
    BY <1>1, <1>3, <2>1, <2>2 DEF TypeOK, Stored
<1>5. CompileInv({})
  <2>1. open \in Seq(Calls({})) /\ actions \in Seq({})
    BY <1>1, EmptySeq
  <2>2. ASSUME NEW t \in Tables
        PROVE  ParamAt(paramMap[t], t, pos)
    <3>1. \A q \in Lines!Queries(t) : ~(q < 1)
      BY <1>2 DEF Lines!Queries, Lines!Queried, Lines!Size
    <3> QED
      BY <1>1, <3>1 DEF ParamAt
  <2>3. Between(actions, 0, Reached(open, Len(open) + 1, pos))
    BY <1>3 DEF Between
  <2> QED
    BY <1>3, <2>1, <2>2, <2>3 DEF CompileInv
<1>6. RunInv({})
  BY <1>1, <1>3, EmptySeq DEF RunInv, InOrder
<1>7. PhaseInv /\ HistoryInv
  BY <1>1 DEF PhaseInv, HistoryInv
<1>8. LqlInv({})
  BY <1>1, <1>5, <1>6, <1>7 DEF LqlInv
<1> QED
  BY <1>4, <1>8 DEF TreeInv

LEMMA StepTree == TreeInv /\ [Step]_vars => TreeInv'
<1> SUFFICES ASSUME TreeInv, [Step]_vars
             PROVE  TreeInv'
  OBVIOUS
<1>1. PICK S : LqlInv(S)
  BY DEF TreeInv
<1>2. TypeOK
  BY DEF TreeInv
<1>3. TypeOK' /\ \E T : LqlInv(T)'
  <2>1. CASE ReadLine
    BY <1>1, <1>2, <2>1, ReadLineStep
  <2>2. CASE Reject \/ Throw \/ Done
    BY <1>1, <1>2, <2>2, PhaseStep
  <2>3. CASE Compiled
    BY <1>1, <1>2, <2>3, CompiledStep
  <2>4. CASE IfAction
    BY <1>1, <1>2, <2>4, IfStep
  <2>5. CASE WhileAction
    BY <1>1, <1>2, <2>5, WhileStep
  <2>6. CASE AssignmentAction
    BY <1>1, <1>2, <2>6, AssignmentStep
  <2>7. CASE QueryAction
    BY <1>1, <1>2, <2>7, QueryStep
  <2>8. CASE ForeachAction
    BY <1>1, <1>2, <2>8, ForeachStep
  <2>9. CASE ForeachRow
    BY <1>1, <1>2, <2>9, ForeachRowStep
  <2>10. CASE ForeachEnds
    BY <1>1, <1>2, <2>10, ForeachEndsStep
  <2>11. CASE UNCHANGED vars
    <3>1. UNCHANGED <<program, phase, compiling, value, result, latest, todo>>
      BY <2>11 DEF vars, running
    <3> QED
      BY <1>1, <1>2, <3>1, ChageStep
  <2>12. CASE ParamChage \/ ChageName
    <3>1. UNCHANGED <<program, phase, compiling, value, result, latest, todo>>
      BY <2>12 DEF ParamChage, ChageName
    <3> QED
      BY <1>1, <1>2, <3>1, ChageStep
  <2> QED
    BY <2>1, <2>2, <2>3, <2>4, <2>5, <2>6, <2>7, <2>8, <2>9, <2>10, <2>11, <2>12
       DEF Step
<1> QED
  BY <1>3 DEF TreeInv

LEMMA TreeCorrect == Spec => []TreeInv
BY InitTree, StepTree, PTL DEF Spec

\* The last that was stored under a name is the result of the last query above
\* some line, once that one has a result.
LEMMA LastStored ==
  ASSUME NEW S, TypeOK, LqlInv(S), phase = "run", QueriedOnce, NEW t \in Tables, NEW l \in Int,
         NEW p, FoundAt(p, t, l), latest[t] # None => latest[t] < l
  PROVE  result[p] \in {None, table[t]}
<1>1. /\ p \in Lines!Queries(t) /\ \A q \in Lines!Queries(t) : q < l => q <= p
  BY DEF FoundAt, ParamAt
<1>2. /\ p \in DOMAIN program /\ p \in Int /\ program[p].into = t
      /\ \A q \in Lines!Queries(t) : q \in Int
  BY <1>1, ProgramLines DEF LqlInv, Lines!Queries, Lines!Queried, Lines!Size
<1>3. ASSUME result[p] # None
      PROVE  latest[t] = p
  <2>1. latest[t] # None /\ p <= latest[t]
    BY <1>2, <1>3 DEF LqlInv, HistoryInv
  <2>2. latest[t] \in Lines!Queries(t)
    BY <2>1 DEF LqlInv, HistoryInv
  <2> QED
    BY <1>1, <1>2, <2>1, <2>2
<1>4. CASE result[p] = None
  BY <1>4
<1>5. CASE result[p] # None
  <2>1. latest[t] = p /\ p # None
    BY <1>3, <1>5 DEF FoundAt
  <2> QED
    BY <2>1 DEF table
<1> QED
  BY <1>4, <1>5

LEMMA TreeNeverOlder == TreeInv => NeverOlder
<1> SUFFICES ASSUME TreeInv, phase = "run", QueriedOnce
             PROVE  /\ \A t \in Tables : ReadsTable(t) \in {None, table[t]}
                    /\ Do("FOREACH") /\ Entry => result[Act.param] \in {None, table[L.table]}
  BY DEF NeverOlder
<1>1. PICK S : LqlInv(S)
  BY DEF TreeInv
<1>2. TypeOK
  BY DEF TreeInv
<1>3. Size \in Nat /\ DOMAIN program = 1..Size /\ pos = Size + 1 /\ pos \in Int
  BY <1>1, <1>2, CompileNumbers DEF LqlInv, PhaseInv
<1>4. ASSUME NEW t \in Tables
      PROVE  ReadsTable(t) \in {None, table[t]}
  <2>1. CASE paramMap[t] = None
    BY <2>1 DEF ReadsTable
  <2>2. CASE paramMap[t] # None
    <3>1. FoundAt(paramMap[t], t, pos)
      BY <1>1, <2>2 DEF LqlInv, CompileInv, FoundAt
    <3>2. latest[t] # None => latest[t] < pos
      BY <1>2, <1>3 DEF TypeOK
    <3>3. result[paramMap[t]] \in {None, table[t]}
      BY <1>1, <1>2, <1>3, <3>1, <3>2, LastStored
    <3> QED
      BY <2>2, <3>3 DEF ReadsTable
  <2> QED
    BY <2>1, <2>2
<1>5. ASSUME Do("FOREACH"), Entry
      PROVE  result[Act.param] \in {None, table[L.table]}
  <2>1. todo # <<>> /\ Lines!Key(Act.line) = "FOREACH" /\ ~Rows(Act)
    BY <1>5 DEF Do, Entry, Act, Lines!Key
  <2>2. ActionOK(Act, S) /\ Act.line \in Nat /\ 1 \in DOMAIN todo /\ program \in Programs
    BY <1>1, <2>1, TodoFirst DEF LqlInv
  <2>3. FoundAt(Act.param, L.table, Act.line)
    BY <2>1, <2>2 DEF ActionOK, L
  <2>4. L.table \in Tables
    <3>1. Act.line \in 1..Len(program)
      BY <2>2, ActionNumbers, <1>3 DEF Size
    <3> QED
      BY <2>1, <2>2, <3>1, ProgramLines DEF L
  <2>5. latest[L.table] # None => latest[L.table] < Act.line
    BY <1>1, <2>2, <2>4 DEF LqlInv, HistoryInv, Act
  <2> QED
    BY <1>1, <1>2, <2>2, <2>3, <2>4, <2>5, LastStored
<1> QED
  BY <1>4, <1>5

\* The types of the state: in particular the calls of putAction under way began
\* with lines already read, the inner after the outer, and only an IF has a second
\* branch.
THEOREM TypeCorrect == Spec => []TypeOK
BY TreeCorrect, PTL DEF TreeInv

\* Where no query is repeated, a name never gives an older result than the last
\* one stored under it: neither to an assignment, which looks the name up in
\* paramMap when it is executed, nor to a FOREACH, which looked it up when it was
\* compiled.
THEOREM NeverOlderCorrect == Spec => []NeverOlder
BY TreeCorrect, TreeNeverOlder, PTL
=============================================================================
