------------------------------ MODULE LqlLines ------------------------------
(***************************************************************************)
(* What the lines of an LQL program mean: the interpreter goes from line   *)
(* to line, and a name of a table is the result of the last query that     *)
(* stored one under it.  cube/README.md describes assignments, IF, QUERY   *)
(* and FOREACH; ELSE, WHILE and what is malformed are as Compile has them. *)
(*                                                                         *)
(* A QUERY line stands for all lines up to its ENDQUERY.  Conditions       *)
(* compare a variable or a column with 1, a column of a table is the first *)
(* of its first row.                                                       *)
(***************************************************************************)
EXTENDS Integers, Sequences, FiniteSets

CONSTANTS
  Programs,   \* sequences of lines
  Vars,       \* variables declared under [PARAM]
  Prefix,     \* pairs of variables, the name of one beginning with that of the other
  Tables,     \* names QUERY stores a result under
  Results,    \* what a query may return: sequences of rows, or None for null
  None

VARIABLES
  program,
  phase,     \* "compile", "run", "done", "rejected" or "threw"
  pc,        \* the line to be executed next
  loops,     \* the FOREACH loops under way: their lines and the rows left
  value,     \* of each variable
  table,     \* the result stored last under each name
  sent       \* the values put in the SQL that was sent last

vars == <<program, phase, pc, loops, value, table, sent>>

-----------------------------------------------------------------------------
(* Values and conditions. *)

\* The text of an integer, an integer, the text of a name that begins with @ (x is
\* the variable of that name, if any), or anything else.  None is null.
Kinds  == {"text", "int", "name", "other"}
Values == [x : Int \cup Vars \cup {None}, kind : Kinds]
Literal(n) == [x |-> n, kind |-> "text"]

\* The value has the name of a variable in it, or of none.
Names(x) == x # None /\ x.kind = "name"

\* An operand is a literal, a variable, or a table, whose result is r, and of which
\* the first column of the first row is meant.
Readable(o, r) == o \in Tables => r \notin {None, <<>>}
Gives(o, r) == IF o \in Int THEN Literal(o) ELSE IF o \in Vars THEN value[o] ELSE r[1][1]

\* The condition `left op 1' can be evaluated: the operand has a value, the operator
\* is known, and > finds an integer or the text of one.
Known(l, r) ==
  /\ Readable(l.left, r)
  /\ LET x == Gives(l.left, r)
     IN  /\ x # None
         /\ l.op \in {"==", "!="} \/ (l.op = ">" /\ x.kind \in {"text", "int"})

\* == compares texts; != compares objects, so that it holds of every integer.
Holds(l, r) ==
  LET x == Gives(l.left, r)
  IN  \/ l.op = "==" /\ x.kind \in {"text", "int"} /\ x.x = 1
      \/ l.op = "!=" /\ ~(x.kind = "text" /\ x.x = 1)
      \/ l.op = ">" /\ x.x > 1

\* The values of a row go to the variables of a FOREACH, the last to one named twice.
Assigned(names, row) ==
  [v \in Vars |->
    LET at == {i \in DOMAIN row : names[i] = v}
    IN  IF at = {} THEN value[v] ELSE row[CHOOSE i \in at : \A j \in at : j <= i]]

-----------------------------------------------------------------------------
(* The structure of a program. *)

Openers == {"IF", "WHILE", "FOREACH"}
End == [k \in Openers |-> CASE k = "IF" -> "ENDIF" [] k = "WHILE" -> "ENDWHILE" [] OTHER -> "ENDFOREACH"]
Closers == {End[k] : k \in Openers}
Size   == Len(program)
Key(i) == program[i].key

Depth(i, j) == Cardinality({k \in i..j : Key(k) \in Openers})
                 - Cardinality({k \in i..j : Key(k) \in Closers})

\* The line that ends the block that line i begins.
Match(i) == CHOOSE j \in i..Size : Depth(i, j) = 0 /\ \A k \in i..(j - 1) : Depth(i, k) > 0

\* The lines that begin blocks around line k, and the innermost one.
Around(k) == {i \in 1..(k - 1) : Key(i) \in Openers /\ Match(i) >= k}
Block(k)  == CHOOSE i \in Around(k) : \A j \in Around(k) : j <= i

\* The branches of an IF: the second begins at its first ELSE.
Elses(i) == {k \in i..Match(i) : Key(k) = "ELSE" /\ Block(k) = i}
Else(i)  == IF Elses(i) = {} THEN Match(i) ELSE CHOOSE k \in Elses(i) : \A j \in Elses(i) : k <= j

\* Line j is in the other branch of an IF that has line i in the first.
Passed(i, j) == \E b \in Around(i) : Key(b) = "IF" /\ i <= Else(b) /\ j \in Else(b)..Match(b)

\* Where control goes that comes to line i.
Land(i) ==
  LET stops == {j \in i..Size : Key(j) \notin {"ELSE", "ENDIF"} /\ ~Passed(i, j)}
      j == CHOOSE k \in stops : \A l \in stops : k <= l
  IN  IF stops = {} THEN Size + 1
      ELSE IF Key(j) \in {"ENDWHILE", "ENDFOREACH"} THEN Block(j) ELSE j

\* The queries that store under a name.
Queried    == {q \in 1..Size : Key(q) = "QUERY"}
Queries(t) == {q \in Queried : program[q].into = t}

\* Every block ends; an ELSE is followed by an action; a FOREACH names a table that
\* a query above it stores.
WellFormed ==
  /\ \A i \in 1..Size : Key(i) # "OTHER" /\ (Key(i) = "QUERY" => program[i].ended)
  /\ \A j \in 1..Size : Depth(1, j) >= 0
  /\ Depth(1, Size) = 0
  /\ \A i \in 1..Size :
       /\ Key(i) \in Openers => Key(Match(i)) = End[Key(i)]
       /\ Key(i) = "ELSE" => /\ Around(i) # {} /\ Key(Block(i)) = "IF"
                             /\ Key(i + 1) \notin Closers \cup {"ELSE"}
       /\ Key(i) = "FOREACH" => \E q \in Queries(program[i].table) : q < i

\* cube/README.md:23-26 writes FOREACH with nothing but the name of a table, which
\* Compile does not take: it has to name variables.
Unsupported == \E i \in 1..Size : Key(i) = "FOREACH" /\ program[i].names = <<>>

-----------------------------------------------------------------------------
(* Execution. *)

At(k) == phase = "run" /\ pc <= Size /\ Key(pc) = k
Line  == program[pc]
Goes(i) == pc' = Land(i)

\* What a table may mean: its last result.  Where several queries store under the
\* name this specification does not say which of them is meant.
Meant(t) == IF t \in Tables /\ Cardinality(Queries(t)) > 1 THEN Results \cup {None}
            ELSE {IF t \in Tables THEN table[t] ELSE None}

\* A program that is not well formed is rejected before any of it is executed.
Reads ==
  /\ phase = "compile"
  /\ \/ WellFormed /\ phase' = "run" /\ Goes(1)
     \/ (~WellFormed \/ Unsupported) /\ phase' = "rejected" /\ UNCHANGED pc
  /\ UNCHANGED <<program, loops, value, table, sent>>

If ==
  /\ At("IF")
  /\ \E r \in Meant(Line.left) : /\ Known(Line, r)
                                 /\ Goes(IF Holds(Line, r) THEN pc + 1 ELSE Else(pc) + 1)
  /\ UNCHANGED <<program, phase, loops, value, table, sent>>

While ==
  /\ At("WHILE")
  /\ \E r \in Meant(Line.left) : /\ Known(Line, r)
                                 /\ Goes(IF Holds(Line, r) THEN pc + 1 ELSE Match(pc) + 1)
  /\ UNCHANGED <<program, phase, loops, value, table, sent>>

\* A variable gets a literal, a copy of another, or a column, be it null.
Assignment ==
  /\ At("@")
  /\ \E r \in Meant(Line.from) : /\ Readable(Line.from, r)
                                 /\ value' = [value EXCEPT ![Line.var] = Gives(Line.from, r)]
  /\ Goes(pc + 1)
  /\ UNCHANGED <<program, phase, loops, table, sent>>

\* Every variable the SQL mentions is replaced by its value.  This specification
\* does not say what becomes of one whose name begins with that of one mentioned
\* before it, nor of an SQL in which a value puts a name.
Replaces(sql) ==
  /\ sent' \in [DOMAIN sql -> {value[v] : v \in Vars}]
  /\ (\A i \in DOMAIN sql : ~Names(value[sql[i]])) =>
       \A i \in DOMAIN sql :
         (\A j \in 1..(i - 1) : <<sql[j], sql[i]>> \in Prefix => sql[j] = sql[i])
           => sent'[i] = value[sql[i]]

Query ==
  /\ At("QUERY")
  /\ Replaces(Line.sql)
  /\ \E r \in Results : table' = [t \in Tables |-> IF t = Line.into THEN r ELSE table[t]]
  /\ Goes(pc + 1)
  /\ UNCHANGED <<program, phase, loops, value>>

Looping == loops # <<>> /\ Head(loops).line = pc

\* FOREACH goes through the rows its table has now.
Foreach ==
  /\ At("FOREACH") /\ ~Looping
  /\ \E r \in Meant(Line.table) \ {None} : loops' = <<[line |-> pc, rows |-> r]>> \o loops
  /\ UNCHANGED <<program, phase, pc, value, table, sent>>

\* The next row.  It may have fewer columns than there are variables.
Row ==
  /\ At("FOREACH") /\ Looping /\ Head(loops).rows # <<>>
  /\ LET rows == Head(loops).rows
     IN  /\ Len(rows[1]) <= Len(Line.names)
         /\ value' = Assigned(Line.names, rows[1])
         /\ loops' = [loops EXCEPT ![1].rows = Tail(rows)]
  /\ Goes(pc + 1)
  /\ UNCHANGED <<program, phase, table, sent>>

NoRow ==
  /\ At("FOREACH") /\ Looping /\ Head(loops).rows = <<>>
  /\ loops' = Tail(loops)
  /\ Goes(Match(pc) + 1)
  /\ UNCHANGED <<program, phase, value, table, sent>>

\* The program ends with an exception.  Only these lines may.
Throws ==
  /\ phase = "run" /\ pc <= Size
  /\ \/ Key(pc) \in {"IF", "WHILE"} /\ \E r \in Meant(Line.left) : ~Known(Line, r)
     \/ Key(pc) = "@" /\ \E r \in Meant(Line.from) : ~Readable(Line.from, r)
     \/ Key(pc) = "QUERY"
     \/ Key(pc) = "FOREACH" /\ ~Looping /\ None \in Meant(Line.table)
     \/ /\ Key(pc) = "FOREACH" /\ Looping /\ Head(loops).rows # <<>>
        /\ Len(Head(loops).rows[1]) > Len(Line.names)
  /\ phase' = "threw"
  /\ UNCHANGED <<program, pc, loops, value, table, sent>>

Done ==
  /\ phase = "run" /\ pc > Size
  /\ phase' = "done"
  /\ UNCHANGED <<program, pc, loops, value, table, sent>>

Init ==
  /\ program \in Programs
  /\ phase = "compile" /\ pc = 0 /\ loops = <<>>
  /\ value = [v \in Vars |-> None]
  /\ table = [t \in Tables |-> None]
  /\ sent = <<>>

Next == \/ Reads \/ If \/ While \/ Assignment \/ Query
        \/ Foreach \/ Row \/ NoRow \/ Throws \/ Done

Spec == Init /\ [][Next]_vars
=============================================================================
