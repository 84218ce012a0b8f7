-------------------------------- MODULE Lql ---------------------------------
(***************************************************************************)
(* cube/.../lql: Compile reads a program line by line and builds a tree of *)
(* actions; Analyize executes it.  What an action names is looked up       *)
(* partly when it is compiled (the variables it assigns, the table of a    *)
(* FOREACH, where a QUERY stores) and partly when it is executed (the      *)
(* tables and variables it reads).                                         *)
(*                                                                         *)
(* A table's Param is named by the line of the QUERY that created it.      *)
(***************************************************************************)
EXTENDS Integers, Sequences, FiniteSets

CONSTANTS
  Programs, Vars, Prefix, Tables, Results, None,   \* as in LqlLines
  Strings                                          \* the variables of type string

\* A program is a sequence of lines, which name tables.
ASSUME ProgramAssumption ==
  \A p \in Programs :
    /\ p \in Seq({p[i] : i \in DOMAIN p})
    /\ \A i \in DOMAIN p : /\ p[i].key = "QUERY" => p[i].into \in Tables \cup {None}
                           /\ p[i].key = "FOREACH" => p[i].table \in Tables
                           /\ p[i].key = "@" => p[i].from \in Int \cup Vars \cup Tables
ASSUME NoneAssumption == None \notin Tables \cup Int
ASSUME StringAssumption == Strings \subseteq Vars
ASSUME PrefixAssumption == Prefix \subseteq Vars \X Vars /\ \A v \in Vars : <<v, v>> \in Prefix

VARIABLES
  program, phase, value, sent,
  pos,        \* readLien: the line read next
  open,       \* the calls of putAction under way, the innermost first
  actions,    \* exe: the actions compiled,
  paramMap,   \*   and the Params of tables by name
  result,     \* the value of each table's Param
  todo,       \* doAnalyize: what is left to be done
  chage,      \* paramChage: the names and texts of the SQL under change
  latest      \* history: the Param last stored to under each name

compiling == <<pos, open, actions, paramMap>>
running   == <<value, sent, result, todo, chage, latest>>
vars == <<program, phase, compiling, running>>

table == [t \in Tables |-> IF latest[t] = None THEN None ELSE result[latest[t]]]
pc == IF phase \in {"compile", "rejected"} THEN 0
      ELSE IF todo = <<>> THEN Len(program) + 1 ELSE todo[1].line
Rows(a) == "rows" \in DOMAIN a
loops == LET l == SelectSeq(todo, Rows)
         IN  [i \in DOMAIN l |-> [line |-> l[i].line, rows |-> l[i].rows]]

\* Values, conditions and the assignment of a row are those of LqlLines.
Lines == INSTANCE LqlLines

\* A result is rows of columns.
ASSUME ResultAssumption == Results \ {None} \subseteq Seq(Seq(Lines!Values \cup {None}) \ {<<>>})

-----------------------------------------------------------------------------
(* Compile.putAction.  Each call under way has the line it began with, the *)
(* actions of its branches, and, for an IF, the branch it adds to.         *)

Reading == phase = "compile" /\ pos <= Len(program)
Lien   == program[pos]
In(k)   == open # <<>> /\ program[open[1].line].key = k

\* After an ELSE the next line is compiled, whatever it is.
MustAct == open # <<>> /\ open[1].must

\* Mutant of Put: always to the first branch.
PutFirst(a, calls) ==
  IF calls = <<>> THEN open' = calls /\ actions' = Append(actions, a)
  ELSE /\ open' = [calls EXCEPT ![1].body[1] = Append(@, a), ![1].must = FALSE]
       /\ UNCHANGED actions

\* An action that is complete goes to the call around it, or to the Exe.
Put(a, calls) ==
  IF calls = <<>> THEN open' = calls /\ actions' = Append(actions, a)
  ELSE /\ open' = [calls EXCEPT ![1].body[calls[1].branch] = Append(@, a), ![1].must = FALSE]
       /\ UNCHANGED actions

Begins(param) ==
  /\ open' = <<[line |-> pos, body |-> <<<<>>, <<>>>>, param |-> param,
                branch |-> 1, must |-> FALSE]>> \o open
  /\ UNCHANGED <<actions, paramMap>>

BeginsIf    == Lien.key = "IF" /\ Begins(None)
BeginsWhile == Lien.key = "WHILE" /\ Begins(None)

\* FOREACH finds the Param of its table now, and must name a variable.
BeginsForeach ==
  /\ Lien.key = "FOREACH"
  /\ paramMap[Lien.table] # None /\ Lien.names # <<>>
  /\ Begins(paramMap[Lien.table])

\* Mutant of TurnsElse: within any block.
TurnsElseAnywhere ==
  /\ Lien.key = "ELSE" /\ open # <<>> /\ ~MustAct
  /\ open' = [open EXCEPT ![1].branch = 2, ![1].must = TRUE]
  /\ UNCHANGED <<actions, paramMap>>

TurnsElse ==
  /\ Lien.key = "ELSE" /\ In("IF") /\ ~MustAct
  /\ open' = [open EXCEPT ![1].branch = 2, ![1].must = TRUE]
  /\ UNCHANGED <<actions, paramMap>>

EndsBlock == \E k \in Lines!Openers : In(k) /\ Lien.key = Lines!End[k]

Ends ==
  /\ EndsBlock /\ ~MustAct
  /\ LET c == open[1]
     IN  Put([line |-> c.line, body |-> c.body, param |-> c.param], Tail(open))
  /\ UNCHANGED paramMap

Leaf(param) == Put([line |-> pos, body |-> <<<<>>, <<>>>>, param |-> param], open)

Assigns == Lien.key = "@" /\ Leaf(None) /\ UNCHANGED paramMap

\* Mutant of Queries: the first Param keeps the name.
QueriesOnce ==
  /\ Lien.key = "QUERY" /\ Lien.ended
  /\ IF Lien.into = None
     THEN Leaf(None) /\ UNCHANGED paramMap
     ELSE Leaf(pos) /\ paramMap' = [paramMap EXCEPT ![Lien.into] = IF @ = None THEN pos ELSE @]

\* QUERY stores in a new Param, which takes the name over.
Queries ==
  /\ Lien.key = "QUERY" /\ Lien.ended
  /\ IF Lien.into = None
     THEN Leaf(None) /\ UNCHANGED paramMap
     ELSE Leaf(pos) /\ paramMap' = [paramMap EXCEPT ![Lien.into] = pos]

\* The lines on which putAction throws.
Rejects ==
  \/ Lien.key \in Lines!Closers /\ (MustAct \/ ~EndsBlock)
  \/ Lien.key = "ELSE" /\ (MustAct \/ ~In("IF"))
  \/ Lien.key = "FOREACH" /\ (paramMap[Lien.table] = None \/ Lien.names = <<>>)
  \/ Lien.key = "QUERY" /\ ~Lien.ended
  \/ Lien.key = "OTHER"

ReadLine ==
  /\ Reading
  /\ BeginsIf \/ BeginsWhile \/ BeginsForeach \/ TurnsElse \/ Ends \/ Assigns \/ Queries
  /\ pos' = pos + 1
  /\ UNCHANGED <<program, phase, running>>

\* putAction throws: at a line, or because the program ends within a block.
Reject ==
  /\ phase = "compile"
  /\ IF Reading THEN Rejects ELSE open # <<>>
  /\ phase' = "rejected"
  /\ UNCHANGED <<program, compiling, running>>

Compiled ==
  /\ phase = "compile" /\ ~Reading /\ open = <<>>
  /\ phase' = "run" /\ todo' = actions
  /\ UNCHANGED <<program, compiling, value, sent, result, chage, latest>>

-----------------------------------------------------------------------------
(* Analyize.doAnalyize.  todo is the rest of all loops under way: after an *)
(* action the rest of its list, then what is left of the calls around it.  *)

Do(k) == phase = "run" /\ todo # <<>> /\ program[todo[1].line].key = k
Act   == todo[1]
L     == program[Act.line]
Entry == ~Rows(Act)

\* getParamValue: the Param that has the name of a table now.
ReadsTable(o) == IF o \in Tables /\ paramMap[o] # None THEN result[paramMap[o]] ELSE None

IfAction ==
  /\ Do("IF") /\ Lines!Known(L, ReadsTable(L.left))
  /\ todo' = Act.body[IF Lines!Holds(L, ReadsTable(L.left)) THEN 1 ELSE 2] \o Tail(todo)
  /\ UNCHANGED <<program, phase, compiling, value, sent, result, chage, latest>>

WhileAction ==
  /\ Do("WHILE") /\ Lines!Known(L, ReadsTable(L.left))
  /\ todo' = IF Lines!Holds(L, ReadsTable(L.left)) THEN Act.body[1] \o todo ELSE Tail(todo)
  /\ UNCHANGED <<program, phase, compiling, value, sent, result, chage, latest>>

AssignmentAction ==
  /\ Do("@") /\ Lines!Readable(L.from, ReadsTable(L.from))
  /\ value' = [value EXCEPT ![L.var] = Lines!Gives(L.from, ReadsTable(L.from))]
  /\ todo' = Tail(todo)
  /\ UNCHANGED <<program, phase, compiling, sent, result, chage, latest>>

-----------------------------------------------------------------------------
(* paramChage.  The SQL is the names in it, each with the text that follows *)
(* up to the next space; whole says that there is none.  A name followed by *)
(* something is taken to be that of no variable.                            *)

Name(v, whole) == [name |-> v, whole |-> whole]
Text(x)        == [text |-> x]
IsName(c)      == "name" \in DOMAIN c

\* What a name becomes, followed by nothing if whole: its value, in quotes if the
\* variable is a string, which may be a name again.
Becomes(n, whole) ==
  IF Lines!Names(value[n]) THEN Name(value[n].x, whole /\ n \notin Strings)
                           ELSE Text(value[n])

\* The name is replaced wherever it occurs, also at the head of another.
Replace(sql, n) ==
  [i \in DOMAIN sql |->
    IF IsName(sql[i]) /\ <<n, sql[i].name>> \in Prefix
      THEN Becomes(n, sql[i].whole /\ sql[i].name = n)
      ELSE sql[i]]

Changing == Do("QUERY") /\ chage # None
NamesLeft == {i \in DOMAIN chage : IsName(chage[i])}
NextName == chage[CHOOSE i \in NamesLeft : \A j \in NamesLeft : i <= j]

\* getParam knows the name, and its value has a text: that of a string may be null.
Changes(c) == c.whole /\ c.name # None /\ (value[c.name] # None \/ c.name \in Strings)

ParamChage ==
  /\ Do("QUERY") /\ chage = None
  /\ chage' = [i \in DOMAIN L.sql |-> Name(L.sql[i], TRUE)]
  /\ UNCHANGED <<program, phase, compiling, value, sent, result, todo, latest>>

\* The first name is replaced, and the loop looks for the next.
ChageName ==
  /\ Changing /\ NamesLeft # {} /\ Changes(NextName)
  /\ chage' = Replace(chage, NextName.name)
  /\ UNCHANGED <<program, phase, compiling, value, sent, result, todo, latest>>

QueryAction ==
  /\ Changing /\ NamesLeft = {}
  /\ sent' = [i \in DOMAIN chage |-> chage[i].text]
  /\ IF L.into = None THEN UNCHANGED <<result, latest>>
     ELSE \E r \in Results : /\ result' = [result EXCEPT ![Act.param] = r]
                             /\ latest' = [latest EXCEPT ![L.into] = Act.param]
  /\ todo' = Tail(todo) /\ chage' = None
  /\ UNCHANGED <<program, phase, compiling, value>>

-----------------------------------------------------------------------------
(* FOREACH, and what throws. *)

\* The iterator of the rows that are left.
Loop(rows) == <<[line |-> Act.line, body |-> Act.body, rows |-> rows]>> \o Tail(todo)

ForeachAction ==
  /\ Do("FOREACH") /\ Entry /\ result[Act.param] # None
  /\ todo' = Loop(result[Act.param])
  /\ UNCHANGED <<program, phase, compiling, value, sent, result, chage, latest>>

\* Mutant of ForeachRow: the row stays.
ForeachRowAgain ==
  /\ Do("FOREACH") /\ ~Entry /\ Act.rows # <<>>
  /\ Len(Act.rows[1]) <= Len(L.names)
  /\ value' = Lines!Assigned(L.names, Act.rows[1])
  /\ todo' = Act.body[1] \o todo
  /\ UNCHANGED <<program, phase, compiling, sent, result, chage, latest>>

ForeachRow ==
  /\ Do("FOREACH") /\ ~Entry /\ Act.rows # <<>>
  /\ Len(Act.rows[1]) <= Len(L.names)
  /\ value' = Lines!Assigned(L.names, Act.rows[1])
  /\ todo' = Act.body[1] \o Loop(Tail(Act.rows))
  /\ UNCHANGED <<program, phase, compiling, sent, result, chage, latest>>

ForeachEnds ==
  /\ Do("FOREACH") /\ ~Entry /\ Act.rows = <<>>
  /\ todo' = Tail(todo)
  /\ UNCHANGED <<program, phase, compiling, value, sent, result, chage, latest>>

\* Where Analyize throws.  A row with more columns than there are variables
\* does: `i > foreach.param.length' lets one too many through.
Throws ==
  \/ (Do("IF") \/ Do("WHILE")) /\ ~Lines!Known(L, ReadsTable(L.left))
  \/ Do("@") /\ ~Lines!Readable(L.from, ReadsTable(L.from))
  \/ Changing /\ (NamesLeft # {} => ~Changes(NextName))
  \/ Do("FOREACH") /\ Entry /\ result[Act.param] = None
  \/ Do("FOREACH") /\ ~Entry /\ Act.rows # <<>> /\ Len(Act.rows[1]) > Len(L.names)

\* The program ends with an exception; a query may fail in the database.
Throw ==
  /\ Throws
  /\ phase' = "threw"
  /\ UNCHANGED <<program, compiling, running>>

Done ==
  /\ phase = "run" /\ todo = <<>>
  /\ phase' = "done"
  /\ UNCHANGED <<program, compiling, running>>

-----------------------------------------------------------------------------
Init ==
  /\ program \in Programs
  /\ phase = "compile"
  /\ value = [v \in Vars |-> None]
  /\ sent = <<>>
  /\ pos = 1 /\ open = <<>> /\ actions = <<>>
  /\ paramMap = [t \in Tables |-> None]
  /\ result = [i \in DOMAIN program |-> None]
  /\ todo = <<>> /\ chage = None
  /\ latest = [t \in Tables |-> None]

Step == \/ ReadLine \/ Reject \/ Compiled
        \/ IfAction \/ WhileAction \/ AssignmentAction
        \/ ParamChage \/ ChageName \/ QueryAction
        \/ ForeachAction \/ ForeachRow \/ ForeachEnds \/ Throw \/ Done

Spec     == Init /\ [][Step]_vars
FairSpec == Spec /\ WF_vars(Step)

-----------------------------------------------------------------------------
(* Properties. *)

\* The types of the state.  The calls under way began with lines already read,
\* the inner after the outer, and only an IF adds to a second branch.
TypeOK ==
  /\ phase \in {"compile", "run", "done", "rejected", "threw"}
  /\ value \in [Vars -> Lines!Values \cup {None}]
  /\ pos \in 1..(Len(program) + 1)
  /\ \A i \in DOMAIN open :
       /\ open[i].line \in 1..(pos - 1)
       /\ \A j \in 1..(i - 1) : open[i].line < open[j].line
       /\ open[i].branch = 2 => program[open[i].line].key = "IF"
  /\ paramMap \in [Tables -> DOMAIN program \cup {None}]
  /\ latest \in [Tables -> DOMAIN program \cup {None}]
  /\ result \in [DOMAIN program -> Results \cup {None}]

\* Compiling to a tree and looking names up in two phases does what the lines of
\* the program say, in their order: blocks and branches end where their lines
\* do, a program that is not well formed is rejected before any of it is
\* executed, loops go through the rows their table had when they began, names
\* have the values and results last stored, and only the lines that may throw do.
ImplementsLines == Lines!Spec

\* Of several queries that store under one name, only the last in the file can be
\* read by an assignment, and only the last above it by a FOREACH.  Where no query
\* is repeated, that is never an older result than the last: it is the last, or
\* there is none yet, and the program throws.
QueriedOnce == \A q \in Lines!Queried : \A b \in Lines!Around(q) : program[b].key = "IF"
NeverOlder ==
  phase = "run" /\ QueriedOnce =>
    /\ \A t \in Tables : ReadsTable(t) \in {None, table[t]}
    /\ Do("FOREACH") /\ Entry => result[Act.param] \in {None, table[L.table]}

\* A program without WHILE comes to an end, whatever its loops store meanwhile,
\* unless a variable gets a value with a name in it: only by such a value can
\* paramChage replace names for ever.
ProgramEnds ==
  (\A i \in DOMAIN program : program[i].key # "WHILE") ~>
    \/ phase \in {"done", "rejected", "threw"}
    \/ \E v \in Vars : Lines!Names(value[v])
-----------------------------------------------------------------------------
(* The inductive invariant behind TypeOK and NeverOlder.  S stands for the *)
(* actions compiled so far, those within others included.                  *)

Size == Len(program)

\* Line j ends the block that line i begins; j = i where i begins none.
Closes(i, j) ==
  /\ j \in i..Size
  /\ Lines!Depth(i, j) = 0
  /\ \A k \in i..(j - 1) : Lines!Depth(i, k) > 0

\* The lines of the actions s, with the blocks they begin, are between two lines,
\* one behind the other.
Between(s, from, to) ==
  /\ \A i \in DOMAIN s : from < s[i].line /\ Lines!Match(s[i].line) < to
  /\ \A i, j \in DOMAIN s : i < j => Lines!Match(s[i].line) < s[j].line

\* The Param that has the name t above line l.
ParamAt(p, t, l) ==
  /\ \A q \in Lines!Queries(t) : q < l => p # None /\ q <= p
  /\ p # None => p \in Lines!Queries(t) /\ p < l

FoundAt(p, t, l) == p # None /\ ParamAt(p, t, l)

Bodies(S) == [1..2 -> Seq(S)]
Params    == DOMAIN program \cup {None}
AllRows   == Seq(Seq(Lines!Values \cup {None}) \ {<<>>})

Calls(S)   == [line : 1..Size, body : Bodies(S), param : Params, branch : 1..2, must : BOOLEAN]
Actions(S) == [line : 1..Size, body : Bodies(S), param : Params]
                \cup [line : 1..Size, body : Bodies(S), rows : AllRows]

\* The tree is that of the blocks; a QUERY stores in a Param of its own, and a
\* FOREACH has the one that its table had above it.
ActionOK(a, S) ==
  /\ a \in Actions(S)
  /\ Lines!Key(a.line) \in Lines!Openers \cup {"@", "QUERY"}
  /\ Closes(a.line, Lines!Match(a.line))
  /\ \A b \in 1..2 : Between(a.body[b], a.line, Lines!Match(a.line))
  /\ IF Rows(a) THEN Lines!Key(a.line) = "FOREACH"
     ELSE /\ Lines!Key(a.line) = "QUERY" /\ program[a.line].into # None => a.param = a.line
          /\ Lines!Key(a.line) = "FOREACH" => FoundAt(a.param, program[a.line].table, a.line)

\* Of nested calls, the innermost first, the n-th has compiled up to the line with
\* which the call within it began, the innermost up to line r.
Reached(calls, n, r) == IF n = 1 THEN r ELSE calls[n - 1].line

\* Behind line l the blocks of the calls are open; what they compiled is in them.
CallOK(calls, n, r, l) ==
  LET c == calls[n]
  IN  /\ Lines!Key(c.line) \in Lines!Openers
      /\ c.branch = 2 => Lines!Key(c.line) = "IF"
      /\ \A k \in c.line..l : Lines!Depth(c.line, k) > 0
      /\ Lines!Depth(c.line, l) = n
      /\ c.line < Reached(calls, n, r)
      /\ \A b \in 1..2 : Between(c.body[b], c.line, Reached(calls, n, r))
      /\ Lines!Key(c.line) = "FOREACH" => FoundAt(c.param, program[c.line].table, c.line)

CompileInv(S) ==
  /\ open \in Seq(Calls(S)) /\ actions \in Seq(S)
  /\ \A n \in DOMAIN open : CallOK(open, n, pos, pos - 1)
  /\ Between(actions, 0, Reached(open, Len(open) + 1, pos))
  /\ \A t \in Tables : ParamAt(paramMap[t], t, pos)

\* After line l, with its block, comes line m, or a loop around l goes on.
Leads(l, m) ==
  \/ Lines!Match(l) < m
  \/ Lines!Key(m) \in {"WHILE", "FOREACH"} /\ m <= l /\ Lines!Match(l) <= Lines!Match(m)

InOrder(s) == \A i, j \in DOMAIN s : i < j => Leads(s[i].line, s[j].line)

\* What is left to be done follows the lines.
RunInv(S) == todo \in Seq(S) /\ InOrder(todo)

\* Before the program runs nothing is stored; after it was compiled every line
\* has been read.
PhaseInv ==
  /\ phase = "compile" => /\ todo = <<>>
                          /\ \A t \in Tables : latest[t] = None
                          /\ \A i \in DOMAIN program : result[i] = None
  /\ phase = "run" => pos = Size + 1

\* Where no query is repeated, all that were executed are above what is left, so
\* that the last one that stored under a name is the lowest of them.
HistoryInv ==
  phase = "run" /\ QueriedOnce =>
    /\ \A t \in Tables : latest[t] # None =>
         /\ latest[t] \in Lines!Queries(t)
         /\ \A i \in DOMAIN todo : latest[t] < todo[i].line
    /\ \A q \in DOMAIN program : result[q] # None =>
         /\ q \in Lines!Queried /\ program[q].into \in Tables
         /\ latest[program[q].into] # None /\ q <= latest[program[q].into]

LqlInv(S) ==
  /\ program \in Programs
  /\ \A a \in S : ActionOK(a, S)
  /\ CompileInv(S) /\ RunInv(S) /\ PhaseInv /\ HistoryInv
=============================================================================
