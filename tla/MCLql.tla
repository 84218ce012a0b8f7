------------------------------- MODULE MCLql --------------------------------
(* Small programs for TLC: every short sequence of lines, and nested blocks. *)
EXTENDS Lql, SequencesExt

CONSTANTS v, w, t, u

TwoVars == {v, w}
TwoTables == {t, u}
\* The name of v is the head of that of w.
Heads == {<<v, v>>, <<w, w>>, <<v, w>>}
OnlyW == {w}

\* Nothing, no row, two rows with an integer and null, a row with the name of v, one
\* with something else.
Answers ==
  LET Cell(x, k) == [x |-> x, kind |-> k]
  IN  {None, <<>>, <<<<Cell(1, "int")>>, <<None>>>>,
       <<<<Cell(v, "name"), Cell(1, "text")>>>>, <<<<Cell(None, "other")>>>>}

If(x, op)      == [key |-> "IF", left |-> x, op |-> op]
While(x, op)   == [key |-> "WHILE", left |-> x, op |-> op]
Foreach(r, xs) == [key |-> "FOREACH", table |-> r, names |-> xs]
Set(x, from)   == [key |-> "@", var |-> x, from |-> from]
Query(r, sql)  == [key |-> "QUERY", into |-> r, sql |-> sql, ended |-> TRUE]
Word(k)        == [key |-> k]

Simple == {Set(v, 1), Set(w, t), Query(t, <<v, w>>)}

\* Lines of every kind, in any order.
AnyLine == Simple \cup {If(v, "=="), While(v, "=="), Foreach(t, <<v>>), Foreach(t, <<>>),
                    [Query(t, <<>>) EXCEPT !.ended = FALSE]}
              \cup {Word(k) : k \in {"ELSE", "ENDIF", "ENDWHILE", "ENDFOREACH", "OTHER"}}

\* Lines of blocks, the longer sequences with fewer kinds.
Branching == {Set(v, 1), If(v, "=="), While(v, "==")}
               \cup {Word(k) : k \in {"ELSE", "ENDIF", "ENDWHILE"}}

\* Lines that copy a variable or compare a column.
Copying == {Set(v, w), Set(w, t), If(t, "=="), If(t, ">"), If(v, "!="), Word("ENDIF"),
            Query(None, <<v, w>>)}

Short == {<<Query(t, <<>>)>> \o s : s \in BoundedSeq(AnyLine, 3)}
           \cup {<<Query(t, <<>>)>> \o s : s \in BoundedSeq(Copying, 3)}
           \cup {<<Set(v, 0)>> \o s : s \in BoundedSeq(Branching, 4)}

\* Blocks around a body, or two.
Around1(bodies) ==
  {<<b[1]>> \o s \o <<Word(b[2])>> :
     b \in {<<If(v, "=="), "ENDIF">>, <<If(w, "!="), "ENDIF">>, <<While(v, "=="), "ENDWHILE">>,
            <<Foreach(t, <<v, w>>), "ENDFOREACH">>},
     s \in bodies}
Branches(bodies) ==
  {<<If(v, ">")>> \o s \o <<Word("ELSE")>> \o r \o <<Word("ENDIF")>> : s, r \in bodies}
Joined(first, second) == {s \o r : s \in first, r \in second}

Singles == {<<s>> : s \in Simple \cup {Set(v, 0)}}
Blocks  == Around1(Singles \cup {<<>>}) \cup Branches(Singles)
Nested  == Around1(Blocks \cup Joined(Blocks, Singles)) \cup Joined(Around1(Blocks), {<<Query(t, <<v, w>>)>>})
             \cup Branches({<<Set(v, 0)>>, <<Query(None, <<v, w>>)>>} \cup Around1({<<Set(w, 1)>>}))

Start == <<Query(t, <<>>), Query(u, <<>>), Set(v, u), Set(w, 2)>>
Small == Short \cup {Start \o s : s \in Nested}
=============================================================================
