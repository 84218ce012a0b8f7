---------------------------- MODULE MCLineReader ----------------------------
(* Small files and delimiters for TLC. *)
EXTENDS LineReader

CONSTANT MaxFile   \* bound: the length of a file

SeqsUpTo(S, n) == UNION {[1..m -> S] : m \in 0..n}

ABX == {"a", "b", "x"}
SmallFiles == SeqsUpTo(Bytes, MaxFile)

DelimiterABX == <<"a", "b", "x">>
DelimiterAAB == <<"a", "a", "b">>
=============================================================================
