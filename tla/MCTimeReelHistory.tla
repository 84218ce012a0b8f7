-------------------------- MODULE MCTimeReelHistory --------------------------
(* Small histories for TLC. *)
EXTENDS TimeReelHistory

CONSTANTS k1, t1, t2

OneKey == {k1}
OneThread == {t1}
TwoThreads == {t1, t2}
=============================================================================
