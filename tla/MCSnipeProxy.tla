---------------------------- MODULE MCSnipeProxy ----------------------------
(* A proxy that is reached at two of its addresses, for TLC. *)
EXTENDS SnipeProxy

CONSTANTS f1, f2, f3, here, there, p1, p2

ThreeFronts == {f1, f2, f3}
TwoKeys == {here, there}
TwoPorts == {p1, p2}

\* The first two fronts come to the same address.
TwoHere == [f \in ThreeFronts |-> IF f = f3 THEN there ELSE here]

\* The third may get the port of either.
SomePorts == [f \in ThreeFronts |-> IF f = f1 THEN {p1} ELSE IF f = f2 THEN {p2} ELSE TwoPorts]
=============================================================================
