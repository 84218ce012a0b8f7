--------------------------- MODULE MCDataBusStart ---------------------------
(* A few processes, registering with whomever, for TLC. *)
EXTENDS DataBusStart, TLC

CONSTANTS n1, n2, n3

ThreeNodes == {n1, n2, n3}
Service == {"server"}
Roles == n1 :> {"server"} @@ n2 :> {"server", "worker"} @@ n3 :> {"worker"}
AllButThird == {n1, n2}

\* The first registers with nobody, the others with anybody.
Anybody == {s \in [ThreeNodes -> ThreeNodes \cup {None}] : s[n1] = None}
FirstOrBoth == {{n1}, {n1, n2}}
=============================================================================
