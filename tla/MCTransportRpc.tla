---------------------------- MODULE MCTransportRpc ----------------------------
(* Small connections for TLC. *)
EXTENDS TransportRpc

CONSTANTS r1, r2, r3

Two == {r1, r2}
Three == {r1, r2, r3}
None == {}
First == {r1}
Second == {r2}
AllModes == {"reply", "fail", "throw", "replyThrow", "defer", "ignore"}
Silent == {"ignore"}
Few == {"reply", "ignore"}

NoRetry == [r \in Requests |-> NoRequest]
\* The callback of the first request sends the second.
FirstRetries == [r \in Requests |-> IF r = r1 THEN r2 ELSE NoRequest]
=============================================================================
