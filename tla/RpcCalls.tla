------------------------------ MODULE RpcCalls ------------------------------
(***************************************************************************)
(* What TransportClient promises to the callers of sendRpc over one        *)
(* connection: a call made while the link is up is accepted, any other is  *)
(* refused; an accepted call ends once, in success only while the link is  *)
(* up; and no accepted call outlives the link for ever.                    *)
(***************************************************************************)
CONSTANT Requests

VARIABLES
  link,  \* the connection can be used
  call   \* what has become of each call

vars == <<link, call>>

Pending == {r \in Requests : call[r] = "pending"}

Init ==
  /\ link = TRUE
  /\ call = [r \in Requests |-> "new"]

Accept(r) ==
  /\ link
  /\ call[r] = "new"
  /\ call' = [call EXCEPT ![r] = "pending"]
  /\ UNCHANGED link

Refuse(r) ==
  /\ ~link
  /\ call[r] = "new"
  /\ call' = [call EXCEPT ![r] = "refused"]
  /\ UNCHANGED link

Succeed(r) ==
  /\ link
  /\ r \in Pending
  /\ call' = [call EXCEPT ![r] = "success"]
  /\ UNCHANGED link

\* Any of the pending calls fail at once, and the link may go with them.
Fail(F) ==
  /\ F \subseteq Pending
  /\ call' = [r \in Requests |-> IF r \in F THEN "failure" ELSE call[r]]
  /\ link' \in {link, FALSE}

\* A call that is left over when the link is down fails.
Abort(r) == ~link /\ \E F \in SUBSET Requests : r \in F /\ Fail(F)

Next ==
  \/ \E r \in Requests : Accept(r) \/ Refuse(r) \/ Succeed(r)
  \/ \E F \in SUBSET Requests : Fail(F)

Safe == Init /\ [][Next]_vars

Spec == Safe /\ \A r \in Requests : WF_vars(Abort(r))
=============================================================================
