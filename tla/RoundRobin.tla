----------------------------- MODULE RoundRobin -----------------------------
(***************************************************************************)
(* What Scheduler.BALANCE, "roundrobin", promises: the servers are handed  *)
(* out one after the other, the first again after the last.                *)
(***************************************************************************)
EXTENDS Naturals

CONSTANT Length   \* the number of servers

VARIABLES
  turn,   \* the server that is next
  picks   \* how often each server was handed out

vars == <<turn, picks>>

Init ==
  /\ turn = 1
  /\ picks = [s \in 1..Length |-> 0]

Pick ==
  /\ picks' = [picks EXCEPT ![turn] = @ + 1]
  /\ turn' = IF turn = Length THEN 1 ELSE turn + 1

Spec == Init /\ [][Pick]_vars
=============================================================================
