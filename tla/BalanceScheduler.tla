-------------------------- MODULE BalanceScheduler --------------------------
(***************************************************************************)
(* snipe/.../tcp/BalanceScheduler: the event loops of the proxy ask it for *)
(* the server of a new connection.  AtomicInteger.getAndUpdate is what     *)
(* makes it thread-safe: it reads the integer, computes the next one, and  *)
(* starts again unless compareAndSet finds the integer as it was read.     *)
(***************************************************************************)
EXTENDS Naturals

CONSTANTS
  Callers,    \* the threads that call getServerAddress
  Length,     \* length: the number of servers
  MaxCalls    \* bound: calls each thread makes

ASSUME LengthAssumption == Length \in Nat \ {0}
ASSUME BoundAssumption == MaxCalls \in Nat

Servers == 1..Length

VARIABLES
  rotation,     \* the AtomicInteger
  pc,           \* where each thread is in getServerAddress
  seen,         \* what getAndUpdate has read
  rotationNum,  \* what getAndUpdate returned last
  picks,        \* history: how often each server was returned,
  calls         \*   and how often each thread called

vars == <<rotation, pc, seen, rotationNum, picks, calls>>

\* Mutant of Following: >= for >.
FollowingEarly(x) == IF x + 1 >= Length THEN 1 ELSE x + 1

\* Mutant of Following: x for x + 1.
FollowingLate(x) == IF x > Length THEN 1 ELSE x + 1

\* The update x -> x + 1 > length ? 1 : x + 1.
Following(x) == IF x + 1 > Length THEN 1 ELSE x + 1

\* getServerAddress is called, and getAndUpdate reads the integer.
Get(c) ==
  /\ pc[c] = "idle"
  /\ calls[c] < MaxCalls
  /\ calls' = [calls EXCEPT ![c] = @ + 1]
  /\ seen' = [seen EXCEPT ![c] = rotation]
  /\ pc' = [pc EXCEPT ![c] = "update"]
  /\ UNCHANGED <<rotation, rotationNum, picks>>

\* Mutant of CompareAndSet: set whatever the integer has become.
SetBlindly(c) ==
  /\ pc[c] = "update"
  /\ rotation' = Following(seen[c])
  /\ rotationNum' = [rotationNum EXCEPT ![c] = seen[c]]
  /\ picks' = [picks EXCEPT ![seen[c]] = @ + 1]
  /\ pc' = [pc EXCEPT ![c] = "idle"]
  /\ UNCHANGED <<seen, calls>>

\* compareAndSet succeeds: what was read is still, or again, the integer.
CompareAndSet(c) ==
  /\ pc[c] = "update"
  /\ rotation = seen[c]
  /\ rotation' = Following(seen[c])
  /\ rotationNum' = [rotationNum EXCEPT ![c] = seen[c]]
  /\ picks' = [picks EXCEPT ![seen[c]] = @ + 1]
  /\ pc' = [pc EXCEPT ![c] = "idle"]
  /\ UNCHANGED <<seen, calls>>

\* compareAndSet fails: getAndUpdate reads the integer again.
Again(c) ==
  /\ pc[c] = "update"
  /\ rotation # seen[c]
  /\ seen' = [seen EXCEPT ![c] = rotation]
  /\ UNCHANGED <<rotation, pc, rotationNum, picks, calls>>

-----------------------------------------------------------------------------
Init ==
  /\ rotation = 1
  /\ pc = [c \in Callers |-> "idle"]
  /\ seen = [c \in Callers |-> 1]
  /\ rotationNum = [c \in Callers |-> 1]
  /\ picks = [s \in Servers |-> 0]
  /\ calls = [c \in Callers |-> 0]

Step(c) == CompareAndSet(c) \/ Again(c)

Next == \E c \in Callers : Get(c) \/ Step(c)

Spec == Init /\ [][Next]_vars

-----------------------------------------------------------------------------
(* Properties. *)

\* The types of the scheduler's state; rotationNum - 1 is an index of address.
TypeOK ==
  /\ rotation \in Servers
  /\ pc \in [Callers -> {"idle", "update"}]
  /\ seen \in [Callers -> Servers]
  /\ rotationNum \in [Callers -> Servers]
  /\ picks \in [Servers -> Nat]
  /\ calls \in [Callers -> Nat]

\* However many threads ask at once, and although the integer may have gone
\* round between the read and the compareAndSet of getServerAddress, no server is
\* returned twice more often than another.
Balanced == \A s, t \in Servers : picks[s] <= picks[t] + 1

Turns == INSTANCE RoundRobin WITH turn <- rotation

\* The servers are returned in turn, none passed over.
InTurn == Turns!Spec

-----------------------------------------------------------------------------
\* The inductive invariant behind Balanced: the servers before the next one were
\* returned once more often than the others.
RoundInv ==
  /\ TypeOK
  /\ \A s, t \in Servers : s < rotation /\ t < rotation => picks[s] = picks[t]
  /\ \A s, t \in Servers : s >= rotation /\ t >= rotation => picks[s] = picks[t]
  /\ \A s, t \in Servers : s < rotation /\ t >= rotation => picks[s] = picks[t] + 1
=============================================================================
