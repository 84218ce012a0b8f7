----------------------- MODULE BalanceSchedulerProofs -----------------------
(***************************************************************************)
(* Theorems about BalanceScheduler for any threads, number of servers and  *)
(* number of calls.  All rest on RoundInv: a compareAndSet that succeeds   *)
(* returns the server that is next, whatever happened since the read, so   *)
(* that the servers before rotation were returned once more often than the *)
(* others.                                                                 *)
(***************************************************************************)
EXTENDS BalanceScheduler, TLAPS

USE LengthAssumption, BoundAssumption

\* The update goes from each server to the next, and from the last to the first.
LEMMA FollowingServer ==
  ASSUME NEW x \in Servers
  PROVE  /\ Following(x) \in Servers
         /\ Following(x) = IF x = Length THEN 1 ELSE x + 1
BY DEF Following, Servers

\* No step leaves the types, and a compareAndSet keeps the counts level.
LEMMA RoundInvStep ==
  ASSUME RoundInv, [Next]_vars
  PROVE  RoundInv'
<1> USE DEF RoundInv
<1>1. ASSUME NEW c \in Callers, Get(c)
      PROVE  RoundInv'
  <2>1. TypeOK'
    BY <1>1 DEF Get, TypeOK
  <2>2. UNCHANGED <<rotation, picks>>
    BY <1>1 DEF Get
  <2> QED
    BY <2>1, <2>2
<1>2. ASSUME NEW c \in Callers, CompareAndSet(c)
      PROVE  RoundInv'
  <2>1. rotation \in Servers /\ seen[c] = rotation /\ picks \in [Servers -> Nat]
    BY <1>2 DEF CompareAndSet, TypeOK
  <2>2. rotation' \in Servers /\ rotation' = IF rotation = Length THEN 1 ELSE rotation + 1
    BY <1>2, <2>1, FollowingServer DEF CompareAndSet
  <2>3. picks' = [picks EXCEPT ![rotation] = picks[rotation] + 1]
    BY <1>2, <2>1 DEF CompareAndSet
  <2>4. TypeOK'
    <3>1. picks' \in [Servers -> Nat]
      BY <2>1, <2>3
    <3>2. /\ pc' \in [Callers -> {"idle", "update"}]
          /\ rotationNum' \in [Callers -> Servers]
          /\ seen' = seen /\ calls' = calls
      BY <1>2, <2>1 DEF CompareAndSet, TypeOK
    <3> QED
      BY <2>2, <3>1, <3>2 DEF TypeOK
  <2>5. \A s \in Servers : picks'[s] = IF s = rotation THEN picks[s] + 1 ELSE picks[s]
    BY <2>1, <2>3
  <2>6. \A s \in Servers : picks[s] \in Nat /\ s \in Nat /\ s <= Length /\ s >= 1
    BY <2>1 DEF Servers
  <2>7. CASE rotation = Length
    <3>1. rotation' = 1
      BY <2>2, <2>7
    <3>2. \A s, t \in Servers : picks'[s] = picks'[t]
      BY <2>1, <2>5, <2>6, <2>7
    <3> QED
      BY <2>4, <2>6, <3>1, <3>2
  <2>8. CASE rotation # Length
    <3>1. rotation' = rotation + 1 /\ rotation \in Nat
      BY <2>1, <2>2, <2>6, <2>8
    <3>2. \A s \in Servers : s < rotation' <=> s < rotation \/ s = rotation
      BY <2>6, <3>1
    <3>3. \A s \in Servers : s >= rotation' <=> s >= rotation /\ s # rotation
      BY <2>6, <3>1
    <3>4. rotation >= rotation
      BY <3>1
    <3> QED
      BY <2>1, <2>4, <2>5, <2>6, <3>2, <3>3, <3>4
  <2> QED
    BY <2>7, <2>8
<1>3. ASSUME NEW c \in Callers, Again(c)
      PROVE  RoundInv'
  <2>1. TypeOK'
    BY <1>3 DEF Again, TypeOK
  <2>2. UNCHANGED <<rotation, picks>>
    BY <1>3 DEF Again
  <2> QED
    BY <2>1, <2>2
<1>4. CASE UNCHANGED vars
  BY <1>4 DEF vars, TypeOK
<1> QED
  BY <1>1, <1>2, <1>3, <1>4 DEF Next, Step

LEMMA RoundInvCorrect == Spec => []RoundInv
<1>1. Init => RoundInv
  BY DEF Init, RoundInv, TypeOK, Servers
<1> QED
  BY <1>1, RoundInvStep, PTL DEF Spec

\* The scheduler is well typed: getServerAddress never asks address for an index
\* it does not have.
THEOREM TypeCorrect == Spec => []TypeOK
<1>1. RoundInv => TypeOK
  BY DEF RoundInv
<1> QED
  BY <1>1, RoundInvCorrect, PTL

\* No server is returned twice more often than another, however the calls of
\* getServerAddress interleave.
THEOREM BalancedCorrect == Spec => []Balanced
<1>1. ASSUME RoundInv
      PROVE  Balanced
  <2>1. rotation \in Nat /\ \A s \in Servers : s \in Nat /\ picks[s] \in Nat
    BY <1>1 DEF RoundInv, TypeOK, Servers
  <2>2. \A s \in Servers : s < rotation \/ s >= rotation
    BY <2>1
  <2> QED
    BY <1>1, <2>1, <2>2 DEF RoundInv, Balanced
<1> QED
  BY <1>1, RoundInvCorrect, PTL

\* BalanceScheduler implements RoundRobin: the compareAndSet that succeeds is
\* the moment at which a call takes its turn.
THEOREM InTurnCorrect == Spec => InTurn
<1>1. Init => Turns!Init
  BY DEF Init, Turns!Init, Servers
<1>2. ASSUME RoundInv, [Next]_vars
      PROVE  [Turns!Pick]_(Turns!vars)
  <2>1. ASSUME NEW c \in Callers, CompareAndSet(c)
        PROVE  Turns!Pick
    <3>1. rotation \in Servers /\ seen[c] = rotation
      BY <1>2, <2>1 DEF CompareAndSet, RoundInv, TypeOK
    <3> QED
      BY <2>1, <3>1, FollowingServer DEF CompareAndSet, Turns!Pick
  <2>2. ASSUME NEW c \in Callers, Get(c) \/ Again(c)
        PROVE  UNCHANGED Turns!vars
    BY <2>2 DEF Get, Again, Turns!vars
  <2>3. CASE UNCHANGED vars
    BY <2>3 DEF vars, Turns!vars
  <2> QED
    BY <1>2, <2>1, <2>2, <2>3 DEF Next, Step
<1> QED
  BY <1>1, <1>2, RoundInvCorrect, PTL DEF Spec, InTurn, Turns!Spec
=============================================================================
