------------------------ MODULE TimeReelHistoryProofs ------------------------
(* Theorems about TimeReelHistory, for every value of its constants. *)
EXTENDS TimeReelHistory, FiniteSetTheorems, SequenceTheorems, WellFoundedInduction,
        TLAPS

USE KeyAssumption, NodeAssumption, TimeAssumption, BoundAssumption

-----------------------------------------------------------------------------
(* Facts about the operators. *)

\* The nodes are positive numbers: NoNode is none of them.
LEMMA NodesType == \A n \in Nodes : n \in Nat /\ n # 0
<1>1. Cardinality(Keys) \in Nat
  BY FS_CardinalityType
<1> DEFINE card == Cardinality(Keys)
<1>2. card \in Nat
  BY <1>1
<1> HIDE DEF card
<1>3. ((MaxCleans + MaxClears + 1) * card) \in Nat
  BY <1>2
<1> QED
  BY <1>3 DEF Nodes, card

\* A set of naturals that is not empty has a least element.
LEMMA LeastNatural ==
  ASSUME NEW V, V \subseteq Nat, V # {}
  PROVE  \E i \in V : \A j \in V : i <= j
<1>1. PICK i \in V : \A j \in V : ~ (<<j, i>> \in OpToRel(<, Nat))
  BY NatLessThanWellFounded, WFMin
<1>2. ASSUME NEW j \in V
      PROVE  i <= j
  <2>1. i \in Nat /\ j \in Nat
    OBVIOUS
  <2>2. ~ (j < i)
    BY <1>1, <2>1 DEF OpToRel
  <2> QED
    BY <2>1, <2>2
<1> QED
  BY <1>2

\* What getEffectiveTime leaves are times of the node.
LEMMA EffectiveType ==
  ASSUME NEW m \in Nat, NEW q \in Seq(0..m), NEW last \in 0..m, NEW time \in Nat
  PROVE  /\ Effective(q, last, time).queue \in Seq(0..m)
         /\ Effective(q, last, time).last \in 0..m
<1> DEFINE valid == {i \in DOMAIN q : time - q[i] < ValidTime}
           first == CHOOSE i \in valid : \A j \in valid : i <= j
<1>1. CASE valid = {}
  <2>1. Effective(q, last, time) = [queue |-> <<>>, last |-> last]
    BY <1>1 DEF Effective
  <2> QED
    BY <2>1
<1>2. CASE valid # {}
  <2>1. valid \subseteq Nat
    OBVIOUS
  <2>2. first \in valid
    <3> HIDE DEF valid
    <3> QED
      BY <1>2, <2>1, LeastNatural
  <2>3. first \in 1..Len(q)
    <3>1. valid \subseteq 1..Len(q)
      OBVIOUS
    <3> HIDE DEF valid, first
    <3> QED
      BY <2>2, <3>1
  <2>4. Effective(q, last, time) = [queue |-> SubSeq(q, first + 1, Len(q)), last |-> q[first]]
    BY <1>2 DEF Effective
  <2> HIDE DEF valid, first
  <2>5. SubSeq(q, first + 1, Len(q)) \in Seq(0..m)
    <3>1. \A i \in (first + 1)..Len(q) : q[i] \in 0..m
      BY <2>3
    <3>2. first + 1 \in Int /\ Len(q) \in Int
      BY <2>3
    <3> QED
      BY <3>1, <3>2, SubSeqProperties
  <2>6. q[first] \in 0..m
    BY <2>3
  <2> QED
    BY <2>4, <2>5, <2>6
<1> QED
  BY <1>1, <1>2

-----------------------------------------------------------------------------
(* getNode. *)

\* getNode keeps the types and the ownership of nodes, and gives a node of the
\* key, newer than every other node the key has had.
LEMMA GetNodeFacts ==
  ASSUME NodeInv, NEW t \in Threads, NEW k \in Keys, GetNode(t, k)
  PROVE  /\ map' \in [Keys -> Nodes \cup {NoNode}]
         /\ used' \in Nodes \cup {0}
         /\ lastValid' \in [Nodes -> 0..now]
         /\ queue' = queue /\ removed' = removed
         /\ at' \in [Threads -> Nodes \cup {NoNode}]
         /\ \A u \in Threads \ {t} : at'[u] = at[u]
         /\ at'[t] \in Nodes /\ keyOf'[at'[t]] = k
         /\ \A m \in Nodes : keyOf[m] = k /\ m # map[k] => m < at'[t]
         /\ \A m \in Nodes : keyOf[m] # NoKey => keyOf'[m] = keyOf[m]
         /\ \A j \in Keys : map'[j] = map[j] \/ (map'[j] # NoNode /\ ~removed[map'[j]])
         /\ keyOf' \in [Nodes -> Keys \cup {NoKey}]
         /\ \A n \in Nodes : n > used' => keyOf'[n] = NoKey /\ ~removed'[n]
         /\ \A j \in Keys : map'[j] # NoNode => map'[j] <= used' /\ keyOf'[map'[j]] = j
         /\ \A j \in Keys, n \in Nodes : map'[j] # NoNode /\ keyOf'[n] = j => n <= map'[j]
<1> DEFINE fresh == used + 1
<1>0. TypeOK /\ NodesOwned
  BY DEF NodeInv
<1>1. CASE map[k] # NoNode
  <2>1. map[k] \in Nodes /\ keyOf[map[k]] = k
    BY <1>0, <1>1 DEF TypeOK, NodesOwned
  <2>2. at' = [at EXCEPT ![t] = map[k]] /\ UNCHANGED <<map, used, lastValid, queue, removed, keyOf>>
    BY <1>1 DEF GetNode, nodes
  <2>3. \A m \in Nodes : keyOf[m] = k /\ m # map[k] => m < map[k]
    <3>1. \A m \in Nodes : keyOf[m] = k => m <= map[k]
      BY <1>0, <1>1 DEF NodesOwned
    <3> QED
      BY <2>1, <3>1, NodesType
  <2>4. /\ at' \in [Threads -> Nodes \cup {NoNode}]
        /\ \A u \in Threads \ {t} : at'[u] = at[u]
        /\ at'[t] = map[k]
    BY <1>0, <2>1, <2>2 DEF TypeOK
  <2> QED
    BY <1>0, <2>1, <2>2, <2>3, <2>4 DEF TypeOK, NodesOwned
<1>2. CASE map[k] = NoNode
  <2>1. /\ fresh \in Nodes
        /\ used' = fresh
        /\ map' = [map EXCEPT ![k] = fresh]
        /\ lastValid' = [lastValid EXCEPT ![fresh] = now]
        /\ keyOf' = [keyOf EXCEPT ![fresh] = k]
        /\ at' = [at EXCEPT ![t] = fresh]
        /\ UNCHANGED <<queue, removed>>
    BY <1>2 DEF GetNode
  <2>2. used \in Nat /\ fresh > used /\ keyOf[fresh] = NoKey /\ ~removed[fresh] /\ fresh # NoNode
    BY <1>0, <2>1, NodesType DEF TypeOK, NodesOwned
  <2>0. fresh = used + 1
    OBVIOUS
  <2> HIDE DEF fresh
  <2>3. \A m \in Nodes : keyOf[m] # NoKey => m <= used /\ m < fresh /\ keyOf'[m] = keyOf[m]
    <3>1. \A m \in Nodes : keyOf[m] # NoKey => ~(m > used)
      BY <1>0 DEF NodesOwned
    <3>2. \A m \in Nodes : ~(m > used) => m <= used /\ m < fresh /\ m # fresh
      BY <2>0, <2>2, NodesType
    <3> QED
      BY <1>0, <2>1, <3>1, <3>2 DEF NodesOwned
  <2>4. \A n \in Nodes : n > used' => n > used /\ n # fresh
    BY <2>1, <2>2, NodesType
  <2>5. now \in 0..now
    BY <1>0 DEF TypeOK
  <2>6. /\ map' \in [Keys -> Nodes \cup {NoNode}]
        /\ used' \in Nodes \cup {0}
        /\ lastValid' \in [Nodes -> 0..now]
        /\ at' \in [Threads -> Nodes \cup {NoNode}]
        /\ keyOf' \in [Nodes -> Keys \cup {NoKey}]
        /\ \A u \in Threads \ {t} : at'[u] = at[u]
        /\ at'[t] = fresh /\ keyOf'[fresh] = k
    BY <1>0, <2>1, <2>5 DEF TypeOK, NodesOwned
  <2>7. \A j \in Keys : j # k => map'[j] = map[j]
    BY <1>0, <2>1 DEF TypeOK
  <2>8. map'[k] = fresh
    BY <1>0, <2>1 DEF TypeOK
  <2>9. \A n \in Nodes : n > used' => keyOf'[n] = NoKey /\ ~removed'[n]
    BY <1>0, <2>1, <2>4 DEF NodesOwned
  <2>10. ASSUME NEW j \in Keys, map'[j] # NoNode
         PROVE  map'[j] <= used' /\ keyOf'[map'[j]] = j
    <3>1. CASE j = k
      BY <3>1, <2>1, <2>6, <2>8, NodesType
    <3>2. CASE j # k
      <4>1. map'[j] = map[j] /\ map[j] \in Nodes /\ map[j] <= used /\ keyOf[map[j]] = j /\ j # NoKey
        BY <3>2, <1>0, <2>7, <2>10 DEF TypeOK, NodesOwned
      <4>2. map'[j] <= used'
        <5>1. map[j] \in Nat /\ used \in Nat
          BY <4>1, <2>2, NodesType
        <5>2. map[j] <= used + 1
          BY <5>1, <4>1
        <5> QED
          BY <5>2, <4>1, <2>0, <2>1
      <4>3. keyOf'[map[j]] = keyOf[map[j]]
        BY <4>1, <2>3
      <4> QED
        BY <4>1, <4>2, <4>3
    <3> QED
      BY <3>1, <3>2
  <2>11. ASSUME NEW j \in Keys, NEW n \in Nodes, map'[j] # NoNode, keyOf'[n] = j
         PROVE  n <= map'[j]
    <3>1. CASE j = k
      <4>1. CASE n = fresh
        BY <3>1, <4>1, <2>1, <2>8, NodesType
      <4>2. CASE n # fresh
        <5>1. keyOf[n] = j
          BY <4>2, <2>1, <2>11, <1>0 DEF NodesOwned
        <5> QED
          <6>1. n < fresh
            BY <5>1, <2>3
          <6>2. n \in Nat /\ fresh \in Nat
            BY <2>1, NodesType
          <6> QED
            BY <6>1, <6>2, <3>1, <2>8
      <4> QED
        BY <4>1, <4>2
    <3>2. CASE j # k
      <4>1. map'[j] = map[j]
        BY <3>2, <2>7
      <4>2. n # fresh
        BY <3>2, <2>11, <2>6
      <4>3. keyOf[n] = j
        BY <4>2, <2>1, <2>11, <1>0 DEF NodesOwned
      <4> QED
        BY <4>1, <4>3, <2>11, <1>0 DEF NodesOwned
    <3> QED
      BY <3>1, <3>2
  <2>12. \A j \in Keys : map'[j] = map[j] \/ (map'[j] # NoNode /\ ~removed[map'[j]])
    BY <2>2, <2>7, <2>8
  <2>13. \A m \in Nodes : keyOf[m] = k /\ m # map[k] => m < at'[t]
    BY <2>3, <2>6
  <2> QED
    BY <2>1, <2>3, <2>6, <2>9, <2>10, <2>11, <2>12, <2>13
<1> QED
  BY <1>1, <1>2

-----------------------------------------------------------------------------
(* Every step keeps the invariant. *)

\* The parts that a step does not touch when nodes, map, threads and cleaner
\* stay as they are.
LEMMA ClockFacts ==
  ASSUME TypeOK, now' \in Nat, now <= now'
  PROVE  /\ lastValid \in [Nodes -> 0..now']
         /\ queue \in [Nodes -> Seq(0..now')]
         /\ ctime \in 0..now' /\ now \in 0..now'
<1>1. \A i \in 0..now : i \in 0..now'
  BY DEF TypeOK
<1>2. \A q \in Seq(0..now) : q \in Seq(0..now')
  <2>1. 0..now \subseteq 0..now'
    BY <1>1
  <2> QED
    BY <2>1, SeqMonotonic
<1> QED
  BY <1>1, <1>2 DEF TypeOK

\* Calling a put.
LEMMA PutStepInv ==
  ASSUME NodeInv, NEW t \in Threads, NEW k \in Keys, Put(t, k)
  PROVE  NodeInv'
<1>0. TypeOK /\ NodesOwned /\ PutsAtNode /\ CleanerAtNode /\ RemovedUnmapped /\ LockOrder
  BY DEF NodeInv
<1>1. /\ GetNode(t, k)
      /\ pc[t] = "idle"
      /\ key' = [key EXCEPT ![t] = k]
      /\ pc' = [pc EXCEPT ![t] = "entering"]
      /\ UNCHANGED <<now, held, cpc, ctime, todo, ckey, cnode>>
  BY DEF Put, cleaner
<1>2. TypeOK'
  BY <1>0, <1>1, GetNodeFacts DEF TypeOK
<1>3. NodesOwned'
  BY <1>1, GetNodeFacts DEF NodesOwned
<1>4. PutsAtNode'
  <2> SUFFICES ASSUME NEW u \in Threads
               PROVE  IF pc'[u] = "entering"
                        THEN key'[u] \in Keys /\ at'[u] \in Nodes /\ keyOf'[at'[u]] = key'[u]
                        ELSE held'[u] = {}
    BY DEF PutsAtNode
  <2>1. CASE u = t
    BY <2>1, <1>0, <1>1, GetNodeFacts DEF TypeOK
  <2>2. CASE u # t
    <3>1. pc'[u] = pc[u] /\ key'[u] = key[u] /\ held'[u] = held[u] /\ at'[u] = at[u]
      BY <2>2, <1>0, <1>1, GetNodeFacts DEF TypeOK
    <3>2. \A m \in Nodes : keyOf[m] # NoKey => keyOf'[m] = keyOf[m]
      BY <1>1, GetNodeFacts
    <3> QED
      BY <3>1, <3>2, <1>0 DEF PutsAtNode
  <2> QED
    BY <2>1, <2>2
<1>5. CleanerAtNode'
  <2>1. /\ \A m \in Nodes : keyOf[m] # NoKey => keyOf'[m] = keyOf[m]
        /\ removed' = removed
    BY <1>1, GetNodeFacts
  <2> QED
    BY <2>1, <1>0, <1>1 DEF CleanerAtNode
<1>6. RemovedUnmapped'
  <2>1. /\ removed' = removed
        /\ \A j \in Keys : map'[j] = map[j] \/ (map'[j] # NoNode /\ ~removed[map'[j]])
    BY <1>1, GetNodeFacts
  <2> QED
    BY <2>1, <1>0, <1>1 DEF RemovedUnmapped
<1>7. LockOrder'
  <2>1. \A u \in Threads \ {t} : at'[u] = at[u]
    BY <1>1, GetNodeFacts
  <2>2. removed' = removed
    BY <1>1, GetNodeFacts
  <2>3. held[t] = {}
    BY <1>0, <1>1 DEF PutsAtNode
  <2> QED
    BY <2>1, <2>2, <2>3, <1>0, <1>1 DEF LockOrder
<1> QED
  BY <1>2, <1>3, <1>4, <1>5, <1>6, <1>7 DEF NodeInv

\* A retry: the new node is another one than the removed node, which only the
\* cleaner could still have in the map, and the cleaner is not inside it.
LEMMA RetryStepInv ==
  ASSUME NodeInv, NEW t \in Threads, Retry(t)
  PROVE  NodeInv'
<1>0. TypeOK /\ NodesOwned /\ PutsAtNode /\ CleanerAtNode /\ RemovedUnmapped /\ LockOrder
  BY DEF NodeInv
<1>1. /\ pc[t] = "entering" /\ Free(at[t], t) /\ removed[at[t]]
      /\ held' = [held EXCEPT ![t] = @ \cup {at[t]}]
      /\ GetNode(t, key[t])
      /\ UNCHANGED <<now, pc, key, cpc, ctime, todo, ckey, cnode>>
  BY DEF Retry, cleaner
<1>2. key[t] \in Keys /\ at[t] \in Nodes /\ keyOf[at[t]] = key[t]
  BY <1>0, <1>1 DEF PutsAtNode
<1>3. at[t] # map[key[t]]
  <2>1. ~CleanerHolds(at[t])
    BY <1>1 DEF Free
  <2>2. at[t] # NoNode
    BY <1>2, NodesType
  <2> QED
    BY <2>1, <2>2, <1>0, <1>1, <1>2 DEF RemovedUnmapped, CleanerHolds
<1>4. at[t] < at'[t]
  BY <1>1, <1>2, <1>3, GetNodeFacts
<1>5. TypeOK'
  <2>1. held' \in [Threads -> SUBSET Nodes]
    BY <1>0, <1>1, <1>2 DEF TypeOK
  <2> QED
    BY <2>1, <1>0, <1>1, <1>2, GetNodeFacts DEF TypeOK
<1>6. NodesOwned'
  BY <1>1, <1>2, GetNodeFacts DEF NodesOwned
<1>7. PutsAtNode'
  <2> SUFFICES ASSUME NEW u \in Threads
               PROVE  IF pc'[u] = "entering"
                        THEN key'[u] \in Keys /\ at'[u] \in Nodes /\ keyOf'[at'[u]] = key'[u]
                        ELSE held'[u] = {}
    BY DEF PutsAtNode
  <2>1. CASE u = t
    BY <2>1, <1>1, <1>2, GetNodeFacts
  <2>2. CASE u # t
    <3>1. held'[u] = held[u] /\ at'[u] = at[u]
      BY <2>2, <1>0, <1>1, <1>2, GetNodeFacts DEF TypeOK
    <3>2. \A m \in Nodes : keyOf[m] # NoKey => keyOf'[m] = keyOf[m]
      BY <1>1, <1>2, GetNodeFacts
    <3> QED
      BY <3>1, <3>2, <1>0, <1>1 DEF PutsAtNode
  <2> QED
    BY <2>1, <2>2
<1>8. CleanerAtNode'
  <2>1. /\ \A m \in Nodes : keyOf[m] # NoKey => keyOf'[m] = keyOf[m]
        /\ removed' = removed
    BY <1>1, <1>2, GetNodeFacts
  <2> QED
    BY <2>1, <1>0, <1>1 DEF CleanerAtNode
<1>9. RemovedUnmapped'
  <2>1. /\ removed' = removed
        /\ \A j \in Keys : map'[j] = map[j] \/ (map'[j] # NoNode /\ ~removed[map'[j]])
    BY <1>1, <1>2, GetNodeFacts
  <2> QED
    BY <2>1, <1>0, <1>1 DEF RemovedUnmapped
<1>10. LockOrder'
  <2> SUFFICES ASSUME NEW u \in Threads, NEW n \in held'[u]
               PROVE  removed'[n] /\ n < at'[u]
    BY DEF LockOrder
  <2>1. removed' = removed
    BY <1>1, <1>2, GetNodeFacts
  <2>2. CASE u = t
    <3>1. n \in held[t] \cup {at[t]}
      BY <2>2, <1>0, <1>1 DEF TypeOK
    <3>2. removed[n] /\ n \in Nodes
      BY <3>1, <1>0, <1>1, <1>2 DEF LockOrder, TypeOK
    <3>3. n = at[t] \/ n < at[t]
      BY <3>1, <1>0 DEF LockOrder
    <3>4. at'[t] \in Nodes
      BY <1>1, <1>2, GetNodeFacts
    <3>5. n \in Nat /\ at[t] \in Nat /\ at'[t] \in Nat
      BY <1>2, <3>2, <3>4, NodesType
    <3>6. n < at'[t]
      BY <3>3, <3>5, <1>4
    <3> QED
      BY <3>2, <3>6, <2>1, <2>2
  <2>3. CASE u # t
    <3>1. held'[u] = held[u] /\ at'[u] = at[u]
      BY <2>3, <1>0, <1>1, <1>2, GetNodeFacts DEF TypeOK
    <3> QED
      BY <3>1, <2>1, <1>0 DEF LockOrder
  <2> QED
    BY <2>2, <2>3
<1> QED
  BY <1>5, <1>6, <1>7, <1>8, <1>9, <1>10 DEF NodeInv

\* A visit.
LEMMA VisitStepInv ==
  ASSUME NodeInv, NEW t \in Threads, Visit(t)
  PROVE  NodeInv'
<1> DEFINE n == at[t]
           q == Append(queue[n], now)
           e == IF Moved(n, now) THEN Effective(q, lastValid[n], now)
                ELSE [queue |-> q, last |-> lastValid[n]]
<1>0. TypeOK /\ NodesOwned /\ PutsAtNode /\ CleanerAtNode /\ RemovedUnmapped /\ LockOrder
  BY DEF NodeInv
<1>1. /\ queue' = [queue EXCEPT ![n] = e.queue]
      /\ lastValid' = [lastValid EXCEPT ![n] = e.last]
      /\ pc' = [pc EXCEPT ![t] = "idle"]
      /\ held' = [held EXCEPT ![t] = {}]
      /\ UNCHANGED <<now, map, used, removed, key, at, cpc, ctime, todo, ckey, cnode, keyOf>>
  BY DEF Visit, cleaner
<1>2. n \in Nodes
  BY <1>0 DEF Visit, PutsAtNode
<1>3. q \in Seq(0..now) /\ lastValid[n] \in 0..now /\ now \in Nat
  <2>1. queue[n] \in Seq(0..now) /\ now \in 0..now
    BY <1>0, <1>2 DEF TypeOK
  <2> QED
    BY <1>0, <1>2, <2>1, AppendProperties DEF TypeOK
<1>4. e.queue \in Seq(0..now) /\ e.last \in 0..now
  <2>1. CASE Moved(n, now)
    BY <1>3, <2>1, EffectiveType
  <2>2. CASE ~Moved(n, now)
    BY <1>3, <2>2
  <2> QED
    BY <2>1, <2>2
<1> HIDE DEF e, q, n
<1>5. TypeOK'
  <2>1. queue' \in [Nodes -> Seq(0..now)] /\ lastValid' \in [Nodes -> 0..now]
    BY <1>0, <1>1, <1>4 DEF TypeOK
  <2> QED
    BY <1>0, <1>1, <2>1 DEF TypeOK
<1>6. NodesOwned'
  BY <1>0, <1>1 DEF NodesOwned
<1>7. PutsAtNode'
  BY <1>0, <1>1 DEF PutsAtNode, TypeOK
<1>8. CleanerAtNode' /\ RemovedUnmapped'
  BY <1>0, <1>1 DEF CleanerAtNode, RemovedUnmapped
<1>9. LockOrder'
  BY <1>0, <1>1 DEF LockOrder, TypeOK
<1> QED
  BY <1>5, <1>6, <1>7, <1>8, <1>9 DEF NodeInv

\* The cleaner prunes the node it is in and may mark it as removed; only its key
\* can have that node in the map.
LEMMA CleanPollInv ==
  ASSUME NodeInv, CleanPoll
  PROVE  NodeInv'
<1> DEFINE e == Effective(queue[cnode], lastValid[cnode], ctime)
<1>0. TypeOK /\ NodesOwned /\ PutsAtNode /\ CleanerAtNode /\ RemovedUnmapped /\ LockOrder
  BY DEF NodeInv
<1>1. /\ cpc = "polling" /\ cpc' = "unmap"
      /\ queue' = [queue EXCEPT ![cnode] = e.queue]
      /\ lastValid' = [lastValid EXCEPT ![cnode] = e.last]
      /\ removed' = [removed EXCEPT ![cnode] = ctime - e.last > ValidTime]
      /\ UNCHANGED <<now, map, used, pc, key, at, held, ctime, todo, ckey, cnode, keyOf>>
  BY DEF CleanPoll, threads, history
<1>2. ckey \in Keys /\ cnode \in Nodes /\ keyOf[cnode] = ckey
  BY <1>0, <1>1 DEF CleanerAtNode
<1>3. e.queue \in Seq(0..now) /\ e.last \in 0..now
  <2>1. queue[cnode] \in Seq(0..now) /\ lastValid[cnode] \in 0..now /\ ctime \in Nat /\ now \in Nat
    BY <1>0, <1>2 DEF TypeOK
  <2> QED
    BY <2>1, EffectiveType
<1> HIDE DEF e
<1>4. TypeOK'
  <2>1. queue' \in [Nodes -> Seq(0..now)] /\ lastValid' \in [Nodes -> 0..now]
    BY <1>0, <1>1, <1>3 DEF TypeOK
  <2>2. removed' \in [Nodes -> BOOLEAN]
    <3> DEFINE stale == ctime - e.last > ValidTime
    <3>1. stale \in BOOLEAN
      OBVIOUS
    <3> HIDE DEF stale
    <3>2. removed' = [removed EXCEPT ![cnode] = stale]
      BY <1>1 DEF stale
    <3> QED
      BY <1>0, <3>1, <3>2 DEF TypeOK
  <2> QED
    BY <1>0, <1>1, <2>1, <2>2 DEF TypeOK
<1>5. \A m \in Nodes : m # cnode => removed'[m] = removed[m]
  BY <1>0, <1>1 DEF TypeOK
<1>6. ~(cnode > used)
  BY <1>0, <1>2 DEF NodesOwned
<1>7. NodesOwned'
  BY <1>0, <1>1, <1>5, <1>6 DEF NodesOwned
<1>8. PutsAtNode' /\ CleanerAtNode'
  BY <1>0, <1>1 DEF PutsAtNode, CleanerAtNode
<1>9. RemovedUnmapped'
  <2> SUFFICES ASSUME NEW k \in Keys, map[k] # NoNode, removed'[map[k]]
               PROVE  ckey = k /\ cnode = map[k]
    BY <1>1 DEF RemovedUnmapped
  <2>1. map[k] \in Nodes /\ keyOf[map[k]] = k
    BY <1>0 DEF TypeOK, NodesOwned
  <2>2. ~removed[map[k]]
    BY <1>0, <1>1 DEF RemovedUnmapped
  <2> QED
    BY <1>2, <1>5, <2>1, <2>2
<1>10. LockOrder'
  <2> SUFFICES ASSUME NEW t \in Threads, NEW m \in held[t]
               PROVE  removed'[m] /\ m < at[t]
    BY <1>1 DEF LockOrder
  <2>1. m \in Nodes /\ removed[m] /\ m < at[t]
    BY <1>0 DEF LockOrder, TypeOK
  <2>2. ~removed[cnode]
    BY <1>0, <1>1 DEF CleanerAtNode
  <2> QED
    BY <1>5, <2>1, <2>2
<1> QED
  BY <1>4, <1>7, <1>8, <1>9, <1>10 DEF NodeInv

\* The other steps of the cleaner, the clock and clear.
LEMMA CleanerStepInv ==
  ASSUME NodeInv, NEW k \in Keys, CleanKey(k) \/ CleanEnter \/ CleanUnmap
  PROVE  NodeInv'
<1>0. TypeOK /\ NodesOwned /\ PutsAtNode /\ CleanerAtNode /\ RemovedUnmapped /\ LockOrder
  BY DEF NodeInv
<1>1. CASE CleanKey(k)
  <2>1. /\ cpc = "next" /\ todo' = todo \ {k}
        /\ IF map[k] = NoNode THEN UNCHANGED <<cpc, ckey, cnode>>
           ELSE cpc' = "entering" /\ ckey' = k /\ cnode' = map[k]
        /\ UNCHANGED <<now, map, used, lastValid, queue, removed, pc, key, at, held, ctime, keyOf>>
    BY <1>1 DEF CleanKey, nodes, threads, history
  <2>2. TypeOK'
    BY <1>0, <2>1 DEF TypeOK
  <2>3. NodesOwned' /\ PutsAtNode' /\ LockOrder'
    BY <1>0, <2>1 DEF NodesOwned, PutsAtNode, LockOrder
  <2>4. CleanerAtNode' /\ RemovedUnmapped'
    <3>1. CASE map[k] = NoNode
      BY <1>0, <2>1, <3>1 DEF CleanerAtNode, RemovedUnmapped
    <3>2. CASE map[k] # NoNode
      <4>1. map[k] \in Nodes /\ keyOf[map[k]] = k
        BY <1>0, <3>2 DEF TypeOK, NodesOwned
      <4> QED
        BY <1>0, <2>1, <3>2, <4>1 DEF CleanerAtNode, RemovedUnmapped
    <3> QED
      BY <3>1, <3>2
  <2> QED
    BY <2>2, <2>3, <2>4 DEF NodeInv
<1>2. CASE CleanEnter
  <2>1. /\ cpc = "entering" /\ cpc' = IF removed[cnode] THEN "unmap" ELSE "polling"
        /\ UNCHANGED <<now, map, used, lastValid, queue, removed, pc, key, at, held,
                       ctime, todo, ckey, cnode, keyOf>>
    BY <1>2 DEF CleanEnter, nodes, threads, history
  <2>2. TypeOK'
    BY <1>0, <2>1 DEF TypeOK
  <2>3. NodesOwned' /\ PutsAtNode' /\ LockOrder'
    BY <1>0, <2>1 DEF NodesOwned, PutsAtNode, LockOrder
  <2>4. CleanerAtNode' /\ RemovedUnmapped'
    BY <1>0, <2>1 DEF CleanerAtNode, RemovedUnmapped
  <2> QED
    BY <2>2, <2>3, <2>4 DEF NodeInv
<1>3. CASE CleanUnmap
  <2>1. /\ cpc = "unmap" /\ cpc' = "next"
        /\ map' = [map EXCEPT ![ckey] = NoNode]
        /\ UNCHANGED <<now, used, lastValid, queue, removed, pc, key, at, held,
                       ctime, todo, ckey, cnode, keyOf>>
    BY <1>3 DEF CleanUnmap, nodes, threads, history
  <2>2. /\ ckey \in Keys
        /\ \A j \in Keys : j # ckey => map'[j] = map[j]
        /\ map'[ckey] = NoNode
    BY <1>0, <2>1 DEF CleanerAtNode, TypeOK
  <2>3. TypeOK'
    BY <1>0, <2>1 DEF TypeOK
  <2>4. NodesOwned'
    BY <1>0, <2>1, <2>2 DEF NodesOwned
  <2>5. PutsAtNode' /\ LockOrder' /\ CleanerAtNode'
    BY <1>0, <2>1 DEF PutsAtNode, LockOrder, CleanerAtNode
  <2>6. RemovedUnmapped'
    BY <1>0, <2>1, <2>2 DEF RemovedUnmapped
  <2> QED
    BY <2>3, <2>4, <2>5, <2>6 DEF NodeInv
<1> QED
  BY <1>1, <1>2, <1>3

\* The steps that leave nodes and threads alone.
LEMMA OtherStepInv ==
  ASSUME NodeInv, Clear \/ CleanStart \/ CleanEnd \/ Tick \/ UNCHANGED vars
  PROVE  NodeInv'
<1>0. TypeOK /\ NodesOwned /\ PutsAtNode /\ CleanerAtNode /\ RemovedUnmapped /\ LockOrder
  BY DEF NodeInv
<1>1. /\ UNCHANGED <<used, lastValid, queue, removed, pc, key, at, held, ckey, cnode, keyOf>>
      /\ map' = map \/ map' = [k \in Keys |-> NoNode]
      /\ cpc' = cpc \/ (cpc' \in {"idle", "next"} /\ cpc \in {"idle", "next"})
      /\ now' \in Nat /\ now <= now'
      /\ ctime' = ctime \/ (ctime' = now /\ now' = now)
      /\ todo' \subseteq Keys
  <2>1. now \in Nat /\ todo \subseteq Keys
    BY <1>0 DEF TypeOK
  <2>2. CASE Clear
    BY <2>1, <2>2 DEF Clear, nodes, threads, cleaner, history
  <2>3. CASE CleanStart
    BY <2>1, <2>3 DEF CleanStart, nodes, threads, history
  <2>4. CASE CleanEnd
    BY <2>1, <2>4 DEF CleanEnd, nodes, threads, history
  <2>5. CASE Tick
    BY <2>1, <2>5 DEF Tick, nodes, threads, cleaner, history
  <2>6. CASE UNCHANGED vars
    BY <2>1, <2>6 DEF vars, nodes, threads, cleaner, history
  <2> QED
    BY <2>2, <2>3, <2>4, <2>5, <2>6
<1>2. TypeOK'
  <2>1. /\ lastValid \in [Nodes -> 0..now']
        /\ queue \in [Nodes -> Seq(0..now')]
        /\ ctime \in 0..now' /\ now \in 0..now'
    BY <1>0, <1>1, ClockFacts
  <2>2. map' \in [Keys -> Nodes \cup {NoNode}]
    BY <1>0, <1>1 DEF TypeOK
  <2>3. cpc' \in {"idle", "next", "entering", "polling", "unmap"} /\ ctime' \in 0..now'
    BY <1>0, <1>1, <2>1 DEF TypeOK
  <2> QED
    BY <1>0, <1>1, <2>1, <2>2, <2>3 DEF TypeOK
<1>3. NodesOwned'
  BY <1>0, <1>1 DEF NodesOwned
<1>4. PutsAtNode' /\ LockOrder' /\ CleanerAtNode'
  BY <1>0, <1>1 DEF PutsAtNode, LockOrder, CleanerAtNode
<1>5. RemovedUnmapped'
  BY <1>0, <1>1 DEF RemovedUnmapped
<1> QED
  BY <1>2, <1>3, <1>4, <1>5 DEF NodeInv

-----------------------------------------------------------------------------
(* The theorems. *)

\* The invariant holds of an empty history.
LEMMA InitInv == Init => NodeInv
<1> SUFFICES ASSUME Init
             PROVE  NodeInv
  OBVIOUS
<1>1. 0 \in Nat /\ 0 \in 0..0 /\ <<>> \in Seq(0..0)
  OBVIOUS
<1>2. TypeOK
  BY <1>1 DEF Init, TypeOK
<1>3. NodesOwned /\ PutsAtNode /\ CleanerAtNode /\ RemovedUnmapped /\ LockOrder
  BY DEF Init, NodesOwned, PutsAtNode, CleanerAtNode, RemovedUnmapped, LockOrder
<1> QED
  BY <1>2, <1>3 DEF NodeInv

\* Every step keeps the invariant.
LEMMA NextInv == NodeInv /\ [Next]_vars => NodeInv'
<1> SUFFICES ASSUME NodeInv, [Next]_vars
             PROVE  NodeInv'
  OBVIOUS
<1>1. ASSUME NEW t \in Threads, NEW k \in Keys, Put(t, k)
      PROVE  NodeInv'
  BY <1>1, PutStepInv
<1>2. ASSUME NEW t \in Threads, PutStep(t)
      PROVE  NodeInv'
  BY <1>2, VisitStepInv, RetryStepInv DEF PutStep
<1>3. CASE CleanerStep
  <2>1. ASSUME NEW k \in Keys, CleanKey(k)
        PROVE  NodeInv'
    BY <2>1, CleanerStepInv
  <2>2. CASE CleanEnter \/ CleanUnmap
    <3>1. PICK k : k \in Keys
      BY <2>2 DEF NodeInv, CleanerAtNode, CleanEnter, CleanUnmap
    <3> QED
      BY <2>2, <3>1, CleanerStepInv
  <2>3. CASE CleanPoll
    BY <2>3, CleanPollInv
  <2>4. CASE CleanEnd
    BY <2>4, OtherStepInv
  <2> QED
    BY <1>3, <2>1, <2>2, <2>3, <2>4 DEF CleanerStep
<1>4. CASE Clear \/ CleanStart \/ Tick \/ UNCHANGED vars
  BY <1>4, OtherStepInv
<1> QED
  BY <1>1, <1>2, <1>3, <1>4 DEF Next

\* In every reachable state the history is well typed, whatever its keys,
\* threads, window and bounds.
THEOREM TypeCorrect == Spec => []TypeOK
<1>1. NodeInv => TypeOK
  BY DEF NodeInv
<1> QED
  BY <1>1, InitInv, NextInv, PTL DEF Spec

\* A node the cleaner marks as removed leaves the map before its monitor is free.
THEOREM RemovedUnmappedCorrect == Spec => []RemovedUnmapped
<1>1. NodeInv => RemovedUnmapped
  BY DEF NodeInv
<1> QED
  BY <1>1, InitInv, NextInv, PTL DEF Spec

\* Puts take the monitors of nodes in the order of their creation.
THEOREM LockOrderCorrect == Spec => []LockOrder
<1>1. NodeInv => LockOrder
  BY DEF NodeInv
<1> QED
  BY <1>1, InitInv, NextInv, PTL DEF Spec

-----------------------------------------------------------------------------
(* Facts about the last visits of a node. *)

\* Time passes.
LEMMA LastVisitsLater ==
  ASSUME NEW m \in Nat, NEW n \in Nat, m <= n, NEW q, NEW visits, NEW last,
         LastVisits(q, visits, last, m)
  PROVE  LastVisits(q, visits, last, n)
<1>1. 0..m \subseteq 0..n
  OBVIOUS
<1>2. q \in Seq(0..n) /\ visits \in Seq(0..n) /\ last \in 0..n
  BY <1>1, SeqMonotonic DEF LastVisits
<1>3. \A i \in DOMAIN visits : visits[i] \in Nat
  BY DEF LastVisits
<1>4. ASSUME NEW i \in 1..(Len(visits) - Len(q)), m - visits[i] >= ValidTime
      PROVE  n - visits[i] >= ValidTime
  <2>1. visits \in Seq(0..m) /\ q \in Seq(0..m)
    BY DEF LastVisits
  <2>2. i \in DOMAIN visits
    BY <2>1
  <2>3. visits[i] \in Nat
    BY <1>3, <2>2
  <2> QED
    BY <1>4, <2>3
<1> QED
  BY <1>2, <1>4 DEF LastVisits

\* A visit is recorded.
LEMMA LastVisitsAppend ==
  ASSUME NEW m \in Nat, NEW q, NEW visits, NEW last, LastVisits(q, visits, last, m)
  PROVE  LastVisits(Append(q, m), Append(visits, m), last, m)
<1> DEFINE q1 == Append(q, m)
           visits1 == Append(visits, m)
<1>1. q \in Seq(0..m) /\ visits \in Seq(0..m) /\ m \in 0..m /\ last \in 0..m /\ Len(q) <= Len(visits)
  BY DEF LastVisits
<1>2. /\ q1 \in Seq(0..m) /\ Len(q1) = Len(q) + 1
      /\ q1[Len(q) + 1] = m /\ \A i \in 1..Len(q) : q1[i] = q[i]
  BY <1>1, AppendProperties
<1>3. /\ visits1 \in Seq(0..m) /\ Len(visits1) = Len(visits) + 1
      /\ visits1[Len(visits) + 1] = m /\ \A i \in 1..Len(visits) : visits1[i] = visits[i]
  BY <1>1, AppendProperties
<1>4. Len(q) \in Nat /\ Len(visits) \in Nat
  BY <1>1
<1> HIDE DEF q1, visits1
<1>5. Len(visits1) - Len(q1) = Len(visits) - Len(q) /\ Len(q1) <= Len(visits1)
  BY <1>1, <1>2, <1>3, <1>4
<1>6. ASSUME NEW i \in DOMAIN visits1, NEW j \in DOMAIN visits1, i <= j
      PROVE  visits1[i] <= visits1[j]
  <2>1. i \in 1..(Len(visits) + 1) /\ j \in 1..(Len(visits) + 1)
    BY <1>3
  <2>2. CASE j = Len(visits) + 1
    BY <1>3, <2>1, <2>2
  <2>3. CASE j # Len(visits) + 1
    <3>1. i \in 1..Len(visits) /\ j \in 1..Len(visits)
      BY <1>4, <1>6, <2>1, <2>3
    <3>2. visits[i] <= visits[j]
      <4>1. i \in DOMAIN visits /\ j \in DOMAIN visits
        BY <1>1, <3>1
      <4> QED
        BY <1>6, <4>1 DEF LastVisits
    <3> QED
      BY <1>3, <3>1, <3>2
  <2> QED
    BY <2>2, <2>3
<1>7. ASSUME NEW j \in DOMAIN q1
      PROVE  q1[j] = visits1[Len(visits1) - Len(q1) + j] /\ last <= q1[j]
  <2>1. j \in 1..(Len(q) + 1)
    BY <1>2
  <2>2. CASE j = Len(q) + 1
    <3>1. Len(visits1) - Len(q1) + j = Len(visits) + 1
      BY <1>4, <1>5, <2>2
    <3> QED
      BY <1>1, <1>2, <1>3, <2>2, <3>1
  <2>3. CASE j # Len(q) + 1
    <3>1. j \in 1..Len(q) /\ (Len(visits) - Len(q) + j) \in 1..Len(visits)
      BY <1>1, <1>4, <2>1, <2>3
    <3>2. q[j] = visits[Len(visits) - Len(q) + j] /\ last <= q[j]
      BY <1>1, <3>1 DEF LastVisits
    <3> QED
      BY <1>2, <1>3, <1>5, <3>1, <3>2
  <2> QED
    BY <2>2, <2>3
<1>8. ASSUME NEW i \in 1..(Len(visits1) - Len(q1))
      PROVE  m - visits1[i] >= ValidTime \/ (i = Len(visits1) - Len(q1) /\ visits1[i] = last)
  <2>1. i \in 1..(Len(visits) - Len(q)) /\ i \in 1..Len(visits)
    BY <1>1, <1>4, <1>5
  <2>2. m - visits[i] >= ValidTime \/ (i = Len(visits) - Len(q) /\ visits[i] = last)
    BY <2>1 DEF LastVisits
  <2> QED
    BY <1>3, <1>5, <2>1, <2>2
<1>9. LastVisits(q1, visits1, last, m)
  BY <1>1, <1>2, <1>3, <1>5, <1>6, <1>7, <1>8 DEF LastVisits
<1> QED
  BY <1>9 DEF q1, visits1

\* getEffectiveTime drops the first d visits: all, when none is valid, or all up to
\* the first that is.
LEMMA EffectiveDrops ==
  ASSUME NEW m \in Nat, NEW q \in Seq(0..m), NEW last, NEW time \in Nat
  PROVE  LET e == Effective(q, last, time)
         IN  \E d \in 0..Len(q) :
               /\ Len(e.queue) = Len(q) - d
               /\ \A j \in 1..(Len(q) - d) : e.queue[j] = q[d + j]
               /\ \/ d = Len(q) /\ e.last = last /\ \A i \in 1..d : time - q[i] >= ValidTime
                  \/ /\ d >= 1 /\ e.last = q[d] /\ time - q[d] < ValidTime
                     /\ \A i \in 1..(d - 1) : time - q[i] >= ValidTime
<1> DEFINE valid == {i \in DOMAIN q : time - q[i] < ValidTime}
           first == CHOOSE i \in valid : \A j \in valid : i <= j
           e == Effective(q, last, time)
<1>0. Len(q) \in Nat /\ DOMAIN q = 1..Len(q) /\ \A i \in 1..Len(q) : q[i] \in Nat
  OBVIOUS
<1>1. CASE valid = {}
  <2>1. e.queue = <<>> /\ e.last = last
    <3>1. Effective(q, last, time) = [queue |-> <<>>, last |-> last]
      BY <1>1 DEF Effective
    <3> QED
      BY <3>1
  <2>2. ASSUME NEW i \in 1..Len(q)
        PROVE  time - q[i] >= ValidTime
    <3>1. i \notin valid
      BY <1>1
    <3>2. ~(time - q[i] < ValidTime) /\ q[i] \in Nat
      BY <1>0, <3>1
    <3> QED
      BY <3>2
  <2> HIDE DEF e
  <2>3. Len(e.queue) = Len(q) - Len(q) /\ Len(q) \in 0..Len(q) /\ 1..(Len(q) - Len(q)) = {}
    BY <1>0, <2>1
  <2> QED
    BY <2>1, <2>2, <2>3 DEF e
<1>2. CASE valid # {}
  <2>1. first \in valid /\ \A j \in valid : first <= j
    <3>1. valid \subseteq Nat
      OBVIOUS
    <3> HIDE DEF valid
    <3> QED
      BY <1>2, <3>1, LeastNatural
  <2>2. e.queue = SubSeq(q, first + 1, Len(q)) /\ e.last = q[first]
    BY <1>2 DEF Effective
  <2>3. first \in 1..Len(q) /\ time - q[first] < ValidTime
    <3>1. \A i \in valid : i \in 1..Len(q) /\ time - q[i] < ValidTime
      OBVIOUS
    <3> HIDE DEF valid, first
    <3> QED
      BY <2>1, <3>1
  <2>4. \A i \in 1..(first - 1) : time - q[i] >= ValidTime
    <3>1. ASSUME NEW i \in 1..Len(q), i < first
          PROVE  time - q[i] >= ValidTime
      <4>1. i \notin valid
        <5> HIDE DEF valid
        <5> QED
          BY <2>1, <2>3, <3>1
      <4> QED
        BY <1>0, <4>1
    <3> HIDE DEF first, valid
    <3>2. \A i \in 1..(first - 1) : i \in 1..Len(q) /\ i < first
      BY <1>0, <2>3
    <3> QED
      BY <3>1, <3>2
  <2> HIDE DEF valid, first, e
  <2>5. Len(e.queue) = Len(q) - first /\ \A j \in 1..(Len(q) - first) : e.queue[j] = q[first + j]
    <3>1. first + 1 \in Int /\ Len(q) \in Int /\ \A i \in (first + 1)..Len(q) : q[i] \in 0..m
      BY <1>0, <2>3
    <3>2. /\ Len(SubSeq(q, first + 1, Len(q))) = IF first + 1 <= Len(q) THEN Len(q) - (first + 1) + 1 ELSE 0
          /\ \A j \in 1..(Len(q) - (first + 1) + 1) : SubSeq(q, first + 1, Len(q))[j] = q[(first + 1) + j - 1]
      BY <3>1, SubSeqProperties
    <3>3. Len(q) - (first + 1) + 1 = Len(q) - first
      BY <1>0, <2>3
    <3>4. Len(e.queue) = Len(q) - first
      <4>1. first \in Nat /\ first <= Len(q)
        BY <1>0, <2>3
      <4>2. CASE first + 1 <= Len(q)
        BY <2>2, <3>2, <3>3, <4>2
      <4>3. CASE ~(first + 1 <= Len(q))
        <5>0. Len(q) \in Nat
          BY <1>0
        <5>1. first = Len(q)
          BY <4>1, <4>3, <5>0
        <5> QED
          BY <2>2, <3>2, <4>3, <5>1
      <4> QED
        BY <4>2, <4>3
    <3>5. ASSUME NEW j \in 1..(Len(q) - first)
          PROVE  e.queue[j] = q[first + j]
      <4>1. (first + 1) + j - 1 = first + j
        BY <2>3
      <4> QED
        BY <2>2, <3>2, <3>3, <4>1
    <3> QED
      BY <3>4, <3>5
  <2>6. first \in 0..Len(q) /\ first >= 1
    BY <1>0, <2>3
  <2> QED
    BY <2>2, <2>3, <2>4, <2>5, <2>6 DEF e
<1> QED
  BY <1>1, <1>2

\* The queue is pruned at a time when lastValidTime is out of the window; what is
\* left of it is in the window at that time.
LEMMA LastVisitsPruned ==
  ASSUME NEW m \in Nat, NEW time \in 0..m, NEW q, NEW visits, NEW last,
         LastVisits(q, visits, last, m), time - last > ValidTime
  PROVE  LET e == Effective(q, last, time)
         IN  /\ LastVisits(e.queue, visits, e.last, m)
             /\ \A j \in DOMAIN e.queue : time - e.queue[j] < ValidTime
<1> DEFINE e == Effective(q, last, time)
           lq == Len(q)
           lv == Len(visits)
           gone == lv - lq
<1>1. /\ q \in Seq(0..m) /\ visits \in Seq(0..m) /\ last \in 0..m
      /\ lq <= lv
      /\ time \in Nat /\ ValidTime \in Nat
  BY DEF LastVisits
<1>2. /\ lq \in Nat /\ lv \in Nat
      /\ \A i \in 1..lq : q[i] \in 0..m
      /\ \A i \in 1..lv : visits[i] \in 0..m
      /\ DOMAIN q = 1..lq /\ DOMAIN visits = 1..lv
  BY <1>1
<1>3. /\ \A i, j \in 1..lv : i <= j => visits[i] <= visits[j]
      /\ \A j \in 1..lq : q[j] = visits[gone + j] /\ last <= q[j]
      /\ \A i \in 1..gone : m - visits[i] >= ValidTime \/ (i = gone /\ visits[i] = last)
  BY <1>2 DEF LastVisits
<1>4. e.queue \in Seq(0..m) /\ e.last \in 0..m
  BY <1>1, EffectiveType
<1>5. PICK d \in 0..lq :
        /\ Len(e.queue) = lq - d
        /\ \A j \in 1..(lq - d) : e.queue[j] = q[d + j]
        /\ \/ d = lq /\ e.last = last /\ \A i \in 1..d : time - q[i] >= ValidTime
           \/ /\ d >= 1 /\ e.last = q[d] /\ time - q[d] < ValidTime
              /\ \A i \in 1..(d - 1) : time - q[i] >= ValidTime
  BY <1>1, EffectiveDrops
<1>6. DOMAIN e.queue = 1..(lq - d)
  BY <1>4, <1>5
<1>7. gone \in Nat /\ gone = lv - lq /\ d \in Nat /\ d <= lq
  BY <1>1, <1>2
<1> HIDE DEF e, lq, lv, gone
<1>8. Len(e.queue) <= lv /\ lv - Len(e.queue) = gone + d
  BY <1>2, <1>5, <1>7
<1>9. ASSUME NEW j \in 1..(lq - d)
      PROVE  /\ e.queue[j] = visits[gone + d + j]
             /\ e.last <= e.queue[j]
             /\ time - e.queue[j] < ValidTime
  <2>1. (d + j) \in 1..lq /\ (gone + d + j) \in 1..lv /\ gone + (d + j) = gone + d + j
    BY <1>2, <1>7
  <2>2. e.queue[j] = visits[gone + d + j]
    BY <1>3, <1>5, <2>1
  <2>3. d < lq
    BY <1>2, <1>7
  <2>4. d >= 1 /\ e.last = q[d] /\ time - q[d] < ValidTime
    BY <1>5, <1>7, <2>3
  <2>5. d \in 1..lq /\ (gone + d) \in 1..lv /\ gone + d <= gone + d + j
    BY <1>2, <1>7, <2>4
  <2>6. q[d] = visits[gone + d] /\ visits[gone + d] <= visits[gone + d + j]
    BY <1>3, <2>1, <2>5
  <2>7. visits[gone + d] \in Nat /\ visits[gone + d + j] \in Nat
    BY <1>2, <2>1, <2>5
  <2> QED
    BY <1>1, <2>2, <2>4, <2>6, <2>7
<1>10. ASSUME NEW i \in 1..(gone + d)
       PROVE  m - visits[i] >= ValidTime \/ (i = gone + d /\ visits[i] = e.last)
  <2>1. i \in 1..lv /\ visits[i] \in Nat
    BY <1>2, <1>7
  <2>2. CASE i <= gone
    <3>1. i \in 1..gone
      BY <1>7, <2>2
    <3>2. m - visits[i] >= ValidTime \/ visits[i] = last
      BY <1>3, <3>1
    <3> QED
      BY <1>1, <2>1, <3>2
  <2>3. CASE ~(i <= gone)
    <3>1. PICK j \in 1..d : i = gone + j
      <4>1. (i - gone) \in 1..d /\ i = gone + (i - gone)
        BY <1>7, <2>3
      <4> QED
        BY <4>1
    <3>2. j \in 1..lq
      BY <1>2, <1>7
    <3>3. visits[i] = q[j]
      BY <1>3, <3>1, <3>2
    <3>4. time - q[j] >= ValidTime \/ (j = d /\ e.last = q[d])
      <4>1. j = d \/ j \in 1..(d - 1)
        BY <1>7
      <4> QED
        BY <1>5, <4>1
    <3> QED
      BY <1>1, <2>1, <3>1, <3>3, <3>4
  <2> QED
    BY <2>2, <2>3
<1>11. LastVisits(e.queue, visits, e.last, m)
  BY <1>1, <1>2, <1>3, <1>4, <1>6, <1>8, <1>9, <1>10 DEF LastVisits, lv
<1> QED
  BY <1>6, <1>9, <1>11 DEF e

\* An answer taken from the last visits: it counts at most those within the window,
\* and all that are inside it but one.
LEMMA LastVisitsCounted ==
  ASSUME NEW m \in Nat, NEW q, NEW visits, NEW last, LastVisits(q, visits, last, m),
         \A j \in DOMAIN q : m - q[j] <= ValidTime
  PROVE  /\ Len(q) <= Within(visits, m)
         /\ Inside(visits, m) - 1 <= Len(q)
<1> DEFINE lq == Len(q)
           lv == Len(visits)
           gone == lv - lq
           within == {i \in DOMAIN visits : m - visits[i] <= ValidTime}
           inside == {i \in DOMAIN visits : m - visits[i] < ValidTime}
<1>1. /\ q \in Seq(0..m) /\ visits \in Seq(0..m)
      /\ lq <= lv /\ ValidTime \in Nat
  BY DEF LastVisits
<1>2. /\ lq \in Nat /\ lv \in Nat
      /\ \A i \in 1..lv : visits[i] \in Nat
      /\ DOMAIN q = 1..lq /\ DOMAIN visits = 1..lv
  BY <1>1
<1>3. /\ \A j \in 1..lq : q[j] = visits[gone + j]
      /\ \A i \in 1..gone : m - visits[i] >= ValidTime \/ i = gone
  BY <1>2 DEF LastVisits
<1>4. gone \in Nat /\ gone = lv - lq
  BY <1>1, <1>2
<1>5. IsFiniteSet(within) /\ IsFiniteSet(inside)
  <2>1. IsFiniteSet(1..lv)
    BY <1>2, FS_Interval
  <2>2. within \subseteq 1..lv /\ inside \subseteq 1..lv
    BY <1>2
  <2> QED
    BY <2>1, <2>2, FS_Subset
<1>6. (gone + 1)..lv \subseteq within
  <2> SUFFICES ASSUME NEW i \in (gone + 1)..lv
               PROVE  i \in 1..lv /\ m - visits[i] <= ValidTime
    BY <1>2
  <2>1. i \in 1..lv /\ (i - gone) \in 1..lq /\ gone + (i - gone) = i
    <3> HIDE DEF gone, lq, lv
    <3> QED
      BY <1>2, <1>4
  <2>2. q[i - gone] = visits[i]
    BY <1>3, <2>1
  <2> QED
    BY <1>2, <2>1, <2>2
<1>7. inside \subseteq gone..lv
  <2> SUFFICES ASSUME NEW i \in 1..lv, m - visits[i] < ValidTime
               PROVE  i \in gone..lv
    BY <1>2
  <2>1. CASE i \in 1..gone
    <3>1. visits[i] \in Nat
      BY <1>2
    <3>2. ~(m - visits[i] >= ValidTime)
      BY <1>1, <3>1
    <3>3. i = gone
      BY <1>3, <2>1, <3>2
    <3> HIDE DEF gone, lq, lv
    <3> QED
      BY <1>2, <1>4, <3>3
  <2>2. CASE i \notin 1..gone
    <3> HIDE DEF gone, lq, lv
    <3> QED
      BY <1>2, <1>4, <2>2
  <2> QED
    BY <2>1, <2>2
<1> HIDE DEF lq, lv, gone, within, inside
<1>8. Cardinality((gone + 1)..lv) = lq /\ Cardinality(gone..lv) = lq + 1
  <2>1. /\ gone + 1 \in Int /\ gone \in Int /\ lv \in Int
        /\ gone <= lv /\ lv - gone + 1 = lq + 1
        /\ lv - (gone + 1) + 1 = lq
        /\ gone + 1 > lv => lq = 0
    BY <1>2, <1>4
  <2>2. Cardinality(gone..lv) = lv - gone + 1
    BY <1>4, <1>2, <2>1, FS_Interval
  <2>3. Cardinality((gone + 1)..lv) = lq
    <3>1. Cardinality((gone + 1)..lv) = IF gone + 1 > lv THEN 0 ELSE lv - (gone + 1) + 1
      BY <2>1, FS_Interval
    <3> QED
      BY <2>1, <3>1
  <2> QED
    BY <2>1, <2>2, <2>3
<1>9. /\ IsFiniteSet(gone..lv) /\ IsFiniteSet((gone + 1)..lv)
  BY <1>2, <1>4, FS_Interval
<1>10. lq <= Cardinality(within)
  BY <1>5, <1>6, <1>8, FS_Subset
<1>11. Cardinality(inside) <= lq + 1
  BY <1>7, <1>8, <1>9, FS_Subset
<1>12. Cardinality(inside) \in Nat
  BY <1>5, FS_CardinalityType
<1>13. lq <= Cardinality(within) /\ Cardinality(inside) - 1 <= lq
  BY <1>2, <1>10, <1>11, <1>12
<1> QED
  BY <1>13 DEF Within, Inside, within, inside, lq

\* The visits of one node in the window are visits of its key.
LEMMA WithinOfKey ==
  ASSUME NEW visits, \A n \in Nodes : Len(visits[n]) \in Nat /\ DOMAIN visits[n] = 1..Len(visits[n]),
         NEW n \in Nodes, NEW time
  PROVE  /\ Within(visits[n], time) \in Nat /\ WithinKey(visits, keyOf[n], time) \in Nat
         /\ Within(visits[n], time) <= WithinKey(visits, keyOf[n], time)
<1> DEFINE inWindow(m) == {j \in DOMAIN visits[m] : time - visits[m][j] <= ValidTime}
           owned == {m \in Nodes : keyOf[m] = keyOf[n]}
           all == UNION {NodeVisits(visits, m, time) : m \in owned}
<1>1. IsFiniteSet(owned)
  <2>1. Cardinality(Keys) \in Nat
    BY FS_CardinalityType
  <2> DEFINE card == Cardinality(Keys)
  <2> HIDE DEF card
  <2>2. ((MaxCleans + MaxClears + 1) * card) \in Int
    BY <2>1 DEF card
  <2>3. IsFiniteSet(1..((MaxCleans + MaxClears + 1) * card))
    BY <2>2, FS_Interval
  <2>4. IsFiniteSet(Nodes)
    BY <2>3 DEF Nodes, card
  <2> QED
    BY <2>4, FS_Subset
<1>2. ASSUME NEW m \in Nodes
      PROVE  /\ IsFiniteSet(inWindow(m))
             /\ IsFiniteSet(NodeVisits(visits, m, time))
             /\ Cardinality(NodeVisits(visits, m, time)) = Cardinality(inWindow(m))
  <2> DEFINE pair == [i \in inWindow(m) |-> <<m, i>>]
  <2>1. IsFiniteSet(inWindow(m))
    <3>0. Len(visits[m]) \in Int /\ DOMAIN visits[m] = 1..Len(visits[m])
      OBVIOUS
    <3>1. IsFiniteSet(1..Len(visits[m])) /\ inWindow(m) \subseteq 1..Len(visits[m])
      BY <3>0, FS_Interval
    <3> QED
      BY <3>1, FS_Subset
  <2>2. NodeVisits(visits, m, time) = {<<m, i>> : i \in inWindow(m)}
    BY DEF NodeVisits
  <2> HIDE DEF inWindow
  <2>3. pair \in [inWindow(m) -> NodeVisits(visits, m, time)]
    BY <2>2
  <2>4. \A i, j \in inWindow(m) : pair[i] = pair[j] => i = j
    OBVIOUS
  <2>5. \A p \in NodeVisits(visits, m, time) : \E i \in inWindow(m) : pair[i] = p
    BY <2>2
  <2>6. pair \in Bijection(inWindow(m), NodeVisits(visits, m, time))
    <3> HIDE DEF pair
    <3> QED
      BY <2>3, <2>4, <2>5 DEF Bijection, Injection, Surjection, IsInjective
  <2> QED
    BY <2>1, <2>6, FS_Bijection DEF ExistsBijection
<1>3. IsFiniteSet({NodeVisits(visits, m, time) : m \in owned})
  <2> DEFINE all0 == {NodeVisits(visits, m, time) : m \in owned}
             visitsOf == [m \in owned |-> NodeVisits(visits, m, time)]
  <2>1. visitsOf \in Surjection(owned, all0)
    BY DEF Surjection
  <2> HIDE DEF visitsOf, owned
  <2> QED
    BY <1>1, <2>1, FS_Surjection
<1>4. IsFiniteSet(all)
  BY <1>2, <1>3, FS_UNION
<1>5. NodeVisits(visits, n, time) \subseteq all
  OBVIOUS
<1>6. Cardinality(NodeVisits(visits, n, time)) <= Cardinality(all)
  <2> HIDE DEF all
  <2> QED
    BY <1>4, <1>5, FS_Subset
<1>7. Cardinality(inWindow(n)) \in Nat /\ Cardinality(all) \in Nat
  <2>1. IsFiniteSet(inWindow(n))
    BY <1>2
  <2> HIDE DEF all, inWindow
  <2> QED
    BY <1>4, <2>1, FS_CardinalityType
<1> QED
  BY <1>2, <1>6, <1>7 DEF Within, WithinKey

-----------------------------------------------------------------------------
(* Every step keeps the last visits of every node, and the answers true to them. *)

\* A new node starts with no visit and the present time as lastValidTime.
LEMMA GetNodeWindow ==
  ASSUME NodeInv, WindowInv, NEW t \in Threads, NEW k \in Keys, GetNode(t, k),
         UNCHANGED <<now, log>>
  PROVE  WindowInv'
<1>0. TypeOK /\ NodesOwned
  BY DEF NodeInv
<1>1. CASE map[k] # NoNode
  <2>1. UNCHANGED <<used, lastValid, queue>>
    BY <1>1 DEF GetNode, nodes
  <2> QED
    BY <2>1 DEF WindowInv, LastVisits
<1>2. CASE map[k] = NoNode
  <2> DEFINE fresh == used + 1
  <2>1. /\ fresh \in Nodes /\ used' = fresh /\ UNCHANGED queue
        /\ lastValid' = [lastValid EXCEPT ![fresh] = now]
    BY <1>2 DEF GetNode
  <2>2. used \in Nat /\ fresh > used /\ now \in Nat
    BY <1>0, <2>1, NodesType DEF TypeOK
  <2>3. fresh = used + 1
    OBVIOUS
  <2> HIDE DEF fresh
  <2>4. ASSUME NEW n \in Nodes
        PROVE  LastVisits(queue[n], log[n], lastValid'[n], now) /\ (n > used' => log[n] = <<>>)
    <3>1. LastVisits(queue[n], log[n], lastValid[n], now) /\ (n > used => log[n] = <<>>)
      BY DEF WindowInv
    <3>2. n > used' => log[n] = <<>>
      <4>1. n \in Nat /\ used' = used + 1
        BY <2>1, <2>3, NodesType
      <4>2. n > used' => n > used
        BY <2>2, <4>1
      <4> QED
        BY <3>1, <4>2
    <3>3. CASE n = fresh
      <4>1. log[n] = <<>> /\ lastValid'[n] = now
        BY <1>0, <2>1, <2>2, <3>1, <3>3 DEF TypeOK
      <4>2. queue[n] \in Seq(0..now) /\ Len(queue[n]) <= 0
        BY <3>1, <4>1 DEF LastVisits
      <4>3. queue[n] = <<>>
        BY <4>2
      <4>4. now \in 0..now
        BY <2>2
      <4>5. LastVisits(<<>>, <<>>, now, now)
        BY <4>4 DEF LastVisits
      <4> QED
        BY <3>2, <4>1, <4>3, <4>5
    <3>4. CASE n # fresh
      <4>1. lastValid'[n] = lastValid[n]
        BY <1>0, <2>1, <3>4 DEF TypeOK
      <4> QED
        BY <3>1, <3>2, <4>1
    <3> QED
      BY <3>3, <3>4
  <2> QED
    BY <2>1, <2>4 DEF WindowInv
<1> QED
  BY <1>1, <1>2

\* The answer of a visit is taken from the last visits of the node.
LEMMA VisitWindow ==
  ASSUME NodeInv, WindowInv, NEW t \in Threads, Visit(t), DOMAIN result = Threads
  PROVE  /\ WindowInv'
         /\ DOMAIN result' = Threads
         /\ \A u \in Threads \ {t} : result'[u] = result[u]
         /\ result'[t].count <= result'[t].ofKey
         /\ result'[t].cached => result'[t].ofKey > HitNum
         /\ result'[t].inside - 1 <= result'[t].count
         /\ result'[t].count <= result'[t].within
<1> DEFINE n == at[t]
           q == Append(queue[n], now)
           visits == Append(log[n], now)
           e == IF Moved(n, now) THEN Effective(q, lastValid[n], now)
                ELSE [queue |-> q, last |-> lastValid[n]]
           newLog == [log EXCEPT ![n] = visits]
<1>0. TypeOK /\ NodesOwned /\ PutsAtNode
  BY DEF NodeInv
<1>1. /\ pc[t] = "entering"
      /\ queue' = [queue EXCEPT ![n] = e.queue]
      /\ lastValid' = [lastValid EXCEPT ![n] = e.last]
      /\ log' = newLog
      /\ result' = [result EXCEPT ![t] =
           [count |-> Len(e.queue), cached |-> Len(e.queue) > HitNum, key |-> key[t],
            within |-> Within(log'[n], now), inside |-> Inside(log'[n], now),
            ofKey |-> WithinKey(log', key[t], now)]]
      /\ UNCHANGED <<now, used>>
  BY DEF Visit
<1>2. n \in Nodes /\ key[t] \in Keys /\ keyOf[n] = key[t]
  BY <1>0, <1>1 DEF PutsAtNode
<1>3. ~(n > used)
  BY <1>0, <1>2 DEF NodesOwned
<1>4. now \in Nat /\ ValidTime \in Nat /\ now \in 0..now /\ HitNum \in Nat
  BY <1>0 DEF TypeOK
<1>5. LastVisits(queue[n], log[n], lastValid[n], now) /\ log[n] \in Seq(0..now)
  BY <1>2 DEF WindowInv
<1>6. LastVisits(q, visits, lastValid[n], now) /\ visits \in Seq(0..now)
  <2>1. LastVisits(q, visits, lastValid[n], now)
    BY <1>4, <1>5, LastVisitsAppend
  <2> QED
    BY <2>1 DEF LastVisits
<1>7. LastVisits(e.queue, visits, e.last, now) /\ \A j \in DOMAIN e.queue : now - e.queue[j] <= ValidTime
  <2>1. CASE Moved(n, now)
    <3> DEFINE f == Effective(q, lastValid[n], now)
    <3>1. e = f
      BY <2>1
    <3>2. now \in 0..now /\ now - lastValid[n] > ValidTime
      BY <1>4, <2>1 DEF Moved
    <3>3. LastVisits(f.queue, visits, f.last, now) /\ \A j \in DOMAIN f.queue : now - f.queue[j] < ValidTime
      BY <1>4, <1>6, <3>2, LastVisitsPruned
    <3>4. f.queue \in Seq(0..now)
      BY <3>3 DEF LastVisits
    <3> HIDE DEF f, e
    <3>5. \A j \in DOMAIN f.queue : f.queue[j] \in Nat
      <4>1. \A j \in 1..Len(f.queue) : f.queue[j] \in 0..now
        BY <3>4, ElementOfSeq
      <4>2. DOMAIN f.queue = 1..Len(f.queue)
        BY <3>4
      <4> QED
        BY <1>4, <4>1, <4>2
    <3>6. \A j \in DOMAIN f.queue : now - f.queue[j] <= ValidTime
      BY <1>4, <3>3, <3>5
    <3> QED
      BY <3>1, <3>3, <3>6
  <2>2. CASE ~Moved(n, now)
    <3>1. e.queue = q /\ e.last = lastValid[n]
      BY <2>2
    <3>2. ~(now - lastValid[n] > ValidTime)
      BY <2>2 DEF Moved
    <3> HIDE DEF e, q, visits
    <3>3. q \in Seq(0..now) /\ lastValid[n] \in 0..now /\ \A j \in DOMAIN q : lastValid[n] <= q[j]
      BY <1>6 DEF LastVisits
    <3>4. \A j \in DOMAIN q : q[j] \in Nat
      <4>1. \A j \in 1..Len(q) : q[j] \in 0..now
        BY <3>3, ElementOfSeq
      <4>2. DOMAIN q = 1..Len(q)
        BY <3>3
      <4> QED
        BY <1>4, <4>1, <4>2
    <3>5. \A j \in DOMAIN q : now - q[j] <= ValidTime
      BY <1>4, <3>2, <3>3, <3>4
    <3> QED
      BY <1>6, <3>1, <3>5
  <2> QED
    BY <2>1, <2>2
<1> HIDE DEF n, q, visits, e
<1>8. newLog \in [Nodes -> Seq(0..now)] /\ newLog[n] = visits /\ \A m \in Nodes : m # n => newLog[m] = log[m]
  BY <1>2, <1>6 DEF WindowInv
<1>9. /\ queue'[n] = e.queue /\ lastValid'[n] = e.last
      /\ \A m \in Nodes : m # n => queue'[m] = queue[m] /\ lastValid'[m] = lastValid[m]
  BY <1>0, <1>1, <1>2 DEF TypeOK
<1> HIDE DEF newLog
<1>10. WindowInv'
  <2> SUFFICES ASSUME NEW m \in Nodes
               PROVE  /\ LastVisits(queue'[m], newLog[m], lastValid'[m], now)
                      /\ m > used => newLog[m] = <<>>
    BY <1>1, <1>8 DEF WindowInv
  <2>1. CASE m = n
    BY <1>3, <1>7, <1>8, <1>9, <2>1
  <2>2. CASE m # n
    BY <1>8, <1>9, <2>2 DEF WindowInv
  <2> QED
    BY <2>1, <2>2
<1>11. Len(e.queue) <= Within(visits, now) /\ Inside(visits, now) - 1 <= Len(e.queue)
  BY <1>4, <1>7, LastVisitsCounted
<1>12. /\ Within(visits, now) \in Nat /\ WithinKey(newLog, key[t], now) \in Nat
       /\ Within(visits, now) <= WithinKey(newLog, key[t], now)
  <2>1. \A m \in Nodes : Len(newLog[m]) \in Nat /\ DOMAIN newLog[m] = 1..Len(newLog[m])
    BY <1>8
  <2>2. /\ Within(newLog[n], now) \in Nat /\ WithinKey(newLog, keyOf[n], now) \in Nat
        /\ Within(newLog[n], now) <= WithinKey(newLog, keyOf[n], now)
    BY <1>2, <2>1, WithinOfKey
  <2> QED
    BY <1>2, <1>8, <2>2
<1>13. Len(e.queue) \in Nat
  BY <1>7 DEF LastVisits
<1>14. /\ result'[t].count = Len(e.queue)
       /\ result'[t].cached = (Len(e.queue) > HitNum)
       /\ result'[t].within = Within(visits, now)
       /\ result'[t].inside = Inside(visits, now)
       /\ result'[t].ofKey = WithinKey(newLog, key[t], now)
  BY <1>1, <1>8
<1>15. DOMAIN result' = Threads /\ \A u \in Threads \ {t} : result'[u] = result[u]
  BY <1>1
<1>16. Len(e.queue) <= WithinKey(newLog, key[t], now)
  BY <1>11, <1>12, <1>13
<1>17. Len(e.queue) > HitNum => WithinKey(newLog, key[t], now) > HitNum
  BY <1>4, <1>12, <1>13, <1>16
<1> QED
  BY <1>10, <1>11, <1>14, <1>15, <1>16, <1>17

\* The cleaner prunes a node at the time its round began.
LEMMA CleanPollWindow ==
  ASSUME NodeInv, WindowInv, CleanPoll
  PROVE  WindowInv'
<1> DEFINE e == Effective(queue[cnode], lastValid[cnode], ctime)
<1>0. TypeOK /\ CleanerAtNode
  BY DEF NodeInv
<1>1. /\ cpc = "polling" /\ Moved(cnode, ctime)
      /\ queue' = [queue EXCEPT ![cnode] = e.queue]
      /\ lastValid' = [lastValid EXCEPT ![cnode] = e.last]
      /\ UNCHANGED <<now, used, log>>
  BY DEF CleanPoll, history
<1>2. cnode \in Nodes /\ ctime \in 0..now /\ now \in Nat
  BY <1>0, <1>1 DEF CleanerAtNode, TypeOK
<1>3. LastVisits(queue[cnode], log[cnode], lastValid[cnode], now)
  BY <1>2 DEF WindowInv
<1>4. ctime - lastValid[cnode] > ValidTime
  BY <1>1 DEF Moved
<1>5. LastVisits(e.queue, log[cnode], e.last, now)
  BY <1>2, <1>3, <1>4, LastVisitsPruned
<1> HIDE DEF e
<1>6. /\ queue'[cnode] = e.queue /\ lastValid'[cnode] = e.last
      /\ \A m \in Nodes : m # cnode => queue'[m] = queue[m] /\ lastValid'[m] = lastValid[m]
  BY <1>0, <1>1, <1>2 DEF TypeOK
<1> SUFFICES ASSUME NEW m \in Nodes
             PROVE  LastVisits(queue'[m], log[m], lastValid'[m], now)
  BY <1>1 DEF WindowInv
<1>7. CASE m = cnode
  BY <1>5, <1>6, <1>7
<1>8. CASE m # cnode
  BY <1>6, <1>8 DEF WindowInv
<1> QED
  BY <1>7, <1>8

\* The steps that leave the visits alone.
LEMMA OtherWindow ==
  ASSUME NodeInv, WindowInv, UNCHANGED <<used, lastValid, queue, log>>, now' \in Nat, now <= now'
  PROVE  WindowInv'
<1>1. now \in Nat /\ 0..now \subseteq 0..now'
  BY DEF NodeInv, TypeOK
<1>2. Seq(0..now) \subseteq Seq(0..now')
  BY <1>1, SeqMonotonic
<1>3. log' \in [Nodes -> Seq(0..now')]
  BY <1>2 DEF WindowInv
<1>4. ASSUME NEW n \in Nodes
      PROVE  LastVisits(queue[n], log[n], lastValid[n], now') /\ (n > used => log[n] = <<>>)
  BY <1>1, LastVisitsLater DEF WindowInv
<1> QED
  BY <1>3, <1>4 DEF WindowInv

\* Answers are given by visits only.
AnswerInv ==
  NodeInv /\ WindowInv /\ DOMAIN result = Threads /\ NeverOvercounts /\ MissesOne

LEMMA AnswerInit == Init => AnswerInv
<1> SUFFICES ASSUME Init
             PROVE  AnswerInv
  OBVIOUS
<1>1. NodeInv
  BY InitInv
<1>2. <<>> \in Seq(0..0) /\ Len(<<>>) = 0 /\ DOMAIN <<>> = {} /\ 0 \in 0..0
  OBVIOUS
<1>3. LastVisits(<<>>, <<>>, 0, 0)
  BY <1>2 DEF LastVisits
<1>4. log = [n \in Nodes |-> <<>>] /\ now = 0
  BY DEF Init
<1>5. WindowInv
  <2>1. \A n \in Nodes : queue[n] = <<>> /\ log[n] = <<>> /\ lastValid[n] = 0
    BY DEF Init
  <2> QED
    BY <1>2, <1>3, <1>4, <2>1 DEF WindowInv
<1>6. DOMAIN result = Threads /\ NeverOvercounts /\ MissesOne
  BY DEF Init, NoResult, NeverOvercounts, MissesOne
<1> QED
  BY <1>1, <1>5, <1>6 DEF AnswerInv

LEMMA AnswerNext == AnswerInv /\ [Next]_vars => AnswerInv'
<1> SUFFICES ASSUME AnswerInv, [Next]_vars
             PROVE  AnswerInv'
  OBVIOUS
<1>0. NodeInv /\ WindowInv /\ DOMAIN result = Threads /\ NeverOvercounts /\ MissesOne /\ NodeInv'
  BY NextInv DEF AnswerInv
<1>1. ASSUME NEW t \in Threads, Visit(t)
      PROVE  AnswerInv'
  <2>1. /\ WindowInv'
        /\ DOMAIN result' = Threads
        /\ \A u \in Threads \ {t} : result'[u] = result[u]
        /\ result'[t].count <= result'[t].ofKey
        /\ result'[t].cached => result'[t].ofKey > HitNum
        /\ result'[t].inside - 1 <= result'[t].count
        /\ result'[t].count <= result'[t].within
    BY <1>0, <1>1, VisitWindow
  <2> QED
    BY <1>0, <2>1 DEF AnswerInv, NeverOvercounts, MissesOne
<1>2. ASSUME WindowInv', UNCHANGED result
      PROVE  AnswerInv'
  BY <1>0, <1>2 DEF AnswerInv, NeverOvercounts, MissesOne
<1>3. ASSUME NEW t \in Threads, NEW k \in Keys, Put(t, k)
      PROVE  AnswerInv'
  <2>1. GetNode(t, k) /\ UNCHANGED <<now, log, result>>
    BY <1>3 DEF Put
  <2> QED
    BY <1>0, <1>2, <2>1, GetNodeWindow
<1>4. ASSUME NEW t \in Threads, Retry(t)
      PROVE  AnswerInv'
  <2>1. GetNode(t, key[t]) /\ key[t] \in Keys /\ UNCHANGED <<now, log, result>>
    BY <1>0, <1>4 DEF Retry, NodeInv, PutsAtNode
  <2> QED
    BY <1>0, <1>2, <2>1, GetNodeWindow
<1>5. CASE CleanPoll
  <2>1. UNCHANGED result
    BY <1>5 DEF CleanPoll, history
  <2> QED
    BY <1>0, <1>2, <1>5, <2>1, CleanPollWindow
<1>6. ASSUME UNCHANGED <<used, lastValid, queue, log, result>>, now' = now \/ now' = now + 1
      PROVE  AnswerInv'
  <2>1. now' \in Nat /\ now <= now'
    BY <1>0, <1>6 DEF NodeInv, TypeOK
  <2> QED
    BY <1>0, <1>2, <1>6, <2>1, OtherWindow
<1>7. ASSUME NEW k \in Keys, CleanKey(k)
      PROVE  AnswerInv'
  BY <1>6, <1>7 DEF CleanKey, nodes, history
<1>8. CASE CleanEnter \/ CleanUnmap \/ CleanEnd
  BY <1>6, <1>8 DEF CleanEnter, CleanUnmap, CleanEnd, nodes, history
<1>9. CASE Clear \/ CleanStart \/ Tick \/ UNCHANGED vars
  BY <1>6, <1>9 DEF Clear, CleanStart, Tick, vars, nodes, history
<1> QED
  BY <1>1, <1>3, <1>4, <1>5, <1>7, <1>8, <1>9 DEF Next, PutStep, CleanerStep

\* An answer counts only visits of its key that are in the window, whatever the
\* cleaner and clear did meanwhile; a key is reported as cached only when it was
\* visited more than hitNum times.
THEOREM NeverOvercountsCorrect == Spec => []NeverOvercounts
<1>1. AnswerInv => NeverOvercounts
  BY DEF AnswerInv
<1> QED
  BY <1>1, AnswerInit, AnswerNext, PTL DEF Spec

\* Of the visits a node had, an answer counts no more than those in the window, and
\* misses at most one of those strictly inside it.
THEOREM MissesOneCorrect == Spec => []MissesOne
<1>1. AnswerInv => MissesOne
  BY DEF AnswerInv
<1> QED
  BY <1>1, AnswerInit, AnswerNext, PTL DEF Spec
=============================================================================
