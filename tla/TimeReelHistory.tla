--------------------------- MODULE TimeReelHistory ---------------------------
(***************************************************************************)
(* localCache/.../history/TimeReelHistory: threads that record visits of   *)
(* keys, the nodes that hold the visit times of a key, each guarded by its *)
(* monitor, and the cleaner thread that prunes and unmaps them.            *)
(*                                                                         *)
(* A node is named by its number, in the order of creation.  Every access  *)
(* to a node is made inside its monitor, so what a thread does there is    *)
(* one step; a monitor is held across steps only by a put that retries and *)
(* by the cleaner.  Times are whole units of a clock that does not go back.*)
(***************************************************************************)
EXTENDS Integers, Sequences, FiniteSets

CONSTANTS
  Keys, Threads,
  ValidTime,    \* validTime
  HitNum,       \* hitNum
  NoKey, NoNode,
  MaxTime,      \* bound: the last value of the clock
  MaxPuts,      \* bound: puts each thread makes
  MaxCleans,    \* bound: rounds of the cleaner
  MaxClears     \* bound: calls of clear

\* A key gets a new node at most once after each removal of its node, so that
\* this many are never used up.
Nodes == 1..((MaxCleans + MaxClears + 1) * Cardinality(Keys))

ASSUME KeyAssumption == NoKey \notin Keys /\ IsFiniteSet(Keys)
ASSUME NodeAssumption == NoNode = 0
ASSUME TimeAssumption == ValidTime \in Nat \ {0} /\ HitNum \in Nat
ASSUME BoundAssumption ==
  MaxTime \in Nat /\ MaxPuts \in Nat /\ MaxCleans \in Nat /\ MaxClears \in Nat

VARIABLES
  now,                    \* System.currentTimeMillis()
  map,                    \* hashMap: the node of each key, or NoNode
  used,                   \* the nodes created so far are 1..used
  lastValid, queue,       \* Node.lastValidTime and Node.visitTimeQueue
  removed,                \* Node.remove
  pc, key, at, held,      \* each thread: its key, its node, monitors it holds
  cpc, ctime, todo,       \* the cleaner: its clock reading, keys to come
  ckey, cnode,            \*   the key and the node it is at
  puts, cleans, clears,   \* the bounded counters
  keyOf, log, result      \* history: node's key and visits, last answer given

nodes   == <<used, lastValid, queue, removed>>
threads == <<pc, key, at, held>>
cleaner == <<cpc, ctime, todo, ckey, cnode>>
bounds  == <<puts, cleans, clears>>
history == <<keyOf, log, result>>
vars    == <<now, map, nodes, threads, cleaner, bounds, history>>

-----------------------------------------------------------------------------
\* A monitor is held by the cleaner, or by a put that retries.
CleanerHolds(n) == cpc \in {"polling", "unmap"} /\ cnode = n
Free(n, t) == ~CleanerHolds(n) /\ \A u \in Threads \ {t} : n \notin held[u]

\* Mutant of Effective: one visit is polled, as if the loop were an if.
EffectiveOnce(q, last, time) ==
  IF q = <<>> THEN [queue |-> <<>>, last |-> last]
  ELSE [queue |-> Tail(q), last |-> IF time - Head(q) < ValidTime THEN Head(q) ELSE last]

\* Mutant of Effective: polling goes on to the last valid visit.
EffectiveLast(q, last, time) ==
  LET valid == {i \in DOMAIN q : time - q[i] < ValidTime}
      final == CHOOSE i \in valid : \A j \in valid : j <= i
  IN  IF valid = {} THEN [queue |-> <<>>, last |-> last]
      ELSE [queue |-> SubSeq(q, final + 1, Len(q)), last |-> q[final]]

\* getEffectiveTime once the window has moved: visits are polled up to the first
\* that is still valid; it becomes lastValidTime and leaves the queue too.
Effective(q, last, time) ==
  LET valid == {i \in DOMAIN q : time - q[i] < ValidTime}
      first == CHOOSE i \in valid : \A j \in valid : i <= j
  IN  IF valid = {} THEN [queue |-> <<>>, last |-> last]
      ELSE [queue |-> SubSeq(q, first + 1, Len(q)), last |-> q[first]]

\* The window has moved past lastValidTime.
Moved(n, time) == time - lastValid[n] > ValidTime

-----------------------------------------------------------------------------
(* The putting threads. *)

\* getNode: one step, for it runs under the monitor of the map, and the cleaner,
\* which does not take it, cannot change a key without a node.
GetNode(t, k) ==
  LET fresh == used + 1
  IN  IF map[k] # NoNode
        THEN /\ at' = [at EXCEPT ![t] = map[k]]
             /\ UNCHANGED <<map, nodes, keyOf>>
        ELSE /\ fresh \in Nodes
             /\ used' = fresh
             /\ map' = [map EXCEPT ![k] = fresh]
             /\ lastValid' = [lastValid EXCEPT ![fresh] = now]
             /\ keyOf' = [keyOf EXCEPT ![fresh] = k]
             /\ at' = [at EXCEPT ![t] = fresh]
             /\ UNCHANGED <<queue, removed>>

\* putAndCount or putAndisCache is called.
Put(t, k) ==
  /\ pc[t] = "idle"
  /\ puts[t] < MaxPuts
  /\ puts' = [puts EXCEPT ![t] = @ + 1]
  /\ GetNode(t, k)
  /\ key' = [key EXCEPT ![t] = k]
  /\ pc' = [pc EXCEPT ![t] = "entering"]
  /\ UNCHANGED <<now, held, cleaner, cleans, clears, log, result>>

\* How many visits of the node are in the window at a time: up to its edge, and
\* strictly inside it.
Within(visits, time) == Cardinality({i \in DOMAIN visits : time - visits[i] <= ValidTime})
Inside(visits, time) == Cardinality({i \in DOMAIN visits : time - visits[i] < ValidTime})

\* The same over all the nodes a key has had.
NodeVisits(visits, n, time) ==
  {<<n, i>> : i \in {j \in DOMAIN visits[n] : time - visits[n][j] <= ValidTime}}
WithinKey(visits, k, time) ==
  Cardinality(UNION {NodeVisits(visits, n, time) : n \in {m \in Nodes : keyOf[m] = k}})

\* addAndgetCount and putAndisCache, inside the monitor: the visit joins the
\* queue, the window moves if it must, and what is left is counted.  The method
\* returns and leaves every monitor of its retries.
Visit(t) ==
  LET n == at[t]
      q == Append(queue[n], now)
      e == IF Moved(n, now) THEN Effective(q, lastValid[n], now)
           ELSE [queue |-> q, last |-> lastValid[n]]
  IN  /\ pc[t] = "entering"
      /\ Free(n, t)
      /\ ~removed[n]
      /\ queue' = [queue EXCEPT ![n] = e.queue]
      /\ lastValid' = [lastValid EXCEPT ![n] = e.last]
      /\ log' = [log EXCEPT ![n] = Append(@, now)]
      /\ result' = [result EXCEPT ![t] =
           [count |-> Len(e.queue), cached |-> Len(e.queue) > HitNum, key |-> key[t],
            within |-> Within(log'[n], now), inside |-> Inside(log'[n], now),
            ofKey |-> WithinKey(log', key[t], now)]]
      /\ pc' = [pc EXCEPT ![t] = "idle"]
      /\ held' = [held EXCEPT ![t] = {}]
      /\ UNCHANGED <<now, map, used, removed, key, at, cleaner, bounds, keyOf>>

\* Mutant of Retry: the same node is entered again.
RetrySame(t) ==
  /\ pc[t] = "entering"
  /\ Free(at[t], t)
  /\ removed[at[t]]
  /\ held' = [held EXCEPT ![t] = @ \cup {at[t]}]
  /\ UNCHANGED <<now, map, nodes, pc, key, at, cleaner, bounds, history>>

\* Mutant of Retry: the monitor kept is that of the node the map has now.
RetryReads(t) ==
  /\ pc[t] = "entering"
  /\ Free(at[t], t)
  /\ removed[at[t]]
  /\ held' = [held EXCEPT ![t] = @ \cup {map[key[t]]}]
  /\ GetNode(t, key[t])
  /\ UNCHANGED <<now, pc, key, cleaner, bounds, log, result>>

\* remveoeExamine throws: the method calls itself inside the monitor.
Retry(t) ==
  /\ pc[t] = "entering"
  /\ Free(at[t], t)
  /\ removed[at[t]]
  /\ held' = [held EXCEPT ![t] = @ \cup {at[t]}]
  /\ GetNode(t, key[t])
  /\ UNCHANGED <<now, pc, key, cleaner, bounds, log, result>>

\* clear of the whole history.
Clear ==
  /\ clears < MaxClears
  /\ clears' = clears + 1
  /\ map' = [k \in Keys |-> NoNode]
  /\ UNCHANGED <<now, nodes, threads, cleaner, puts, cleans, history>>

-----------------------------------------------------------------------------
(* The cleaner. *)

\* A round begins: the clock is read once for all keys.
CleanStart ==
  /\ cpc = "idle"
  /\ cleans < MaxCleans
  /\ cleans' = cleans + 1
  /\ cpc' = "next"
  /\ ctime' = now
  /\ todo' = Keys
  /\ UNCHANGED <<now, map, nodes, threads, ckey, cnode, puts, clears, history>>

\* The next key of the iteration; a key without a node is passed over.
CleanKey(k) ==
  /\ cpc = "next"
  /\ k \in todo
  /\ todo' = todo \ {k}
  /\ IF map[k] = NoNode
       THEN UNCHANGED <<cpc, ckey, cnode>>
       ELSE cpc' = "entering" /\ ckey' = k /\ cnode' = map[k]
  /\ UNCHANGED <<now, map, nodes, threads, ctime, bounds, history>>

\* The cleaner enters the node's monitor; a removed node it only unmaps.
CleanEnter ==
  /\ cpc = "entering"
  /\ \A u \in Threads : cnode \notin held[u]
  /\ cpc' = IF removed[cnode] THEN "unmap" ELSE "polling"
  /\ UNCHANGED <<now, map, nodes, threads, ctime, todo, ckey, cnode, bounds, history>>

\* getEffectiveTime, when the window has moved.  When it has not, the loop of
\* getEffectiveTime neither polls nor ends, and the cleaner takes no step again.
CleanPoll ==
  LET e == Effective(queue[cnode], lastValid[cnode], ctime)
  IN  /\ cpc = "polling"
      /\ Moved(cnode, ctime)
      /\ queue' = [queue EXCEPT ![cnode] = e.queue]
      /\ lastValid' = [lastValid EXCEPT ![cnode] = e.last]
      /\ removed' = [removed EXCEPT ![cnode] = ctime - e.last > ValidTime]
      /\ cpc' = "unmap"
      /\ UNCHANGED <<now, map, used, threads, ctime, todo, ckey, cnode, bounds, history>>

\* Mutant of CleanUnmap: a removed node stays in the map.
CleanUnmapForgets ==
  /\ cpc = "unmap"
  /\ map' = IF removed[cnode] THEN map ELSE [map EXCEPT ![ckey] = NoNode]
  /\ cpc' = "next"
  /\ UNCHANGED <<now, nodes, threads, ctime, todo, ckey, cnode, bounds, history>>

\* hashMap.remove(key): whatever the key maps to by now, and whether or not the
\* node was found stale.
CleanUnmap ==
  /\ cpc = "unmap"
  /\ map' = [map EXCEPT ![ckey] = NoNode]
  /\ cpc' = "next"
  /\ UNCHANGED <<now, nodes, threads, ctime, todo, ckey, cnode, bounds, history>>

CleanEnd ==
  /\ cpc = "next"
  /\ todo = {}
  /\ cpc' = "idle"
  /\ UNCHANGED <<now, map, nodes, threads, ctime, todo, ckey, cnode, bounds, history>>

Tick ==
  /\ now < MaxTime
  /\ now' = now + 1
  /\ UNCHANGED <<map, nodes, threads, cleaner, bounds, history>>

-----------------------------------------------------------------------------
NoResult == [count |-> 0, cached |-> FALSE, key |-> NoKey, within |-> 0, inside |-> 0, ofKey |-> 0]

Init ==
  /\ now = 0
  /\ map = [k \in Keys |-> NoNode]
  /\ used = 0
  /\ lastValid = [n \in Nodes |-> 0]
  /\ queue = [n \in Nodes |-> <<>>]
  /\ removed = [n \in Nodes |-> FALSE]
  /\ pc = [t \in Threads |-> "idle"]
  /\ key = [t \in Threads |-> NoKey]
  /\ at = [t \in Threads |-> NoNode]
  /\ held = [t \in Threads |-> {}]
  /\ cpc = "idle" /\ ctime = 0 /\ todo = {} /\ ckey = NoKey /\ cnode = NoNode
  /\ puts = [t \in Threads |-> 0] /\ cleans = 0 /\ clears = 0
  /\ keyOf = [n \in Nodes |-> NoKey]
  /\ log = [n \in Nodes |-> <<>>]
  /\ result = [t \in Threads |-> NoResult]

PutStep(t) == Visit(t) \/ Retry(t)
CleanerStep == CleanEnter \/ CleanPoll \/ CleanUnmap \/ CleanEnd \/ \E k \in Keys : CleanKey(k)

Next ==
  \/ \E t \in Threads : PutStep(t) \/ \E k \in Keys : Put(t, k)
  \/ Clear
  \/ CleanStart
  \/ CleanerStep
  \/ Tick

Spec == Init /\ [][Next]_vars

\* A thread inside a put and the cleaner inside a round go on; the monitors are
\* not fair, but here a free monitor is taken in one step.
FairSpec ==
  /\ Spec
  /\ \A t \in Threads : WF_vars(PutStep(t))
  /\ WF_vars(CleanerStep)

-----------------------------------------------------------------------------
(* Properties. *)

\* The types of the history's state; no time in it is ahead of the clock.
TypeOK ==
  /\ now \in Nat
  /\ map \in [Keys -> Nodes \cup {NoNode}]
  /\ used \in Nodes \cup {0}
  /\ lastValid \in [Nodes -> 0..now]
  /\ queue \in [Nodes -> Seq(0..now)]
  /\ removed \in [Nodes -> BOOLEAN]
  /\ pc \in [Threads -> {"idle", "entering"}]
  /\ key \in [Threads -> Keys \cup {NoKey}]
  /\ at \in [Threads -> Nodes \cup {NoNode}]
  /\ held \in [Threads -> SUBSET Nodes]
  /\ cpc \in {"idle", "next", "entering", "polling", "unmap"}
  /\ ctime \in 0..now
  /\ todo \subseteq Keys
  /\ ckey \in Keys \cup {NoKey}
  /\ cnode \in Nodes \cup {NoNode}

\* An answer never counts a visit that has left the window: putAndisCache never
\* reports a key visited hitNum times or fewer within validTime, whatever the
\* cleaner does meanwhile.
NeverOvercounts ==
  \A t \in Threads : /\ result[t].count <= result[t].ofKey
                     /\ result[t].cached => result[t].ofKey > HitNum

\* Within the life of one node an answer misses at most the visit that
\* getEffectiveTime took as the new lastValidTime.
MissesOne ==
  \A t \in Threads : /\ result[t].inside - 1 <= result[t].count
                     /\ result[t].count <= result[t].within

\* A node marked as removed is out of the map as soon as its monitor is free, so
\* that a put that meets it does not meet it again.
RemovedUnmapped ==
  \A k \in Keys : map[k] # NoNode /\ removed[map[k]] => cpc = "unmap" /\ ckey = k /\ cnode = map[k]

\* A put that retries holds the monitors of older nodes than the one it waits
\* for, all marked as removed: monitors are taken in one order, so that puts and
\* the cleaner, which holds one, never wait for each other in a circle.
LockOrder ==
  \A t \in Threads : \A n \in held[t] : removed[n] /\ n < at[t]

\* The cleaner turns for ever in getEffectiveTime and keeps the node's monitor.
CleanerStuck == cpc = "polling" /\ ~Moved(cnode, ctime)

\* A put returns, unless the cleaner is stuck in a node of its key: no other
\* thread and no retry keeps a put waiting.
PutsReturnOrStuck ==
  \A t \in Threads :
    pc[t] = "entering" ~> (pc[t] = "idle" \/ (CleanerStuck /\ ckey = key[t]))

\* What HistoryTest waits for: every put returns.
PutsReturn == \A t \in Threads : pc[t] = "entering" ~> pc[t] = "idle"

\* What History says a put counts: the visits within the valid time, its own
\* included.
CountsWindow ==
  \A t \in Threads : result[t].inside <= result[t].count

-----------------------------------------------------------------------------
(* The inductive invariant behind RemovedUnmapped and LockOrder. *)

\* A node belongs to one key from its creation on; the map gives a key its own
\* nodes only, and of those the newest.
NodesOwned ==
  /\ keyOf \in [Nodes -> Keys \cup {NoKey}]
  /\ \A n \in Nodes : n > used => keyOf[n] = NoKey /\ ~removed[n]
  /\ \A k \in Keys : map[k] # NoNode => map[k] <= used /\ keyOf[map[k]] = k
  /\ \A k \in Keys, n \in Nodes : map[k] # NoNode /\ keyOf[n] = k => n <= map[k]

\* A thread in a put is at a node of its key, and holds nothing outside.
PutsAtNode ==
  \A t \in Threads :
    IF pc[t] = "entering"
      THEN key[t] \in Keys /\ at[t] \in Nodes /\ keyOf[at[t]] = key[t]
      ELSE held[t] = {}

\* The cleaner is at a node of its key, and polls only one that is not removed.
CleanerAtNode ==
  /\ cpc \in {"entering", "polling", "unmap"} =>
       ckey \in Keys /\ cnode \in Nodes /\ keyOf[cnode] = ckey
  /\ cpc = "polling" => ~removed[cnode]

NodeInv ==
  TypeOK /\ NodesOwned /\ PutsAtNode /\ CleanerAtNode /\ RemovedUnmapped /\ LockOrder

-----------------------------------------------------------------------------
(* The inductive invariant behind NeverOvercounts and MissesOne. *)

\* The queue q of a node has the last of its visits, none older than its
\* lastValidTime.  Of the visits that left it all are out of the window at time m,
\* but for the last, which may be lastValidTime.
LastVisits(q, visits, last, m) ==
  LET gone == Len(visits) - Len(q)
  IN  /\ q \in Seq(0..m) /\ visits \in Seq(0..m) /\ last \in 0..m
      /\ \A i, j \in DOMAIN visits : i <= j => visits[i] <= visits[j]
      /\ Len(q) <= Len(visits)
      /\ \A j \in DOMAIN q : q[j] = visits[gone + j] /\ last <= q[j]
      /\ \A i \in 1..gone : m - visits[i] >= ValidTime \/ (i = gone /\ visits[i] = last)

WindowInv ==
  /\ log \in [Nodes -> Seq(0..now)]
  /\ \A n \in Nodes : /\ LastVisits(queue[n], log[n], lastValid[n], now)
                      /\ n > used => log[n] = <<>>
=============================================================================
