----------------------- MODULE TransportOutcomeProofs -----------------------
(* What a call of TransportRpc is told, for every value of the constants:    *)
(* one outcome, a failure twice only after a failed write, and something     *)
(* before the connection is over, for callbacks that do not throw.           *)
EXTENDS TransportRpcProofs

USE RequestAssumption, CallbackAssumption, PipelineAssumption, ServerAssumption,
    BoundAssumption

-----------------------------------------------------------------------------
(* Task queues without duplicates. *)

\* Close, Inactive, writes and notifications are different tasks.
LEMMA TasksDiffer ==
  /\ \A r \in Requests : /\ Write(r) \notin {Close, Inactive}
                         /\ Notify(r) \notin {Close, Inactive}
  /\ \A r, s \in Requests : Write(r) # Notify(s)
  /\ \A r, s \in Requests : Write(r) = Write(s) => r = s
  /\ \A r, s \in Requests : Notify(r) = Notify(s) => r = s
BY DEF Write, Notify, Close, Inactive

\* Appending a task that is not queued yet, or may be queued twice.
LEMMA AppendOnce ==
  ASSUME NEW ts \in Seq(Task), NEW e \in Task, OnceEach(ts),
         e \in {Close, Inactive} \/ ~In(e, ts)
  PROVE  OnceEach(Append(ts, e))
<1> DEFINE app == Append(ts, e)
<1>1. Len(app) = Len(ts) + 1 /\ app[Len(ts) + 1] = e /\ \A i \in 1..Len(ts) : app[i] = ts[i]
  BY AppendProperties
<1>2. Len(ts) \in Nat
  OBVIOUS
<1> HIDE DEF app
<1>3. ASSUME NEW i \in 1..Len(app), NEW j \in 1..Len(app), app[i] = app[j],
             app[i] \notin {Close, Inactive}
      PROVE  i = j
  <2>1. CASE i \in 1..Len(ts) /\ j \in 1..Len(ts)
    BY <1>1, <1>3, <2>1 DEF OnceEach
  <2>2. CASE i = Len(ts) + 1 /\ j \in 1..Len(ts)
    BY <1>1, <1>3, <2>2 DEF In
  <2>3. CASE j = Len(ts) + 1 /\ i \in 1..Len(ts)
    BY <1>1, <1>3, <2>3 DEF In
  <2> QED
    BY <1>1, <1>2, <2>1, <2>2, <2>3
<1> QED
  BY <1>3 DEF OnceEach, app

\* The head of such a queue is not in its tail.
LEMMA TailOnce ==
  ASSUME NEW ts \in Seq(Task), ts # <<>>, OnceEach(ts)
  PROVE  /\ OnceEach(Tail(ts))
         /\ Head(ts) \notin {Close, Inactive} => ~In(Head(ts), Tail(ts))
<1>1. /\ Len(ts) \in Nat /\ Len(ts) > 0
      /\ Len(Tail(ts)) = Len(ts) - 1
      /\ \A i \in 1..Len(Tail(ts)) : Tail(ts)[i] = ts[i + 1]
  BY HeadTailProperties
<1>2. Head(ts) = ts[1]
  OBVIOUS
<1>3. OnceEach(Tail(ts))
  <2> SUFFICES ASSUME NEW i \in 1..Len(Tail(ts)), NEW j \in 1..Len(Tail(ts)),
                      Tail(ts)[i] = Tail(ts)[j], Tail(ts)[i] \notin {Close, Inactive}
               PROVE  i = j
    BY DEF OnceEach
  <2>1. i + 1 \in 1..Len(ts) /\ j + 1 \in 1..Len(ts) /\ ts[i + 1] = ts[j + 1]
    BY <1>1
  <2>2. i + 1 = j + 1
    BY <1>1, <2>1 DEF OnceEach
  <2> QED
    BY <2>2
<1>4. ASSUME Head(ts) \notin {Close, Inactive}, In(Head(ts), Tail(ts))
      PROVE  FALSE
  <2>1. PICK i \in 1..Len(Tail(ts)) : Tail(ts)[i] = Head(ts)
    BY <1>4 DEF In
  <2>2. i + 1 \in 1..Len(ts) /\ 1 \in 1..Len(ts) /\ ts[i + 1] = ts[1]
    BY <1>1, <1>2, <2>1
  <2>3. i + 1 = 1
    BY <1>2, <1>4, <2>2 DEF OnceEach
  <2> QED
    BY <2>3
<1> QED
  BY <1>3, <1>4

\* Taking a task: it is gone, and nothing is new.
LEMMA TakeOnce ==
  ASSUME TypeOK, OneTask, NEW task \in Task, Takes(task)
  PROVE  /\ Tail(tasks) \in Seq(Task) /\ OnceEach(Tail(tasks))
         /\ \A t : In(t, Tail(tasks)) => In(t, tasks)
         /\ \A t : In(t, tasks) /\ t # task => In(t, Tail(tasks))
         /\ task \notin {Close, Inactive} => ~In(task, Tail(tasks))
         /\ In(task, tasks)
<1>1. tasks \in Seq(Task) /\ tasks # <<>> /\ Head(tasks) = task /\ OnceEach(tasks)
  BY DEF TypeOK, Takes, OneTask
<1>2. tasks[1] = task /\ 1 \in 1..Len(tasks)
  BY <1>1
<1>3. In(task, tasks)
  BY <1>2 DEF In
<1> QED
  BY <1>1, <1>3, TailIn, TailOnce, HeadTailProperties

-----------------------------------------------------------------------------
(* What keeps the parts of the invariant. *)

\* What was sent stays sent.
SentStays == \A r \in Requests : write[r] = "sent" => write'[r] = "sent"

\* Whatever does not concern the server keeps ServedSent.
LEMMA ServedKept ==
  ASSUME TypeOK, ServedSent, SentStays, UNCHANGED <<served, deferred>>,
         replies' = replies \/ (replies # <<>> /\ replies' = Tail(replies))
  PROVE  ServedSent'
<1>1. \A r \in served' : write'[r] = "sent"
  BY DEF ServedSent, SentStays, TypeOK
<1>2. \A i \in 1..Len(replies') : replies'[i][2] \in served'
  <2>1. CASE replies' = replies
    BY <2>1 DEF ServedSent
  <2>2. CASE replies # <<>> /\ replies' = Tail(replies)
    <3> DEFINE R == {"ok", "error"} \X Requests
    <3>1. replies \in Seq(R)
      BY DEF TypeOK
    <3> HIDE DEF R
    <3>2. /\ Len(replies') = Len(replies) - 1 /\ Len(replies) \in Nat
          /\ \A i \in 1..Len(replies') : replies'[i] = replies[i + 1]
      BY <2>2, <3>1, HeadTailProperties
    <3>3. \A i \in 1..Len(replies') : i + 1 \in 1..Len(replies)
      BY <3>2
    <3> QED
      BY <3>2, <3>3 DEF ServedSent
  <2> QED
    BY <2>1, <2>2
<1>3. deferred' \subseteq served'
  BY DEF ServedSent
<1> QED
  BY <1>1, <1>2, <1>3 DEF ServedSent

\* A step tells r of no failure, and forgets none it was told of.
Untold(r) ==
  /\ fail'[r] = fail[r]
  /\ ToldByListener(r) => ToldByListener(r)'
  /\ ToldByTable(r) => ToldByTable(r)'

\* The listener tells r.
TellsListener(r) ==
  /\ fail'[r] = fail[r] + 1
  /\ ~ToldByListener(r) /\ ToldByListener(r)'
  /\ ToldByTable(r) => ToldByTable(r)'

\* failOutstandingRequests or handle tells r.
TellsTable(r) ==
  /\ fail'[r] = fail[r] + 1
  /\ ToldByListener(r) => ToldByListener(r)'
  /\ ~ToldByTable(r) /\ ToldByTable(r)'

LEMMA CountsKept ==
  ASSUME TypeOK, FailuresCounted,
         \A r \in Requests : fail'[r] = 0 \/ Untold(r) \/ TellsListener(r) \/ TellsTable(r)
  PROVE  FailuresCounted'
<1> SUFFICES ASSUME NEW r \in Requests
             PROVE  /\ fail'[r] <= 2
                    /\ fail'[r] = 1 => ToldByListener(r)' \/ ToldByTable(r)'
                    /\ fail'[r] = 2 => ToldByListener(r)' /\ ToldByTable(r)'
  BY DEF FailuresCounted
<1>0. fail[r] \in Nat
  BY DEF TypeOK
<1>1. /\ fail[r] <= 2
      /\ fail[r] = 1 => ToldByListener(r) \/ ToldByTable(r)
      /\ fail[r] = 2 => ToldByListener(r) /\ ToldByTable(r)
  BY DEF FailuresCounted
<1>2. CASE fail'[r] = 0
  BY <1>2
<1>3. CASE Untold(r)
  BY <1>1, <1>3 DEF Untold
<1>4. CASE TellsListener(r)
  <2>1. fail[r] = 0 \/ fail[r] = 1
    BY <1>0, <1>1, <1>4 DEF TellsListener
  <2> QED
    BY <1>1, <1>4, <2>1 DEF TellsListener
<1>5. CASE TellsTable(r)
  <2>1. fail[r] = 0 \/ fail[r] = 1
    BY <1>0, <1>1, <1>5 DEF TellsTable
  <2> QED
    BY <1>1, <1>5, <2>1 DEF TellsTable
<1> QED
  BY <1>2, <1>3, <1>4, <1>5

\* Closing the channel: each listener of a write it fails tells its call, and
\* had not done so before.
LEMMA CloseOutcome ==
  ASSUME TypeOK, OutcomeInv, NEW F \in SUBSET Requests, NEW ts \in Seq(Task),
         OnceEach(ts), \A t : In(t, ts) => In(t, tasks),
         \A r \in F : /\ ~In(Write(r), ts) /\ ~In(Notify(r), ts)
                      /\ write[r] \in {"queued", "failed"} /\ ~ToldByListener(r)
                      /\ inline' # r,
         CloseChannel(F, ts), UNCHANGED <<pc, seen, served, deferred, replies>>,
         inline' = inline \/ inline' = NoRequest,
         outstanding' \subseteq outstanding,
         \A r \in Requests : ToldByTable(r) => ToldByTable(r)'
  PROVE  OutcomeInv'
<1> DEFINE failing == F \cup Buffered
<1> USE DEF OutcomeInv
<1>1. /\ tasks' = IF open THEN Append(ts, Inactive) ELSE ts
      /\ \A r \in Requests : write'[r] = IF r \in failing THEN "failed" ELSE write[r]
      /\ UNCHANGED succ \/ \A r \in Requests : succ'[r] = succ[r]
      /\ \A r \in Requests : fail'[r] = IF r \in Listened(failing) THEN fail[r] + 1 ELSE fail[r]
  BY DEF CloseChannel, CallBack
<1>2. OnceEach(tasks') /\ \A t : In(t, tasks') => In(t, ts) \/ t = Inactive
  <2>1. CASE open
    BY <1>1, <2>1, AppendIn, AppendOnce, TaskType
  <2>2. CASE ~open
    BY <1>1, <2>2 DEF TypeOK
  <2> QED
    BY <2>1, <2>2 DEF TypeOK
<1>3. \A r \in Requests : /\ In(Write(r), tasks') => In(Write(r), tasks) /\ r \notin F
                          /\ In(Notify(r), tasks') => In(Notify(r), tasks) /\ r \notin F
  BY <1>2, TasksDiffer
<1>4. \A r \in failing : write[r] \in {"queued", "buffered", "failed"} /\ ~ToldByListener(r)
  BY DEF Buffered, ToldByListener
<1>5. UnusedCalls'
  <2>1. ASSUME NEW r \in Requests, pc[r] \in {"idle", "refused", "checked", "added"}
        PROVE  write'[r] = "none" /\ fail'[r] = fail[r]
    <3>1. write[r] = "none"
      BY <2>1 DEF UnusedCalls
    <3>2. r \notin failing
      BY <1>4, <3>1
    <3> QED
      BY <1>1, <3>1, <3>2 DEF Listened
  <2> QED
    BY <1>1, <2>1 DEF UnusedCalls
<1>6. OneTask'
  <2>1. \A r \in Requests : In(Write(r), tasks') => write'[r] = "queued" /\ inline' # r
    BY <1>1, <1>3 DEF OneTask, Buffered
  <2>2. \A r \in Requests : inline' = r => write'[r] = "queued"
    BY <1>1 DEF OneTask, Buffered
  <2>3. \A r \in Requests : In(Notify(r), tasks') => write'[r] = "failed" /\ pc'[r] = "returned"
    BY <1>1, <1>3 DEF OneTask
  <2> QED
    BY <1>2, <2>1, <2>2, <2>3 DEF OneTask, In
<1>7. ServedSent'
  <2>1. SentStays
    BY <1>1, <1>4 DEF SentStays
  <2> QED
    BY <2>1, ServedKept
<1>8. SuccessClaims'
  <2> SUFFICES ASSUME NEW r \in Requests, succ'[r] > 0
               PROVE  succ'[r] = 1 /\ fail'[r] = 0 /\ r \notin outstanding' /\ write'[r] = "sent"
    BY DEF SuccessClaims
  <2>1. succ[r] = 1 /\ fail[r] = 0 /\ r \notin outstanding /\ write[r] = "sent"
    BY <1>1 DEF SuccessClaims
  <2>2. r \notin failing
    BY <1>4, <2>1
  <2> QED
    BY <1>1, <2>1, <2>2 DEF Listened
<1>9. FailuresCounted'
  <2>1. ASSUME NEW r \in Requests
        PROVE  Untold(r) \/ TellsListener(r)
    <3>1. CASE r \in Listened(failing)
      <4>1. r \in failing /\ pc[r] = "returned"
        BY <3>1 DEF Listened
      <4>2. ~In(Notify(r), tasks')
        <5>1. CASE r \in F
          BY <1>3, <5>1
        <5>2. CASE r \in Buffered
          BY <1>3, <5>2 DEF Buffered, OneTask
        <5> QED
          BY <4>1, <5>1, <5>2
      <4>3. ToldByListener(r)'
        BY <1>1, <4>1, <4>2 DEF ToldByListener, In
      <4> QED
        BY <1>1, <1>4, <3>1, <4>1, <4>3 DEF TellsListener
    <3>2. CASE r \notin Listened(failing)
      <4>1. ToldByListener(r) => ToldByListener(r)'
        BY <1>1, <1>3 DEF ToldByListener, In
      <4> QED
        BY <1>1, <3>2, <4>1 DEF Untold
    <3> QED
      BY <3>1, <3>2
  <2> QED
    BY <2>1, CountsKept
<1> QED
  BY <1>5, <1>6, <1>7, <1>8, <1>9

\* What the invariant does not mention may change, and the server's end may.
LEMMA OutcomeFrame ==
  ASSUME OutcomeInv, ServedSent',
         UNCHANGED <<pc, outstanding, succ, fail, write, tasks, phase, seen, inline>>
  PROVE  OutcomeInv'
<1>1. UnusedCalls' /\ SuccessClaims'
  BY DEF OutcomeInv, UnusedCalls, SuccessClaims
<1>2. OneTask'
  BY DEF OutcomeInv, OneTask, OnceEach, In
<1>3. FailuresCounted'
  BY DEF OutcomeInv, FailuresCounted, ToldByListener, ToldByTable, In
<1> QED
  BY <1>1, <1>2, <1>3 DEF OutcomeInv

\* A step of an application thread: nothing is called back.
LEMMA OutcomeCallerStep ==
  ASSUME TypeOK, OutcomeInv, NEW r \in Requests,
         CheckAction(r) \/ AddRpcRequest(r) \/ WriteAndFlush(r) \/ AddListener(r)
  PROVE  OutcomeInv'
<1> USE DEF OutcomeInv
<1>0. /\ UNCHANGED <<succ, fail, phase, seen, inline, served, deferred, replies>>
      /\ \A s \in Requests \ {r} : pc'[s] = pc[s] /\ write'[s] = write[s]
      /\ pc[r] # "returned"
  BY DEF CheckAction, AddRpcRequest, WriteAndFlush, AddListener, calls, channel, loop, server,
         TypeOK
<1>1. /\ \/ pc'[r] \in {"checked", "refused", "added"} /\ pc[r] \in {"idle", "checked"}
         \/ pc'[r] \in {"flushed", "returned"} /\ pc[r] \in {"added", "flushed"}
      /\ outstanding' = outstanding \/ (outstanding' = outstanding \cup {r} /\ pc[r] = "checked"
                                        /\ pc'[r] = "added")
      /\ write'[r] = write[r] \/ (write'[r] = "queued" /\ pc[r] = "added")
  BY DEF CheckAction, AddRpcRequest, WriteAndFlush, AddListener, calls, channel, TypeOK
<1>2. /\ tasks' \in Seq(Task) /\ OnceEach(tasks')
      /\ \A s \in Requests \ {r} : /\ In(Write(s), tasks') <=> In(Write(s), tasks)
                                   /\ In(Notify(s), tasks') <=> In(Notify(s), tasks)
      /\ In(Write(r), tasks') => write'[r] = "queued" /\ inline' # r
      /\ In(Notify(r), tasks') => write'[r] = "failed" /\ pc'[r] = "returned"
      /\ write'[r] = "failed" /\ pc'[r] = "returned" => In(Notify(r), tasks')
  <2>1. CASE UNCHANGED tasks /\ (CheckAction(r) \/ AddRpcRequest(r))
    BY <1>0, <2>1 DEF OneTask, TypeOK, CheckAction, AddRpcRequest, channel
  <2>2. CASE WriteAndFlush(r)
    <3>1. /\ tasks' = Append(tasks, Write(r)) /\ write'[r] = "queued" /\ pc[r] = "added"
          /\ tasks \in Seq(Task)
      BY <2>2 DEF WriteAndFlush, TypeOK
    <3>2. write[r] = "none"
      BY <3>1 DEF UnusedCalls
    <3>3. ~In(Write(r), tasks) /\ ~In(Notify(r), tasks) /\ inline # r
      BY <3>2 DEF OneTask
    <3>4. /\ OnceEach(tasks') /\ tasks' \in Seq(Task)
          /\ \A t : In(t, tasks') <=> In(t, tasks) \/ t = Write(r)
      BY <3>1, <3>3, AppendIn, AppendOnce, TaskType DEF OneTask
    <3> QED
      BY <1>0, <3>1, <3>3, <3>4, TasksDiffer
  <2>3. CASE AddListener(r) /\ write[r] = "failed"
    <3>1. /\ tasks' = Append(tasks, Notify(r)) /\ write' = write /\ pc[r] = "flushed"
          /\ pc'[r] = "returned" /\ tasks \in Seq(Task)
      BY <2>3 DEF AddListener, TypeOK
    <3>2. ~In(Write(r), tasks) /\ ~In(Notify(r), tasks)
      BY <2>3, <3>1 DEF OneTask
    <3>3. /\ OnceEach(tasks') /\ tasks' \in Seq(Task)
          /\ \A t : In(t, tasks') <=> In(t, tasks) \/ t = Notify(r)
      BY <3>1, <3>2, AppendIn, AppendOnce, TaskType DEF OneTask
    <3> QED
      BY <2>3, <3>1, <3>2, <3>3, TasksDiffer
  <2>4. CASE AddListener(r) /\ write[r] # "failed"
    <3>1. tasks' = tasks /\ write' = write /\ pc[r] = "flushed"
      BY <2>4 DEF AddListener
    <3> QED
      BY <1>0, <2>4, <3>1 DEF OneTask, TypeOK
  <2> QED
    BY <2>1, <2>2, <2>3, <2>4 DEF CheckAction, AddRpcRequest, channel
<1>3. UnusedCalls'
  BY <1>0, <1>1 DEF UnusedCalls, TypeOK
<1>4. OneTask'
  <2>1. inline # r \/ write'[r] = "queued"
    BY <1>1 DEF OneTask
  <2>2. \A s \in Requests : In(Write(s), tasks') => write'[s] = "queued" /\ inline' # s
    BY <1>0, <1>2 DEF OneTask
  <2>3. \A s \in Requests : inline' = s => write'[s] = "queued"
    BY <1>0, <2>1 DEF OneTask
  <2>4. \A s \in Requests : In(Notify(s), tasks') => write'[s] = "failed" /\ pc'[s] = "returned"
    BY <1>0, <1>2 DEF OneTask
  <2> QED
    BY <1>2, <2>2, <2>3, <2>4 DEF OneTask, In
<1>5. ServedSent'
  <2>1. SentStays
    BY <1>0, <1>1 DEF SentStays, UnusedCalls
  <2> QED
    BY <1>0, <2>1, ServedKept
<1>6. SuccessClaims'
  BY <1>0, <1>1 DEF SuccessClaims, UnusedCalls, TypeOK
<1>7. FailuresCounted'
  <2>1. ASSUME NEW s \in Requests
        PROVE  fail'[s] = 0 \/ Untold(s)
    <3>1. CASE s # r
      BY <1>0, <1>1, <1>2, <3>1 DEF Untold, ToldByListener, ToldByTable, In
    <3>2. CASE s = r
      <4>1. ~ToldByListener(r)
        BY <1>0 DEF ToldByListener
      <4>2. fail[r] = 0 \/ (ToldByTable(r) => ToldByTable(r)')
        BY <1>0, <1>1 DEF UnusedCalls, ToldByTable
      <4> QED
        BY <1>0, <3>2, <4>1, <4>2 DEF Untold
    <3> QED
      BY <3>1, <3>2
  <2> QED
    BY <2>1, CountsKept
<1> QED
  BY <1>3, <1>4, <1>5, <1>6, <1>7

\* The write of r runs: it was queued, it is no longer, and no other task of r is.
LEMMA RunsOnce ==
  ASSUME TypeOK, OneTask, NEW r \in Requests, Runs(r)
  PROVE  /\ write[r] = "queued"
         /\ Rest(r) \in Seq(Task) /\ OnceEach(Rest(r))
         /\ \A t : In(t, Rest(r)) => In(t, tasks)
         /\ \A s \in Requests : In(Notify(s), tasks) => In(Notify(s), Rest(r))
         /\ ~In(Write(r), Rest(r)) /\ ~In(Notify(r), Rest(r))
<1>1. CASE inline = r
  <2>1. Rest(r) = tasks /\ write[r] = "queued"
    BY <1>1 DEF Rest, OneTask
  <2>2. ~In(Write(r), tasks) /\ ~In(Notify(r), tasks)
    BY <1>1, <2>1 DEF OneTask
  <2> QED
    BY <2>1, <2>2 DEF TypeOK, OneTask
<1>2. CASE inline # r
  <2>1. Takes(Write(r)) /\ Rest(r) = Tail(tasks)
    BY <1>2 DEF Runs, Rest
  <2>2. /\ Tail(tasks) \in Seq(Task) /\ OnceEach(Tail(tasks))
        /\ \A t : In(t, Tail(tasks)) => In(t, tasks)
        /\ \A t : In(t, tasks) /\ t # Write(r) => In(t, Tail(tasks))
        /\ ~In(Write(r), Tail(tasks)) /\ In(Write(r), tasks)
    BY <2>1, TakeOnce, TaskType, TasksDiffer
  <2>3. write[r] = "queued" /\ ~In(Notify(r), tasks)
    BY <2>2 DEF OneTask
  <2> QED
    BY <2>1, <2>2, <2>3, TasksDiffer
<1> QED
  BY <1>1, <1>2

\* A write that does not fail, or fails before its listener is attached.
LEMMA OutcomeWriteStep ==
  ASSUME TypeOK, OutcomeInv, NEW r \in Requests,
         WriteSucceeds(r) \/ FlushBuffered(r) \/ (WriteRefused(r) /\ pc[r] # "returned")
  PROVE  OutcomeInv'
<1> USE DEF OutcomeInv
<1>0. /\ UNCHANGED <<pc, outstanding, succ, fail, phase, seen, served, deferred, replies>>
      /\ \A s \in Requests \ {r} : write'[s] = write[s]
      /\ inline' = inline \/ inline' = NoRequest
  BY DEF WriteSucceeds, FlushBuffered, WriteRefused, callers, calls, loop, server, TypeOK
<1>1. /\ tasks' \in Seq(Task) /\ OnceEach(tasks')
      /\ \A t : In(t, tasks') => In(t, tasks)
      /\ \A s \in Requests : In(Notify(s), tasks) <=> In(Notify(s), tasks')
      /\ ~In(Write(r), tasks') /\ ~In(Notify(r), tasks')
      /\ inline' # r
      /\ write[r] \in {"queued", "buffered"}
      /\ write'[r] \in {"sent", "buffered"} \/ (write'[r] = "failed" /\ pc[r] # "returned")
  <2>1. CASE WriteSucceeds(r)
    BY <2>1, RunsOnce DEF WriteSucceeds, TypeOK
  <2>2. CASE FlushBuffered(r)
    BY <2>2 DEF FlushBuffered, OneTask, loop, TypeOK
  <2>3. CASE WriteRefused(r) /\ pc[r] # "returned"
    BY <2>3, RunsOnce DEF WriteRefused, TypeOK
  <2> QED
    BY <2>1, <2>2, <2>3
<1>2. UnusedCalls'
  BY <1>0, <1>1 DEF UnusedCalls
<1>3. OneTask'
  <2>1. \A s \in Requests : In(Write(s), tasks') => write'[s] = "queued" /\ inline' # s
    BY <1>0, <1>1 DEF OneTask
  <2>2. \A s \in Requests : inline' = s => write'[s] = "queued"
    BY <1>0, <1>1 DEF OneTask
  <2>3. \A s \in Requests : In(Notify(s), tasks') => write'[s] = "failed" /\ pc'[s] = "returned"
    BY <1>0, <1>1 DEF OneTask
  <2> QED
    BY <1>1, <2>1, <2>2, <2>3 DEF OneTask, In
<1>4. ServedSent'
  <2>1. SentStays
    BY <1>0, <1>1 DEF SentStays
  <2> QED
    BY <1>0, <2>1, ServedKept
<1>5. SuccessClaims'
  BY <1>0, <1>1 DEF SuccessClaims
<1>6. FailuresCounted'
  <2>1. ASSUME NEW s \in Requests PROVE Untold(s)
    BY <1>0, <1>1 DEF Untold, ToldByListener, ToldByTable, In
  <2> QED
    BY <2>1, CountsKept
<1> QED
  BY <1>2, <1>3, <1>4, <1>5, <1>6

\* A step that fails the write of r and reports it closes the channel.
LEMMA OutcomeBreakStep ==
  ASSUME TypeOK, OutcomeInv, NEW r \in Requests,
         WriteBreaks(r) \/ (WriteRefused(r) /\ pc[r] = "returned") \/ RunNotify(r)
  PROVE  OutcomeInv'
<1> USE DEF OutcomeInv
<1>0. /\ UNCHANGED <<pc, outstanding, phase, seen, served, deferred, replies>>
      /\ inline' = inline \/ inline' = NoRequest
  BY DEF WriteBreaks, WriteRefused, RunNotify, callers, loop, server
<1>1. \A s \in Requests : ToldByTable(s) => ToldByTable(s)'
  BY <1>0 DEF ToldByTable
<1>2. CASE Runs(r)
  <2>1. CloseChannel({r}, Rest(r)) /\ inline' = NoRequest
    BY <1>2, TasksDiffer DEF WriteBreaks, WriteRefused, RunNotify, Runs, Takes, LoopFree
  <2>2. /\ ~In(Write(r), Rest(r)) /\ ~In(Notify(r), Rest(r))
        /\ write[r] = "queued" /\ ~ToldByListener(r) /\ inline' # r
    BY <1>2, <2>1, RunsOnce DEF ToldByListener
  <2>3. /\ Rest(r) \in Seq(Task) /\ OnceEach(Rest(r))
        /\ \A t : In(t, Rest(r)) => In(t, tasks)
    BY <1>2, RunsOnce
  <2> QED
    BY <1>0, <1>1, <2>1, <2>2, <2>3, CloseOutcome
<1>3. CASE RunNotify(r)
  <2>1. Takes(Notify(r)) /\ CloseChannel({r}, Tail(tasks)) /\ inline' = NoRequest
    BY <1>3 DEF RunNotify, Takes, LoopFree, loop
  <2>2. /\ Tail(tasks) \in Seq(Task) /\ OnceEach(Tail(tasks))
        /\ \A t : In(t, Tail(tasks)) => In(t, tasks)
        /\ ~In(Notify(r), Tail(tasks)) /\ In(Notify(r), tasks)
    BY <2>1, TakeOnce, TaskType, TasksDiffer
  <2>3. write[r] = "failed" /\ ~In(Write(r), Tail(tasks)) /\ ~ToldByListener(r)
    BY <2>2, TasksDiffer DEF OneTask, ToldByListener
  <2> DEFINE ts == Tail(tasks)
  <2>4. /\ ts \in Seq(Task) /\ OnceEach(ts) /\ CloseChannel({r}, ts)
        /\ \A t : In(t, ts) => In(t, tasks)
        /\ ~In(Write(r), ts) /\ ~In(Notify(r), ts)
        /\ write[r] = "failed" /\ ~ToldByListener(r) /\ inline' # r
    BY <2>1, <2>2, <2>3
  <2> HIDE DEF ts
  <2> QED
    BY <1>0, <1>1, <2>4, CloseOutcome
<1> QED
  BY <1>2, <1>3 DEF WriteBreaks, WriteRefused

\* A step that closes the channel for another reason.
LEMMA OutcomeCloseStep ==
  ASSUME TypeOK, OutcomeInv, NEW ts \in Seq(Task), OnceEach(ts),
         \A t : In(t, ts) => In(t, tasks),
         CloseChannel({}, ts), UNCHANGED <<pc, seen, served, deferred, replies, inline>>,
         \/ outstanding' = outstanding /\ phase \in {"timedOut", phase'}
         \/ outstanding' = {}
  PROVE  OutcomeInv'
<1>1. \A s \in Requests : ToldByTable(s) => ToldByTable(s)'
  BY DEF ToldByTable
<1>2. outstanding' \subseteq outstanding
  OBVIOUS
<1> QED
  BY <1>1, <1>2, CloseOutcome

\* Callbacks that neither throw nor send new calls throw nothing.
LEMMA CalmCallbacks ==
  ASSUME RetryFree, Throwing = {}, NEW r \in Requests
  PROVE  ~Throws(r)
BY DEF RetryFree, Throws

\* A failure told by the table.
LEMMA OutcomeFailStep ==
  ASSUME RetryFree, Throwing = {}, TypeOK, OutcomeInv, NEW r \in Requests,
         HandleFailure(r) \/ FailEntry(r)
  PROVE  OutcomeInv'
<1> USE DEF OutcomeInv
<1>1. /\ r \in outstanding /\ ~ToldByTable(r)
      /\ outstanding' = IF phase = "idle" THEN outstanding \ {r} ELSE outstanding
      /\ UNCHANGED <<pc, write, inline, tasks, served, deferred>> /\ phase' = phase
      /\ replies' = replies \/ (replies # <<>> /\ replies' = Tail(replies))
      /\ (phase = "idle" /\ seen' = seen) \/
         (phase \in {"exception", "inactive"} /\ seen' = seen \cup {r})
  <2>1. CASE HandleFailure(r)
    <3>1. outstanding' = outstanding \ {r} /\ UNCHANGED <<pc, write, inline>>
      BY <2>1, NoRetryStep DEF HandleFailure
    <3> QED
      BY <2>1, <3>1, CalmCallbacks DEF HandleFailure, LoopFree, ToldByTable, server, TypeOK
  <2>2. CASE FailEntry(r)
    <3>1. outstanding' = outstanding /\ UNCHANGED <<pc, write, inline>>
      BY <2>2, NoRetryStep DEF FailEntry
    <3> QED
      BY <2>2, <3>1, CalmCallbacks DEF FailEntry, Iterating, ToldByTable, server, TypeOK
  <2> QED
    BY <2>1, <2>2
<1>2. /\ \A s \in Requests : succ'[s] = succ[s]
      /\ fail'[r] = fail[r] + 1
      /\ \A s \in Requests \ {r} : fail'[s] = fail[s]
  BY DEF HandleFailure, FailEntry, CallBack, TypeOK
<1>3. /\ succ[r] = 0
      /\ pc[r] \notin {"idle", "refused", "checked"}
  <2>1. succ[r] \in Nat
    BY DEF TypeOK
  <2> QED
    BY <1>1, <2>1 DEF SuccessClaims, UnusedCalls
<1>4. \A s \in Requests : s \in outstanding' => s \in outstanding
  BY <1>1
<1>7. UnusedCalls'
  BY <1>1, <1>2, <1>3, <1>4 DEF UnusedCalls
<1>8. OneTask'
  BY <1>1 DEF OneTask, OnceEach, In
<1>9. ServedSent'
  <2>1. SentStays
    BY <1>1 DEF SentStays
  <2> QED
    BY <1>1, <2>1, ServedKept
<1>10. SuccessClaims'
  BY <1>1, <1>2, <1>3, <1>4 DEF SuccessClaims
<1>11. FailuresCounted'
  <2>1. ASSUME NEW s \in Requests
        PROVE  Untold(s) \/ TellsTable(s)
    <3>1. ToldByListener(s) => ToldByListener(s)'
      BY <1>1 DEF ToldByListener, In
    <3>2. ToldByTable(s) => ToldByTable(s)'
      BY <1>1, <1>4 DEF ToldByTable
    <3>3. CASE s = r
      <4>1. ToldByTable(r)'
        BY <1>1 DEF ToldByTable
      <4> QED
        BY <1>1, <1>2, <3>1, <3>3, <4>1 DEF TellsTable
    <3>4. CASE s # r
      BY <1>2, <3>1, <3>2, <3>4 DEF Untold
    <3> QED
      BY <3>3, <3>4
  <2> QED
    BY <2>1, CountsKept
<1> QED
  BY <1>7, <1>8, <1>9, <1>10, <1>11

\* A success claims an entry that was told of no failure.
LEMMA OutcomeSuccessStep ==
  ASSUME RetryFree, Throwing = {}, TypeOK, OutcomeInv, NEW r \in Requests, HandleResponse(r)
  PROVE  OutcomeInv'
<1> USE DEF OutcomeInv
<1>1. /\ r \in outstanding /\ outstanding' = outstanding \ {r}
      /\ phase = "idle" /\ phase' = "idle"
      /\ replies # <<>> /\ Head(replies) = <<"ok", r>> /\ replies' = Tail(replies)
      /\ UNCHANGED <<pc, write, tasks, seen, inline, served, deferred>>
  BY DEF HandleResponse, LoopFree, callers, channel, server
<1>2. /\ \A s \in Requests : fail'[s] = fail[s]
      /\ succ'[r] = succ[r] + 1
      /\ \A s \in Requests \ {r} : succ'[s] = succ[s]
  BY DEF HandleResponse, CallBack, TypeOK
<1>3. r \in served /\ write[r] = "sent"
  <2>1. replies[1] = <<"ok", r>> /\ 1 \in 1..Len(replies)
    BY <1>1 DEF TypeOK
  <2>2. replies[1][2] \in served
    BY <2>1 DEF ServedSent
  <2>3. r \in served
    BY <2>1, <2>2
  <2> QED
    BY <2>3 DEF ServedSent
<1>4. succ[r] = 0 /\ fail[r] = 0
  <2>1. succ[r] \in Nat /\ fail[r] \in Nat
    BY DEF TypeOK
  <2>2. ~ToldByListener(r) /\ ~ToldByTable(r)
    BY <1>1, <1>3 DEF ToldByListener, ToldByTable
  <2>3. fail[r] <= 2 /\ fail[r] # 1 /\ fail[r] # 2
    BY <2>2 DEF FailuresCounted
  <2> QED
    BY <1>1, <2>1, <2>3 DEF SuccessClaims
<1>5. UnusedCalls'
  BY <1>1, <1>2 DEF UnusedCalls
<1>6. OneTask'
  BY <1>1 DEF OneTask, OnceEach, In
<1>7. ServedSent'
  <2>1. SentStays
    BY <1>1 DEF SentStays
  <2> QED
    BY <1>1, <2>1, ServedKept
<1>8. SuccessClaims'
  BY <1>1, <1>2, <1>3, <1>4 DEF SuccessClaims
<1>9. FailuresCounted'
  <2>1. ASSUME NEW s \in Requests PROVE Untold(s)
    BY <1>1, <1>2 DEF Untold, ToldByListener, ToldByTable, In
  <2> QED
    BY <2>1, CountsKept
<1> QED
  BY <1>5, <1>6, <1>7, <1>8, <1>9

\* Beginning an iteration of the table, ending the one after the close, or
\* taking the task of channelInactive with an empty table: no call is told, and
\* no entry that was told is forgotten.
LEMMA OutcomeTableStep ==
  ASSUME TypeOK, OutcomeInv,
         UNCHANGED <<pc, succ, fail, write, inline, served, deferred, replies>>,
         tasks' = tasks \/ (Takes(Inactive) /\ tasks' = Tail(tasks)),
         \/ outstanding' = {} /\ seen' = seen
         \/ outstanding' = outstanding /\ seen' = {} /\ phase \notin {"exception", "inactive"}
         \/ UNCHANGED <<outstanding, seen, phase>>
  PROVE  OutcomeInv'
<1> USE DEF OutcomeInv
<1>1. /\ tasks' \in Seq(Task) /\ OnceEach(tasks')
      /\ \A t : In(t, tasks') => In(t, tasks)
      /\ \A s \in Requests : In(Notify(s), tasks) <=> In(Notify(s), tasks')
  <2>1. CASE tasks' = tasks
    BY <2>1 DEF TypeOK, OneTask
  <2>2. CASE Takes(Inactive) /\ tasks' = Tail(tasks)
    BY <2>2, TakeOnce, TaskType, TasksDiffer
  <2> QED
    BY <2>1, <2>2
<1>2. \A s \in Requests : ToldByTable(s) => ToldByTable(s)'
  BY DEF ToldByTable
<1>3. UnusedCalls'
  BY DEF UnusedCalls
<1>4. OneTask'
  <2>1. \A s \in Requests : In(Write(s), tasks') => write'[s] = "queued" /\ inline' # s
    BY <1>1 DEF OneTask
  <2>2. \A s \in Requests : inline' = s => write'[s] = "queued"
    BY DEF OneTask
  <2>3. \A s \in Requests : In(Notify(s), tasks') => write'[s] = "failed" /\ pc'[s] = "returned"
    BY <1>1 DEF OneTask
  <2> QED
    BY <1>1, <2>1, <2>2, <2>3 DEF OneTask, In
<1>5. ServedSent'
  <2>1. SentStays
    BY DEF SentStays
  <2> QED
    BY <2>1, ServedKept
<1>6. SuccessClaims'
  BY DEF SuccessClaims
<1>7. FailuresCounted'
  <2>1. ASSUME NEW s \in Requests PROVE Untold(s)
    BY <1>1, <1>2 DEF Untold, ToldByListener, In
  <2> QED
    BY <2>1, CountsKept
<1> QED
  BY <1>3, <1>4, <1>5, <1>6, <1>7

\* The steps of the event loop and of the socket.
LEMMA OutcomeHandlerStep ==
  ASSUME RetryFree, Throwing = {}, TypeOK, OutcomeInv,
         \/ RunClose \/ ExceptionCaught \/ ChannelInactive \/ ClearOutstanding
         \/ PipelineException \/ IdleEvent \/ IdleClose \/ PeerClosed
         \/ \E r \in Requests, kind \in {"ok", "error"} : IgnoreReply(kind, r)
  PROVE  OutcomeInv'
<1>0. tasks \in Seq(Task) /\ OnceEach(tasks)
  BY DEF TypeOK, OutcomeInv, OneTask
<1>1. CASE RunClose
  <2> DEFINE ts == Tail(tasks)
  <2>1. /\ Takes(Close) /\ CloseChannel({}, ts)
        /\ UNCHANGED <<pc, seen, served, deferred, replies, inline, phase, outstanding>>
    BY <1>1 DEF RunClose, callers, loop, server
  <2>2. ts \in Seq(Task) /\ OnceEach(ts) /\ \A t : In(t, ts) => In(t, tasks)
    BY <2>1, TakeOnce, TaskType DEF OutcomeInv
  <2> HIDE DEF ts
  <2> QED
    BY <2>1, <2>2, OutcomeCloseStep
<1>2. CASE IdleClose \/ PeerClosed \/ (ExceptionCaught /\ outstanding = {})
  <2>1. /\ CloseChannel({}, tasks)
        /\ UNCHANGED <<pc, seen, served, deferred, replies, inline, outstanding>>
        /\ phase \in {"timedOut", phase'} \/ outstanding' = {}
        /\ outstanding' = outstanding
    BY <1>2 DEF IdleClose, PeerClosed, ExceptionCaught, callers, loop, server
  <2> QED
    BY <1>0, <2>1, OutcomeCloseStep
<1>3. CASE ClearOutstanding /\ phase = "exception"
  <2>1. /\ CloseChannel({}, tasks) /\ outstanding' = {}
        /\ UNCHANGED <<pc, seen, served, deferred, replies, inline>>
    BY <1>3 DEF ClearOutstanding, callers, server
  <2> QED
    BY <1>0, <2>1, OutcomeCloseStep
<1>4. CASE (ExceptionCaught /\ outstanding # {}) \/ (ClearOutstanding /\ phase # "exception")
  <2>1. UNCHANGED <<pc, succ, fail, write, tasks, inline, served, deferred, replies>>
    BY <1>4 DEF ExceptionCaught, ClearOutstanding, callers, calls, channel, server
  <2>2. \/ outstanding' = {} /\ seen' = seen
        \/ outstanding' = outstanding /\ seen' = {} /\ phase \notin {"exception", "inactive"}
    BY <1>4 DEF ExceptionCaught, ClearOutstanding
  <2> QED
    BY <2>1, <2>2, OutcomeTableStep
<1>5. CASE ChannelInactive
  <2>1. /\ UNCHANGED <<pc, succ, fail, write, inline, served, deferred, replies, outstanding>>
        /\ Takes(Inactive) /\ tasks' = Tail(tasks)
    BY <1>5 DEF ChannelInactive, callers, calls, server
  <2>2. \/ seen' = {} /\ phase \notin {"exception", "inactive"}
        \/ UNCHANGED <<seen, phase>>
    BY <1>5 DEF ChannelInactive, Takes, LoopFree
  <2> QED
    BY <2>1, <2>2, OutcomeTableStep
<1>6. CASE PipelineException \/ IdleEvent
  <2>1. /\ UNCHANGED <<pc, succ, fail, write, tasks, inline, served, deferred, replies,
                       outstanding, seen>>
        /\ phase = "idle" /\ phase' \in {"caught", "timedOut"}
    BY <1>6 DEF PipelineException, IdleEvent, LoopFree, callers, calls, channel, server
  <2>2. UnusedCalls' /\ SuccessClaims' /\ ServedSent'
    BY <2>1 DEF OutcomeInv, UnusedCalls, SuccessClaims, ServedSent
  <2>3. OneTask'
    BY <2>1 DEF OutcomeInv, OneTask, OnceEach, In
  <2>4. FailuresCounted'
    BY <2>1 DEF OutcomeInv, FailuresCounted, ToldByListener, ToldByTable, In
  <2> QED
    BY <2>2, <2>3, <2>4 DEF OutcomeInv
<1>7. ASSUME NEW r \in Requests, NEW kind \in {"ok", "error"}, IgnoreReply(kind, r)
      PROVE  OutcomeInv'
  <2>1. /\ UNCHANGED <<pc, outstanding, succ, fail, write, tasks, phase, seen, inline,
                       served, deferred>>
        /\ replies # <<>> /\ replies' = Tail(replies)
    BY <1>7 DEF IgnoreReply, callers, calls, channel, loop, server
  <2>2. SentStays
    BY <2>1 DEF SentStays
  <2>3. ServedSent'
    BY <2>1, <2>2, ServedKept DEF OutcomeInv
  <2> QED
    BY <2>1, <2>3, OutcomeFrame
<1> QED
  BY <1>1, <1>2, <1>3, <1>4, <1>5, <1>6, <1>7

\* The server answers what it has served, and has served what was sent.
LEMMA OutcomeServerStep ==
  ASSUME TypeOK, OutcomeInv, ServerStep
  PROVE  OutcomeInv'
<1> DEFINE R == {"ok", "error"} \X Requests
<1>0. replies \in Seq(R)
  BY DEF TypeOK
<1>1. ASSUME NEW r \in Requests, NEW answers \in Seq(R), r \in served', served \subseteq served',
             \A i \in 1..Len(answers) : answers[i][2] = r,
             replies' = replies \/ replies' = replies \o answers
      PROVE  \A i \in 1..Len(replies') : replies'[i][2] \in served'
  <2> HIDE DEF R
  <2>1. CASE replies' = replies
    BY <1>1, <2>1 DEF OutcomeInv, ServedSent
  <2>2. CASE replies' = replies \o answers
    <3> SUFFICES ASSUME NEW i \in 1..Len(replies')
                 PROVE  replies'[i][2] \in served'
      OBVIOUS
    <3>1. /\ Len(replies') = Len(replies) + Len(answers)
          /\ Len(replies) \in Nat /\ Len(answers) \in Nat
          /\ replies'[i] = IF i <= Len(replies) THEN replies[i] ELSE answers[i - Len(replies)]
      BY <1>0, <1>1, <2>2, ConcatProperties
    <3>2. CASE i <= Len(replies)
      <4>1. i \in 1..Len(replies) /\ replies'[i] = replies[i]
        BY <3>1, <3>2
      <4> QED
        BY <1>1, <4>1 DEF OutcomeInv, ServedSent
    <3>3. CASE ~(i <= Len(replies))
      <4>1. i - Len(replies) \in 1..Len(answers) /\ replies'[i] = answers[i - Len(replies)]
        BY <3>1, <3>3
      <4> QED
        BY <1>1, <4>1
    <3> QED
      BY <3>2, <3>3
  <2> QED
    BY <1>1, <2>1, <2>2
<1>2. UNCHANGED <<pc, outstanding, succ, fail, write, tasks, phase, seen, inline>>
  BY DEF ServerStep, ServerReceive, ServerAnswer, ServerClose, callers, calls, channel, loop
<1>3. ASSUME NEW r \in Requests, NEW mode \in ServerModes, ServerReceive(r, mode)
      PROVE  ServedSent'
  <2>1. /\ served' = served \cup {r} /\ write[r] = "sent"
        /\ deferred' \subseteq deferred \cup {r}
        /\ replies' = replies \/ replies' = replies \o Answers(mode, r)
    BY <1>3 DEF ServerReceive, Respond
  <2>2. /\ Answers(mode, r) \in Seq(R)
        /\ \A i \in 1..Len(Answers(mode, r)) : Answers(mode, r)[i][2] = r
    <3>1. \/ Answers(mode, r) = <<<<"ok", r>>>> \/ Answers(mode, r) = <<<<"error", r>>>>
          \/ Answers(mode, r) = <<<<"ok", r>>, <<"error", r>>>> \/ Answers(mode, r) = <<>>
      BY DEF Answers
    <3>2. \A i \in 1..Len(Answers(mode, r)) : Answers(mode, r)[i][2] = r
      BY <3>1
    <3> QED
      BY <3>2, AnswersType
  <2>3. \A i \in 1..Len(replies') : replies'[i][2] \in served'
    <3> DEFINE answers == Answers(mode, r)
    <3>1. answers \in Seq(R) /\ \A i \in 1..Len(answers) : answers[i][2] = r
      BY <2>2
    <3>2. replies' = replies \/ replies' = replies \o answers
      BY <2>1
    <3> HIDE DEF answers, R
    <3> QED
      BY <1>1, <2>1, <3>1, <3>2
  <2> QED
    BY <1>2, <2>1, <2>3 DEF OutcomeInv, ServedSent
<1>4. ASSUME NEW r \in Requests, NEW kind \in {"ok", "error"}, ServerAnswer(r, kind)
      PROVE  ServedSent'
  <2>1. /\ served' = served /\ r \in deferred /\ deferred' \subseteq deferred
        /\ replies' = replies \/ replies' = replies \o <<<<kind, r>>>>
    BY <1>4 DEF ServerAnswer, Respond
  <2>2. r \in served
    BY <2>1 DEF OutcomeInv, ServedSent
  <2>3. \A i \in 1..Len(replies') : replies'[i][2] \in served'
    <3> DEFINE answers == <<<<kind, r>>>>
    <3>1. answers \in Seq(R) /\ \A i \in 1..Len(answers) : answers[i][2] = r
      OBVIOUS
    <3>2. replies' = replies \/ replies' = replies \o answers
      BY <2>1
    <3> HIDE DEF answers, R
    <3> QED
      BY <1>1, <2>1, <2>2, <3>1, <3>2
  <2> QED
    BY <1>2, <2>1, <2>3 DEF OutcomeInv, ServedSent
<1>5. ASSUME ServerClose
      PROVE  ServedSent'
  <2>1. UNCHANGED <<served, deferred, replies, write>>
    BY <1>2, <1>5 DEF ServerClose
  <2> QED
    BY <2>1 DEF OutcomeInv, ServedSent
<1>6. ServedSent'
  <2>1. CASE \E r \in Requests, mode \in ServerModes : ServerReceive(r, mode)
    BY <2>1, <1>3
  <2>2. CASE \E r \in Requests, kind \in {"ok", "error"} : ServerAnswer(r, kind)
    BY <2>2, <1>4
  <2> QED
    BY <1>5, <2>1, <2>2 DEF ServerStep
<1> QED
  BY <1>2, <1>6, OutcomeFrame

\* Every step keeps the invariant.
LEMMA OutcomeStep ==
  ASSUME RetryFree, Throwing = {}, TypeOK, OutcomeInv, [Next]_vars
  PROVE  OutcomeInv'
<1>1. ASSUME NEW r \in Requests, CheckAction(r) \/ CallerStep(r)
      PROVE  OutcomeInv'
  BY <1>1, OutcomeCallerStep DEF CallerStep
<1>2. ASSUME NEW r \in Requests, SyncReturn(r) \/ SyncTimeout(r)
      PROVE  OutcomeInv'
  <2>1. UNCHANGED <<pc, outstanding, succ, fail, write, tasks, phase, seen, inline,
                    served, deferred, replies>>
    BY <1>2 DEF SyncReturn, SyncTimeout, calls, channel, loop, server
  <2>2. ServedSent'
    BY <2>1 DEF OutcomeInv, ServedSent
  <2> QED
    BY <2>1, <2>2, OutcomeFrame
<1>3. CASE UNCHANGED vars
  <2>1. UNCHANGED <<pc, outstanding, succ, fail, write, tasks, phase, seen, inline,
                    served, deferred, replies>>
    BY <1>3 DEF vars, callers, calls, channel, loop, server
  <2>2. ServedSent'
    BY <2>1 DEF OutcomeInv, ServedSent
  <2> QED
    BY <2>1, <2>2, OutcomeFrame
<1>4. CASE ClientClose
  <2>1. /\ UNCHANGED <<pc, outstanding, succ, fail, write, phase, seen, inline, served,
                       deferred, replies>>
        /\ tasks' = Append(tasks, Close)
    BY <1>4 DEF ClientClose, callers, calls, loop, server
  <2>2. tasks \in Seq(Task) /\ OnceEach(tasks)
    BY DEF TypeOK, OutcomeInv, OneTask
  <2>3. /\ OnceEach(tasks')
        /\ \A s \in Requests : /\ In(Write(s), tasks') <=> In(Write(s), tasks)
                               /\ In(Notify(s), tasks') <=> In(Notify(s), tasks)
    BY <2>1, <2>2, AppendIn, AppendOnce, TaskType, TasksDiffer
  <2>4. UnusedCalls' /\ SuccessClaims' /\ ServedSent'
    BY <2>1 DEF OutcomeInv, UnusedCalls, SuccessClaims, ServedSent
  <2>5. OneTask'
    <3>1. \A s \in Requests : In(Write(s), tasks') => write'[s] = "queued" /\ inline' # s
      BY <2>1, <2>3 DEF OutcomeInv, OneTask
    <3>2. \A s \in Requests : inline' = s => write'[s] = "queued"
      BY <2>1 DEF OutcomeInv, OneTask
    <3>3. \A s \in Requests : In(Notify(s), tasks') => write'[s] = "failed" /\ pc'[s] = "returned"
      BY <2>1, <2>3 DEF OutcomeInv, OneTask
    <3> QED
      BY <2>3, <3>1, <3>2, <3>3 DEF OneTask, In
  <2>6. FailuresCounted'
    <3>1. ASSUME NEW s \in Requests PROVE Untold(s)
      BY <2>1, <2>3 DEF Untold, ToldByListener, ToldByTable, In
    <3> QED
      BY <3>1, CountsKept DEF OutcomeInv
  <2> QED
    BY <2>4, <2>5, <2>6 DEF OutcomeInv
<1>5. ASSUME NEW r \in Requests,
             RunWrite(r) \/ RunNotify(r) \/ FlushBuffered(r) \/ FailEntry(r)
             \/ HandleResponse(r) \/ HandleFailure(r)
      PROVE  OutcomeInv'
  BY <1>5, OutcomeWriteStep, OutcomeBreakStep, OutcomeFailStep, OutcomeSuccessStep
     DEF RunWrite
<1>6. CASE LoopStep
  BY <1>5, <1>6, OutcomeHandlerStep DEF LoopStep
<1>7. CASE ReadStep
  BY <1>5, <1>7, OutcomeHandlerStep DEF ReadStep
<1>8. CASE ServerStep
  BY <1>8, OutcomeServerStep
<1> QED
  BY <1>1, <1>2, <1>3, <1>4, <1>6, <1>7, <1>8 DEF Next

\* The invariant holds of every reachable state.
LEMMA OutcomeInvariant ==
  ASSUME RetryFree, Throwing = {}
  PROVE  Spec => []OutcomeInv
<1>1. Init => OutcomeInv
  <2> SUFFICES ASSUME Init PROVE OutcomeInv
    OBVIOUS
  <2>1. tasks = <<>> /\ replies = <<>> /\ inline = NoRequest
    BY DEF Init
  <2>2. OneTask
    BY <2>1 DEF OneTask, OnceEach, In
  <2>3. UnusedCalls /\ ServedSent /\ SuccessClaims /\ FailuresCounted
    BY <2>1 DEF Init, UnusedCalls, ServedSent, SuccessClaims, FailuresCounted
  <2> QED
    BY <2>2, <2>3 DEF OutcomeInv
<1>2. TypeOK /\ OutcomeInv /\ [Next]_vars => OutcomeInv'
  BY OutcomeStep
<1> QED
  BY <1>1, <1>2, TypeCorrect, PTL DEF Spec

\* For any number of calls whose callbacks neither throw nor send new ones: no
\* call hears of both success and failure, and none of success twice, however
\* responses, failed writes and failOutstandingRequests race.
THEOREM OneOutcomeCorrect ==
  ASSUME RetryFree, Throwing = {}
  PROVE  Spec => []OneOutcome
<1>1. TypeOK /\ OutcomeInv => OneOutcome
  <2> SUFFICES ASSUME TypeOK, OutcomeInv, NEW r \in Requests
               PROVE  succ[r] <= 1 /\ (succ[r] > 0 => fail[r] = 0)
    BY DEF OneOutcome
  <2>1. succ[r] \in Nat
    BY DEF TypeOK
  <2> QED
    BY <2>1 DEF OutcomeInv, SuccessClaims
<1> QED
  BY <1>1, TypeCorrect, OutcomeInvariant, PTL

\* For the same callbacks: onFailure is called at most twice, and twice only for
\* a call whose write failed.
THEOREM TwiceOnlyByWriteCorrect ==
  ASSUME RetryFree, Throwing = {}
  PROVE  Spec => []TwiceOnlyByWrite
<1>1. OutcomeInv => TwiceOnlyByWrite
  BY DEF OutcomeInv, FailuresCounted, ToldByListener, TwiceOnlyByWrite
<1> QED
  BY <1>1, OutcomeInvariant, PTL

-----------------------------------------------------------------------------
(* The end of a connection leaves no call behind. *)

\* The reason why an entry of a closed channel will be heard of is still there.
EntriesKept ==
  \A r \in outstanding' :
    \/ Called(r)' \/ FailurePending(r)'
    \/ r \in outstanding /\ (In(Inactive, tasks) => In(Inactive, tasks') \/ phase' = "inactive")
         /\ (phase = "inactive" => phase' = "inactive")
         /\ ~Called(r) /\ ~FailurePending(r)

LEMMA EntriesFrame ==
  ASSUME TypeOK, EntriesFail, open' \/ (~open /\ EntriesKept)
  PROVE  EntriesFail'
<1> SUFFICES ASSUME ~open', NEW r \in outstanding'
             PROVE  \/ Called(r)' \/ FailurePending(r)'
                    \/ In(Inactive, tasks') \/ phase' = "inactive"
  BY DEF EntriesFail, In
<1> QED
  BY DEF EntriesKept, EntriesFail

\* A step that closes the channel: channelInactive is to come, or the channel was
\* closed before and nothing is lost.
LEMMA EntriesClose ==
  ASSUME TypeOK, DropInv, OutcomeInv, EntriesFail,
         NEW F \in SUBSET Requests, NEW ts \in Seq(Task),
         Leaves(F, ts), In(Inactive, tasks) => In(Inactive, ts),
         CloseChannel(F, ts), UNCHANGED pc,
         (outstanding' = outstanding /\ phase \in {"timedOut", phase'}) \/ outstanding' = {}
  PROVE  EntriesFail'
<1>1. CASE open
  <2>1. tasks' = Append(ts, Inactive)
    BY <1>1 DEF CloseChannel
  <2>2. In(Inactive, tasks')
    BY <2>1, AppendIn, TaskType
  <2> QED
    BY <2>2 DEF EntriesFail, In
<1>2. CASE ~open
  <2>1. tasks' = ts
    BY <1>2 DEF CloseChannel
  <2>2. /\ \A r \in Requests : Called(r) => Called(r)'
        /\ \A r \in Requests :
             Registered(r) /\ FailurePending(r) => Called(r)' \/ FailurePending(r)'
    BY CloseFailsPending DEF DropInv
  <2>3. \A r \in outstanding : r \in Requests /\ Registered(r)
    BY DEF OutcomeInv, UnusedCalls, Registered, TypeOK
  <2>4. EntriesKept
    BY <2>1, <2>2, <2>3 DEF EntriesKept
  <2> QED
    BY <1>2, <2>4, EntriesFrame
<1> QED
  BY <1>1, <1>2

\* Every step keeps it, for callbacks that neither throw nor send new calls.
LEMMA EntriesStep ==
  ASSUME RetryFree, Throwing = {}, TypeOK, DropInv, OutcomeInv, EntriesFail, [Next]_vars
  PROVE  EntriesFail'
<1>0. Leaves({}, tasks) /\ tasks \in Seq(Task)
  BY DEF Leaves, TypeOK
<1>1. ASSUME NEW r \in Requests,
             CheckAction(r) \/ AddRpcRequest(r) \/ WriteAndFlush(r) \/ AddListener(r)
      PROVE  EntriesFail'
  <2>1. /\ \A s \in Requests \ {r} : pc'[s] = pc[s] /\ write'[s] = write[s]
        /\ UNCHANGED <<outcome, open, phase>>
        /\ outstanding' = outstanding \/ (outstanding' = outstanding \cup {r} /\ pc'[r] = "added")
        /\ outstanding' \subseteq Requests
    BY <1>1 DEF CheckAction, AddRpcRequest, WriteAndFlush, AddListener, calls, channel, loop,
                TypeOK
  <2>2. /\ \A t : In(t, tasks) => In(t, tasks')
        /\ write'[r] = "failed" /\ pc'[r] = "returned" /\ r \in outstanding =>
             In(Notify(r), tasks')
        /\ pc'[r] # "added" /\ r \in outstanding /\ FailurePending(r) =>
             write'[r] = "queued" \/ (write'[r] = "failed" /\ pc'[r] \in {"flushed", "returned"})
    <3>1. CASE CheckAction(r) \/ AddRpcRequest(r)
      <4>1. tasks' = tasks /\ pc[r] \in {"idle", "checked"}
        BY <3>1 DEF CheckAction, AddRpcRequest, channel
      <4> QED
        BY <4>1 DEF OutcomeInv, UnusedCalls
    <3>2. CASE WriteAndFlush(r)
      <4>1. /\ tasks' = Append(tasks, Write(r)) /\ tasks \in Seq(Task) /\ write'[r] = "queued"
        BY <3>2 DEF WriteAndFlush, TypeOK
      <4> QED
        BY <4>1, AppendIn, TaskType
    <3>3. CASE AddListener(r)
      <4>1. /\ tasks' = IF write[r] = "failed" THEN Append(tasks, Notify(r)) ELSE tasks
            /\ tasks \in Seq(Task) /\ write' = write /\ pc[r] = "flushed" /\ pc'[r] = "returned"
        BY <3>3 DEF AddListener, TypeOK
      <4>2. \A t : In(t, tasks) => In(t, tasks')
        BY <4>1, AppendIn, TaskType
      <4>3. write[r] = "failed" => In(Notify(r), tasks')
        BY <4>1, AppendIn, TaskType
      <4> QED
        BY <4>1, <4>2, <4>3 DEF FailurePending
    <3> QED
      BY <1>1, <3>1, <3>2, <3>3
  <2>3. ASSUME NEW s \in outstanding'
        PROVE  \/ Called(s)' \/ FailurePending(s)'
               \/ s \in outstanding /\ ~Called(s) /\ ~FailurePending(s)
    <3>1. CASE s # r
      <4>1. s \in outstanding /\ s \in Requests /\ (Called(s) => Called(s)')
        BY <2>1, <2>3, <3>1 DEF Called
      <4>2. FailurePending(s) => FailurePending(s)'
        BY <2>1, <2>2, <3>1, <4>1 DEF FailurePending, In
      <4> QED
        BY <4>1, <4>2
    <3>2. CASE s = r /\ pc'[r] = "added"
      BY <3>2 DEF FailurePending
    <3>3. CASE s = r /\ pc'[r] # "added"
      <4>1. r \in outstanding /\ (Called(r) => Called(r)')
        BY <2>1, <2>3, <3>3 DEF Called
      <4>2. FailurePending(r) => FailurePending(r)'
        BY <2>2, <3>3, <4>1 DEF FailurePending, In
      <4> QED
        BY <3>3, <4>1, <4>2
    <3> QED
      BY <3>1, <3>2, <3>3
  <2>4. EntriesKept
    BY <2>1, <2>2, <2>3 DEF EntriesKept
  <2> QED
    BY <2>1, <2>4, EntriesFrame
<1>2. ASSUME UNCHANGED <<pc, outcome, outstanding, open, write, tasks, phase>>
      PROVE  EntriesFail'
  BY <1>2 DEF EntriesFail, Called, FailurePending, In
<1>3. ASSUME NEW r \in Requests, SyncReturn(r) \/ SyncTimeout(r)
      PROVE  EntriesFail'
  BY <1>2, <1>3 DEF SyncReturn, SyncTimeout, calls, channel, loop
<1>4. CASE ServerStep
  BY <1>2, <1>4 DEF ServerStep, ServerReceive, ServerAnswer, ServerClose, callers, calls,
                    channel, loop
<1>5. CASE UNCHANGED vars
  BY <1>2, <1>5 DEF vars, callers, calls, channel, loop
<1>6. CASE ClientClose
  BY <1>6, EntriesFrame DEF ClientClose
<1>7. ASSUME NEW r \in Requests, HandleResponse(r) \/ HandleFailure(r) \/ FlushBuffered(r)
                                 \/ WriteSucceeds(r)
      PROVE  EntriesFail'
  BY <1>7, EntriesFrame DEF HandleResponse, HandleFailure, FlushBuffered, WriteSucceeds, channel
<1>8. ASSUME NEW r \in Requests,
             WriteBreaks(r) \/ (WriteRefused(r) /\ pc[r] = "returned") \/ RunNotify(r)
      PROVE  EntriesFail'
  <2> DEFINE ts == Tail(tasks)
  <2>1. PICK task \in {Write(r), Notify(r)} : Takes(task) /\ CloseChannel({r}, ts)
    BY <1>8, RunsTask DEF WriteBreaks, WriteRefused, RunNotify
  <2>2. /\ task \in Task /\ task # Inactive
        /\ \A s \in Requests \ {r} : task # Write(s) /\ task # Notify(s)
    BY <2>1, TaskType, TasksDiffer
  <2>3. Leaves({r}, ts) /\ ts \in Seq(Task)
    BY <2>1, <2>2, TakeLeaves
  <2>4. In(Inactive, tasks) => In(Inactive, ts)
    BY <2>1, <2>2, TakeOnce DEF OutcomeInv
  <2>5. UNCHANGED <<pc, outstanding, phase>>
    BY <1>8 DEF WriteBreaks, WriteRefused, RunNotify, callers, loop
  <2> HIDE DEF ts
  <2> QED
    BY <2>1, <2>3, <2>4, <2>5, EntriesClose
<1>9. ASSUME NEW r \in Requests, WriteRefused(r), pc[r] # "returned"
      PROVE  EntriesFail'
  <2>1. /\ Takes(Write(r)) /\ tasks' = Tail(tasks) /\ write' = [write EXCEPT ![r] = "failed"]
        /\ UNCHANGED <<pc, outcome, outstanding, open, phase>> /\ pc[r] = "flushed"
    BY <1>9, RunsTask DEF WriteRefused, callers, calls
  <2>2. \A t : In(t, tasks) /\ t # Write(r) => In(t, tasks')
    BY <2>1, TakeOnce, TaskType DEF OutcomeInv
  <2>3. ASSUME NEW s \in outstanding
        PROVE  /\ Called(s) => Called(s)'
               /\ FailurePending(s) => FailurePending(s)'
    <3>1. s \in Requests
      BY DEF TypeOK
    <3>2. CASE s = r
      BY <2>1, <3>1, <3>2 DEF FailurePending, Called, TypeOK
    <3>3. CASE s # r
      <4>1. In(Notify(s), tasks) => In(Notify(s), tasks')
        BY <2>2, <3>1, TasksDiffer
      <4> QED
        BY <2>1, <3>1, <3>3, <4>1 DEF FailurePending, Called, In, TypeOK
    <3> QED
      BY <3>2, <3>3
  <2>4. In(Inactive, tasks) => In(Inactive, tasks')
    BY <2>2, TasksDiffer
  <2>5. EntriesKept
    BY <2>1, <2>3, <2>4 DEF EntriesKept
  <2> QED
    BY <2>1, <2>5, EntriesFrame
<1>10. ASSUME NEW r \in Requests, FailEntry(r)
       PROVE  EntriesFail'
  <2>1. outstanding' = outstanding /\ UNCHANGED <<pc, write, open, tasks, phase>>
    BY <1>10, NoRetryStep, CalmCallbacks DEF FailEntry
  <2>2. \A s \in Requests : Called(s) => Called(s)'
    BY <1>10 DEF FailEntry, CallBack, Called
  <2> QED
    BY <2>1, <2>2 DEF EntriesFail, FailurePending, In, TypeOK
<1>11. CASE PipelineException \/ IdleEvent \/ (ExceptionCaught /\ outstanding # {})
  <2>1. /\ UNCHANGED <<pc, outcome, outstanding, open, write, tasks>> /\ phase # "inactive"
    BY <1>11 DEF PipelineException, IdleEvent, ExceptionCaught, LoopFree, callers, calls, channel
  <2> QED
    BY <2>1 DEF EntriesFail, Called, FailurePending, In
<1>12. CASE ChannelInactive
  <2>1. outstanding' = outstanding /\ (outstanding # {} => phase' = "inactive")
    BY <1>12 DEF ChannelInactive
  <2> QED
    BY <2>1 DEF EntriesFail
<1>13. CASE ClearOutstanding
  BY <1>13 DEF ClearOutstanding, EntriesFail
<1>14. CASE IdleClose \/ PeerClosed \/ (ExceptionCaught /\ outstanding = {})
  <2>1. /\ CloseChannel({}, tasks) /\ UNCHANGED <<pc, outstanding>>
        /\ phase \in {"timedOut", phase'} \/ outstanding' = {}
    BY <1>14 DEF IdleClose, PeerClosed, ExceptionCaught, callers, loop
  <2> QED
    BY <1>0, <2>1, EntriesClose
<1>15. CASE RunClose
  <2> DEFINE ts == Tail(tasks)
  <2>1. Takes(Close) /\ CloseChannel({}, ts) /\ UNCHANGED <<pc, outstanding, phase>>
    BY <1>15 DEF RunClose, callers, loop
  <2>2. Close # Inactive /\ \A s \in Requests : Close # Write(s) /\ Close # Notify(s)
    BY DEF Close, Inactive, Write, Notify
  <2>3. Leaves({}, ts) /\ ts \in Seq(Task)
    BY <2>1, <2>2, TakeLeaves, TaskType
  <2>4. In(Inactive, tasks) => In(Inactive, ts)
    BY <2>1, <2>2, TakeOnce, TaskType DEF OutcomeInv
  <2> HIDE DEF ts
  <2> QED
    BY <2>1, <2>3, <2>4, EntriesClose
<1>16. ASSUME NEW r \in Requests, NEW kind \in {"ok", "error"}, IgnoreReply(kind, r)
       PROVE  EntriesFail'
  BY <1>2, <1>16 DEF IgnoreReply, callers, calls, channel, loop
<1>17. CASE LoopStep
  BY <1>7, <1>8, <1>9, <1>10, <1>11, <1>12, <1>13, <1>14, <1>15, <1>17 DEF LoopStep, RunWrite
<1>18. CASE ReadStep
  BY <1>7, <1>11, <1>14, <1>16, <1>18 DEF ReadStep
<1>19. CASE \E r \in Requests : CheckAction(r) \/ CallerStep(r) \/ SyncReturn(r) \/ SyncTimeout(r)
  BY <1>1, <1>3, <1>19 DEF CallerStep
<1> QED
  BY <1>4, <1>5, <1>6, <1>17, <1>18, <1>19 DEF Next

\* For any number of calls whose callbacks neither throw nor send new ones: when
\* the connection is over every call that returned from sendRpc was called back;
\* nothing stays in the table.
THEOREM DrainedCallsEndCorrect ==
  ASSUME RetryFree, Throwing = {}
  PROVE  Spec => []DrainedCallsEnd
<1>1. Init => DropInv /\ EntriesFail
  BY DEF Init, DropInv, DroppedCallsFail, QueuedWrites, IterationCalls, ClosedChannel,
         Registered, Buffered, In, EntriesFail
<1>2. TypeOK /\ DropInv /\ [Next]_vars => DropInv'
  BY DropStep
<1>3. TypeOK /\ DropInv /\ OutcomeInv /\ EntriesFail /\ [Next]_vars => EntriesFail'
  BY EntriesStep
<1>4. TypeOK /\ DropInv /\ EntriesFail => DrainedCallsEnd
  <2> SUFFICES ASSUME TypeOK, DropInv, EntriesFail, Drained, NEW r \in Requests,
                      pc[r] = "returned", ~Called(r)
               PROVE  FALSE
    BY DEF DrainedCallsEnd
  <2>1. FailurePending(r)
    BY DEF DropInv, DroppedCallsFail, EntriesFail, Registered, Drained, LoopFree, In
  <2>2. ~In(Write(r), tasks) /\ ~In(Notify(r), tasks)
    BY DEF Drained, In
  <2> QED
    BY <2>1, <2>2 DEF FailurePending, DropInv, QueuedWrites
<1> QED
  BY <1>1, <1>2, <1>3, <1>4, TypeCorrect, OutcomeInvariant, PTL DEF Spec

-----------------------------------------------------------------------------
(* The link, whatever callbacks throw or retry: a client marked as timed out is    *)
(* closed or about to be, and only a closed channel is inactive.             *)

LinkInv ==
  /\ timedOut /\ open => phase = "timedOut"
  /\ phase = "inactive" \/ In(Inactive, tasks) => ~open

\* Every step keeps the invariant: a channel that is closed stays closed, and an
\* open one has no channelInactive queued.
LEMMA LinkStep ==
  ASSUME TypeOK, LinkInv, [Next]_vars
  PROVE  LinkInv' /\ open' \in {open, FALSE} /\ (timedOut => timedOut')
<1>0. open \in BOOLEAN /\ tasks \in Seq(Task) /\ succ \in [Requests -> Nat]
  BY DEF TypeOK
<1>1. ASSUME NEW F, NEW ts, CloseChannel(F, ts), UNCHANGED timedOut
      PROVE  LinkInv' /\ open' \in {open, FALSE} /\ (timedOut => timedOut')
  BY <1>1 DEF CloseChannel, LinkInv
<1>2. ASSUME UNCHANGED <<open, timedOut>>, phase' = "inactive" => phase = "inactive",
             phase = "timedOut" => phase' = "timedOut",
             \A t : In(t, tasks') => In(t, tasks) \/ t # Inactive
      PROVE  LinkInv' /\ open' \in {open, FALSE} /\ (timedOut => timedOut')
  BY <1>2 DEF LinkInv, In
<1>3. ASSUME NEW r \in Requests, CheckAction(r) \/ CallerStep(r)
      PROVE  LinkInv' /\ open' \in {open, FALSE} /\ (timedOut => timedOut')
  <2>1. UNCHANGED <<open, timedOut, phase>>
    BY <1>3 DEF CheckAction, CallerStep, AddRpcRequest, WriteAndFlush, AddListener, channel, loop
  <2>2. tasks' = tasks \/ tasks' = Append(tasks, Write(r)) \/ tasks' = Append(tasks, Notify(r))
    BY <1>3 DEF CheckAction, CallerStep, AddRpcRequest, WriteAndFlush, AddListener, channel
  <2>3. \A t : In(t, tasks') => In(t, tasks) \/ t # Inactive
    <3>1. \A e \in {Write(r), Notify(r)} : e \in Task /\ e # Inactive
      BY TaskType, TasksDiffer
    <3>2. CASE tasks' = tasks
      BY <3>2
    <3>3. ASSUME NEW e \in {Write(r), Notify(r)}, tasks' = Append(tasks, e)
          PROVE  \A t : In(t, tasks') => In(t, tasks) \/ t # Inactive
      <4>1. \A t : In(t, Append(tasks, e)) <=> In(t, tasks) \/ t = e
        BY <1>0, <3>1, AppendIn
      <4> QED
        BY <3>1, <3>3, <4>1
    <3> QED
      BY <2>2, <3>2, <3>3
  <2> QED
    BY <1>2, <2>1, <2>3
<1>4. ASSUME UNCHANGED <<open, timedOut, tasks>>, phase' = "inactive" => phase = "inactive",
             phase = "timedOut" => phase' = "timedOut"
      PROVE  LinkInv' /\ open' \in {open, FALSE} /\ (timedOut => timedOut')
  BY <1>2, <1>4
<1>5. CASE \/ \E r \in Requests : SyncReturn(r) \/ SyncTimeout(r) \/ FlushBuffered(r)
           \/ ServerStep \/ UNCHANGED vars
  BY <1>4, <1>5 DEF SyncReturn, SyncTimeout, FlushBuffered, ServerStep, ServerReceive,
                    ServerAnswer, ServerClose, vars, channel, loop
<1>6. CASE ClientClose
  <2>1. UNCHANGED <<open, timedOut, phase>> /\ tasks' = Append(tasks, Close)
    BY <1>6 DEF ClientClose, loop
  <2>2. \A t : In(t, tasks') => In(t, tasks) \/ t # Inactive
    BY <1>0, <2>1, AppendIn, TaskType DEF Close, Inactive
  <2> QED
    BY <1>2, <2>1, <2>2
<1>7. ASSUME NEW r \in Requests, HandleResponse(r) \/ HandleFailure(r) \/ FailEntry(r)
      PROVE  LinkInv' /\ open' \in {open, FALSE} /\ (timedOut => timedOut')
  <2>1. UNCHANGED <<open, timedOut, tasks>>
    BY <1>7 DEF HandleResponse, HandleFailure, FailEntry, channel
  <2>2. phase' = "inactive" => phase = "inactive"
    BY <1>7 DEF HandleResponse, HandleFailure, FailEntry, LoopFree, Iterating
  <2>3. phase # "timedOut"
    BY <1>7 DEF HandleResponse, HandleFailure, FailEntry, LoopFree, Iterating
  <2> QED
    BY <1>4, <2>1, <2>2, <2>3
<1>8. ASSUME NEW r \in Requests, NEW kind \in {"ok", "error"}, IgnoreReply(kind, r)
      PROVE  LinkInv' /\ open' \in {open, FALSE} /\ (timedOut => timedOut')
  BY <1>4, <1>8 DEF IgnoreReply, channel, loop
<1>9. CASE PipelineException
  BY <1>4, <1>9 DEF PipelineException, LoopFree, channel
<1>10. CASE IdleClose \/ PeerClosed \/ RunClose
  BY <1>1, <1>10 DEF IdleClose, PeerClosed, RunClose
<1>18. CASE IdleEvent
  <2>1. UNCHANGED <<open, tasks>> /\ timedOut' = TRUE /\ phase' = "timedOut" /\ open
    BY <1>18 DEF IdleEvent, channel
  <2> QED
    BY <2>1 DEF LinkInv, In
<1>11. ASSUME NEW r \in Requests, WriteBreaks(r) \/ RunNotify(r)
       PROVE  LinkInv' /\ open' \in {open, FALSE} /\ (timedOut => timedOut')
  BY <1>1, <1>11 DEF WriteBreaks, RunNotify
<1>12. ASSUME NEW r \in Requests, WriteSucceeds(r) \/ WriteRefused(r)
       PROVE  LinkInv' /\ open' \in {open, FALSE} /\ (timedOut => timedOut')
  <2>1. CASE timedOut' = timedOut /\ \E F, ts : CloseChannel(F, ts)
    BY <1>1, <2>1
  <2>2. CASE UNCHANGED <<open, timedOut, phase>> /\ Runs(r) /\ tasks' = Rest(r)
    <3>1. tasks' = tasks \/ (tasks # <<>> /\ tasks' = Tail(tasks))
      BY <2>2 DEF Runs, Rest, Takes
    <3>2. \A t : In(t, tasks') => In(t, tasks)
      BY <1>0, <3>1, TailIn
    <3> QED
      BY <1>2, <2>2, <3>2
  <2> QED
    BY <1>12, <2>1, <2>2 DEF WriteSucceeds, WriteRefused
<1>13. CASE ExceptionCaught
  <2>1. CASE outstanding = {}
    BY <1>1, <1>13, <2>1 DEF ExceptionCaught
  <2>2. CASE outstanding # {}
    BY <1>4, <1>13, <2>2 DEF ExceptionCaught, channel
  <2> QED
    BY <2>1, <2>2
<1>14. CASE ChannelInactive
  <2>1. In(Inactive, tasks)
    <3>1. tasks # <<>> /\ Inactive = tasks[1]
      BY <1>14 DEF ChannelInactive, Takes
    <3>2. 1 \in 1..Len(tasks)
      BY <1>0, <3>1
    <3> QED
      BY <3>1, <3>2 DEF In
  <2>2. ~open /\ UNCHANGED <<open, timedOut>>
    BY <1>14, <2>1 DEF ChannelInactive, LinkInv
  <2> QED
    BY <2>2 DEF LinkInv
<1>15. CASE ClearOutstanding
  <2>1. CASE phase = "exception"
    BY <1>1, <1>15, <2>1 DEF ClearOutstanding
  <2>2. CASE phase # "exception"
    BY <1>4, <1>15, <2>2 DEF ClearOutstanding, Iterating, channel
  <2> QED
    BY <2>1, <2>2
<1>16. CASE LoopStep
  BY <1>7, <1>10, <1>11, <1>12, <1>13, <1>14, <1>15, <1>16 DEF LoopStep, RunWrite
<1>17. CASE ReadStep
  BY <1>5, <1>7, <1>8, <1>9, <1>10, <1>17, <1>18 DEF ReadStep
<1> QED
  BY <1>3, <1>5, <1>6, <1>16, <1>17 DEF Next

LEMMA LinkCorrect == Spec => []LinkInv
<1>1. Init => LinkInv
  BY DEF Init, LinkInv, In
<1> QED
  BY <1>1, LinkStep, TypeCorrect, PTL DEF Spec

\* For any callbacks: an entry that leaves the table unheard leaves it with the
\* channel closed, so that its call can no longer be answered.
THEOREM ClearedThenClosedCorrect == Spec => ClearedThenClosed
<1>1. ASSUME TypeOK, LinkInv, [Next]_vars
      PROVE  [\A r \in Requests :
                r \in outstanding /\ r \notin outstanding' /\ succ'[r] = succ[r] /\ fail'[r] = fail[r]
                  => ~open']_vars
  <2> SUFFICES ASSUME Next, NEW r \in Requests, r \in outstanding, r \notin outstanding',
                      succ'[r] = succ[r], fail'[r] = fail[r]
               PROVE  ~open'
    BY <1>1
  <2>1. succ[r] \in Nat /\ fail[r] \in Nat
    BY <1>1 DEF TypeOK
  <2>2. ASSUME NEW q \in Requests, HandleResponse(q)
        PROVE  FALSE
    <3>1. r = q /\ succ'[r] = succ[r] + 1
      BY <2>2 DEF HandleResponse, CallBack
    <3> QED
      BY <2>1, <3>1
  <2>3. ASSUME NEW q \in Requests, HandleFailure(q) \/ FailEntry(q)
        PROVE  FALSE
    <3>1. r = q /\ fail'[r] = fail[r] + 1
      BY <2>3 DEF HandleFailure, FailEntry, CallBack, Retry
    <3> QED
      BY <2>1, <3>1
  <2>4. ClearOutstanding
    <3>1. ASSUME NEW q \in Requests, RunWrite(q) \/ RunNotify(q) \/ FlushBuffered(q)
          PROVE  outstanding' = outstanding
      BY <3>1 DEF RunWrite, WriteSucceeds, WriteBreaks, WriteRefused, RunNotify, FlushBuffered
    <3>2. ASSUME NEW q \in Requests,
                 CheckAction(q) \/ CallerStep(q) \/ SyncReturn(q) \/ SyncTimeout(q)
          PROVE  outstanding \subseteq outstanding'
      BY <3>2 DEF CheckAction, CallerStep, AddRpcRequest, WriteAndFlush, AddListener, SyncReturn,
                  SyncTimeout
    <3>3. ASSUME RunClose \/ ExceptionCaught \/ ChannelInactive \/ ClientClose
                 \/ PipelineException \/ IdleEvent \/ IdleClose \/ PeerClosed
          PROVE  outstanding' = outstanding
      BY <3>3 DEF RunClose, ExceptionCaught, ChannelInactive, ClientClose, PipelineException,
                  IdleEvent, IdleClose, PeerClosed
    <3>4. ASSUME ServerStep
          PROVE  outstanding' = outstanding
      BY <3>4 DEF ServerStep, ServerReceive, ServerAnswer, ServerClose
    <3>5. ASSUME NEW q \in Requests, NEW kind \in {"ok", "error"}, IgnoreReply(kind, q)
          PROVE  outstanding' = outstanding
      BY <3>5 DEF IgnoreReply
    <3> QED
      BY <2>2, <2>3, <3>1, <3>2, <3>3, <3>4, <3>5 DEF Next, LoopStep, ReadStep
  <2>5. CASE phase = "exception"
    BY <2>4, <2>5 DEF ClearOutstanding, CloseChannel
  <2>6. CASE phase = "inactive"
    BY <1>1, <2>4, <2>6 DEF ClearOutstanding, LinkInv, channel
  <2> QED
    BY <2>4, <2>5, <2>6 DEF ClearOutstanding, Iterating
<1> QED
  BY <1>1, LinkCorrect, TypeCorrect, PTL DEF Spec, ClearedThenClosed

-----------------------------------------------------------------------------
(* The connection implements the promise of RpcCalls, step by step, for callbacks *)
(* that neither throw nor send new calls.                                    *)

\* The fate of a call by cases.
LEMMA CallOfCases ==
  ASSUME TypeOK, NEW r \in Requests
  PROVE  /\ succ[r] > 0 => CallOf(r) = "success"
         /\ succ[r] = 0 /\ fail[r] > 0 => CallOf(r) = "failure"
         /\ succ[r] = 0 /\ fail[r] = 0 /\ pc[r] = "idle" => CallOf(r) = "new"
         /\ succ[r] = 0 /\ fail[r] = 0 /\ pc[r] = "refused" => CallOf(r) = "refused"
         /\ succ[r] = 0 /\ fail[r] = 0 /\ pc[r] \notin {"idle", "refused"} => CallOf(r) = "pending"
<1>1. succ[r] \in Nat /\ fail[r] \in Nat
  BY DEF TypeOK
<1> QED
  BY <1>1 DEF CallOf

\* Reporting failure to registered calls: those that were pending fail, the others
\* keep the outcome they had.
LEMMA FailRefines ==
  ASSUME TypeOK, TypeOK', NEW F \in SUBSET Requests, CallBack({}, F), UNCHANGED pc,
         \A r \in F : pc[r] \notin {"idle", "refused"},
         IsAction' \in {IsAction, FALSE}
  PROVE  Calls!Next
<1> DEFINE G == {r \in F : CallOf(r) = "pending"}
<1>1. ASSUME NEW r \in Requests
      PROVE  CallOf(r)' = IF r \in G THEN "failure" ELSE CallOf(r)
  <2>1. /\ succ[r] \in Nat /\ fail[r] \in Nat
        /\ succ'[r] = succ[r] /\ fail'[r] = IF r \in F THEN fail[r] + 1 ELSE fail[r]
    BY DEF TypeOK, CallBack
  <2>2. CASE r \notin F
    <3>1. succ'[r] = succ[r] /\ fail'[r] = fail[r] /\ pc'[r] = pc[r] /\ r \notin G
      BY <2>1, <2>2
    <3> HIDE DEF G
    <3> QED
      BY <3>1 DEF CallOf
  <2>3. CASE r \in F
    <3>1. fail'[r] > 0 /\ pc[r] \notin {"idle", "refused"}
      BY <2>1, <2>3
    <3>2. CASE succ[r] > 0
      <4>1. CallOf(r) = "success" /\ CallOf(r)' = "success"
        BY <2>1, <3>2 DEF CallOf
      <4> QED
        BY <4>1
    <3>3. CASE succ[r] = 0 /\ fail[r] > 0
      <4>1. CallOf(r) = "failure" /\ CallOf(r)' = "failure"
        BY <2>1, <3>1, <3>3 DEF CallOf
      <4> QED
        BY <4>1
    <3>4. CASE succ[r] = 0 /\ fail[r] = 0
      <4>1. CallOf(r) = "pending"
        BY <3>1, <3>4, CallOfCases
      <4>2. CallOf(r)' = "failure"
        BY <2>1, <3>1, <3>4 DEF CallOf
      <4> QED
        BY <2>3, <4>1, <4>2
    <3> QED
      BY <2>1, <3>2, <3>3, <3>4
  <2> QED
    BY <2>2, <2>3
<1>2. G \subseteq Calls!Pending
  BY DEF Calls!Pending
<1> HIDE DEF G
<1>3. [r \in Requests |-> CallOf(r)]' = [r \in Requests |-> IF r \in G THEN "failure" ELSE CallOf(r)]
  BY <1>1
<1>4. Calls!Fail(G)
  <2>1. \A r \in Requests : [s \in Requests |-> CallOf(s)][r] = CallOf(r)
    OBVIOUS
  <2> QED
    BY <1>2, <1>3, <2>1 DEF Calls!Fail
<1>5. G \in SUBSET Requests
  BY <1>2 DEF Calls!Pending
<1> QED
  BY <1>4, <1>5 DEF Calls!Next

\* A step that changes neither the link nor the fate of a call.
LEMMA StutterRefines ==
  ASSUME IsAction' = IsAction, \A r \in Requests : CallOf(r)' = CallOf(r)
  PROVE  UNCHANGED Calls!vars
BY DEF Calls!vars

\* A call moves on within sendRpc, or nothing does.
LEMMA FatesKept ==
  ASSUME TypeOK, UNCHANGED <<open, timedOut, succ, fail>>,
         \A r \in Requests : \/ pc'[r] = pc[r]
                             \/ {pc[r], pc'[r]} \cap {"idle", "refused"} = {}
  PROVE  UNCHANGED Calls!vars
<1>1. ASSUME NEW r \in Requests
      PROVE  CallOf(r)' = CallOf(r)
  <2>1. succ[r] \in Nat /\ fail[r] \in Nat
    BY DEF TypeOK
  <2> QED
    BY <2>1 DEF CallOf
<1>2. IsAction' = IsAction
  BY DEF IsAction
<1> QED
  BY <1>1, <1>2, StutterRefines

\* The fate of one call changes, the link stays as it is.
LEMMA FateChanges ==
  ASSUME NEW r \in Requests, NEW fate, CallOf(r)' = fate,
         \A s \in Requests \ {r} : CallOf(s)' = CallOf(s)
  PROVE  [s \in Requests |-> CallOf(s)]'
           = [[s \in Requests |-> CallOf(s)] EXCEPT ![r] = fate]
OBVIOUS

\* sendRpc accepts a call exactly while the client is usable.
LEMMA CheckRefines ==
  ASSUME TypeOK, TypeOK', UnusedCalls, NEW r \in Requests, CheckAction(r)
  PROVE  Calls!Next
<1>1. /\ pc[r] = "idle" /\ pc' = [pc EXCEPT ![r] = IF IsAction THEN "checked" ELSE "refused"]
      /\ IsAction' = IsAction /\ UNCHANGED <<succ, fail>>
  BY DEF CheckAction, IsAction, calls, channel
<1>2. succ[r] = 0 /\ fail[r] = 0
  BY <1>1 DEF UnusedCalls
<1>3. CallOf(r) = "new"
  BY <1>1, <1>2, CallOfCases
<1>4. ASSUME NEW s \in Requests \ {r}
      PROVE  CallOf(s)' = CallOf(s)
  BY <1>1 DEF CallOf, TypeOK
<1>5. CASE IsAction
  <2>1. pc'[r] = "checked"
    BY <1>1, <1>5 DEF TypeOK
  <2>2. CallOf(r)' = "pending"
    BY <1>1, <1>2, <2>1 DEF CallOf
  <2>3. [s \in Requests |-> CallOf(s)]' = [[s \in Requests |-> CallOf(s)] EXCEPT ![r] = "pending"]
    BY <1>4, <2>2, FateChanges
  <2> QED
    BY <1>1, <1>3, <1>5, <2>3 DEF Calls!Next, Calls!Accept
<1>6. CASE ~IsAction
  <2>1. pc'[r] = "refused"
    BY <1>1, <1>6 DEF TypeOK
  <2>2. CallOf(r)' = "refused"
    BY <1>1, <1>2, <2>1 DEF CallOf
  <2>3. [s \in Requests |-> CallOf(s)]' = [[s \in Requests |-> CallOf(s)] EXCEPT ![r] = "refused"]
    BY <1>4, <2>2, FateChanges
  <2> QED
    BY <1>1, <1>3, <1>6, <2>3 DEF Calls!Next, Calls!Refuse
<1> QED
  BY <1>5, <1>6

\* A response ends a pending call in success while the client is usable, for no
\* handler runs between timeOut and the close; its entry is in the table and its write succeeded, so that nobody has told it of a failure.
LEMMA ResponseRefines ==
  ASSUME TypeOK, TypeOK', LinkInv, OutcomeInv, NEW r \in Requests, HandleResponse(r)
  PROVE  Calls!Next
<1>1. /\ open /\ phase = "idle" /\ replies # <<>> /\ Head(replies) = <<"ok", r>>
      /\ r \in outstanding /\ CallBack({r}, {}) /\ UNCHANGED <<open, timedOut, pc>>
  BY DEF HandleResponse, LoopFree, channel, callers
<1>12. IsAction /\ IsAction'
  BY <1>1 DEF LinkInv, IsAction
<1>2. UnusedCalls /\ ServedSent /\ SuccessClaims /\ FailuresCounted
  BY DEF OutcomeInv
<1>3. succ[r] \in Nat /\ fail[r] \in Nat
  BY DEF TypeOK
<1>4. pc[r] \notin {"idle", "refused"} /\ succ[r] = 0
  BY <1>1, <1>2, <1>3 DEF UnusedCalls, SuccessClaims
<1>5. write[r] = "sent"
  <2>1. replies \in Seq({"ok", "error"} \X Requests)
    BY DEF TypeOK
  <2>2. 1 \in 1..Len(replies) /\ replies[1] = Head(replies)
    BY <1>1, <2>1
  <2> QED
    BY <1>1, <1>2, <2>2 DEF ServedSent
<1>6. fail[r] = 0
  <2>1. ~ToldByListener(r) /\ ~ToldByTable(r)
    BY <1>1, <1>5 DEF ToldByListener, ToldByTable
  <2> QED
    BY <1>2, <1>3, <2>1 DEF FailuresCounted
<1>7. CallOf(r) = "pending"
  BY <1>4, <1>6, CallOfCases
<1>8. /\ succ'[r] = succ[r] + 1
      /\ \A s \in Requests \ {r} : succ'[s] = succ[s]
      /\ \A s \in Requests : fail'[s] = fail[s]
  BY <1>1 DEF CallBack, TypeOK
<1>9. CallOf(r)' = "success"
  BY <1>3, <1>8 DEF CallOf
<1>10. \A s \in Requests \ {r} : CallOf(s)' = CallOf(s)
  BY <1>1, <1>8 DEF CallOf
<1>11. [s \in Requests |-> CallOf(s)]' = [[s \in Requests |-> CallOf(s)] EXCEPT ![r] = "success"]
  BY <1>9, <1>10, FateChanges
<1> QED
  BY <1>7, <1>11, <1>12 DEF Calls!Next, Calls!Succeed, Calls!Pending

\* Closing the channel is the link going down, with the calls whose writes fail.
LEMMA CloseRefines ==
  ASSUME TypeOK, TypeOK', NEW F \in SUBSET Requests, NEW ts, CloseChannel(F, ts), UNCHANGED pc
  PROVE  Calls!Next
<1>1. /\ open' = FALSE /\ CallBack({}, Listened(F \cup Buffered))
      /\ Listened(F \cup Buffered) \in SUBSET Requests
      /\ \A r \in Listened(F \cup Buffered) : pc[r] = "returned"
  BY DEF CloseChannel, Listened, Buffered
<1>2. IsAction' = FALSE
  BY <1>1 DEF IsAction
<1> QED
  BY <1>1, <1>2, FailRefines

\* The client is marked as timed out: the link goes down, no call ends with it.
LEMMA TimeOutRefines ==
  ASSUME TypeOK, TypeOK', IdleEvent
  PROVE  Calls!Next
<1>1. CallBack({}, {})
  <2>1. UNCHANGED <<outcome, succ, fail>> /\ \A r \in Requests : outcome[r] = "none" \/ outcome[r] # "none"
    BY DEF IdleEvent, calls
  <2> QED
    BY <2>1 DEF CallBack, TypeOK
<1>2. IsAction' = FALSE /\ UNCHANGED pc
  BY DEF IdleEvent, IsAction, callers
<1>3. {} \in SUBSET Requests /\ \A r \in {} : pc[r] \notin {"idle", "refused"}
  OBVIOUS
<1> QED
  BY <1>1, <1>2, <1>3, FailRefines

\* Every step of the connection is a step of RpcCalls or a stutter.
LEMMA CallsStep ==
  ASSUME RetryFree, TypeOK, TypeOK', LinkInv, OutcomeInv, [Next]_vars
  PROVE  [Calls!Next]_(Calls!vars)
<1>1. ASSUME NEW r \in Requests, AddRpcRequest(r) \/ WriteAndFlush(r) \/ AddListener(r)
      PROVE  UNCHANGED Calls!vars
  <2>1. /\ UNCHANGED <<open, timedOut, succ, fail>>
        /\ pc' = [pc EXCEPT ![r] = pc'[r]]
        /\ pc[r] \notin {"idle", "refused"} /\ pc'[r] \notin {"idle", "refused"}
    BY <1>1 DEF AddRpcRequest, WriteAndFlush, AddListener, calls, channel, TypeOK
  <2>2. \A s \in Requests : s # r => pc'[s] = pc[s]
    BY <2>1 DEF TypeOK
  <2> QED
    BY <2>1, <2>2, FatesKept
<1>2. ASSUME UNCHANGED <<open, timedOut, succ, fail, pc>>
      PROVE  UNCHANGED Calls!vars
  BY <1>2, FatesKept
<1>3. ASSUME NEW r \in Requests,
             SyncReturn(r) \/ SyncTimeout(r) \/ FlushBuffered(r) \/ WriteSucceeds(r)
             \/ (WriteRefused(r) /\ pc[r] # "returned")
      PROVE  UNCHANGED Calls!vars
  BY <1>2, <1>3 DEF SyncReturn, SyncTimeout, FlushBuffered, WriteSucceeds, WriteRefused, calls,
                    channel, callers
<1>4. CASE ServerStep \/ ClientClose \/ UNCHANGED vars \/ PipelineException \/ ChannelInactive
  BY <1>2, <1>4 DEF ServerStep, ServerReceive, ServerAnswer, ServerClose, ClientClose, vars,
                    PipelineException, ChannelInactive, calls, channel, callers
<1>5. ASSUME NEW r \in Requests, NEW kind \in {"ok", "error"}, IgnoreReply(kind, r)
      PROVE  UNCHANGED Calls!vars
  BY <1>2, <1>5 DEF IgnoreReply, calls, channel, callers
<1>6. ASSUME NEW F \in SUBSET Requests, NEW ts, CloseChannel(F, ts), UNCHANGED callers
      PROVE  Calls!Next
  BY <1>6, CloseRefines DEF callers
<1>7. ASSUME NEW r \in Requests,
             WriteBreaks(r) \/ (WriteRefused(r) /\ pc[r] = "returned") \/ RunNotify(r)
      PROVE  Calls!Next
  <2>1. {r} \in SUBSET Requests
    OBVIOUS
  <2> QED
    BY <1>6, <1>7, <2>1 DEF WriteBreaks, WriteRefused, RunNotify
<1>8. CASE RunClose \/ IdleClose \/ PeerClosed
  BY <1>6, <1>8 DEF RunClose, IdleClose, PeerClosed
<1>9. CASE ExceptionCaught
  <2>1. CASE outstanding = {}
    BY <1>6, <1>9, <2>1 DEF ExceptionCaught
  <2>2. CASE outstanding # {}
    BY <1>2, <1>9, <2>2 DEF ExceptionCaught, calls, channel, callers
  <2> QED
    BY <2>1, <2>2
<1>10. CASE ClearOutstanding
  <2>1. CASE phase = "exception"
    BY <1>6, <1>10, <2>1 DEF ClearOutstanding
  <2>2. CASE phase # "exception"
    BY <1>2, <1>10, <2>2 DEF ClearOutstanding, calls, channel, callers
  <2> QED
    BY <2>1, <2>2
<1>11. ASSUME NEW r \in Requests, HandleFailure(r) \/ FailEntry(r)
       PROVE  Calls!Next
  <2>1. /\ CallBack({}, {r}) /\ r \in outstanding /\ UNCHANGED <<open, timedOut>>
        /\ \E out : Retry(r, out)
    BY <1>11 DEF HandleFailure, FailEntry
  <2>2. UNCHANGED pc
    BY <2>1, NoRetryStep
  <2>3. pc[r] \notin {"idle", "refused"}
    BY <2>1 DEF OutcomeInv, UnusedCalls
  <2>4. {r} \in SUBSET Requests /\ \A s \in {r} : pc[s] \notin {"idle", "refused"}
    BY <2>3
  <2>5. IsAction' = IsAction
    BY <2>1 DEF IsAction
  <2> QED
    BY <2>1, <2>2, <2>4, <2>5, FailRefines
<1>12. ASSUME NEW r \in Requests, CheckAction(r) \/ HandleResponse(r)
       PROVE  Calls!Next
  BY <1>12, CheckRefines, ResponseRefines DEF OutcomeInv
<1>13. CASE LoopStep
  BY <1>3, <1>4, <1>7, <1>8, <1>9, <1>10, <1>11, <1>13 DEF LoopStep, RunWrite
<1>14. CASE ReadStep
  BY <1>3, <1>4, <1>5, <1>8, <1>11, <1>12, <1>14, TimeOutRefines DEF ReadStep
<1>15. CASE \E r \in Requests : CheckAction(r) \/ CallerStep(r) \/ SyncReturn(r) \/ SyncTimeout(r)
  BY <1>1, <1>3, <1>12, <1>15 DEF CallerStep
<1> QED
  BY <1>4, <1>13, <1>14, <1>15 DEF Next

\* For callbacks that neither throw nor send new calls the connection implements the
\* safety half of RpcCalls, for any number of calls: a call is accepted exactly while
\* the client is usable, between timeOut and the close it is refused already, it
\* succeeds only while the client is usable, and it never changes its fate.
THEOREM CallsCorrect ==
  ASSUME RetryFree, Throwing = {}
  PROVE  Spec => Calls!Safe
<1>1. Init => Calls!Init
  <2> SUFFICES ASSUME Init
               PROVE  IsAction = TRUE /\ \A r \in Requests : CallOf(r) = "new"
    BY DEF Calls!Init
  <2>1. IsAction = TRUE
    BY DEF Init, IsAction
  <2> QED
    BY <2>1 DEF Init, CallOf
<1>2. TypeOK /\ TypeOK' /\ LinkInv /\ OutcomeInv /\ [Next]_vars => [Calls!Next]_(Calls!vars)
  BY CallsStep
<1> QED
  BY <1>1, <1>2, TypeCorrect, LinkCorrect, OutcomeInvariant, PTL DEF Spec, Calls!Safe
=============================================================================
