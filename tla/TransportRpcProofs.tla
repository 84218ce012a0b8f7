------------------------- MODULE TransportRpcProofs -------------------------
(* Theorems about TransportRpc, for every value of its constants. *)
EXTENDS TransportRpc, SequenceTheorems, TLAPS

USE RequestAssumption, CallbackAssumption, PipelineAssumption, ServerAssumption,
    BoundAssumption

-----------------------------------------------------------------------------
(* What the operators shared by several actions keep of the types. *)

\* Calling callbacks keeps the counters and outcomes well typed.
LEMMA CallBackType ==
  ASSUME TypeOK, NEW S, NEW F, CallBack(S, F)
  PROVE  /\ outcome' \in [Requests -> {"none", "success", "failure"}]
         /\ succ' \in [Requests -> Nat]
         /\ fail' \in [Requests -> Nat]
BY DEF TypeOK, CallBack

\* Appending to and taking from the task queue keep it a sequence of tasks.
LEMMA TaskType ==
  /\ Close \in Task
  /\ Inactive \in Task
  /\ \A r \in Requests : Write(r) \in Task /\ Notify(r) \in Task
BY DEF Task, Close, Inactive, Write, Notify

\* Closing the channel keeps the types of everything it touches.
LEMMA CloseChannelType ==
  ASSUME TypeOK, NEW F, NEW ts \in Seq(Task), CloseChannel(F, ts)
  PROVE  /\ open' \in BOOLEAN
         /\ write' \in [Requests -> {"none", "queued", "buffered", "sent", "failed"}]
         /\ tasks' \in Seq(Task)
         /\ outcome' \in [Requests -> {"none", "success", "failure"}]
         /\ succ' \in [Requests -> Nat]
         /\ fail' \in [Requests -> Nat]
<1>1. CallBack({}, Listened(F \cup Buffered))
  BY DEF CloseChannel
<1>2. open' = FALSE /\ tasks' \in Seq(Task)
  BY TaskType DEF CloseChannel
<1>3. write' \in [Requests -> {"none", "queued", "buffered", "sent", "failed"}]
  BY DEF CloseChannel, TypeOK
<1> QED
  BY <1>1, <1>2, <1>3, CallBackType

\* The queue left when the event loop runs the write of r is a task queue.
LEMMA RestType ==
  ASSUME TypeOK, NEW r \in Requests, Runs(r)
  PROVE  Rest(r) \in Seq(Task)
BY DEF TypeOK, Runs, Rest, Takes

\* A retry keeps the types of everything it touches.
LEMMA RetryType ==
  ASSUME TypeOK, NEW r \in Requests, NEW out \in SUBSET Requests, Retry(r, out)
  PROVE  /\ pc' \in [Requests -> {"idle", "refused", "checked", "added", "flushed", "returned"}]
         /\ outstanding' \subseteq Requests
         /\ write' \in [Requests -> {"none", "queued", "buffered", "sent", "failed"}]
         /\ inline' \in Requests \cup {NoRequest}
<1> DEFINE next == RetryOf[r]
<1>1. CASE next # NoRequest /\ IsAction /\ pc[next] = "idle"
  <2>1. next \in Requests
    BY <1>1
  <2>2. /\ pc' = [pc EXCEPT ![next] = "returned"]
        /\ outstanding' = out \cup {next}
        /\ write' = [write EXCEPT ![next] = "queued"]
        /\ inline' = next
    BY <1>1 DEF Retry
  <2> HIDE DEF next
  <2> QED
    BY <2>1, <2>2 DEF TypeOK
<1>2. CASE ~(next # NoRequest /\ IsAction /\ pc[next] = "idle")
  BY <1>2 DEF Retry, TypeOK
<1> QED
  BY <1>1, <1>2

\* What the server sends is a sequence of responses.
LEMMA AnswersType ==
  ASSUME NEW r \in Requests, NEW mode
  PROVE  Answers(mode, r) \in Seq({"ok", "error"} \X Requests)
<1>1. <<"ok", r>> \in {"ok", "error"} \X Requests /\ <<"error", r>> \in {"ok", "error"} \X Requests
  OBVIOUS
<1> DEFINE R == {"ok", "error"} \X Requests
<1> HIDE DEF R
<1>2. \A a, b \in R : <<a>> \in Seq(R) /\ <<a, b>> \in Seq(R) /\ <<>> \in Seq(R)
  OBVIOUS
<1>3. \/ Answers(mode, r) = <<<<"ok", r>>>> \/ Answers(mode, r) = <<<<"error", r>>>>
      \/ Answers(mode, r) = <<<<"ok", r>>, <<"error", r>>>> \/ Answers(mode, r) = <<>>
  BY DEF Answers
<1>4. <<"ok", r>> \in R /\ <<"error", r>> \in R
  BY <1>1 DEF R
<1>5. Answers(mode, r) \in Seq(R)
  BY <1>2, <1>3, <1>4
<1> QED
  BY <1>5 DEF R

\* Responding keeps the types of the server's end.
LEMMA RespondType ==
  ASSUME TypeOK, NEW answers \in Seq({"ok", "error"} \X Requests), Respond(answers)
  PROVE  serverOpen' \in BOOLEAN /\ replies' \in Seq({"ok", "error"} \X Requests)
<1> DEFINE R == {"ok", "error"} \X Requests
<1>1. replies \in Seq(R) /\ serverOpen \in BOOLEAN
  BY DEF TypeOK
<1>2. answers \in Seq(R)
  OBVIOUS
<1> HIDE DEF R
<1>3. replies \o answers \in Seq(R)
  BY <1>1, <1>2, ConcatProperties
<1>4. replies' \in Seq(R) /\ serverOpen' \in BOOLEAN
  BY <1>1, <1>3 DEF Respond
<1> QED
  BY <1>4 DEF R

-----------------------------------------------------------------------------
(* Type correctness. *)

\* Every step keeps the types.
LEMMA TypeStep ==
  ASSUME TypeOK, [Next]_vars
  PROVE  TypeOK'
<1>1. ASSUME NEW r \in Requests, CheckAction(r)
      PROVE  TypeOK'
  BY <1>1, TaskType DEF CheckAction, TypeOK, callers, calls, channel, loop, server
<1>2. ASSUME NEW r \in Requests, AddRpcRequest(r)
      PROVE  TypeOK'
  BY <1>2, TaskType DEF AddRpcRequest, TypeOK, callers, calls, channel, loop, server
<1>3. ASSUME NEW r \in Requests, WriteAndFlush(r)
      PROVE  TypeOK'
  BY <1>3, TaskType DEF WriteAndFlush, TypeOK, callers, calls, channel, loop, server
<1>4. ASSUME NEW r \in Requests, AddListener(r)
      PROVE  TypeOK'
  BY <1>4, TaskType DEF AddListener, TypeOK, callers, calls, channel, loop, server
<1>5. ASSUME NEW r \in Requests, SyncReturn(r)
      PROVE  TypeOK'
  BY <1>5, TaskType DEF SyncReturn, TypeOK, callers, calls, channel, loop, server
<1>6. ASSUME NEW r \in Requests, SyncTimeout(r)
      PROVE  TypeOK'
  BY <1>6, TaskType DEF SyncTimeout, TypeOK, callers, calls, channel, loop, server
<1>7. CASE ClientClose
  BY <1>7, TaskType DEF ClientClose, TypeOK, callers, calls, channel, loop, server
<1>8. ASSUME NEW r \in Requests, WriteSucceeds(r)
      PROVE  TypeOK'
  <2>1. Rest(r) \in Seq(Task)
    BY <1>8, RestType DEF WriteSucceeds
  <2> QED
    BY <1>8, <2>1 DEF WriteSucceeds, TypeOK, callers, calls, channel, loop, server
<1>9. ASSUME NEW r \in Requests, WriteBreaks(r)
      PROVE  TypeOK'
  <2>1. tasks \in Seq(Task) /\ Rest(r) \in Seq(Task)
    BY <1>9, RestType DEF WriteBreaks, TypeOK, Takes
  <2>2. CloseChannel({r}, Rest(r))
    BY <1>9 DEF WriteBreaks
  <2> QED
    BY <1>9, <2>1, <2>2, CloseChannelType DEF WriteBreaks, TypeOK, callers, calls, channel, loop, server
<1>10. ASSUME NEW r \in Requests, WriteRefused(r)
      PROVE  TypeOK'
  <2>1. Rest(r) \in Seq(Task)
    BY <1>10, RestType DEF WriteRefused
  <2>2. CASE pc[r] = "returned"
    <3>1. CloseChannel({r}, Rest(r))
      BY <1>10, <2>2 DEF WriteRefused
    <3> QED
      BY <1>10, <2>1, <3>1, CloseChannelType DEF WriteRefused, TypeOK, callers, calls, channel, loop, server
  <2>3. CASE pc[r] # "returned"
    BY <1>10, <2>1, <2>3 DEF WriteRefused, TypeOK, callers, calls, channel, loop, server
  <2> QED
    BY <2>2, <2>3
<1>11. ASSUME NEW r \in Requests, RunNotify(r)
      PROVE  TypeOK'
  <2>1. tasks \in Seq(Task) /\ Tail(tasks) \in Seq(Task)
    BY <1>11 DEF RunNotify, TypeOK, Takes
  <2>2. CloseChannel({r}, Tail(tasks))
    BY <1>11 DEF RunNotify
  <2> QED
    BY <1>11, <2>1, <2>2, CloseChannelType DEF RunNotify, TypeOK, callers, calls, channel, loop, server
<1>12. CASE RunClose
  <2>1. tasks \in Seq(Task) /\ Tail(tasks) \in Seq(Task)
    BY <1>12 DEF RunClose, TypeOK, Takes
  <2>2. CloseChannel({}, Tail(tasks))
    BY <1>12 DEF RunClose
  <2> QED
    BY <1>12, <2>1, <2>2, CloseChannelType DEF RunClose, TypeOK, callers, calls, channel, loop, server
<1>13. ASSUME NEW r \in Requests, FlushBuffered(r)
      PROVE  TypeOK'
  BY <1>13, TaskType DEF FlushBuffered, TypeOK, callers, calls, channel, loop, server
<1>14. ASSUME NEW r \in Requests, NEW kind \in {"ok", "error"}, IgnoreReply(kind, r)
      PROVE  TypeOK'
  BY <1>14 DEF IgnoreReply, TypeOK, callers, calls, channel, loop, server
<1>15. ASSUME NEW r \in Requests, HandleResponse(r)
      PROVE  TypeOK'
  <2>1. CallBack({r}, {})
    BY <1>15 DEF HandleResponse
  <2> QED
    BY <1>15, <2>1, CallBackType DEF HandleResponse, TypeOK, callers, calls, channel, loop, server
<1>16. ASSUME NEW r \in Requests, HandleFailure(r)
      PROVE  TypeOK'
  <2>1. CallBack({}, {r}) /\ Retry(r, outstanding \ {r})
    BY <1>16 DEF HandleFailure
  <2>2. outstanding \ {r} \in SUBSET Requests
    BY DEF TypeOK
  <2>3. /\ pc' \in [Requests -> {"idle", "refused", "checked", "added", "flushed", "returned"}]
        /\ outstanding' \subseteq Requests
        /\ write' \in [Requests -> {"none", "queued", "buffered", "sent", "failed"}]
        /\ inline' \in Requests \cup {NoRequest}
    BY <2>1, <2>2, RetryType
  <2>4. /\ outcome' \in [Requests -> {"none", "success", "failure"}]
        /\ succ' \in [Requests -> Nat]
        /\ fail' \in [Requests -> Nat]
    BY <2>1, CallBackType
  <2>5. replies' \in Seq({"ok", "error"} \X Requests)
    BY <1>16 DEF HandleFailure, TypeOK
  <2>6. phase' \in {"idle", "caught"}
    BY <1>16 DEF HandleFailure
  <2>7. UNCHANGED <<answer, timedOut, open, tasks, must, seen, exceptions, server>>
    BY <1>16 DEF HandleFailure
  <2> QED
    BY <2>3, <2>4, <2>5, <2>6, <2>7 DEF TypeOK, server
<1>17. CASE PipelineException
  BY <1>17, TaskType DEF PipelineException, TypeOK, callers, calls, channel, loop, server
<1>18. CASE ExceptionCaught
  <2>1. CASE outstanding = {}
    <3>1. CloseChannel({}, tasks) /\ tasks \in Seq(Task)
      BY <1>18, <2>1 DEF ExceptionCaught, TypeOK
    <3> QED
      BY <1>18, <2>1, <3>1, CloseChannelType DEF ExceptionCaught, TypeOK, callers, calls, channel, loop, server
  <2>2. CASE outstanding # {}
    BY <1>18, <2>2 DEF ExceptionCaught, TypeOK, callers, calls, channel, loop, server
  <2> QED
    BY <2>1, <2>2
<1>19. CASE ChannelInactive
  BY <1>19 DEF ChannelInactive, Takes, TypeOK, callers, calls, channel, loop, server
<1>20. ASSUME NEW r \in Requests, FailEntry(r)
      PROVE  TypeOK'
  <2>1. CallBack({}, {r}) /\ Retry(r, outstanding)
    BY <1>20 DEF FailEntry
  <2>2. outstanding \in SUBSET Requests
    BY DEF TypeOK
  <2> QED
    BY <1>20, <2>1, <2>2, CallBackType, RetryType DEF FailEntry, TypeOK, callers, calls, channel, loop, server
<1>21. CASE ClearOutstanding
  <2>1. CASE phase = "exception"
    <3>1. CloseChannel({}, tasks) /\ tasks \in Seq(Task)
      BY <1>21, <2>1 DEF ClearOutstanding, TypeOK
    <3> QED
      BY <1>21, <2>1, <3>1, CloseChannelType DEF ClearOutstanding, TypeOK, callers, calls, channel, loop, server
  <2>2. CASE phase # "exception"
    BY <1>21, <2>2 DEF ClearOutstanding, TypeOK, callers, calls, channel, loop, server
  <2> QED
    BY <2>1, <2>2
<1>22. CASE IdleEvent
  BY <1>22, TaskType DEF IdleEvent, TypeOK, callers, calls, channel, loop, server
<1>32. CASE IdleClose
  <2>1. tasks \in Seq(Task)
    BY <1>32 DEF TypeOK
  <2>2. CloseChannel({}, tasks)
    BY <1>32 DEF IdleClose
  <2> QED
    BY <1>32, <2>1, <2>2, CloseChannelType DEF IdleClose, TypeOK, callers, calls, channel, loop, server
<1>23. CASE PeerClosed
  <2>1. tasks \in Seq(Task) /\ tasks \in Seq(Task)
    BY <1>23 DEF PeerClosed, TypeOK, Takes
  <2>2. CloseChannel({}, tasks)
    BY <1>23 DEF PeerClosed
  <2> QED
    BY <1>23, <2>1, <2>2, CloseChannelType DEF PeerClosed, TypeOK, callers, calls, channel, loop, server
<1>24. ASSUME NEW r \in Requests, NEW mode \in ServerModes, ServerReceive(r, mode)
      PROVE  TypeOK'
  <2>1. Answers(mode, r) \in Seq({"ok", "error"} \X Requests)
    BY AnswersType
  <2>2. Respond(Answers(mode, r))
    BY <1>24 DEF ServerReceive
  <2>3. serverOpen' \in BOOLEAN /\ replies' \in Seq({"ok", "error"} \X Requests)
    BY <2>1, <2>2, RespondType
  <2> QED
    BY <1>24, <2>3 DEF ServerReceive, TypeOK, callers, calls, channel, loop, server
<1>25. ASSUME NEW r \in Requests, NEW kind \in {"ok", "error"}, ServerAnswer(r, kind)
      PROVE  TypeOK'
  <2>1. CASE serverOpen
    <3>1. <<<<kind, r>>>> \in Seq({"ok", "error"} \X Requests)
      OBVIOUS
    <3>2. Respond(<<<<kind, r>>>>)
      BY <1>25, <2>1 DEF ServerAnswer
    <3>3. serverOpen' \in BOOLEAN /\ replies' \in Seq({"ok", "error"} \X Requests)
      BY <3>1, <3>2, RespondType
    <3> QED
      BY <1>25, <3>3 DEF ServerAnswer, TypeOK, callers, calls, channel, loop, server
  <2>2. CASE ~serverOpen
    BY <1>25, <2>2 DEF ServerAnswer, TypeOK, callers, calls, channel, loop, server
  <2> QED
    BY <2>1, <2>2
<1>26. CASE ServerClose
  BY <1>26, TaskType DEF ServerClose, TypeOK, callers, calls, channel, loop, server
<1>27. CASE UNCHANGED vars
  BY <1>27 DEF TypeOK, vars, callers, calls, channel, loop, server
<1>28. CASE LoopStep
  BY <1>28, <1>8, <1>9, <1>10, <1>11, <1>20, <1>12, <1>18, <1>19, <1>21, <1>32 DEF LoopStep, RunWrite
<1>29. CASE ReadStep
  BY <1>29, <1>15, <1>16, <1>13, <1>14, <1>17, <1>22, <1>23 DEF ReadStep
<1>30. CASE ServerStep
  BY <1>30, <1>24, <1>25, <1>26 DEF ServerStep
<1>31. CASE \E r \in Requests : CheckAction(r) \/ CallerStep(r) \/ SyncReturn(r) \/ SyncTimeout(r)
  BY <1>31, <1>1, <1>2, <1>3, <1>4, <1>5, <1>6 DEF CallerStep
<1> QED
  <2>1. CASE Next
    BY <2>1, <1>7, <1>28, <1>29, <1>30, <1>31 DEF Next
  <2> QED
    BY <2>1, <1>27

\* The state of a connection always has its types, for any number of calls, any
\* callbacks and either pipeline.
THEOREM TypeCorrect == Spec => []TypeOK
<1>1. Init => TypeOK
  <2> SUFFICES ASSUME Init PROVE TypeOK
    OBVIOUS
  <2>1. tasks \in Seq(Task) /\ replies \in Seq({"ok", "error"} \X Requests)
    BY DEF Init
  <2>2. inline \in Requests \cup {NoRequest} /\ exceptions \in Nat
    BY DEF Init
  <2> QED
    BY <2>1, <2>2 DEF Init, TypeOK
<1>2. TypeOK /\ [Next]_vars => TypeOK'
  BY TypeStep
<1> QED
  BY <1>1, <1>2, PTL DEF Spec

-----------------------------------------------------------------------------
(* No call is dropped. *)

\* What a sequence holds after an append.
LEMMA AppendIn ==
  ASSUME NEW ts \in Seq(Task), NEW e \in Task
  PROVE  \A t : In(t, Append(ts, e)) <=> In(t, ts) \/ t = e
<1> DEFINE app == Append(ts, e)
<1>1. Len(app) = Len(ts) + 1 /\ app[Len(ts) + 1] = e /\ \A i \in 1..Len(ts) : app[i] = ts[i]
  BY AppendProperties
<1>2. Len(ts) \in Nat
  OBVIOUS
<1> HIDE DEF app
<1>3. ASSUME NEW t, In(t, app)
      PROVE  In(t, ts) \/ t = e
  BY <1>1, <1>2, <1>3 DEF In
<1>4. ASSUME NEW t, In(t, ts)
      PROVE  In(t, app)
  BY <1>1, <1>2, <1>4 DEF In
<1>5. In(e, app)
  BY <1>1, <1>2 DEF In
<1> QED
  BY <1>3, <1>4, <1>5 DEF app

\* What a queue holds after its head was taken.
LEMMA TailIn ==
  ASSUME NEW ts \in Seq(Task), ts # <<>>
  PROVE  /\ \A t : In(t, Tail(ts)) => In(t, ts)
         /\ \A t : In(t, ts) /\ t # Head(ts) => In(t, Tail(ts))
<1>1. /\ Len(ts) \in Nat /\ Len(ts) > 0
      /\ Len(Tail(ts)) = Len(ts) - 1
      /\ \A i \in 1..Len(Tail(ts)) : Tail(ts)[i] = ts[i + 1]
  BY HeadTailProperties
<1>2. Head(ts) = ts[1]
  OBVIOUS
<1>3. ASSUME NEW t, In(t, Tail(ts))
      PROVE  In(t, ts)
  BY <1>1, <1>3 DEF In
<1>4. ASSUME NEW t, In(t, ts), t # Head(ts)
      PROVE  In(t, Tail(ts))
  <2>1. PICK i \in 1..Len(ts) : ts[i] = t
    BY <1>4 DEF In
  <2>2. i - 1 \in 1..Len(Tail(ts)) /\ Tail(ts)[i - 1] = t
    BY <1>1, <1>2, <1>4, <2>1
  <2> QED
    BY <2>2 DEF In
<1> QED
  BY <1>3, <1>4

\* The tasks ts are those that remain while the writes of F are reported.
Leaves(F, ts) ==
  /\ \A t : In(t, ts) => In(t, tasks)
  /\ \A r \in Requests \ F : /\ In(Write(r), tasks) => In(Write(r), ts)
                             /\ In(Notify(r), tasks) => In(Notify(r), ts)

\* Taking the write of r, or its late notification, leaves the other tasks.
LEMMA TakeLeaves ==
  ASSUME TypeOK, NEW task \in Task, Takes(task), NEW F,
         \A r \in Requests \ F : task # Write(r) /\ task # Notify(r)
  PROVE  Leaves(F, Tail(tasks)) /\ Tail(tasks) \in Seq(Task)
<1>1. tasks \in Seq(Task) /\ tasks # <<>> /\ Head(tasks) = task
  BY DEF TypeOK, Takes
<1> QED
  BY <1>1, TailIn, HeadTailProperties DEF Leaves

\* Closing the channel reports the buffered writes and those of F: a call with a
\* failure to come is called, or its failure still comes.
LEMMA CloseFailsPending ==
  ASSUME TypeOK, QueuedWrites, NEW F \in SUBSET Requests, NEW ts \in Seq(Task),
         Leaves(F, ts), CloseChannel(F, ts), UNCHANGED pc
  PROVE  /\ ~open' /\ Buffered' = {}
         /\ QueuedWrites'
         /\ \A r \in Requests : Called(r) => Called(r)'
         /\ \A r \in Requests :
              Registered(r) /\ FailurePending(r) => Called(r)' \/ FailurePending(r)'
<1> DEFINE failing == F \cup Buffered
<1>1. /\ ~open'
      /\ tasks' = IF open THEN Append(ts, Inactive) ELSE ts
      /\ \A r \in Requests : write'[r] = IF r \in failing THEN "failed" ELSE write[r]
      /\ \A r \in Requests : outcome'[r] =
            IF outcome[r] # "none" THEN outcome[r]
            ELSE IF r \in Listened(failing) THEN "failure" ELSE "none"
  BY DEF CloseChannel, CallBack
<1>2. /\ \A t : In(t, tasks') => In(t, tasks) \/ t = Inactive
      /\ \A r \in Requests \ F : /\ In(Write(r), tasks) => In(Write(r), tasks')
                                 /\ In(Notify(r), tasks) => In(Notify(r), tasks')
  <2>1. CASE open
    <3>1. \A t : In(t, tasks') <=> In(t, ts) \/ t = Inactive
      BY <1>1, <2>1, AppendIn, TaskType
    <3> QED
      BY <3>1 DEF Leaves
  <2>2. CASE ~open
    BY <1>1, <2>2 DEF Leaves
  <2> QED
    BY <2>1, <2>2 DEF TypeOK
<1>3. Buffered' = {}
  BY <1>1 DEF Buffered
<1>4. QueuedWrites'
  <2>1. ASSUME NEW r \in Requests, write'[r] = "queued"
        PROVE  In(Write(r), tasks')
    <3>1. r \notin failing /\ write[r] = "queued"
      BY <1>1, <2>1
    <3>2. r \in Requests \ F /\ In(Write(r), tasks)
      BY <3>1 DEF QueuedWrites
    <3> QED
      BY <1>2, <3>2
  <2>2. ASSUME NEW r \in Requests, In(Write(r), tasks')
        PROVE  pc'[r] \in {"flushed", "returned"}
    BY <1>2, <2>2 DEF QueuedWrites, Write, Inactive
  <2> QED
    BY <2>1, <2>2 DEF QueuedWrites, In
<1>5. \A r \in Requests : Called(r) => Called(r)'
  BY <1>1 DEF Called
<1>6. ASSUME NEW r \in Requests, Registered(r), FailurePending(r), ~Called(r)'
      PROVE  FailurePending(r)'
  <2>1. CASE pc[r] = "added"
    BY <2>1 DEF FailurePending
  <2>2. CASE pc[r] # "added" /\ r \in failing
    <3>1. pc[r] # "returned"
      BY <1>1, <1>6, <2>2 DEF Called, Listened
    <3> QED
      BY <1>1, <1>6, <2>2, <3>1 DEF FailurePending, Registered
  <2>3. CASE pc[r] # "added" /\ r \notin failing
    <3>1. write'[r] = write[r]
      BY <1>1, <2>3
    <3>2. r \in Requests \ F
      BY <2>3
    <3>3. In(Notify(r), tasks) => In(Notify(r), tasks')
      BY <1>2, <3>2
    <3> QED
      BY <1>6, <2>3, <3>1, <3>3 DEF FailurePending, In
  <2> QED
    BY <2>1, <2>2, <2>3
<1> QED
  BY <1>1, <1>3, <1>4, <1>5, <1>6

\* A step that closes the channel keeps the invariant, if what it removes from
\* the table was called or has a failure to come.
LEMMA CloseKeepsDropInv ==
  ASSUME TypeOK, DropInv, NEW F \in SUBSET Requests, NEW ts \in Seq(Task),
         Leaves(F, ts), CloseChannel(F, ts), UNCHANGED pc,
         inline' = NoRequest, phase' = "idle",
         \A r \in Requests :
           Registered(r) /\ ~Called(r) /\ r \notin outstanding' => FailurePending(r)
  PROVE  DropInv'
<1>1. QueuedWrites
  BY DEF DropInv
<1>2. /\ ~open' /\ Buffered' = {}
      /\ QueuedWrites'
      /\ \A r \in Requests : Called(r) => Called(r)'
      /\ \A r \in Requests :
           Registered(r) /\ FailurePending(r) => Called(r)' \/ FailurePending(r)'
  BY <1>1, CloseFailsPending
<1>3. DroppedCallsFail'
  <2> SUFFICES ASSUME NEW r \in Requests, Registered(r)', ~Called(r)', r \notin outstanding'
               PROVE  ~open' /\ FailurePending(r)'
    BY DEF DroppedCallsFail
  <2>1. Registered(r) /\ ~Called(r)
    BY <1>2 DEF Registered
  <2> QED
    BY <1>2, <2>1
<1>4. IterationCalls'
  BY DEF IterationCalls
<1>5. ClosedChannel'
  BY <1>2 DEF ClosedChannel
<1> QED
  BY <1>2, <1>3, <1>4, <1>5 DEF DropInv

\* A step that leaves the table at least its entries, closes the channel and
\* takes nothing else keeps the invariant.
LEMMA CloseKeepsTable ==
  ASSUME TypeOK, DropInv, NEW F \in SUBSET Requests, NEW ts \in Seq(Task),
         Leaves(F, ts), CloseChannel(F, ts), UNCHANGED <<pc, outstanding>>,
         inline' = NoRequest, phase' = "idle"
  PROVE  DropInv'
<1>1. \A r \in Requests :
        Registered(r) /\ ~Called(r) /\ r \notin outstanding' => FailurePending(r)
  BY DEF DropInv, DroppedCallsFail
<1> QED
  BY <1>1, CloseKeepsDropInv

\* Without retries every write of the event loop is the task at its head.
LEMMA RunsTask ==
  ASSUME TypeOK, DropInv, NEW r \in Requests, Runs(r)
  PROVE  /\ Takes(Write(r)) /\ Rest(r) = Tail(tasks) /\ Tail(tasks) \in Seq(Task)
         /\ Leaves({r}, Tail(tasks))
         /\ pc[r] \in {"flushed", "returned"}
<1>1. Takes(Write(r)) /\ Rest(r) = Tail(tasks)
  BY DEF DropInv, Runs, Rest
<1>2. \A s \in Requests \ {r} : Write(r) # Write(s) /\ Write(r) # Notify(s)
  BY DEF Write, Notify
<1>3. Leaves({r}, Tail(tasks)) /\ Tail(tasks) \in Seq(Task)
  BY <1>1, <1>2, TakeLeaves, TaskType
<1>4. tasks[1] = Write(r) /\ 1 \in 1..Len(tasks)
  BY <1>1 DEF Takes, TypeOK
<1>5. In(Write(r), tasks)
  BY <1>4 DEF In
<1> QED
  BY <1>1, <1>3, <1>5 DEF DropInv, QueuedWrites

\* The steps of the application threads keep the invariant.
LEMMA DropCallerStep ==
  ASSUME TypeOK, DropInv, NEW r \in Requests,
         CheckAction(r) \/ AddRpcRequest(r) \/ WriteAndFlush(r) \/ AddListener(r)
  PROVE  DropInv'
<1> USE DEF DropInv
<1>1. CASE CheckAction(r)
  <2>1. /\ pc' = [pc EXCEPT ![r] = pc'[r]] /\ pc[r] = "idle" /\ pc'[r] \in {"checked", "refused"}
        /\ UNCHANGED <<outcome, outstanding, open, write, tasks, phase, must, seen, inline>>
    BY <1>1 DEF CheckAction, TypeOK, calls, channel, loop
  <2>2. DroppedCallsFail'
    BY <2>1 DEF DroppedCallsFail, Registered, Called, FailurePending, In, TypeOK
  <2>3. QueuedWrites'
    BY <2>1 DEF QueuedWrites, In, TypeOK
  <2>4. IterationCalls' /\ ClosedChannel'
    BY <2>1 DEF IterationCalls, ClosedChannel, Called, Buffered, In, TypeOK
  <2> QED
    BY <2>1, <2>2, <2>3, <2>4
<1>2. CASE AddRpcRequest(r)
  <2>1. /\ pc' = [pc EXCEPT ![r] = "added"] /\ pc[r] = "checked" /\ outstanding' = outstanding \cup {r}
        /\ UNCHANGED <<outcome, open, write, tasks, phase, must, seen, inline>>
    BY <1>2 DEF AddRpcRequest, calls, channel, loop
  <2>2. DroppedCallsFail'
    BY <2>1 DEF DroppedCallsFail, Registered, Called, FailurePending, In, TypeOK
  <2>3. QueuedWrites'
    BY <2>1 DEF QueuedWrites, In, TypeOK
  <2>4. IterationCalls' /\ ClosedChannel'
    BY <2>1 DEF IterationCalls, ClosedChannel, Called, Buffered, In, TypeOK
  <2> QED
    BY <2>1, <2>2, <2>3, <2>4
<1>3. CASE WriteAndFlush(r)
  <2>1. /\ pc' = [pc EXCEPT ![r] = "flushed"] /\ pc[r] = "added"
        /\ write' = [write EXCEPT ![r] = "queued"] /\ tasks' = Append(tasks, Write(r))
        /\ UNCHANGED <<outcome, outstanding, open, phase, must, seen, inline>>
    BY <1>3 DEF WriteAndFlush, calls, loop
  <2>2. \A t : In(t, tasks') <=> In(t, tasks) \/ t = Write(r)
    BY <2>1, AppendIn, TaskType DEF TypeOK
  <2>3. DroppedCallsFail'
    <3> SUFFICES ASSUME NEW s \in Requests, Registered(s)', ~Called(s)', s \notin outstanding'
                 PROVE  ~open' /\ FailurePending(s)'
      BY DEF DroppedCallsFail
    <3>1. Registered(s) /\ ~Called(s) /\ s \notin outstanding
      BY <2>1 DEF Registered, Called, TypeOK
    <3>2. ~open /\ FailurePending(s)
      BY <3>1 DEF DroppedCallsFail
    <3>3. CASE s = r
      BY <2>1, <3>2, <3>3 DEF FailurePending, TypeOK
    <3>4. CASE s # r
      <4>1. pc'[s] = pc[s] /\ write'[s] = write[s] /\ (In(Notify(s), tasks) => In(Notify(s), tasks'))
        BY <2>1, <2>2, <3>4 DEF TypeOK
      <4> QED
        BY <2>1, <3>2, <4>1 DEF FailurePending, In
    <3> QED
      BY <3>3, <3>4
  <2>4. QueuedWrites'
    <3>1. ASSUME NEW s \in Requests, write'[s] = "queued" PROVE In(Write(s), tasks')
      BY <2>1, <2>2, <3>1 DEF QueuedWrites, TypeOK
    <3>2. ASSUME NEW s \in Requests, In(Write(s), tasks') PROVE pc'[s] \in {"flushed", "returned"}
      BY <2>1, <2>2, <3>2 DEF QueuedWrites, Write, TypeOK
    <3> QED
      BY <3>1, <3>2 DEF QueuedWrites, In
  <2>5. IterationCalls'
    BY <2>1 DEF IterationCalls, Called, TypeOK
  <2>6. ClosedChannel'
    <3>1. In(Inactive, tasks') => In(Inactive, tasks)
      BY <2>2 DEF Inactive, Write
    <3> QED
      BY <2>1, <3>1 DEF ClosedChannel, Buffered, In, TypeOK
  <2> QED
    BY <2>1, <2>3, <2>4, <2>5, <2>6
<1>4. CASE AddListener(r)
  <2>1. /\ pc' = [pc EXCEPT ![r] = "returned"] /\ pc[r] = "flushed"
        /\ tasks' = IF write[r] = "failed" THEN Append(tasks, Notify(r)) ELSE tasks
        /\ UNCHANGED <<outcome, outstanding, open, write, phase, must, seen, inline>>
    BY <1>4 DEF AddListener, calls, loop
  <2>2. /\ \A t : In(t, tasks) => In(t, tasks')
        /\ \A t : In(t, tasks') => In(t, tasks) \/ t = Notify(r)
        /\ write[r] = "failed" => In(Notify(r), tasks')
    <3>1. CASE write[r] = "failed"
      BY <2>1, <3>1, AppendIn, TaskType DEF TypeOK
    <3>2. CASE write[r] # "failed"
      BY <2>1, <3>2
    <3> QED
      BY <3>1, <3>2
  <2>3. DroppedCallsFail'
    <3> SUFFICES ASSUME NEW s \in Requests, Registered(s)', ~Called(s)', s \notin outstanding'
                 PROVE  ~open' /\ FailurePending(s)'
      BY DEF DroppedCallsFail
    <3>1. Registered(s) /\ ~Called(s) /\ s \notin outstanding
      BY <2>1 DEF Registered, Called, TypeOK
    <3>2. ~open /\ FailurePending(s)
      BY <3>1 DEF DroppedCallsFail
    <3>3. CASE s = r
      <4>1. write[r] = "queued" \/ (write[r] = "failed" /\ In(Notify(r), tasks'))
        BY <2>1, <2>2, <3>2, <3>3 DEF FailurePending
      <4> QED
        BY <2>1, <3>2, <3>3, <4>1 DEF FailurePending, In
    <3>4. CASE s # r
      <4>1. pc'[s] = pc[s] /\ write'[s] = write[s] /\ (In(Notify(s), tasks) => In(Notify(s), tasks'))
        BY <2>1, <2>2, <3>4 DEF TypeOK
      <4> QED
        BY <2>1, <3>2, <4>1 DEF FailurePending, In
    <3> QED
      BY <3>3, <3>4
  <2>4. QueuedWrites'
    <3>1. ASSUME NEW s \in Requests, write'[s] = "queued" PROVE In(Write(s), tasks')
      BY <2>1, <2>2, <3>1 DEF QueuedWrites
    <3>2. ASSUME NEW s \in Requests, In(Write(s), tasks') PROVE pc'[s] \in {"flushed", "returned"}
      BY <2>1, <2>2, <3>2 DEF QueuedWrites, Write, Notify, TypeOK
    <3> QED
      BY <3>1, <3>2 DEF QueuedWrites, In
  <2>5. IterationCalls'
    BY <2>1 DEF IterationCalls, Called, TypeOK
  <2>6. ClosedChannel'
    <3>1. In(Inactive, tasks') => In(Inactive, tasks)
      BY <2>2 DEF Inactive, Notify
    <3> QED
      BY <2>1, <3>1 DEF ClosedChannel, Buffered, In
  <2> QED
    BY <2>1, <2>3, <2>4, <2>5, <2>6
<1> QED
  BY <1>1, <1>2, <1>3, <1>4

\* The writes and notifications of the event loop keep the invariant.
LEMMA DropTaskStep ==
  ASSUME TypeOK, DropInv, NEW r \in Requests,
         RunWrite(r) \/ RunNotify(r) \/ FlushBuffered(r)
  PROVE  DropInv'
<1> USE DEF DropInv
<1>1. CASE WriteSucceeds(r)
  <2>1. /\ open /\ tasks' = Tail(tasks) /\ write' = [write EXCEPT ![r] = write'[r]]
        /\ write'[r] \in {"sent", "buffered"}
        /\ phase = "idle" /\ inline' = NoRequest
        /\ UNCHANGED <<pc, outcome, outstanding, open, phase, must, seen>>
    BY <1>1, RunsTask DEF WriteSucceeds, Takes, LoopFree, callers, calls, TypeOK
  <2>2. /\ \A t : In(t, tasks') => In(t, tasks)
        /\ \A s \in Requests \ {r} : In(Write(s), tasks) => In(Write(s), tasks')
    BY <1>1, <2>1, RunsTask DEF WriteSucceeds, Leaves
  <2>3. DroppedCallsFail'
    BY <2>1 DEF DroppedCallsFail, Registered, Called
  <2>4. QueuedWrites'
    <3>1. ASSUME NEW s \in Requests, write'[s] = "queued" PROVE In(Write(s), tasks')
      BY <2>1, <2>2, <3>1 DEF QueuedWrites, TypeOK
    <3>2. ASSUME NEW s \in Requests, In(Write(s), tasks') PROVE pc'[s] \in {"flushed", "returned"}
      BY <2>1, <2>2, <3>2 DEF QueuedWrites
    <3> QED
      BY <3>1, <3>2 DEF QueuedWrites, In
  <2>5. IterationCalls'
    BY <2>1 DEF IterationCalls
  <2>6. ClosedChannel'
    <3>1. In(Inactive, tasks') => In(Inactive, tasks)
      BY <2>2
    <3> QED
      BY <2>1, <3>1 DEF ClosedChannel, In
  <2> QED
    BY <2>1, <2>3, <2>4, <2>5, <2>6
<1>2. CASE WriteBreaks(r)
  <2>1. /\ CloseChannel({r}, Tail(tasks)) /\ UNCHANGED <<pc, outstanding>>
        /\ inline' = NoRequest /\ phase' = "idle"
    BY <1>2, RunsTask DEF WriteBreaks, Takes, LoopFree, callers
  <2> QED
    BY <1>2, <2>1, RunsTask, CloseKeepsTable DEF WriteBreaks
<1>3. CASE WriteRefused(r) /\ pc[r] = "returned"
  <2>1. /\ CloseChannel({r}, Tail(tasks)) /\ UNCHANGED <<pc, outstanding>>
        /\ inline' = NoRequest /\ phase' = "idle"
    BY <1>3, RunsTask DEF WriteRefused, Takes, LoopFree, callers
  <2> QED
    BY <1>3, <2>1, RunsTask, CloseKeepsTable DEF WriteRefused
<1>4. CASE WriteRefused(r) /\ pc[r] # "returned"
  <2>1. /\ tasks' = Tail(tasks) /\ write' = [write EXCEPT ![r] = "failed"]
        /\ phase = "idle" /\ inline' = NoRequest /\ pc[r] = "flushed"
        /\ UNCHANGED <<pc, outcome, outstanding, open, phase, must, seen>>
    BY <1>4, RunsTask DEF WriteRefused, Takes, LoopFree, callers, calls
  <2>2. /\ \A t : In(t, tasks') => In(t, tasks)
        /\ \A s \in Requests \ {r} : /\ In(Write(s), tasks) => In(Write(s), tasks')
                                     /\ In(Notify(s), tasks) => In(Notify(s), tasks')
    BY <1>4, <2>1, RunsTask DEF WriteRefused, Leaves
  <2>3. DroppedCallsFail'
    <3> SUFFICES ASSUME NEW s \in Requests, Registered(s)', ~Called(s)', s \notin outstanding'
                 PROVE  ~open' /\ FailurePending(s)'
      BY DEF DroppedCallsFail
    <3>1. ~open /\ FailurePending(s)
      BY <2>1 DEF DroppedCallsFail, Registered, Called
    <3>2. CASE s = r
      BY <2>1, <3>1, <3>2 DEF FailurePending, TypeOK
    <3>3. CASE s # r
      <4>1. write'[s] = write[s] /\ (In(Notify(s), tasks) => In(Notify(s), tasks'))
        BY <2>1, <2>2, <3>3 DEF TypeOK
      <4> QED
        BY <2>1, <3>1, <4>1 DEF FailurePending, In
    <3> QED
      BY <3>2, <3>3
  <2>4. QueuedWrites'
    <3>1. ASSUME NEW s \in Requests, write'[s] = "queued" PROVE In(Write(s), tasks')
      BY <2>1, <2>2, <3>1 DEF QueuedWrites, TypeOK
    <3>2. ASSUME NEW s \in Requests, In(Write(s), tasks') PROVE pc'[s] \in {"flushed", "returned"}
      BY <2>1, <2>2, <3>2 DEF QueuedWrites
    <3> QED
      BY <3>1, <3>2 DEF QueuedWrites, In
  <2>5. IterationCalls'
    BY <2>1 DEF IterationCalls
  <2>6. ClosedChannel'
    <3>1. In(Inactive, tasks') => In(Inactive, tasks)
      BY <2>2
    <3> QED
      BY <2>1, <3>1 DEF ClosedChannel, Buffered, In, TypeOK
  <2> QED
    BY <2>1, <2>3, <2>4, <2>5, <2>6
<1>5. CASE RunNotify(r)
  <2>1. /\ Takes(Notify(r)) /\ CloseChannel({r}, Tail(tasks)) /\ UNCHANGED <<pc, outstanding>>
        /\ inline' = NoRequest /\ phase' = "idle"
    BY <1>5 DEF RunNotify, Takes, LoopFree, callers, loop
  <2>2. \A s \in Requests \ {r} : Notify(r) # Write(s) /\ Notify(r) # Notify(s)
    BY DEF Write, Notify
  <2>3. Leaves({r}, Tail(tasks)) /\ Tail(tasks) \in Seq(Task)
    BY <2>1, <2>2, TakeLeaves, TaskType
  <2> QED
    BY <2>1, <2>3, CloseKeepsTable
<1>6. CASE FlushBuffered(r)
  <2>1. /\ open /\ write' = [write EXCEPT ![r] = "sent"]
        /\ phase = "idle"
        /\ UNCHANGED <<pc, outcome, outstanding, open, tasks, phase, must, seen, inline>>
    BY <1>6 DEF FlushBuffered, LoopFree, callers, calls, loop
  <2>2. DroppedCallsFail'
    BY <2>1 DEF DroppedCallsFail, Registered, Called
  <2>3. QueuedWrites'
    BY <2>1 DEF QueuedWrites, In, TypeOK
  <2>4. IterationCalls' /\ ClosedChannel'
    BY <2>1 DEF IterationCalls, ClosedChannel, In
  <2> QED
    BY <2>1, <2>2, <2>3, <2>4
<1> QED
  BY <1>1, <1>2, <1>3, <1>4, <1>5, <1>6 DEF RunWrite

\* Without retries, failing a call touches neither writes nor callers.
LEMMA NoRetryStep ==
  ASSUME RetryFree, NEW r \in Requests, NEW out, Retry(r, out)
  PROVE  outstanding' = out /\ UNCHANGED <<pc, write, inline>>
BY DEF RetryFree, Retry

\* The steps of the response handler keep the invariant.
LEMMA DropHandlerStep ==
  ASSUME RetryFree, TypeOK, DropInv,
         \/ \E r \in Requests : HandleResponse(r) \/ HandleFailure(r) \/ FailEntry(r)
         \/ PipelineException \/ ExceptionCaught \/ ChannelInactive \/ ClearOutstanding
         \/ RunClose \/ IdleEvent \/ IdleClose \/ PeerClosed
  PROVE  DropInv'
<1> USE DEF DropInv
<1>0. Leaves({}, tasks) /\ tasks \in Seq(Task)
  BY DEF Leaves, TypeOK
<1>1. ASSUME NEW r \in Requests, HandleResponse(r) \/ HandleFailure(r)
      PROVE  DropInv'
  <2>1. /\ outstanding' = outstanding \ {r} /\ outcome'[r] # "none"
        /\ \A s \in Requests \ {r} : outcome'[s] = outcome[s]
        /\ phase = "idle" /\ phase' \in {"idle", "caught"}
        /\ UNCHANGED <<pc, write, inline, open, tasks>>
    <3>1. CASE HandleResponse(r)
      BY <3>1 DEF HandleResponse, CallBack, LoopFree, callers, channel, TypeOK
    <3>2. CASE HandleFailure(r)
      <4>1. outstanding' = outstanding \ {r} /\ UNCHANGED <<pc, write, inline>>
        BY <3>2, NoRetryStep DEF HandleFailure
      <4>2. /\ outcome'[r] # "none"
            /\ \A s \in Requests \ {r} : outcome'[s] = outcome[s]
        BY <3>2 DEF HandleFailure, CallBack, TypeOK
      <4> QED
        BY <3>2, <4>1, <4>2 DEF HandleFailure, LoopFree
    <3> QED
      BY <1>1, <3>1, <3>2
  <2>2. DroppedCallsFail'
    BY <2>1 DEF DroppedCallsFail, Registered, Called, FailurePending, In
  <2>3. QueuedWrites'
    BY <2>1 DEF QueuedWrites, In
  <2>4. IterationCalls' /\ ClosedChannel'
    BY <2>1 DEF IterationCalls, ClosedChannel, Buffered, In
  <2> QED
    BY <2>1, <2>2, <2>3, <2>4
<1>2. CASE PipelineException
  <2>1. /\ phase' = "caught"
        /\ UNCHANGED <<pc, outcome, outstanding, open, write, tasks, must, seen, inline>>
    BY <1>2 DEF PipelineException, callers, calls, channel
  <2>2. DroppedCallsFail' /\ QueuedWrites'
    BY <2>1 DEF DroppedCallsFail, QueuedWrites, Registered, Called, FailurePending, In
  <2>3. IterationCalls' /\ ClosedChannel'
    BY <2>1 DEF IterationCalls, ClosedChannel, Buffered, In
  <2> QED
    BY <2>1, <2>2, <2>3
<1>3. CASE ExceptionCaught /\ outstanding = {}
  BY <1>0, <1>3, CloseKeepsTable DEF ExceptionCaught, callers
<1>4. CASE (ExceptionCaught /\ outstanding # {}) \/ (ChannelInactive /\ outstanding # {})
  <2>1. /\ phase' \in {"exception", "inactive"} /\ must' = outstanding /\ seen' = {}
        /\ UNCHANGED <<pc, outcome, outstanding, open, write, inline>>
        /\ \/ phase' = "exception" /\ UNCHANGED tasks
           \/ phase' = "inactive" /\ Takes(Inactive) /\ tasks' = Tail(tasks)
    BY <1>4 DEF ExceptionCaught, ChannelInactive, callers, calls, channel
  <2>2. /\ \A t : In(t, tasks') => In(t, tasks)
        /\ \A s \in Requests : /\ In(Write(s), tasks) => In(Write(s), tasks')
                               /\ In(Notify(s), tasks) => In(Notify(s), tasks')
        /\ phase' = "inactive" => In(Inactive, tasks)
    <3>1. CASE UNCHANGED tasks /\ phase' = "exception"
      BY <3>1
    <3>2. CASE Takes(Inactive) /\ tasks' = Tail(tasks)
      <4>1. \A s \in Requests : Inactive # Write(s) /\ Inactive # Notify(s)
        BY DEF Inactive, Write, Notify
      <4>2. Leaves({}, Tail(tasks))
        BY <3>2, <4>1, TakeLeaves, TaskType
      <4>3. tasks[1] = Inactive /\ 1 \in 1..Len(tasks)
        BY <3>2 DEF Takes, TypeOK
      <4> QED
        BY <3>2, <4>2, <4>3 DEF Leaves, In
    <3> QED
      BY <2>1, <3>1, <3>2
  <2>3. DroppedCallsFail'
    <3> SUFFICES ASSUME NEW s \in Requests, Registered(s)', ~Called(s)', s \notin outstanding'
                 PROVE  ~open' /\ FailurePending(s)'
      BY DEF DroppedCallsFail
    <3>1. ~open /\ FailurePending(s)
      BY <2>1 DEF DroppedCallsFail, Registered, Called
    <3>2. In(Notify(s), tasks) => In(Notify(s), tasks')
      BY <2>2
    <3> QED
      BY <2>1, <3>1, <3>2 DEF FailurePending, In
  <2>4. QueuedWrites'
    <3>1. ASSUME NEW s \in Requests, write'[s] = "queued" PROVE In(Write(s), tasks')
      BY <2>1, <2>2, <3>1 DEF QueuedWrites
    <3>2. ASSUME NEW s \in Requests, In(Write(s), tasks') PROVE pc'[s] \in {"flushed", "returned"}
      BY <2>1, <2>2, <3>2 DEF QueuedWrites
    <3> QED
      BY <3>1, <3>2 DEF QueuedWrites, In
  <2>5. IterationCalls'
    BY <2>1 DEF IterationCalls
  <2>6. ClosedChannel'
    <3>1. In(Inactive, tasks') => In(Inactive, tasks)
      BY <2>2
    <3> QED
      BY <2>1, <2>2, <3>1 DEF ClosedChannel, Buffered, In
  <2> QED
    BY <2>1, <2>3, <2>4, <2>5, <2>6
<1>5. CASE ChannelInactive /\ outstanding = {}
  <2>1. /\ Takes(Inactive) /\ tasks' = Tail(tasks)
        /\ UNCHANGED <<pc, outcome, outstanding, open, write, phase, must, seen, inline>>
    BY <1>5 DEF ChannelInactive, callers, calls
  <2>2. \A s \in Requests : Inactive # Write(s) /\ Inactive # Notify(s)
    BY DEF Inactive, Write, Notify
  <2>3. Leaves({}, tasks')
    BY <2>1, <2>2, TakeLeaves, TaskType
  <2>4. /\ \A t : In(t, tasks') => In(t, tasks)
        /\ \A s \in Requests : /\ In(Write(s), tasks) => In(Write(s), tasks')
                               /\ In(Notify(s), tasks) => In(Notify(s), tasks')
    BY <2>3 DEF Leaves
  <2>5. DroppedCallsFail'
    <3> SUFFICES ASSUME NEW s \in Requests, Registered(s)', ~Called(s)', s \notin outstanding'
                 PROVE  ~open' /\ FailurePending(s)'
      BY DEF DroppedCallsFail
    <3>1. ~open /\ FailurePending(s)
      BY <2>1 DEF DroppedCallsFail, Registered, Called
    <3>2. In(Notify(s), tasks) => In(Notify(s), tasks')
      BY <2>4
    <3> QED
      BY <2>1, <3>1, <3>2 DEF FailurePending, In
  <2>6. QueuedWrites'
    <3>1. ASSUME NEW s \in Requests, write'[s] = "queued" PROVE In(Write(s), tasks')
      BY <2>1, <2>4, <3>1 DEF QueuedWrites
    <3>2. ASSUME NEW s \in Requests, In(Write(s), tasks') PROVE pc'[s] \in {"flushed", "returned"}
      BY <2>1, <2>4, <3>2 DEF QueuedWrites
    <3> QED
      BY <3>1, <3>2 DEF QueuedWrites, In
  <2>7. IterationCalls'
    BY <2>1 DEF IterationCalls, Called
  <2>8. ClosedChannel'
    <3>1. In(Inactive, tasks') => In(Inactive, tasks)
      BY <2>4
    <3> QED
      BY <2>1, <3>1 DEF ClosedChannel, Buffered, In
  <2> QED
    BY <2>1, <2>5, <2>6, <2>7, <2>8
<1>6. ASSUME NEW r \in Requests, FailEntry(r)
      PROVE  DropInv'
  <2>1. outstanding' = outstanding /\ UNCHANGED <<pc, write, inline>>
    BY <1>6, NoRetryStep DEF FailEntry
  <2>2. /\ outcome'[r] # "none"
        /\ \A s \in Requests : Called(s) => outcome'[s] # "none"
        /\ \A s \in Requests \ {r} : outcome'[s] = outcome[s]
    BY <1>6 DEF FailEntry, CallBack, Called, TypeOK
  <2>3. /\ phase' = phase \/ phase' = "idle"
        /\ phase' = phase => seen' = seen \/ seen' = seen \cup {r}
        /\ UNCHANGED <<open, tasks, must>>
    BY <1>6 DEF FailEntry
  <2>4. DroppedCallsFail'
    BY <2>1, <2>2, <2>3 DEF DroppedCallsFail, Registered, Called, FailurePending, In
  <2>5. QueuedWrites'
    BY <2>1, <2>3 DEF QueuedWrites, In
  <2>6. IterationCalls'
    <3> SUFFICES ASSUME phase' \in {"exception", "inactive"}
                 PROVE  /\ \A s \in seen' : Called(s)'
                        /\ \A s \in outstanding' \ must' : pc'[s] = "added" \/ write'[s] = "queued"
      BY DEF IterationCalls
    <3>1. phase' = phase /\ (seen' = seen \/ seen' = seen \cup {r})
      BY <2>3
    <3>2. \A s \in seen : Called(s) /\ s \in Requests
      BY <3>1 DEF IterationCalls, TypeOK
    <3>3. \A s \in seen' : outcome'[s] # "none"
      BY <2>2, <3>1, <3>2
    <3>4. \A s \in outstanding' \ must' : pc'[s] = "added" \/ write'[s] = "queued"
      BY <2>1, <2>3, <3>1 DEF IterationCalls
    <3> QED
      BY <3>3, <3>4 DEF Called
  <2>7. ClosedChannel'
    BY <2>1, <2>3 DEF ClosedChannel, Buffered, In
  <2> QED
    BY <2>1, <2>4, <2>5, <2>6, <2>7
<1>7. CASE ClearOutstanding
  <2>1. /\ phase \in {"exception", "inactive"} /\ must \subseteq seen
        /\ outstanding' = {} /\ phase' = "idle"
        /\ UNCHANGED <<pc, inline>>
    BY <1>7 DEF ClearOutstanding, Iterating, callers
  <2>2. \A s \in Requests : Registered(s) /\ ~Called(s) => FailurePending(s)
    BY <2>1 DEF DroppedCallsFail, IterationCalls, FailurePending, TypeOK
  <2>3. CASE phase = "exception"
    <3>1. CloseChannel({}, tasks)
      BY <1>7, <2>3 DEF ClearOutstanding
    <3> QED
      BY <1>0, <2>1, <2>2, <3>1, CloseKeepsDropInv
  <2>4. CASE phase = "inactive"
    <3>1. UNCHANGED <<outcome, open, write, tasks>>
      BY <1>7, <2>4 DEF ClearOutstanding, calls, channel
    <3>2. ~open
      BY <2>4 DEF ClosedChannel
    <3>3. DroppedCallsFail'
      BY <2>1, <2>2, <3>1, <3>2 DEF DroppedCallsFail, Registered, Called, FailurePending, In
    <3>4. QueuedWrites' /\ ClosedChannel'
      BY <2>1, <3>1 DEF QueuedWrites, ClosedChannel, Buffered, In
    <3>5. IterationCalls'
      BY <2>1 DEF IterationCalls
    <3> QED
      BY <2>1, <3>3, <3>4, <3>5
  <2> QED
    BY <2>1, <2>3, <2>4
<1>8. CASE RunClose
  <2>1. /\ Takes(Close) /\ CloseChannel({}, Tail(tasks)) /\ UNCHANGED <<pc, outstanding>>
        /\ inline' = NoRequest /\ phase' = "idle"
    BY <1>8 DEF RunClose, Takes, LoopFree, callers, loop
  <2>2. \A s \in Requests : Close # Write(s) /\ Close # Notify(s)
    BY DEF Close, Write, Notify
  <2>3. Leaves({}, Tail(tasks)) /\ Tail(tasks) \in Seq(Task)
    BY <2>1, <2>2, TakeLeaves, TaskType
  <2> QED
    BY <2>1, <2>3, CloseKeepsTable
<1>9. CASE IdleClose \/ PeerClosed
  <2>1. /\ CloseChannel({}, tasks) /\ UNCHANGED <<pc, outstanding>>
        /\ inline' = NoRequest /\ phase' = "idle"
    BY <1>9 DEF IdleClose, PeerClosed, LoopFree, callers, loop
  <2> QED
    BY <1>0, <2>1, CloseKeepsTable
<1>10. CASE IdleEvent
  <2>1. /\ phase' = "timedOut"
        /\ UNCHANGED <<pc, outcome, outstanding, open, write, tasks, must, seen, inline>>
    BY <1>10 DEF IdleEvent, callers, calls, channel
  <2>2. DroppedCallsFail' /\ QueuedWrites'
    BY <2>1 DEF DroppedCallsFail, QueuedWrites, Registered, Called, FailurePending, In
  <2>3. IterationCalls' /\ ClosedChannel'
    BY <2>1 DEF IterationCalls, ClosedChannel, Buffered, In
  <2> QED
    BY <2>1, <2>2, <2>3
<1> QED
  BY <1>1, <1>2, <1>3, <1>4, <1>5, <1>6, <1>7, <1>8, <1>9, <1>10

\* What the invariant does not mention may change.
LEMMA DropFrame ==
  ASSUME DropInv,
         UNCHANGED <<pc, outcome, outstanding, open, write, tasks, phase, must, seen, inline>>
  PROVE  DropInv'
<1>1. DroppedCallsFail' /\ QueuedWrites'
  BY DEF DropInv, DroppedCallsFail, QueuedWrites, Registered, Called, FailurePending, In
<1>2. IterationCalls' /\ ClosedChannel'
  BY DEF DropInv, IterationCalls, ClosedChannel, Called, Buffered, In
<1> QED
  BY <1>1, <1>2 DEF DropInv

\* TransportClient.close keeps the invariant.
LEMMA DropClose ==
  ASSUME TypeOK, DropInv, ClientClose
  PROVE  DropInv'
<1>1. /\ tasks' = Append(tasks, Close)
      /\ UNCHANGED <<pc, outcome, outstanding, open, write, phase, must, seen, inline>>
  BY DEF ClientClose, callers, calls, loop
<1>2. \A t : In(t, tasks') <=> In(t, tasks) \/ t = Close
  BY <1>1, AppendIn, TaskType DEF TypeOK
<1>3. /\ In(Inactive, tasks') => In(Inactive, tasks)
      /\ \A s \in Requests : /\ In(Write(s), tasks') <=> In(Write(s), tasks)
                             /\ In(Notify(s), tasks') <=> In(Notify(s), tasks)
  BY <1>2 DEF Close, Inactive, Write, Notify
<1>4. DroppedCallsFail'
  <2> SUFFICES ASSUME NEW s \in Requests, Registered(s)', ~Called(s)', s \notin outstanding'
               PROVE  ~open' /\ FailurePending(s)'
    BY DEF DroppedCallsFail
  <2>1. ~open /\ FailurePending(s)
    BY <1>1 DEF DropInv, DroppedCallsFail, Registered, Called
  <2>2. In(Notify(s), tasks) => In(Notify(s), tasks')
    BY <1>3
  <2> QED
    BY <1>1, <2>1, <2>2 DEF FailurePending, In
<1>5. QueuedWrites'
  <2>1. ASSUME NEW s \in Requests, write'[s] = "queued" PROVE In(Write(s), tasks')
    BY <1>1, <1>3, <2>1 DEF DropInv, QueuedWrites
  <2>2. ASSUME NEW s \in Requests, In(Write(s), tasks') PROVE pc'[s] \in {"flushed", "returned"}
    BY <1>1, <1>3, <2>2 DEF DropInv, QueuedWrites
  <2> QED
    BY <2>1, <2>2 DEF QueuedWrites, In
<1>6. IterationCalls'
  BY <1>1 DEF DropInv, IterationCalls, Called
<1>7. ClosedChannel'
  BY <1>1, <1>3 DEF DropInv, ClosedChannel, Buffered, In
<1> QED
  BY <1>1, <1>4, <1>5, <1>6, <1>7 DEF DropInv

\* Every step keeps the invariant.
LEMMA DropStep ==
  ASSUME RetryFree, TypeOK, DropInv, [Next]_vars
  PROVE  DropInv'
<1>1. CASE \E r \in Requests : CheckAction(r) \/ CallerStep(r)
  BY <1>1, DropCallerStep DEF CallerStep
<1>2. CASE \E r \in Requests : SyncReturn(r) \/ SyncTimeout(r)
  <2>1. UNCHANGED <<pc, outcome, outstanding, open, write, tasks, phase, must, seen, inline>>
    BY <1>2 DEF SyncReturn, SyncTimeout, calls, channel, loop
  <2> QED
    BY <2>1, DropFrame
<1>3. CASE LoopStep
  BY <1>3, DropTaskStep, DropHandlerStep DEF LoopStep
<1>4. CASE ReadStep
  <2>1. ASSUME NEW r \in Requests, NEW kind \in {"ok", "error"}, IgnoreReply(kind, r)
        PROVE  DropInv'
    <3>1. UNCHANGED <<pc, outcome, outstanding, open, write, tasks, phase, must, seen, inline>>
      BY <2>1 DEF IgnoreReply, callers, calls, channel, loop
    <3> QED
      BY <3>1, DropFrame
  <2> QED
    BY <1>4, <2>1, DropTaskStep, DropHandlerStep DEF ReadStep
<1>5. CASE ServerStep
  <2>1. UNCHANGED <<callers, outstanding, calls, channel, loop>>
    BY <1>5 DEF ServerStep, ServerReceive, ServerAnswer, ServerClose
  <2>2. UNCHANGED <<pc, outcome, outstanding, open, write, tasks, phase, must, seen, inline>>
    BY <2>1 DEF callers, calls, channel, loop
  <2> QED
    BY <2>2, DropFrame
<1>6. CASE UNCHANGED vars
  <2>1. UNCHANGED <<pc, outcome, outstanding, open, write, tasks, phase, must, seen, inline>>
    BY <1>6 DEF vars, callers, calls, channel, loop
  <2> QED
    BY <2>1, DropFrame
<1> QED
  BY <1>1, <1>2, <1>3, <1>4, <1>5, <1>6, DropClose DEF Next

\* For any number of calls whose callbacks may throw but do not send new ones:
\* whatever the interleaving of sendRpc, the event loop, the server and the
\* close, when the connection is over a call that returned from sendRpc was
\* called back or is still in the table; the clear of failOutstandingRequests
\* drops none.
THEOREM NoCallDroppedCorrect ==
  ASSUME RetryFree
  PROVE  Spec => []NoCallDropped
<1>1. Init => DropInv
  BY DEF Init, DropInv, DroppedCallsFail, QueuedWrites, IterationCalls, ClosedChannel,
         Registered, Buffered, In
<1>2. TypeOK /\ DropInv /\ [Next]_vars => DropInv'
  BY DropStep
<1>3. TypeOK /\ DropInv => NoCallDropped
  <2> SUFFICES ASSUME TypeOK, DropInv, Drained, NEW r \in Requests, pc[r] = "returned",
                      ~Called(r), r \notin outstanding
               PROVE  FALSE
    BY DEF NoCallDropped
  <2>1. FailurePending(r)
    BY DEF DropInv, DroppedCallsFail, Registered
  <2>2. ~In(Write(r), tasks) /\ ~In(Notify(r), tasks)
    BY DEF Drained, In
  <2> QED
    BY <2>1, <2>2 DEF FailurePending, DropInv, QueuedWrites
<1> QED
  BY <1>1, <1>2, <1>3, TypeCorrect, PTL DEF Spec
=============================================================================
