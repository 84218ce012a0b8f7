---------------------------- MODULE TransportRpc ----------------------------
(***************************************************************************)
(* One RPC connection of phone/.../common/network: the application threads *)
(* that call TransportClient.sendRpc, the one event-loop thread that runs  *)
(* TransportChannelHandler and TransportResponseHandler, the table of      *)
(* outstanding calls they share, and the TransportRequestHandler at the    *)
(* other end of the socket.                                                *)
(*                                                                         *)
(* A request stands for one call of sendRpc, its request id and its        *)
(* callback.  An application thread is never atomic with the event loop:   *)
(* the liveness check, the registration, the write and the registration of *)
(* the write listener are separate steps.  A step of the event loop is     *)
(* what it does between two accesses to state that other threads touch.    *)
(***************************************************************************)
EXTENDS Naturals, Sequences

CONSTANTS
  Requests,       \* calls of sendRpc, each with its own request id
  NoRequest,      \* a value that is not a request
  Throwing,       \* requests whose callback throws when it is invoked
  RetryOf,        \* RetryOf[r]: the request the callback of r sends on failure
  Sync,           \* requests sent by sendRpcSync
  Encodes,        \* the pipeline turns a message into bytes (see README)
  IdleHandler,    \* the pipeline holds an IdleStateHandler
  CloseIdle,      \* closeIdleConnections
  ServerModes,    \* what the server's RpcHandler.receive may do
  MaxExceptions   \* bound: exceptions the pipeline reports

\* Requests sent by a callback on the event loop, not by an application thread.
Retries == {RetryOf[r] : r \in Requests} \ {NoRequest}

ASSUME RequestAssumption == NoRequest \notin Requests
ASSUME CallbackAssumption ==
  /\ Throwing \subseteq Requests
  /\ Sync \subseteq Requests \ Retries
  /\ RetryOf \in [Requests -> Requests \cup {NoRequest}]
ASSUME PipelineAssumption ==
  /\ Encodes \in BOOLEAN
  /\ IdleHandler \in BOOLEAN
  /\ CloseIdle \in BOOLEAN
ASSUME ServerAssumption ==
  ServerModes \subseteq {"reply", "fail", "throw", "replyThrow", "defer", "ignore"}
ASSUME BoundAssumption == MaxExceptions \in Nat

VARIABLES
  \* The application threads inside sendRpc and sendRpcSync.
  pc,           \* how far sendRpc has come for each request
  answer,       \* what sendRpcSync returned
  \* TransportClient and TransportResponseHandler.
  timedOut,     \* TransportClient.timedOut
  outstanding,  \* the keys of outstandingRpcs
  outcome,      \* the first completion the callback was given
  succ, fail,   \* how often onSuccess and onFailure were called
  \* The channel and its event loop.
  open,         \* channel.isOpen()
  write,        \* the promise of the write of each request
  tasks,        \* the tasks queued on the event loop
  phase,        \* what the event loop is in the middle of
  must, seen,   \* the iteration over outstandingRpcs
  inline,       \* a write issued by a callback on the event loop
  exceptions,   \* exceptions reported so far
  \* The server's end.
  serverOpen, served, deferred,
  replies       \* responses on their way to the client

callers == <<pc, answer>>
calls   == <<outcome, succ, fail>>
channel == <<open, write, tasks>>
loop    == <<phase, must, seen, inline, exceptions>>
server  == <<serverOpen, served, deferred>>
vars    == <<callers, timedOut, outstanding, calls, channel, loop, server, replies>>

-----------------------------------------------------------------------------
(* The channel (Netty). *)

Write(r)  == <<"write", r>>         \* writeAndFlush off the event loop
Notify(r) == <<"notify", r>>        \* a listener added to a promise already failed
Close     == <<"close", NoRequest>>
Inactive  == <<"inactive", NoRequest>>

\* Nothing is running on the event loop.
LoopFree == phase = "idle" /\ inline = NoRequest

\* isAction: neither marked as timed out nor closed.
IsAction == ~timedOut /\ open

\* Writes Netty still holds; it fails them when it closes the channel.
Buffered == {r \in Requests : write[r] = "buffered"}

\* The write listener of sendRpc is attached.
Listened(S) == {r \in S : pc[r] = "returned"}

\* One invocation of onSuccess for each request of S and of onFailure for each
\* of F.  SettableFuture, like outcome, keeps the first.
CallBack(S, F) ==
  /\ succ' = [r \in Requests |-> IF r \in S THEN succ[r] + 1 ELSE succ[r]]
  /\ fail' = [r \in Requests |-> IF r \in F THEN fail[r] + 1 ELSE fail[r]]
  /\ outcome' = [r \in Requests |->
       IF outcome[r] # "none" THEN outcome[r]
       ELSE IF r \in S THEN "success"
       ELSE IF r \in F THEN "failure" ELSE "none"]

\* channel.close() on the event loop while the writes of F fail and the tasks
\* ts remain: channelInactive is delivered by a later task, and the listeners of
\* the failed writes report to their callbacks at once.  What a callback throws
\* or retries there is caught or refused, for the channel is closed.
CloseChannel(F, ts) ==
  LET failing == F \cup Buffered
  IN  /\ open' = FALSE
      /\ tasks' = IF open THEN Append(ts, Inactive) ELSE ts
      /\ write' = [r \in Requests |-> IF r \in failing THEN "failed" ELSE write[r]]
      /\ CallBack({}, Listened(failing))

-----------------------------------------------------------------------------
(* TransportClient: the application threads. *)

\* Mutant of CheckAction: sendRpc forgets to ask isAction.
CheckActionSkipped(r) ==
  /\ r \notin Retries
  /\ pc[r] = "idle"
  /\ pc' = [pc EXCEPT ![r] = "checked"]
  /\ UNCHANGED <<answer, timedOut, outstanding, calls, channel, loop, server, replies>>

\* sendRpc finds the client usable, or throws.
CheckAction(r) ==
  /\ r \notin Retries
  /\ pc[r] = "idle"
  /\ pc' = [pc EXCEPT ![r] = IF IsAction THEN "checked" ELSE "refused"]
  /\ UNCHANGED <<answer, timedOut, outstanding, calls, channel, loop, server, replies>>

\* addRpcRequest: the call enters the table before it is written.
AddRpcRequest(r) ==
  /\ pc[r] = "checked"
  /\ pc' = [pc EXCEPT ![r] = "added"]
  /\ outstanding' = outstanding \cup {r}
  /\ UNCHANGED <<answer, timedOut, calls, channel, loop, server, replies>>

\* writeAndFlush off the event loop only queues the write.
WriteAndFlush(r) ==
  /\ pc[r] = "added"
  /\ pc' = [pc EXCEPT ![r] = "flushed"]
  /\ write' = [write EXCEPT ![r] = "queued"]
  /\ tasks' = Append(tasks, Write(r))
  /\ UNCHANGED <<answer, timedOut, outstanding, calls, open, loop, server, replies>>

\* Mutant of AddListener: the late notification loses its request.
AddListenerUnbound(r) ==
  /\ pc[r] = "flushed"
  /\ pc' = [pc EXCEPT ![r] = "returned"]
  /\ tasks' = IF write[r] = "failed" THEN Append(tasks, Notify(NoRequest)) ELSE tasks
  /\ UNCHANGED <<answer, timedOut, outstanding, calls, open, write, loop, server, replies>>

\* addListener: a promise that already failed notifies by a task of its own.
AddListener(r) ==
  /\ pc[r] = "flushed"
  /\ pc' = [pc EXCEPT ![r] = "returned"]
  /\ tasks' = IF write[r] = "failed" THEN Append(tasks, Notify(r)) ELSE tasks
  /\ UNCHANGED <<answer, timedOut, outstanding, calls, open, write, loop, server, replies>>

\* sendRpcSync: result.get returns what the callback has set ...
SyncReturn(r) ==
  /\ r \in Sync
  /\ pc[r] = "returned"
  /\ answer[r] = "none"
  /\ outcome[r] # "none"
  /\ answer' = [answer EXCEPT ![r] = outcome[r]]
  /\ UNCHANGED <<pc, timedOut, outstanding, calls, channel, loop, server, replies>>

\* Mutant of SyncTimeout: result.get() without a timeout.
SyncTimeoutNever(r) ==
  /\ r \in Sync /\ FALSE
  /\ UNCHANGED vars

\* ... or gives up after timeoutMs, and leaves the call in the table.
SyncTimeout(r) ==
  /\ r \in Sync
  /\ pc[r] = "returned"
  /\ answer[r] = "none"
  /\ outcome[r] = "none"
  /\ answer' = [answer EXCEPT ![r] = "timeout"]
  /\ UNCHANGED <<pc, timedOut, outstanding, calls, channel, loop, server, replies>>

\* TransportClient.close from an application thread queues the close.
ClientClose ==
  /\ open
  /\ \A i \in DOMAIN tasks : tasks[i] # Close
  /\ tasks' = Append(tasks, Close)
  /\ UNCHANGED <<callers, timedOut, outstanding, calls, open, write, loop, server, replies>>

-----------------------------------------------------------------------------
(* The event loop: queued tasks. *)

\* The event loop takes the task at the head of its queue.
Takes(task) == LoopFree /\ tasks # <<>> /\ Head(tasks) = task

\* The write of r runs: as a task, or inline when a callback issued it.
Runs(r) == inline = r \/ Takes(Write(r))
Rest(r) == IF inline = r THEN tasks ELSE Tail(tasks)

\* The socket takes the bytes, or Netty keeps them until it does.
WriteSucceeds(r) ==
  /\ Runs(r)
  /\ open /\ Encodes
  /\ \E w \in {"sent", "buffered"} : write' = [write EXCEPT ![r] = w]
  /\ tasks' = Rest(r)
  /\ inline' = NoRequest
  /\ UNCHANGED <<callers, timedOut, outstanding, calls, open, phase, must, seen,
                 exceptions, server, replies>>

\* An I/O error: Netty closes the channel and fails the writes it holds.
WriteBreaks(r) ==
  /\ Runs(r)
  /\ open /\ Encodes
  /\ CloseChannel({r}, Rest(r))
  /\ inline' = NoRequest
  /\ UNCHANGED <<callers, timedOut, outstanding, phase, must, seen, exceptions,
                 server, replies>>

\* Mutant of WriteRefused: the listener closes the channel and stops there.
WriteRefusedSilently(r) ==
  /\ Runs(r)
  /\ ~open \/ ~Encodes
  /\ open' = FALSE
  /\ write' = [write EXCEPT ![r] = "failed"]
  /\ tasks' = IF open THEN Append(Rest(r), Inactive) ELSE Rest(r)
  /\ inline' = NoRequest
  /\ UNCHANGED <<callers, timedOut, outstanding, calls, phase, must, seen, exceptions,
                 server, replies>>

\* The channel is closed, or nothing in the pipeline encodes a message: the
\* promise fails.  The listener, once attached, closes the channel and calls
\* onFailure; it leaves the entry in the table.
WriteRefused(r) ==
  /\ Runs(r)
  /\ ~open \/ ~Encodes
  /\ IF pc[r] = "returned"
       THEN CloseChannel({r}, Rest(r))
       ELSE /\ write' = [write EXCEPT ![r] = "failed"]
            /\ tasks' = Rest(r)
            /\ UNCHANGED <<open, calls>>
  /\ inline' = NoRequest
  /\ UNCHANGED <<callers, timedOut, outstanding, phase, must, seen, exceptions,
                 server, replies>>

RunWrite(r) == WriteSucceeds(r) \/ WriteBreaks(r) \/ WriteRefused(r)

\* The listener of a write that failed before it was attached.
RunNotify(r) ==
  /\ Takes(Notify(r))
  /\ CloseChannel({r}, Tail(tasks))
  /\ UNCHANGED <<callers, timedOut, outstanding, loop, server, replies>>

RunClose ==
  /\ Takes(Close)
  /\ CloseChannel({}, Tail(tasks))
  /\ UNCHANGED <<callers, timedOut, outstanding, loop, server, replies>>

\* The socket becomes writable again.
FlushBuffered(r) ==
  /\ LoopFree /\ open
  /\ write[r] = "buffered"
  /\ write' = [write EXCEPT ![r] = "sent"]
  /\ UNCHANGED <<callers, timedOut, outstanding, calls, open, tasks, loop, server, replies>>

-----------------------------------------------------------------------------
(* The event loop: TransportChannelHandler and TransportResponseHandler. *)

\* onFailure of r throws: of its own accord, or because sendRpc refuses its retry.
Throws(r) == r \in Throwing \/ (RetryOf[r] # NoRequest /\ ~IsAction)

\* A callback that retries, once, calls sendRpc from the event loop; the write it
\* issues runs before the event loop goes on.
Retry(r, out) ==
  LET next == RetryOf[r]
  IN  IF next # NoRequest /\ IsAction /\ pc[next] = "idle"
        THEN /\ pc' = [pc EXCEPT ![next] = "returned"]
             /\ outstanding' = out \cup {next}
             /\ write' = [write EXCEPT ![next] = "queued"]
             /\ inline' = next
        ELSE /\ outstanding' = out
             /\ UNCHANGED <<pc, write, inline>>

\* A response for a call that is not outstanding is ignored.
IgnoreReply(kind, r) ==
  /\ LoopFree /\ open
  /\ replies # <<>> /\ Head(replies) = <<kind, r>>
  /\ r \notin outstanding
  /\ replies' = Tail(replies)
  /\ UNCHANGED <<callers, timedOut, outstanding, calls, channel, loop, server>>

\* Mutant of HandleResponse: the entry stays in the table.
HandleResponseKeeps(r) ==
  /\ LoopFree /\ open
  /\ replies # <<>> /\ Head(replies) = <<"ok", r>>
  /\ r \in outstanding
  /\ replies' = Tail(replies)
  /\ CallBack({r}, {})
  /\ phase' = IF r \in Throwing THEN "caught" ELSE "idle"
  /\ UNCHANGED <<callers, timedOut, outstanding, channel, must, seen, inline, exceptions,
                 server>>

\* handle(RpcResponse): the entry goes, then onSuccess is called.  What the
\* callback throws comes back to the handler as exceptionCaught.
HandleResponse(r) ==
  /\ LoopFree /\ open
  /\ replies # <<>> /\ Head(replies) = <<"ok", r>>
  /\ r \in outstanding
  /\ replies' = Tail(replies)
  /\ outstanding' = outstanding \ {r}
  /\ CallBack({r}, {})
  /\ phase' = IF r \in Throwing THEN "caught" ELSE "idle"
  /\ UNCHANGED <<callers, timedOut, channel, must, seen, inline, exceptions, server>>

\* handle(RpcFailure): likewise with onFailure.
HandleFailure(r) ==
  /\ LoopFree /\ open
  /\ replies # <<>> /\ Head(replies) = <<"error", r>>
  /\ r \in outstanding
  /\ replies' = Tail(replies)
  /\ CallBack({}, {r})
  /\ Retry(r, outstanding \ {r})
  /\ phase' = IF Throws(r) THEN "caught" ELSE "idle"
  /\ UNCHANGED <<answer, timedOut, open, tasks, must, seen, exceptions, server>>

\* The pipeline reports an exception, such as a response it cannot decode.
PipelineException ==
  /\ LoopFree /\ open
  /\ exceptions < MaxExceptions
  /\ exceptions' = exceptions + 1
  /\ phase' = "caught"
  /\ UNCHANGED <<callers, timedOut, outstanding, calls, channel, must, seen, inline,
                 server, replies>>

\* TransportChannelHandler.exceptionCaught: with calls outstanding they are
\* failed first, without any the context is closed.
ExceptionCaught ==
  /\ phase = "caught" /\ inline = NoRequest
  /\ IF outstanding = {}
       THEN /\ CloseChannel({}, tasks)
            /\ phase' = "idle"
            /\ UNCHANGED <<must, seen>>
       ELSE /\ phase' = "exception"
            /\ must' = outstanding
            /\ seen' = {}
            /\ UNCHANGED <<calls, channel>>
  /\ UNCHANGED <<callers, timedOut, outstanding, inline, exceptions, server, replies>>

\* TransportChannelHandler.channelInactive.
ChannelInactive ==
  /\ Takes(Inactive)
  /\ tasks' = Tail(tasks)
  /\ IF outstanding = {}
       THEN UNCHANGED <<phase, must, seen>>
       ELSE phase' = "inactive" /\ must' = outstanding /\ seen' = {}
  /\ UNCHANGED <<callers, timedOut, outstanding, calls, open, write, inline,
                 exceptions, server, replies>>

\* failOutstandingRequests is between two entries of the table.
Iterating == phase \in {"exception", "inactive"} /\ inline = NoRequest

\* Mutant of FailEntry: the table is cleared although a callback threw.
FailEntryClears(r) ==
  /\ Iterating
  /\ r \in outstanding \ seen
  /\ CallBack({}, {r})
  /\ IF Throws(r)
       THEN phase' = "idle" /\ outstanding' = {} /\ UNCHANGED seen
       ELSE seen' = seen \cup {r} /\ UNCHANGED <<phase, outstanding>>
  /\ UNCHANGED <<callers, timedOut, channel, must, inline, exceptions, server, replies>>

\* failOutstandingRequests calls one entry.  The iterator is weakly consistent:
\* it meets every entry of the start, and may meet one put since.  A callback
\* that throws, or whose retry is refused, ends the iteration, the clear and the close after it included.
FailEntry(r) ==
  /\ Iterating
  /\ r \in outstanding \ seen
  /\ CallBack({}, {r})
  /\ Retry(r, outstanding)
  /\ IF Throws(r)
       THEN phase' = "idle" /\ UNCHANGED seen
       ELSE seen' = seen \cup {r} /\ UNCHANGED phase
  /\ UNCHANGED <<answer, timedOut, open, tasks, must, exceptions, server, replies>>

\* Mutant of ClearOutstanding: the entries that were failed stay.
ClearOutstandingNot ==
  /\ Iterating
  /\ must \subseteq seen
  /\ phase' = "idle"
  /\ IF phase = "exception"
       THEN CloseChannel({}, tasks)
       ELSE UNCHANGED <<calls, channel>>
  /\ UNCHANGED <<callers, timedOut, outstanding, must, seen, inline, exceptions, server, replies>>

\* Mutant of ClearOutstanding: exceptionCaught leaves the channel open.
ClearOutstandingOpen ==
  /\ Iterating
  /\ must \subseteq seen
  /\ outstanding' = {}
  /\ phase' = "idle"
  /\ UNCHANGED <<callers, timedOut, calls, channel, must, seen, inline, exceptions, server,
                 replies>>

\* The end of failOutstandingRequests: clear, and after an exception ctx.close.
ClearOutstanding ==
  /\ Iterating
  /\ must \subseteq seen
  /\ outstanding' = {}
  /\ phase' = "idle"
  /\ IF phase = "exception"
       THEN CloseChannel({}, tasks)
       ELSE UNCHANGED <<calls, channel>>
  /\ UNCHANGED <<callers, timedOut, must, seen, inline, exceptions, server, replies>>

\* userEventTriggered marks the client as timed out.  isActuallyOverdue compares
\* the clock with the last sendRpc; between any two steps any time may pass, so
\* that the event may find it true at every moment.
IdleEvent ==
  /\ IdleHandler
  /\ LoopFree /\ open
  /\ outstanding # {} \/ CloseIdle
  /\ timedOut' = TRUE
  /\ phase' = "timedOut"
  /\ UNCHANGED <<callers, outstanding, calls, channel, must, seen, inline, exceptions,
                 server, replies>>

\* Mutant of IdleClose: the handler leaves the context open.
IdleCloseForgets ==
  /\ phase = "timedOut"
  /\ phase' = "idle"
  /\ UNCHANGED <<callers, timedOut, outstanding, calls, channel, must, seen, inline,
                 exceptions, server, replies>>

\* ... and then closes the context: until here sendRpc is refused although the
\* channel is open.
IdleClose ==
  /\ phase = "timedOut"
  /\ CloseChannel({}, tasks)
  /\ phase' = "idle"
  /\ UNCHANGED <<callers, timedOut, outstanding, must, seen, inline, exceptions,
                 server, replies>>

\* The end of the stream: the server closed or died.  Responses not yet read
\* may be lost with it.
PeerClosed ==
  /\ LoopFree /\ open
  /\ ~serverOpen
  /\ CloseChannel({}, tasks)
  /\ UNCHANGED <<callers, timedOut, outstanding, loop, server, replies>>

-----------------------------------------------------------------------------
(* The server's end: TransportRequestHandler. *)

\* What processRpcRequest makes the handler's behaviour answer.  A handler that
\* answers and then throws is answered for twice.
Answers(mode, r) ==
  CASE mode = "reply"      -> <<<<"ok", r>>>>
    [] mode = "fail"       -> <<<<"error", r>>>>
    [] mode = "throw"      -> <<<<"error", r>>>>
    [] mode = "replyThrow" -> <<<<"ok", r>>, <<"error", r>>>>
    [] OTHER               -> <<>>

\* respond: a response that cannot be written closes the server's channel.
Respond(answers) ==
  IF Encodes \/ answers = <<>>
    THEN replies' = replies \o answers /\ UNCHANGED serverOpen
    ELSE serverOpen' = FALSE /\ UNCHANGED replies

\* processRpcRequest; "defer" keeps the callback for later.
ServerReceive(r, mode) ==
  /\ serverOpen
  /\ write[r] = "sent"
  /\ r \notin served
  /\ served' = served \cup {r}
  /\ deferred' = IF mode = "defer" THEN deferred \cup {r} ELSE deferred
  /\ Respond(Answers(mode, r))
  /\ UNCHANGED <<callers, timedOut, outstanding, calls, channel, loop>>

\* A kept callback answers.
ServerAnswer(r, kind) ==
  /\ r \in deferred
  /\ deferred' = deferred \ {r}
  /\ IF serverOpen THEN Respond(<<<<kind, r>>>>) ELSE UNCHANGED <<serverOpen, replies>>
  /\ UNCHANGED <<callers, timedOut, outstanding, calls, channel, loop, served>>

\* The server closes the connection, stops, or crashes.
ServerClose ==
  /\ serverOpen
  /\ serverOpen' = FALSE
  /\ UNCHANGED <<callers, timedOut, outstanding, calls, channel, loop, served, deferred,
                 replies>>

-----------------------------------------------------------------------------
Init ==
  /\ pc = [r \in Requests |-> "idle"]
  /\ answer = [r \in Requests |-> "none"]
  /\ timedOut = FALSE
  /\ outstanding = {}
  /\ outcome = [r \in Requests |-> "none"]
  /\ succ = [r \in Requests |-> 0]
  /\ fail = [r \in Requests |-> 0]
  /\ open = TRUE
  /\ write = [r \in Requests |-> "none"]
  /\ tasks = <<>>
  /\ phase = "idle"
  /\ must = {}
  /\ seen = {}
  /\ inline = NoRequest
  /\ exceptions = 0
  /\ serverOpen = TRUE
  /\ served = {}
  /\ deferred = {}
  /\ replies = <<>>

\* What an application thread does for request r once sendRpc has begun.
CallerStep(r) == AddRpcRequest(r) \/ WriteAndFlush(r) \/ AddListener(r)

\* What the event loop does of its own accord.
LoopStep ==
  \/ \E r \in Requests : RunWrite(r) \/ RunNotify(r) \/ FailEntry(r)
  \/ RunClose \/ ExceptionCaught \/ ChannelInactive \/ ClearOutstanding \/ IdleClose

\* What the socket or a timer brings to the event loop.
ReadStep ==
  \/ \E r \in Requests : \/ HandleResponse(r) \/ HandleFailure(r) \/ FlushBuffered(r)
                         \/ \E kind \in {"ok", "error"} : IgnoreReply(kind, r)
  \/ PipelineException \/ IdleEvent \/ PeerClosed

ServerStep ==
  \/ \E r \in Requests : \/ \E mode \in ServerModes : ServerReceive(r, mode)
                         \/ \E kind \in {"ok", "error"} : ServerAnswer(r, kind)
  \/ ServerClose

Next ==
  \/ \E r \in Requests : CheckAction(r) \/ CallerStep(r) \/ SyncReturn(r) \/ SyncTimeout(r)
  \/ ClientClose
  \/ LoopStep
  \/ ReadStep
  \/ ServerStep

Spec == Init /\ [][Next]_vars

\* A thread inside sendRpc goes on, the event loop runs what is queued, get
\* returns or times out; neither the socket, nor the server, nor an idle timer is
\* ever obliged to do anything.
Fairness ==
  /\ \A r \in Requests : WF_vars(CallerStep(r)) /\ WF_vars(SyncReturn(r) \/ SyncTimeout(r))
  /\ WF_vars(LoopStep)

FairSpec == Spec /\ Fairness

-----------------------------------------------------------------------------
(* Properties. *)

Task == ({"write", "notify"} \X Requests) \cup {Close, Inactive}

\* The types of the connection's state.
TypeOK ==
  /\ pc \in [Requests -> {"idle", "refused", "checked", "added", "flushed", "returned"}]
  /\ answer \in [Requests -> {"none", "success", "failure", "timeout"}]
  /\ timedOut \in BOOLEAN
  /\ outstanding \subseteq Requests
  /\ outcome \in [Requests -> {"none", "success", "failure"}]
  /\ succ \in [Requests -> Nat]
  /\ fail \in [Requests -> Nat]
  /\ open \in BOOLEAN
  /\ write \in [Requests -> {"none", "queued", "buffered", "sent", "failed"}]
  /\ tasks \in Seq(Task)
  /\ phase \in {"idle", "caught", "exception", "inactive", "timedOut"}
  /\ must \subseteq Requests
  /\ seen \subseteq Requests
  /\ inline \in Requests \cup {NoRequest}
  /\ exceptions \in Nat
  /\ serverOpen \in BOOLEAN
  /\ served \subseteq Requests
  /\ deferred \subseteq Requests
  /\ replies \in Seq({"ok", "error"} \X Requests)

\* sendRpc has registered the call.
Registered(r) == pc[r] \in {"added", "flushed", "returned"}

\* The callback has been invoked.
Called(r) == outcome[r] # "none"

\* The connection is over: closed, nothing queued, nothing running.
Drained == ~open /\ tasks = <<>> /\ LoopFree

\* However registrations, writes, responses, exceptions and the close
\* interleave (sendRpc, failOutstandingRequests and the write listener), when
\* the connection is over every call made on it has been called back, or its
\* entry is still in the table because a callback that threw ended the loop of
\* failOutstandingRequests.  A clear never drops a call silently.
NoCallDropped ==
  Drained => \A r \in Requests : pc[r] = "returned" => Called(r) \/ r \in outstanding

\* The same without the excuse, for callbacks that do not throw: when the
\* connection is over every call made on it has been called back.
DrainedCallsEnd ==
  Drained => \A r \in Requests : pc[r] = "returned" => Called(r)

\* A call never hears of both success and failure, and of success once: a
\* response claims the entry of the table, a failed write had no response, and
\* a failed entry is cleared before another response is read.
OneOutcome ==
  \A r \in Requests : succ[r] <= 1 /\ (succ[r] > 0 => fail[r] = 0)

\* onFailure is called at most twice, and twice only when the write failed:
\* once by the listener, which leaves the entry behind, and once by
\* failOutstandingRequests or the other way about.
TwiceOnlyByWrite ==
  \A r \in Requests : fail[r] <= 2 /\ (fail[r] = 2 => write[r] = "failed")

\* After failOutstandingRequests returns normally in exceptionCaught the
\* channel is closed, so that no call it cleared can be answered later.
ClearedThenClosed ==
  [][\A r \in Requests :
       r \in outstanding /\ r \notin outstanding' /\ succ'[r] = succ[r] /\ fail'[r] = fail[r]
         => ~open']_vars

\* Once sendRpc is refused (isAction), because the channel is closed or because
\* userEventTriggered has given the connection up, every call that was or will be
\* registered is called back, those that passed the check in time included.
UnusableCallsEnd ==
  \A r \in Requests : (~IsAction /\ Registered(r)) ~> Called(r)

\* Every registered call is called back.
EveryCallEnds ==
  \A r \in Requests : Registered(r) ~> Called(r)

\* sendRpcSync returns or throws, whatever the connection does.
SyncCallsReturn ==
  \A r \in Sync : (pc[r] = "checked") ~> (answer[r] # "none")

-----------------------------------------------------------------------------
(* The promise of TransportClient, RpcCalls: a call is accepted when sendRpc  *)
(* has found the client usable, and its fate is what its callback is told.    *)

CallOf(r) ==
  CASE succ[r] > 0 -> "success"
    [] succ[r] = 0 /\ fail[r] > 0 -> "failure"
    [] succ[r] = 0 /\ fail[r] = 0 /\ pc[r] = "idle" -> "new"
    [] succ[r] = 0 /\ fail[r] = 0 /\ pc[r] = "refused" -> "refused"
    [] OTHER -> "pending"

Calls == INSTANCE RpcCalls WITH link <- IsAction, call <- [r \in Requests |-> CallOf(r)]

\* The connection, with callbacks that neither throw nor retry, implements the
\* promise of RpcCalls, its liveness included: sendRpc accepts a call exactly while
\* the client is usable, delivers no success after that, changes no outcome, and
\* fails what is left over.
ImplementsCalls == Calls!Spec

-----------------------------------------------------------------------------
(* Why no call is dropped: the inductive invariant behind NoCallDropped.     *)

\* No callback sends a new call.
RetryFree == \A r \in Requests : RetryOf[r] = NoRequest

\* Task t is among the tasks ts.
In(t, ts) == \E i \in 1..Len(ts) : ts[i] = t

\* The write of r is still to come, or its failure is still to be reported.
FailurePending(r) ==
  \/ pc[r] = "added"
  \/ write[r] = "queued"
  \/ write[r] = "failed" /\ (pc[r] = "flushed" \/ In(Notify(r), tasks))

\* A call that left the table unheard was dropped by a clear: the channel is
\* closed by then, and the call still has a write to fail.
DroppedCallsFail ==
  \A r \in Requests :
    Registered(r) /\ ~Called(r) /\ r \notin outstanding => ~open /\ FailurePending(r)

\* A write that is queued has its task, and the task is of a call that has
\* reached writeAndFlush.
QueuedWrites ==
  /\ \A r \in Requests : write[r] = "queued" => In(Write(r), tasks)
  /\ \A r \in Requests : In(Write(r), tasks) => pc[r] \in {"flushed", "returned"}

\* During failOutstandingRequests the entries met were called, and those put
\* since it began have not been written: the event loop is busy.
IterationCalls ==
  phase \in {"exception", "inactive"} =>
    /\ \A r \in seen : Called(r)
    /\ \A r \in outstanding \ must : pc[r] = "added" \/ write[r] = "queued"

\* A closed channel holds no writes, and only a closed one is inactive.
ClosedChannel ==
  /\ ~open => Buffered = {}
  /\ phase = "inactive" \/ In(Inactive, tasks) => ~open

DropInv ==
  /\ inline = NoRequest
  /\ DroppedCallsFail
  /\ QueuedWrites
  /\ IterationCalls
  /\ ClosedChannel

-----------------------------------------------------------------------------
(* Why a call has one outcome: the inductive invariant behind OneOutcome and *)
(* TwiceOnlyByWrite, for callbacks that neither throw nor retry.             *)

\* A call that is not registered has no entry and was never called back; one
\* that is not yet written has no write.
UnusedCalls ==
  \A r \in Requests :
    /\ pc[r] \in {"idle", "refused", "checked"} =>
         r \notin outstanding \cup seen /\ succ[r] = 0 /\ fail[r] = 0
    /\ pc[r] \in {"idle", "refused", "checked", "added"} => write[r] = "none"

\* No write and no notification is queued twice.
OnceEach(ts) ==
  \A i, j \in 1..Len(ts) : ts[i] = ts[j] /\ ts[i] \notin {Close, Inactive} => i = j

\* A call has one task at most: its write while that is queued, or the
\* notification of its failed write.
OneTask ==
  /\ \A r \in Requests : In(Write(r), tasks) => write[r] = "queued" /\ inline # r
  /\ \A r \in Requests : inline = r => write[r] = "queued"
  /\ \A r \in Requests : In(Notify(r), tasks) => write[r] = "failed" /\ pc[r] = "returned"
  /\ OnceEach(tasks)

\* The server has only seen what was sent, and answers only what it has seen.
ServedSent ==
  /\ \A r \in served : write[r] = "sent"
  /\ deferred \subseteq served
  /\ \A i \in 1..Len(replies) : replies[i][2] \in served

\* A success has claimed the entry of a call that was sent.
SuccessClaims ==
  \A r \in Requests :
    succ[r] > 0 => succ[r] = 1 /\ fail[r] = 0 /\ r \notin outstanding /\ write[r] = "sent"

\* The listener has reported a failed write; failOutstandingRequests has told the
\* entry, or the entry is gone.
ToldByListener(r) == write[r] = "failed" /\ pc[r] = "returned" /\ ~In(Notify(r), tasks)
ToldByTable(r) == r \notin outstanding \/ (phase \in {"exception", "inactive"} /\ r \in seen)

\* Each of the two calls onFailure once.
FailuresCounted ==
  \A r \in Requests :
    /\ fail[r] <= 2
    /\ fail[r] = 1 => ToldByListener(r) \/ ToldByTable(r)
    /\ fail[r] = 2 => ToldByListener(r) /\ ToldByTable(r)

OutcomeInv ==
  UnusedCalls /\ OneTask /\ ServedSent /\ SuccessClaims /\ FailuresCounted

\* Why the end of the connection leaves no entry behind, for callbacks that
\* neither throw nor retry: an entry of a closed channel was called, has a
\* failure to come, or the table is still to be failed.
EntriesFail ==
  ~open => \A r \in outstanding :
             Called(r) \/ FailurePending(r) \/ In(Inactive, tasks) \/ phase = "inactive"
=============================================================================
