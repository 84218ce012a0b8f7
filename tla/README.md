# Verification of toyhoodle

TLA+ models of the concurrent and algorithmic parts of toyhoodle, the TLC
configurations that check them, and theorems about them checked by TLAPS.

* `*.tla` without a prefix are the models; `MC*.tla` and `MC*_<run>.cfg` are the
  instances TLC checks; `*Proofs.tla` hold the theorems.
* `PROJECT.json` lists the components, the runs, which source lines each
  definition models, the hazards the properties are for, and what was found.

Run a check with `tlc -config MCTransportRpc_calls.cfg MCTransportRpc`, a proof
with `tlapm TransportRpcProofs.tla`.

Contents: 1 the system, 2 the plan, 3 to 8 the models, 9 what is proved, 10 what
is only model-checked, 11 what is not modelled, 12 findings.

## 1. The system

toyhoodle is a set of loosely coupled Java and Scala modules: an RPC transport
over Netty, a local cache with a visit history, a TCP proxy, a Thrift data bus,
an akka master/worker pair, a file extractor and a small query language.  Paths
below are relative to `src/`.

### phone transport (`phone/.../common/network`)

State: per connection, `TransportResponseHandler.outstandingRpcs` (request id to
callback, shared by application threads and the event loop),
`TransportClient.timedOut`, the Netty channel and its task queue.  Operations:
`sendRpc`, `sendRpcSync`, `send`, `close`, the handler callbacks
(`channelRead`, `channelInactive`, `exceptionCaught`, `userEventTriggered`), and
`TransportRequestHandler.processRpcRequest` at the other end.  Hard: an
application thread interleaves its check, registration, write and listener with
an event loop that fails and clears the table; callbacks throw, retry, time out;
writes fail early or late.  Correct when every registered call is called back
once the connection is over, with one outcome.

### phone endpoints (`phone/.../toytelephone/rpc`)

`Dispatcher` (a queue of endpoints served by four message loops), `Inbox` (a
message list per endpoint), `NettyRpcEnv`.  Unfinished: the inbox of an endpoint
is never assigned, so no message is ever taken from one (section 11).

### localCache

`TimeReelHistory`: a concurrent map from key to a node holding the times of the
visits within a window, threads that add, and a cleaner thread.  Hard: the
per-node monitor against the map's own updates, a retry when a node was
cleaned, a window computed by polling.  Correct when a count is the number of
visits within the window, and when adding always returns.
`LRUCache`, `LRULinkedHashMap`, `QueryTask`: a map in access order, and a query
per missing key whose result the cache does not hand out (section 11).

### snipe TCP proxy

`TransprtDBHandler` and `TransprtDBClint0`: a front channel gets a back channel to
a server; `cliMap` finds the back of a front's requests by the local address of the
front, `answerMap` the front of a back's answers by the local address of the back.
`BalanceScheduler` names the servers in turn.  The older `TransprtDBClint` and
`TransprtHandler` are used by nothing; `NettyServerFactory` and `Config` set up.
Hard: answers that arrive before the map entry, two fronts under one key, ports
the system gives again, closes from either side.  Correct when an answer reaches
the front its back was created for, a front is served by its own back and is
forgotten when it is closed, and servers are named evenly.

### DataBus

`RpcEnv.start` lets a Thrift server thread prepare the endpoints of the process
(`RpcEventHandler.preServe`) while the main thread examines them by calls to its
own server.  `WorkerEndpoint.parper` registers with the service of another process
through `RpcSendHandle`, which opens a connection for each call.  `AgentManager`,
`Config`, `Appaction`.  Hard: two threads of a process that wait for each other over
a socket, processes that wait for each other, timeouts, a refused registration that
goes on.  Correct when a start ends, when a process that reports success serves, and
when a worker serves only after its service.

### mr

`Master` and `Worker` actors.  The reactions are stubs: the master's map of workers
is never filled (section 11).

### tran

`LineInputStream.readCustomLine`: a line reader over a refilled buffer with a custom
delimiter.  Hard: a delimiter that spans two buffers, limits, the end of the file.
Correct when each call returns the text up to the next delimiter.  `FileExtract`,
`MapSerDe` and `ReaderFactery` are unfinished around it (section 11).

### cube

The LQL interpreter.  `Compile.putAction` reads a program line by line and calls
itself for each block (IF with ELSE, WHILE, FOREACH); `Exe` keeps the actions and
the `Param` of each name; `Analyize.doAnalyize` executes the tree, evaluates
conditions, replaces names in SQL and goes through the rows of results.  Hard: nested
blocks and branches, names looked up in two phases, loops over results that change
meanwhile, the bounds of rows.  Correct when a program does what its lines say.

### core, monitor, monitorView, transformers, caterpillar

Configuration maps and helpers; a monitor agent of stubs; a Spring page with
vendored scripts; an unfinished Spark wrapper; an experiment.

## 2. Plan

| order | modules | of | status |
|---|---|---|---|
| 1 | `RpcCalls`, `TransportRpc`, `MCTransportRpc`, `TransportRpcProofs`, `TransportOutcomeProofs` | phone transport | done, checked and proved |
| 2 | `TimeReelHistory`, `MCTimeReelHistory`, `TimeReelHistoryProofs` | localCache history | done, checked and proved |
| 3 | `DelimitedLines`, `LineReader`, `MCLineReader`, `LineReaderProofs` | tran line reader | done, checked and proved |
| 4 | `RoundRobin`, `BalanceScheduler`, `BalanceSchedulerProofs` | snipe scheduler | done, checked (in 5) and proved |
| 5 | `SnipeProxy`, `MCSnipeProxy`, `SnipeProxyProofs` | snipe proxy, composed with the scheduler | done, checked and proved |
| 6 | `DataBusStart`, `MCDataBusStart`, `DataBusStartProofs` | DataBus: processes that start and register with each other | done, checked and proved |
| 7 | `LqlLines`, `Lql`, `MCLql`, `LqlProofs` | cube: `Compile` and `Analyize` against what the lines mean | done, checked; proved but for the refinement |

Order: first what other parts rely on and where threads meet (transport, cache),
then the algorithms, then the processes.  Planned at first and given up, because
the code has no behaviour to model (section 11): phone endpoints, mr, tran
extraction, the LRU cache.

Abstract specifications: `RpcCalls` (what a caller of `sendRpc` may rely on),
`DelimitedLines` (what a line reader returns), `RoundRobin` (servers in turn),
`LqlLines` (what the lines of a program mean).  The detailed modules are checked to
implement them: `ImplementsCalls`, `SplitsAtDelimiters`, `InTurn`, `ImplementsLines`.

Theorem left: the steps of the refinement `ImplementsLines`.  It needs of a program
what is not said by any state of the code: that going on behind a block, or with the
other branch, is where the lines lead, and that what the compiler rejects is what is
not well formed.  Its mapping takes the loops under way from `todo` with `SelectSeq`,
of which the provers know nothing: that has to be said in another way first.

The number of runs is kept small on purpose: a run answers several questions
where one instance serves them.  The scheduler is checked in the run of the proxy,
which is its caller.

## 3. `TransportRpc`: one RPC connection

`TransportRpc` is one connection of phone's `common/network`: the application
threads in `sendRpc`, the event loop, and the `TransportRequestHandler` at the
other end.  `RpcCalls` is what callers may rely on.

### State

| variable | code |
|---|---|
| `pc[r]` | how far `TransportClient.sendRpc` has come for request `r`: checked (line 48), added (52), flushed (53), returned (54) |
| `answer[r]` | what `sendRpcSync` returned |
| `timedOut`, `open` | `TransportClient.timedOut`, `channel.isOpen()` |
| `outstanding` | the keys of `TransportResponseHandler.outstandingRpcs` |
| `outcome`, `succ`, `fail` | what each `RpcResponseCallback` was told, and how often |
| `write[r]`, `tasks` | the promise of each write; the tasks queued on the Netty event loop |
| `phase`, `must`, `seen`, `inline` | what the event loop is in the middle of: `exceptionCaught`, the iteration of `failOutstandingRequests`, `userEventTriggered` between `timeOut` and `close`, a write made by a callback |
| `serverOpen`, `served`, `deferred`, `replies` | the other end and the socket |

A request stands for one call with its request id (ids are taken as unique) and its
callback.  Application threads are never atomic with the event loop; a step of the
event loop is what it does between two accesses to state other threads touch.  The
iteration of `failOutstandingRequests` is one step per entry, over a weakly
consistent iterator: `must` is what it is bound to meet, other entries it may.
`userEventTriggered` is two steps, `IdleEvent` (`client.timeOut()`) and `IdleClose`
(`ctx.close()`): both write what `isAction` reads on other threads, and between them
`sendRpc` is refused although the channel is open.  Its condition `isActuallyOverdue`
compares the clock with the last `sendRpc`; any time may pass between two steps, so
that `IdleEvent` may come at every moment, and nothing obliges it to come.

### Constants

* `Throwing`, `RetryOf`: which callbacks throw, and which send another request
  when told of a failure (once: `RetryOf` names one request).  A retry that `isAction`
  refuses throws out of `onFailure` like any other exception (`Throws`).  The code
  calls callbacks it does not know; the properties say which of these they need.
* `Encodes`: whether the pipeline turns a message into bytes.
  `TransportContext.initializePipeline` commits one without an encoder (line 36 is
  a comment, and a message is not a `ByteBuf`), so each write fails:
  `Encodes = FALSE` is the pipeline as committed.  `Encodes = TRUE` is any channel
  whose pipeline does encode, which is what `TransportClient` and
  `TransportResponseHandler` are written for, and the only one in which responses
  exist.
* `IdleHandler`, `CloseIdle`: whether an `IdleStateHandler` is in the pipeline and
  `closeIdleConnections` is set.  Nothing under `src/` installs that handler:
  `IdleHandler = FALSE` is the pipeline as committed, and with `TRUE` no property
  relies on an event.
* `ServerModes`: what `RpcHandler.receive` does: answer, fail, throw, answer and
  throw, answer later, never answer.  (`NettyRpcHandler.receive` is empty: it never
  answers.)

### Properties

`NoCallDropped` and `DrainedCallsEnd` say that a connection that is over leaves no
call without a word; `OneOutcome` and `TwiceOnlyByWrite` which callbacks are made
how often; `ClearedThenClosed` that a call the clear dropped cannot be answered
any more.  `UnusableCallsEnd`: once sendRpc is refused, because the channel is closed
or because the idle event has given the connection up, every call that was or will
be registered is called back.  That a call over a silent connection ends cannot be
said of this code; in the committed pipeline, where each write fails,
`EveryCallEnds` holds without it.  `SyncCallsReturn`: `sendRpcSync` returns anyhow;
that a late answer leaves alone what it returned is not checked.  `ImplementsCalls` is
the refinement of `RpcCalls`, whose link is up exactly while `isAction` holds.

### Runs

* `rpc_calls`: two calls, one `sendRpcSync`, every server mode, write errors, one
  pipeline exception, idle events, closes from either side.  Two calls are enough
  for the iteration to meet one entry while another is put, cleared or written;
  one exception suffices because it closes the channel.
* `rpc_throws`: two calls, no idle handler; one callback throws while the other call
  is in the table behind it, or one server never answers a `sendRpcSync`.
* `rpc_committed`: the committed pipeline; the first call's callback sends the
  second of three requests.
* `rpc_retry` (a violation, see 12).

Bound: `MaxExceptions`, the exceptions the pipeline reports.  The rest is finite
by itself.

### Fairness

`CallerStep`: a thread inside `sendRpc` goes on.  `SyncReturn \/ SyncTimeout`:
`Future.get` with a timeout returns.  `LoopStep`: the event loop runs what is
queued, and goes on with the handler it is in, `IdleClose` included.  Nothing is
assumed of `IdleEvent`, the socket or the server: no timer need fire, a write may
stay in the buffer and an answer may never come.

## 4. `TimeReelHistory`: visits in a window

Threads that call `putAndCount` or `putAndisCache`, the cleaner thread that
`init` starts, and `clear`.

| variable | code |
|---|---|
| `map` | `hashMap` |
| `lastValid`, `queue`, `removed` | `lastValidTime`, `visitTimeQueue` and `remove` of each node |
| `pc`, `key`, `at`, `held` | each putting thread: its key, the node it has read from the map, the monitors its retries hold |
| `cpc`, `ctime`, `todo`, `ckey`, `cnode` | the cleaner: its clock reading and where it is in the loop over keys |
| `keyOf`, `log`, `result` | history for the properties: all visits of each node, the last answer of each thread |

`Put` reads the node, `Visit` is the whole of `addAndgetCount` and
`putAndisCache` inside the monitor, `Retry` the recursive call made inside the
monitor of a removed node.  `CleanEnter`, `CleanPoll` and `CleanUnmap` are the
cleaner inside one monitor.  The clock is `Tick`.

`WithinKey` counts the visits of a key over all the nodes it has had, as the times
that are in any of them.  `NeverOvercounts` bounds the answers from above by the true
number of visits of the key.  `MissesOne` bounds them from below, by the visits of
the node that answered only: when the cleaner unmaps a key with live visits
(`CleanUnmap`), the counts of the key start anew in another node, which neither of
the two excludes.  `RemovedUnmapped` and `LockOrder` are why retries and monitors do
not make a circle; `PutsReturnOrStuck` is the liveness that is left when the
cleaner can spin (see 12).

Runs: `history_counts` has two threads, one key, two puts each, one cleaner round
and one `clear`, a window of 2 and a clock up to 4, so that a window moves while
visits are in it and at its edge, a node is unmapped while a thread is about to
enter it, and a key gets a second and a third node.  `history_join` and
`history_window` are violations (see 12).  Bounds: `MaxTime`, `MaxPuts`,
`MaxCleans`, `MaxClears`.

Fairness: a thread in a put and the cleaner in a round go on (`PutStep`,
`CleanerStep`).  Java monitors are not fair, but here a thread that waits needs
one step at a time when the monitor is free, and the others make finitely many
puts.

## 5. `LineReader`: `readCustomLine`

`LineReader` scans byte by byte; `DelimitedLines` says what comes out.

| variable | code |
|---|---|
| `file`, `read` | the input stream, and how much `fillBuffer` has taken from it |
| `buffer`, `bufferPosn`, `bufferLength` | the fields of the same names |
| `startPosn`, `delPosn`, `ambiguous` | the locals `startPosn`, `delPosn`, `ambiguousByteCount` |
| `str`, `txtLength`, `bytesConsumed` | the locals |
| `offset`, `line` | history: the offset behind the last line, and that line |

A pass of the `do` loop is `Continue` or `FillBuffer` (any number of bytes the
buffer has room for), `MatchByte`, `SkipByte` or `BackUp` per byte, and `EndPass`.
Text is kept as bytes, so the model is of a single-byte encoding; the exception for
more than `Integer.MAX_VALUE` bytes in one call (lines 135-137) is left out.

Run `lines` has all files of up to seven bytes over a, b, x, the delimiter abx and a
buffer of three, so that a refill cuts the delimiter at each place, twice, and cuts
what only looks like its head, with and without another head behind it; lines of at
most two bytes and calls of at most three, so that a file has whole lines, lines
at each limit and lines beyond, cut once or twice, and calls that exceed their limit
by as much as they can.  `SplitsAtDelimiters` is the
refinement of `DelimitedLines`, whose `ReadPart` is the only step that may return
part of a line and is only allowed where a limit is reached.  `LimitsHold` says by how
much a limit is exceeded: a call below `maxBytesToConsume` may still consume a buffer
and the head of a delimiter, and a line is longer than `maxLineLength` only if bytes
that looked like a delimiter stand in it, which are put back uncounted.  `lines_overlap` is a violation
(see 12): `BackUp` does not go back out of the buffer, so that after a refill it may
pass over bytes behind the one where the failed match began.  That loses a delimiter
only if one can begin there; `NoOverlap` says that none can, because the first byte of
the delimiter comes again at most as its last.  Fairness: a call is not suspended (`Step`); nobody is obliged to make one.

## 6. `SnipeProxy` and `BalanceScheduler`

`SnipeProxy` is the proxy with its event loops: the handlers of a front
(`TransprtDBHandler`) run on one, those of its back (`ClientHandle`) on another, and
the two maps of `TransprtDBClint0` are shared by all.  It extends `BalanceScheduler`:
the callers of the scheduler are the fronts.

| variable | code |
|---|---|
| `rotation` | the `AtomicInteger` of `BalanceScheduler` |
| `pc`, `seen`, `rotationNum` | where a thread is in `getAndUpdate`, what it has read, what was returned |
| `picks`, `calls` | history: how often each server was returned and each thread called |
| `stage[f]` | how far the handler of front `f` is in `channelActive`, `channelRead` or `exceptionCaught` |
| `back[f]`, `port[f]` | the channel `createClient` connected for `f`, and its local address |
| `named` | the backs that were asked for their address while they were connected, and keep it |
| `cliMap`, `answerMap` | the maps of the same names, by the local address of a front and of a back |
| `client[f]` | the local of `closeClient` |
| `heard`, `closer` | history: whose answers a front got, and who closed a back |

`getServerAddress` is `Get` (the read), `CompareAndSet` (it succeeds) and `Again` (it
starts over); the proxy calls it in `ChannelActive` and `Pick`.  `Connect`,
`PutClient`, `PutAnswer` are the rest of `createClient`, with the blocking
`sync()` between; `CloseBack`, `RemoveClient`, `RemoveAnswer` are `closeClient`;
`Answer` and `AnswerMissing` are what a back does with bytes of its server, also
while a close is queued on its event loop.  `getLocalId` of a channel that was never
asked before it closed is no key of any entry (`Known`).  The
system gives a back any port no connection to the same server has; it may give the
port of a closed one again.

`HomeUnlessPortShared`: answers go astray only through a port that two backs had.
`Isolated`: what a front may rely on that nobody shares its local address with (the
others share a back, a close and an entry, which is what `getRemoteId` makes of
`localAddress`).  `RequestsFindBack`: what is left to those that share it: requests
find some back, from the first registration until `closeClient` runs for one of them.
`AnswersFindFront`: an open back is never without its entry once it
is registered, unless somebody closed it or shared its port.  `ClosedForgotten`: a
front closed by an exception leaves no entry that leads to it.  `ChannelActiveEnds`:
`channelActive` comes to an end, the scheduler's retries included.  `Balanced` and
`InTurn` are the scheduler's.  No property excludes what the code does where an address
is shared (the back registered last serves all, and a close takes the entry from all),
nor the front that stays open without a back because `closeClient` threw.

Run `proxy`: three fronts, two of them at one address, two ports and two servers, one
call of the scheduler each.  Two fronts under one key are enough for an entry to be
replaced, removed by the other and missed; the third is the one alone, and may get
the port of either, at once or afterwards.  With three callers and two servers the
integer returns to what a thread read before its compareAndSet.  `MaxCalls` is the
bound: a front connects once.  Fairness: a handler goes on (`FrontStep`); `connect`
returns or fails by its timeout.  Nothing is assumed of the servers, of breaks, or of
the event loop of a back.  The bytes and the writes themselves are left out: they
change no state here.

## 7. `DataBusStart`: processes that start

Each node is a process with a main thread and the accept thread of its Thrift
server.  The socket is bound before either runs, so that whoever connects waits
until the accept thread has prepared all endpoints; Thrift and sockets are modelled
as `RpcEnv` and `RpcSendHandle` use them (`Bound`, `Stops`, `Answers`).

| variable | code |
|---|---|
| `service` | `com.yw.databus.service.host` and the port: the process a worker registers with |
| `confs` | the nodes for which `agentConf` returns a map |
| `main`, `toExamine`, `call` | `start` and `examineRegist`: where the main thread is, the endpoints left, the one it calls |
| `accept`, `toPrepare`, `parper` | `preServe`: the accept thread, the endpoints left, where `WorkerEndpoint.parper` is |
| `opened`, `late` | history: who has served, and whose main thread ran out of time |

`StartedServes`: `start` returns only when everything is prepared and the process has
served, although only the calls to itself connect the two threads.
`ServesUnstarted`: a process whose `start` threw (which leaves it without a shutdown
hook) goes on to serve only if its own call ran out of time.  `OpensAfterService`:
whoever registers in a circle, or with itself, never serves.  `StartEnds`: both
threads come to an end nevertheless.

Run `starts`: three processes, a server, a server and worker, and a worker whose
examination fails; the last two register with any of the three, themselves
included, or with nobody.  That gives chains of two, circles of one and of two, and a
service that stops, is killed or times out while a worker waits for it.  Bound:
`MaxKills` = 1.  Fairness: both threads go on (`MainStep`, `AcceptStep`): every call has a
socket timeout, so a step is always possible.  A process need not be launched.

## 8. `Lql`: programs, trees and lines

`LqlLines` is a machine that goes from line to line, with blocks found by counting:
what cube/README.md says of assignments, IF, QUERY and FOREACH, and what `Compile` and
`Analyize` add to it (ELSE, WHILE, comparisons, what is malformed).  It departs from
both in one place: cube/README.md:23-26 writes FOREACH with nothing but a table, which
`Compile` (line 106) does not take; `LqlLines` calls such a program well formed and
allows it to be rejected (`Unsupported`).  `Lql` is the code: `ReadLine` is a line taken
by the innermost call of `putAction`, the other actions are those of `doAnalyize`.

| variable | code |
|---|---|
| `program`, `pos` | the lines of the file, and the one `readLien` returns next |
| `open` | the calls of `putAction` under way, with the branches they have collected |
| `actions`, `paramMap` | the list and the map of `Exe` |
| `value`, `result` | the value of the `Param` of each variable and of each `QUERY ... AS` |
| `todo` | the loops of `doAnalyize` under way: what is left of their lists and rows |
| `chage` | the local of `paramChage`: the SQL under change, its names and the texts put in their place |
| `sent` | the SQL sent last, as the values put in it |
| `latest` | history: which `Param` of a name was stored to last |

A line is a record; a QUERY line stands for the lines up to its ENDQUERY, a condition
compares a variable or a column with the literal 1, and an assignment copies a literal, another
variable or the first column of the first row of a table, because neither the text of
SQL and literals nor the name of a column decides what happens next.  What does
decide is kept: a name that is the head of another (`Prefix`), null, rows wider or
narrower than the variables of a FOREACH, a query that returns nothing or null, and
of a value whether it is a text of an integer, an integer (never equal to a text,
and unequal to it by `!=`), the text of a name with @, or something that
`Integer.parseInt` does not take.

`paramChage` is a loop: `ChageName` replaces the first name of the SQL, wherever it
occurs, by its value, in quotes for a string variable, and looks again.  A value that
is a name puts one in the SQL: that of another variable is replaced in turn, one in
quotes is no name of a variable, and the variable's own is replaced for ever.

`ImplementsLines` is the refinement: the tree does what the lines say, and a program
that is not well formed is rejected before any of it is executed.  It leaves open what
the repository says nothing of: where several queries store under one name,
`LqlLines` allows any result, and it does not say what becomes of a name that has
the head of another, nor of an SQL in which a value puts a name.  In the first case the code looks a
name up in the last `Param` of the file (assignments) or the last above (FOREACH), and
`NeverOlder` says what is left: no older result than the last is ever read, unless a
query is repeated by a loop.  `ProgramEnds`: without WHILE a program comes to an end,
whatever its loops store meanwhile, unless a variable has a value with a name in it;
without that exception the run is violated, by a variable that has its own name.

Run `lql`: every sequence of up to three lines of 14 kinds behind a query, every one
of up to three lines that copy and compare columns, every one
of up to four lines of branches, and every nest of two blocks around assignments and
queries, about 5200 programs, each with every choice among five results: null, no
rows, rows of an integer and of null, a wide row with a name in it, a value of another type.  Two variables, one the
head of the other, and two tables are enough for every replacement and for a name used
twice.  Nothing bounds the steps: a WHILE goes round a finite state.  Fairness: the
program is not suspended (`Step`).

## 9. What is proved

All theorems hold for every value of the constants that the named assumptions of
the modules allow.

| theorem | under | says |
|---|---|---|
| `TransportRpcProofs!TypeCorrect` | | the types of a connection |
| `TransportRpcProofs!NoCallDroppedCorrect` | no callback retries | `NoCallDropped` |
| `TransportOutcomeProofs!OneOutcomeCorrect` | no callback retries or throws | `OneOutcome` |
| `TransportOutcomeProofs!TwiceOnlyByWriteCorrect` | no callback retries or throws | `TwiceOnlyByWrite` |
| `TransportOutcomeProofs!DrainedCallsEndCorrect` | no callback retries or throws | `DrainedCallsEnd` |
| `TransportOutcomeProofs!ClearedThenClosedCorrect` | | `ClearedThenClosed` |
| `TransportOutcomeProofs!CallsCorrect` | no callback retries or throws | the safety of `RpcCalls`, the steps of `ImplementsCalls` |
| `TimeReelHistoryProofs!TypeCorrect` | | the types; no time is ahead of the clock |
| `TimeReelHistoryProofs!RemovedUnmappedCorrect` | | `RemovedUnmapped` |
| `TimeReelHistoryProofs!LockOrderCorrect` | | `LockOrder` |
| `TimeReelHistoryProofs!NeverOvercountsCorrect` | | `NeverOvercounts` |
| `TimeReelHistoryProofs!MissesOneCorrect` | | `MissesOne` |
| `LineReaderProofs!TypeCorrect` | | no position leaves the buffer or the pass |
| `LineReaderProofs!CountsConsumedCorrect` | | `CountsConsumed` |
| `LineReaderProofs!LimitsHoldCorrect` | | `LimitsHold` |
| `LineReaderProofs!SplitsCorrect` | `NoOverlap` | the reader implements `DelimitedLines` |
| `BalanceSchedulerProofs!TypeCorrect` | | the index is one of the list |
| `BalanceSchedulerProofs!BalancedCorrect` | | `Balanced` |
| `BalanceSchedulerProofs!InTurnCorrect` | | the scheduler implements `RoundRobin` |
| `SnipeProxyProofs!HomeCorrect` | | `HomeUnlessPortShared` |
| `SnipeProxyProofs!IsolatedCorrect` | | `Isolated` |
| `SnipeProxyProofs!RequestsFindCorrect` | | `RequestsFindBack` |
| `SnipeProxyProofs!AnswersFindCorrect` | | `AnswersFindFront` |
| `SnipeProxyProofs!ForgottenCorrect` | | `ClosedForgotten` |
| `SnipeProxyProofs!UsesScheduler` | | what is proved of the scheduler holds of the proxy |
| `DataBusStartProofs!TypeCorrect` | | the types; a thread that is over waits for no call |
| `DataBusStartProofs!StartedCorrect` | | `StartedServes` |
| `DataBusStartProofs!UnstartedCorrect` | | `ServesUnstarted` |
| `DataBusStartProofs!OpensCorrect` | | `OpensAfterService` |
| `LqlProofs!TypeCorrect` | | the types; calls of `putAction` are nested as their lines |
| `LqlProofs!NeverOlderCorrect` | | `NeverOlder` |

The assumptions under which a theorem holds are not for convenience: run
`rpc_retry` violates `DrainedCallsEnd` when a callback retries, and `rpc_throws`
has states where a callback that throws leaves a call unheard in the table, and
`lines_overlap` has a delimiter without `NoOverlap` that the reader misses.

**No call is dropped** (`DropInv`).  `NoCallDropped` speaks of the end only.  The
invariant says of any moment that a call which is registered, was not called back
and is not in the table was dropped by a clear, that the channel is closed by then,
and that a failure of its write is still to come (`DroppedCallsFail`): the write is
to be made, is queued, or has failed without its listener having been told.  This
needs that a queued write has its task (`QueuedWrites`), that entries the iteration
has not met and need not meet belong to calls not yet written (`IterationCalls`),
because only the event loop, which is busy, writes them, and that a closed channel
buffers nothing (`ClosedChannel`).

**The end leaves no entry** (`EntriesFail`, for `DrainedCallsEnd`): an entry of a
closed channel was called, has a failure to come, or the table is still to be
failed by `channelInactive`.

**One outcome** (`OutcomeInv`).  A success claims the entry, so there is one
(`SuccessClaims`); a response is only of a call that was sent (`ServedSent`), whose
write cannot fail any more.  Failures are counted by who tells them: the listener
once (`ToldByListener`), and the table once (`ToldByTable`).  That neither tells
twice needs that a call has one task at most (`OneTask`).

**The clear and the link** (`LinkInv`).  Only a channel that is closed is inactive or has
`channelInactive` queued, and a client marked as timed out has a channel that is
closed, or is closed by the next step of the event loop.  So the clear of
`failOutstandingRequests` meets an open channel only in `exceptionCaught`, which closes
it in the same step of the event loop.

**The calls** (`CallsStep`, for `CallsCorrect`).  What `RpcCalls` sees of a call is
computed from its thread, its entry and its outcome (`CallOf`).  Each action of the
transport either leaves that alone for every call, or is one step of `RpcCalls` for one
call.  That none goes from an answer to a failure is `OneOutcome` again; that no call
is answered once the client is timed out or closed is `LinkInv`, since the event loop,
which would answer it, is the one that is about to close.

**Monitors in order** (`NodeInv`).  A node belongs to one key for ever, and the map
gives a key its newest node (`NodesOwned`).  A removed node is in the map only while
the cleaner holds its monitor, so what a retry finds instead is newer: the monitors
held are of nodes older than the one waited for.

**Counts** (`WindowInv`).  A queue holds the last visits of its node in their order;
all before it are outside the window, but possibly one, which is `lastValidTime`
(`LastVisits`).  `getEffectiveTime` keeps that: what it takes off is what the window
has left, and the first that is still valid.  So the length of the queue is at most
the number of visits in the window, and one less than those strictly inside it at
least; a node's visits are visits of its key (`NodesOwned`).

**The reader** (`ReaderInv`).  A match reaches back to where the pass began, or,
with ambiguous bytes, to the start of a buffer just filled (`MatchInPass`), and a
pass begins with the match the last one left (`MatchLeft`).  So going back never
leaves what this pass counts.

**The text** (`TextInv`).  The buffer holds the bytes of the file read last
(`BufferOfFile`), and what was matched stands in the file directly before the
position, also when a refill has replaced the buffer it was matched in
(`MatchOfFile`): that is why the ambiguous bytes may be put back from the delimiter
itself.  The text is then of bytes already counted, in their order (`TextOfFile`).

**The lines** (`LineInv`).  No delimiter begins in front of the match that the scan has
made so far (`NoneBefore`): a byte that fails a match rules out a delimiter where the
match began, and `NoOverlap` rules out one at the bytes that `BackUp` passes over when
the match began in a buffer that is gone.  A match begins in this pass or with the
first of the ambiguous bytes, never at another of them (`MatchBegins`), so that these
are text as a whole or not at all.  The text is then all of the file from the end of
the last line up to what was counted, unless that is more than `maxLineLength`
(`TextWhole`).  Each return is a step of `DelimitedLines`: `ReadLine` where the match
is complete and the text whole, `ReadLast` at the end of the file, `ReadPart` where a
limit was passed.  TLC has checked `LineInv` with delimiters of one to three bytes.

**The limits** (`LimitInv`).  The text has no more bytes than `txtLength` counts unless
a head was put back into it, and bytes put back are such a head: ambiguous bytes that
do begin a delimiter are still being matched (`LongByHeads`, `HeadMatched`).  What a
call consumes beyond its limit is bounded by the pass under way, which counts from
below the limit at most a buffer and the ambiguous bytes in front of it.

**The scheduler** (`RoundInv`).  The servers before `rotation` were returned once
more often than the others.  A compareAndSet that succeeds returns the server that
is next, even if the integer went round since the read.

**The proxy** (`ProxyInv`).  An entry of `cliMap` is under the key of its front
(`KeysOwn`), one of `answerMap` under the port of its front's own back
(`AnswersOwn`), which needs that a port is given once (`EarlyNone`).  So a front
finds only fronts of its key, and an answer only fronts of its port.  Once a front is
registered there is an entry under its key until a front of that key removes it
(`EntryKept`); a front alone under its key is the only one that could.

**Entries that are found** (`EntryInv`).  Whoever is about to remove an entry of
`answerMap` has noted that it closes that back (`ClosersNoted`), and a back with an
entry keeps the address it is found and removed by (`AnswersNamed`), so an entry that is
missing was removed by a closer, or replaced by another back with its port.  A front
that has removed the entry under its key has none under any (`ClientForgotten`).

**The start** (`StartInv`).  Connections are accepted once everything is prepared
(`OpenedPrepared`), and an endpoint is examined by a call that was accepted
(`ExaminedOpened`).  A worker that is prepared was answered by its service, which
therefore had served before (`WorkerServed`).

**The tree and the lines** (`LqlInv`).  For some set of actions, closed under bodies,
every action spans the block that its line begins: its `Match` is where counting
openers and closers comes to zero, and what is in its branches lies between
(`ActionOK`).  While the program is compiled, the calls under way are the blocks that
are open, one for each level of depth, and all they have collected is above the line
read next (`CompileInv`).  That makes what is left to be done follow the lines
(`RunInv`): of two actions left, the second is below the block of the first, or is a
loop around it (`Leads`).  Where no query is in a loop, all queries executed are
therefore above what is left, so that the last that stored under a name is the lowest
of them (`HistoryInv`), and a `Param` found by name is either that one or was not
executed yet: `NeverOlder`.  `Compile` never asks for a depth; it takes the closers as
they come, and the proof that both give the same blocks is the larger part.

## 10. What is only model-checked

Liveness under fairness and ENABLED are beyond the prover: `EveryCallEnds`,
`UnusableCallsEnd`, `SyncCallsReturn`, the liveness of `ImplementsCalls`,
`PutsReturnOrStuck`, `CallEnds`, `ChannelActiveEnds`, `StartEnds`, `ProgramEnds`.
Model-checked and not proved: the refinement `ImplementsLines`, and the steps of `ImplementsCalls`
where callbacks throw or retry, which the code does not promise.  `LqlInv` speaks of
some set of actions; TLC has checked it with the set of those that are reachable from
the calls under way, the compiled program and what is left to be done.

## 11. What is not modelled

* Phone transport: one-way `send` (it keeps no state), requests in the other
  direction of a connection, `sendRpcSync` called on the event loop itself, the
  ten seconds `close` waits, connection set-up.
* Line reader: characters of several bytes, the exception for more than
  `Integer.MAX_VALUE` bytes in one call, I/O errors, `close`.
* Snipe: `setServerAddress`, which nothing calls; `TransprtDBClint` and
  `TransprtHandler`, which nothing uses; the bytes.
* DataBus: what a started process does with calls (stubs that return null), the
  configuration file, `AgentManager`, whose worker is never given one.
* Cube: the sections [DATASOURCE] and [PARAM], functions in assignments, conditions
  whose right side is not the literal 1, values with an @ within a longer text, the text
  of lines, JDBC.
* Parts without behaviour at this commit:
  phone endpoints (`Dispatcher` never gives an endpoint an `Inbox`, so that no message
  is taken); mr (`registerWorker` is never filled, so that no heartbeat or answer is
  ever matched); tran extraction (`FileExtract.start` is private and never called, and
  `MapSerDe` returns null, so that nothing is queued); the LRU cache (`LRUCache` waits
  for a query and returns nothing).
* For good: generated Thrift code, stubs (monitor agent, transformers, flume),
  Spring, configuration read once, an experiment.
* `monitorView`: its scripts are most of the lines of the repository and none of
  its logic: jQuery, DataTables, Morris, Chart, select2 and the demonstration data of a
  page template, each of them there twice.  They are other projects' code, and
  nothing of toyhoodle calls them beyond the template's own pages.

`PROJECT.json` gives the reason for each component.  Of the code that is modelled, the
map covers most of the lines: in `TimeReelHistory` 117 of 157, in `LineInputStream`
126 of 150, in `RpcEnv` 80 of 135, in `Analyize` 109 of 191, in `Compile` 89 of 151, imports,
fields and logging being the rest.

## 12. Findings

Runs that expect a violation show where the code does not do what the repository
says of it.

* `rpc_retry`: `failOutstandingRequests` ends with `clear()`; the comment says that
  requests put meanwhile "will fail immediately".  A callback that retries while
  `exceptionCaught` fails it has the new call written on the open channel, dropped
  by the clear, and never called back.
* `history_join`: `getEffectiveTime` spins when the window has not moved.  The
  cleaner calls it without asking, keeps the node's monitor for ever, and a put of
  that key, which `HistoryTest` joins, does not return.
* `history_window`: the first visit that is still valid leaves the queue when the
  window moves, so that a put does not count a visit within the valid time,
  possibly its own.
* `lines_overlap`: after a failed match that began in the previous buffer the scan
  cannot go back into it.  With the delimiter aab, aa|ab is read as text: the
  delimiter behind its first byte is missed.  The comment promises to capture "only up to
  the starting position of delimiter".  The delimiter of that comment, "record", is
  exposed too: its first byte comes again inside it (recor|ecord).
