---------------------------- MODULE DataBusStart ----------------------------
(***************************************************************************)
(* DataBus/core: the start of the processes of a data bus.  RpcEnv.start   *)
(* lets the server thread prepare the endpoints (RpcEventHandler.preServe) *)
(* while the main thread calls the endpoints of its own server to examine  *)
(* them.  To prepare a worker is to call the service of another process,   *)
(* or of its own, which may be starting itself.                            *)
(*                                                                         *)
(* The socket is bound before either thread runs: whoever connects waits   *)
(* until the accept thread has prepared everything, until the process      *)
(* gives up, or until the time is up.                                      *)
(***************************************************************************)
EXTENDS Naturals, FiniteSets

CONSTANTS
  Nodes,       \* processes
  Endpoints,   \* what each registers: "server" (ServerEndpoint), "worker"
  Sound,       \* the nodes whose endpoints answer selfExamine with true
  Services,    \* com.yw.databus.service.host and post: a node for each, or None
  Confs,       \* nodes whose agentConf returns a map, not null
  MaxKills,    \* bound on processes that are killed
  None

ASSUME EndpointAssumption == Endpoints \in [Nodes -> SUBSET {"server", "worker"}]
ASSUME SoundAssumption == Sound \subseteq Nodes
ASSUME ConfigAssumption ==
  /\ Services \subseteq [Nodes -> Nodes \cup {None}]
  /\ \A c \in Confs : c \subseteq Nodes
ASSUME MaxKillsAssumption == MaxKills \in Nat
ASSUME NoneAssumption == None \notin Nodes

VARIABLES
  service,    \* the service each node is configured with
  confs,      \* the nodes whose agentConf returns a map
  main,       \* RpcEnv.start on the main thread of each node
  toExamine,  \*   endpoints it has not examined
  call,       \*   endpoint whose selfExamine it waits for
  accept,     \* the accept thread of each node
  toPrepare,  \*   endpoints it has not prepared
  parper,     \*   where WorkerEndpoint.parper is
  opened,     \* history: nodes that have accepted connections,
  late        \*   and those whose main thread ran out of time

config == <<service, confs>>
mains  == <<main, toExamine, call>>
server == <<accept, toPrepare, parper>>
vars   == <<config, mains, server, opened, late>>

-----------------------------------------------------------------------------
(* Thrift: TThreadedSelectorServer and the sockets. *)

\* A connection to node n is taken by its backlog.
Bound(n) == accept[n] \in {"preparing", "accepting"}

\* The accept thread of n ends: preServe threw.
Stops(n) == accept' = [accept EXCEPT ![n] = "stopped"]

-----------------------------------------------------------------------------
(* The main thread: start and examineRegist. *)

Main(n, s) == main' = [main EXCEPT ![n] = s]

\* The process begins: createRpcEvn, regist, start.
Launch(n) ==
  /\ main[n] = "off"
  /\ Main(n, "examining")
  /\ accept' = [accept EXCEPT ![n] = "preparing"]
  /\ UNCHANGED <<config, toExamine, call, toPrepare, parper, opened, late>>

\* getClient and selfExamine: the call connects.
Examine(n) ==
  /\ main[n] = "examining" /\ call[n] = None
  /\ Bound(n)
  /\ \E e \in toExamine[n] : call' = [call EXCEPT ![n] = e]
  /\ UNCHANGED <<config, main, toExamine, server, opened, late>>

\* Mutant of ExamineRefused: serve binds the socket, not createRpcEvn.
ExamineRefusedEarly(n) ==
  /\ main[n] = "examining" /\ toExamine[n] # {}
  /\ accept[n] # "accepting"
  /\ Main(n, "threw")
  /\ call' = [call EXCEPT ![n] = None]
  /\ UNCHANGED <<config, toExamine, server, opened, late>>

\* The connection is refused or broken: examineRegist throws.
ExamineRefused(n) ==
  /\ main[n] = "examining" /\ toExamine[n] # {}
  /\ accept[n] = "stopped"
  /\ Main(n, "threw")
  /\ call' = [call EXCEPT ![n] = None]
  /\ UNCHANGED <<config, toExamine, server, opened, late>>

\* Mutant of ExamineTimeout: the call goes on.
ExamineTimeoutCalls(n) ==
  /\ main[n] = "examining" /\ call[n] # None
  /\ Main(n, "threw")
  /\ late' = late \cup {n}
  /\ UNCHANGED <<config, toExamine, call, server, opened>>

\* The socket timeout: examineRegist throws, and the server thread goes on.
ExamineTimeout(n) ==
  /\ main[n] = "examining" /\ call[n] # None
  /\ Main(n, "threw")
  /\ call' = [call EXCEPT ![n] = None]
  /\ late' = late \cup {n}
  /\ UNCHANGED <<config, toExamine, server, opened>>

\* Mutant of Examined: the endpoint answers before the accept thread is ready.
ExaminedEarly(n) ==
  /\ call[n] # None
  /\ n \in Sound
  /\ toExamine' = [toExamine EXCEPT ![n] = @ \ {call[n]}]
  /\ call' = [call EXCEPT ![n] = None]
  /\ UNCHANGED <<config, main, server, opened, late>>

\* selfExamine returns true.
Examined(n) ==
  /\ call[n] # None
  /\ accept[n] = "accepting"
  /\ n \in Sound
  /\ toExamine' = [toExamine EXCEPT ![n] = @ \ {call[n]}]
  /\ call' = [call EXCEPT ![n] = None]
  /\ UNCHANGED <<config, main, server, opened, late>>

\* What ends the whole process n.
Dies(n, s) ==
  /\ Main(n, s)
  /\ call' = [call EXCEPT ![n] = None]
  /\ parper' = [parper EXCEPT ![n] = "idle"]
  /\ Stops(n)
  /\ UNCHANGED <<config, toExamine, toPrepare, opened, late>>

\* selfExamine returns false: System.exit(1).
ExamineFails(n) ==
  /\ call[n] # None
  /\ accept[n] = "accepting"
  /\ n \notin Sound
  /\ Dies(n, "exited")

\* start returns; the shutdown hook is added.
StartReturns(n) ==
  /\ main[n] = "examining" /\ toExamine[n] = {}
  /\ Main(n, "returned")
  /\ UNCHANGED <<config, toExamine, call, server, opened, late>>

\* The process is killed.
Kill(n) ==
  /\ main[n] \notin {"off", "exited", "killed"}
  /\ Cardinality({k \in Nodes : main[k] = "killed"}) < MaxKills
  /\ Dies(n, "killed")

-----------------------------------------------------------------------------
(* The accept thread: preServe and, for a worker, WorkerEndpoint.parper. *)

Preparing(n) == accept[n] = "preparing"
Parper(n, s) == parper' = [parper EXCEPT ![n] = s]
Prepared(n, e) == toPrepare' = [toPrepare EXCEPT ![n] = @ \ {e}]

\* ServerEndpoint.parper does nothing.
PrepareServer(n) ==
  /\ Preparing(n) /\ parper[n] = "idle"
  /\ "server" \in toPrepare[n]
  /\ Prepared(n, "server")
  /\ UNCHANGED <<config, mains, accept, parper, opened, late>>

\* RpcSendHandle opens a connection to the service for each call: regist, then
\* agentConf.
ParperConnects(n) ==
  /\ Preparing(n)
  /\ "worker" \in toPrepare[n]
  /\ service[n] # None /\ Bound(service[n])
  /\ \/ parper[n] = "idle" /\ Parper(n, "regist")
     \/ parper[n] = "registered" /\ Parper(n, "agentConf")
  /\ UNCHANGED <<config, mains, accept, toPrepare, opened, late>>

\* Mutant of ParperFails: no timeout is set.
ParperFailsAtOnce(n) ==
  /\ Preparing(n)
  /\ "worker" \in toPrepare[n]
  /\ \/ parper[n] \in {"idle", "registered"} /\ (service[n] # None => ~Bound(service[n]))
     \/ parper[n] \in {"regist", "agentConf"} /\ ~Bound(service[n])
  /\ Parper(n, "idle")
  /\ Stops(n)
  /\ UNCHANGED <<config, mains, toPrepare, opened, late>>

\* parper throws, and preServe with it, when there is no service in the
\* configuration, when it refuses or breaks the connection, and, after the
\* timeout, when it does not answer.
ParperFails(n) ==
  /\ Preparing(n)
  /\ "worker" \in toPrepare[n]
  /\ \/ parper[n] \in {"idle", "registered"} /\ (service[n] # None => ~Bound(service[n]))
     \/ parper[n] \in {"regist", "agentConf"}
  /\ Parper(n, "idle")
  /\ Stops(n)
  /\ UNCHANGED <<config, mains, toPrepare, opened, late>>

\* The service of n answers calls.
Answers(n) == accept[service[n]] = "accepting" /\ "server" \in Endpoints[service[n]]

\* regist returns; whether true or false, parper goes on.
Regist(n) ==
  /\ parper[n] = "regist"
  /\ Answers(n)
  /\ Parper(n, "registered")
  /\ UNCHANGED <<config, mains, accept, toPrepare, opened, late>>

\* Mutant of AgentConf: a null goes through.
AgentConfNull(n) ==
  /\ parper[n] = "agentConf"
  /\ Answers(n)
  /\ Prepared(n, "worker")
  /\ Parper(n, "idle")
  /\ UNCHANGED <<config, mains, accept, opened, late>>

\* agentConf returns a map.  (A null, as ServiceImpl returns, cannot be sent:
\* the call throws "unknown result", which is ParperFails.)
AgentConf(n) ==
  /\ parper[n] = "agentConf"
  /\ Answers(n) /\ service[n] \in confs
  /\ Prepared(n, "worker")
  /\ Parper(n, "idle")
  /\ UNCHANGED <<config, mains, accept, opened, late>>

\* preServe returns.
Accept(n) ==
  /\ Preparing(n) /\ toPrepare[n] = {}
  /\ accept' = [accept EXCEPT ![n] = "accepting"]
  /\ opened' = opened \cup {n}
  /\ UNCHANGED <<config, mains, toPrepare, parper, late>>

-----------------------------------------------------------------------------
Init ==
  /\ service \in Services /\ confs \in Confs
  /\ main = [n \in Nodes |-> "off"]
  /\ toExamine = Endpoints
  /\ call = [n \in Nodes |-> None]
  /\ accept = [n \in Nodes |-> "off"]
  /\ toPrepare = Endpoints
  /\ parper = [n \in Nodes |-> "idle"]
  /\ opened = {} /\ late = {}

MainStep(n) ==
  \/ Examine(n) \/ ExamineRefused(n) \/ ExamineTimeout(n)
  \/ Examined(n) \/ ExamineFails(n) \/ StartReturns(n)

AcceptStep(n) ==
  \/ PrepareServer(n) \/ ParperConnects(n) \/ ParperFails(n)
  \/ Regist(n) \/ AgentConf(n) \/ Accept(n)

Next == \E n \in Nodes : Launch(n) \/ Kill(n) \/ MainStep(n) \/ AcceptStep(n)

Spec == Init /\ [][Next]_vars

\* The two threads of a process go on; a socket with a timeout does not wait
\* without end.
FairSpec == Spec /\ \A n \in Nodes : WF_vars(MainStep(n)) /\ WF_vars(AcceptStep(n))

-----------------------------------------------------------------------------
(* Properties. *)

\* The types of the state; a thread that is over has no call under way.
TypeOK ==
  /\ service \in [Nodes -> Nodes \cup {None}]
  /\ confs \subseteq Nodes
  /\ main \in [Nodes -> {"off", "examining", "returned", "threw", "exited", "killed"}]
  /\ toExamine \in [Nodes -> SUBSET {"server", "worker"}]
  /\ call \in [Nodes -> {"server", "worker", None}]
  /\ accept \in [Nodes -> {"off", "preparing", "accepting", "stopped"}]
  /\ toPrepare \in [Nodes -> SUBSET {"server", "worker"}]
  /\ parper \in [Nodes -> {"idle", "regist", "registered", "agentConf"}]
  /\ opened \subseteq Nodes /\ late \subseteq Nodes
  /\ \A n \in Nodes : /\ call[n] # None => main[n] = "examining" /\ call[n] \in toExamine[n]
                      /\ parper[n] # "idle" => accept[n] = "preparing" /\ service[n] # None

\* start returns only when every endpoint was prepared and the process has served,
\* although nothing but its own calls to itself makes the main thread wait for
\* the server thread.  (A process without endpoints, the role "server" of
\* Appaction, returns at once.)
StartedServes ==
  \A n \in Nodes : main[n] = "returned" /\ Endpoints[n] # {} => toPrepare[n] = {} /\ n \in opened

\* A process that serves although its start threw, and so without a shutdown
\* hook, was slower to prepare its endpoints than the timeout of its own calls.
ServesUnstarted ==
  \A n \in Nodes : accept[n] = "accepting" /\ main[n] = "threw" => n \in late

\* A worker begins to serve only after its service has, and only if that had an
\* agentConf for it: a worker does not start before its service, and processes
\* that register with each other in a circle, or with themselves, never serve.
OpensAfterService ==
  [][\A n \in opened' \ opened :
       "worker" \in Endpoints[n] => service[n] \in opened /\ service[n] \in confs]_vars

\* Every start comes to an end, on both threads, also of processes that wait for
\* each other or for themselves.
StartEnds ==
  \A n \in Nodes : /\ main[n] = "examining" ~> main[n] # "examining"
                   /\ accept[n] = "preparing" ~> accept[n] # "preparing"
=============================================================================
