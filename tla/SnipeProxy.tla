----------------------------- MODULE SnipeProxy -----------------------------
(***************************************************************************)
(* snipe/.../tcp/db: TransprtDBHandler and TransprtDBClint0, the proxy.    *)
(* Each front channel gets a back channel to the server the scheduler      *)
(* names.  cliMap finds the back of a front's requests, answerMap the      *)
(* front of a back's answers; both are looked up by an address.            *)
(*                                                                         *)
(* A front's handlers run on its event loop, those of its back on another, *)
(* and the maps are shared by all: a step is an access to a map or to a    *)
(* channel.  A back is named by the front it was created for; a port is    *)
(* the host and port of its local end.                                     *)
(***************************************************************************)
EXTENDS BalanceScheduler

CONSTANTS
  Keys,      \* local addresses of the fronts: those the proxy is reached at
  KeyOf,     \* getRemoteId of each front
  Ports,     \* getLocalId of the backs
  PortsOf,   \*   and which the system may give each
  None

Fronts == Callers

ASSUME KeyAssumption == KeyOf \in [Fronts -> Keys]
ASSUME PortAssumption == PortsOf \in [Fronts -> SUBSET Ports]
ASSUME NoneAssumption == None \notin Ports \cup Fronts

VARIABLES
  stage,      \* where each front's handler is
  back,       \* each front's back channel,
  port,       \*   its local address,
  named,      \*   and whether the channel keeps that address when it is closed
  cliMap,     \* by key: the front whose back gets the requests
  answerMap,  \* by port: the front that gets the answers
  client,     \* closeClient: whose back it closes
  heard,      \* history: the others whose backs' answers each front got,
  closer      \*   and which front closed each back, another than its own if any

scheduler == vars
channels  == <<back, port, named>>
maps      == <<cliMap, answerMap>>
history   == <<heard, closer>>
proxyVars == <<scheduler, stage, channels, maps, client, history>>

At(f, s)    == stage[f] = s
Goes(f, s)  == stage' = [stage EXCEPT ![f] = s]
Connected(f) == back[f] \in {"open", "closing"}

\* getLocalId gives the port of f's back: a channel asked for its address while it
\* is connected keeps it, one first asked when it is closed has another.
Known(f) == Connected(f) \/ f \in named

-----------------------------------------------------------------------------
(* channelActive: createClient. *)

\* A front connects; createClient asks for a server.
ChannelActive(f) ==
  /\ At(f, "new")
  /\ Get(f)
  /\ Goes(f, "pick")
  /\ UNCHANGED <<channels, maps, client, history>>

\* getServerAddress starts over, or returns.
Pick(f) ==
  /\ At(f, "pick")
  /\ \/ Again(f) /\ UNCHANGED stage
     \/ CompareAndSet(f) /\ Goes(f, "connect")
  /\ UNCHANGED <<channels, maps, client, history>>

\* connect(...).sync() returns.  The system gives the back a port that no
\* other connection to the same server has.
Connect(f) ==
  /\ At(f, "connect")
  /\ \E p \in PortsOf[f] :
       /\ \A g \in Fronts : port[g] = p /\ Connected(g) => rotationNum[g] # rotationNum[f]
       /\ port' = [port EXCEPT ![f] = p]
  /\ back' = [back EXCEPT ![f] = "open"]
  /\ Goes(f, "put")
  /\ UNCHANGED <<scheduler, named, maps, client, history>>

\* sync() throws: exceptionCaught is called.
ConnectFails(f) ==
  /\ At(f, "connect")
  /\ Goes(f, "caught")
  /\ UNCHANGED <<scheduler, channels, maps, client, history>>

\* Mutant of PutClient: under the key of another front.
PutClientElsewhere(f) ==
  /\ At(f, "put")
  /\ \E k \in Keys : cliMap' = [cliMap EXCEPT ![k] = f]
  /\ Goes(f, "answer")
  /\ UNCHANGED <<scheduler, channels, answerMap, client, history>>

\* cliMap.put.
PutClient(f) ==
  /\ At(f, "put")
  /\ cliMap' = [cliMap EXCEPT ![KeyOf[f]] = f]
  /\ Goes(f, "answer")
  /\ UNCHANGED <<scheduler, channels, answerMap, client, history>>

\* Mutant of PutAnswer: it waits for the back to be usable.
PutAnswerOpen(f) ==
  /\ At(f, "answer")
  /\ back[f] = "open"
  /\ answerMap' = [answerMap EXCEPT ![port[f]] = f]
  /\ named' = named \cup {f}
  /\ Goes(f, "active")
  /\ UNCHANGED <<scheduler, back, port, cliMap, client, history>>

\* answerMap.put, under a key that no back has if the channel was closed meanwhile.
PutAnswer(f) ==
  /\ At(f, "answer")
  /\ IF Known(f)
       THEN answerMap' = [answerMap EXCEPT ![port[f]] = f] /\ named' = named \cup {f}
       ELSE UNCHANGED <<answerMap, named>>
  /\ Goes(f, "active")
  /\ UNCHANGED <<scheduler, back, port, cliMap, client, history>>

-----------------------------------------------------------------------------
(* channelRead of the front: wride. *)

\* The request is written to the back found, which changes nothing here.  There
\* is none: NullPointerException, and exceptionCaught is called.
WrideMissing(f) ==
  /\ At(f, "active")
  /\ cliMap[KeyOf[f]] = None
  /\ Goes(f, "caught")
  /\ UNCHANGED <<scheduler, channels, maps, client, history>>

\* The front's connection breaks: exceptionCaught, and Netty closes the front.
\* (No handler is told when the peer closes it: such a front stays as it is.)
Breaks(f) ==
  /\ At(f, "active")
  /\ Goes(f, "broken")
  /\ UNCHANGED <<scheduler, channels, maps, client, history>>

-----------------------------------------------------------------------------
(* exceptionCaught: closeClient, then ctx.close(). *)

Caught(f) == stage[f] \in {"caught", "broken"}

\* closeClient finds no client: it throws, and ctx.close() is not reached.
ClientMissing(f) ==
  /\ Caught(f)
  /\ cliMap[KeyOf[f]] = None
  /\ Goes(f, IF At(f, "caught") THEN "active" ELSE "left")
  /\ UNCHANGED <<scheduler, channels, maps, client, history>>

\* client.close(): the back's event loop is to close it, and goes on until then.
CloseBack(f) ==
  /\ Caught(f)
  /\ LET c == cliMap[KeyOf[f]]
     IN  /\ c # None
         /\ client' = [client EXCEPT ![f] = c]
         /\ back' = [back EXCEPT ![c] = IF @ = "open" THEN "closing" ELSE @]
         /\ closer' = [closer EXCEPT ![c] = IF @ \in {None, c} THEN f ELSE @]
  /\ Goes(f, "remove")
  /\ UNCHANGED <<scheduler, port, named, maps, heard>>

\* Mutant of RemoveClient: the entry stays.
RemoveClientNot(f) ==
  /\ At(f, "remove")
  /\ Goes(f, "forget")
  /\ UNCHANGED <<scheduler, channels, maps, client, history>>

\* cliMap.remove, whatever the entry is by now.
RemoveClient(f) ==
  /\ At(f, "remove")
  /\ cliMap' = [cliMap EXCEPT ![KeyOf[f]] = None]
  /\ Goes(f, "forget")
  /\ UNCHANGED <<scheduler, channels, answerMap, client, history>>

\* Mutant of RemoveAnswer: it takes the entry of the front's own back.
RemoveAnswerOwn(f) ==
  /\ At(f, "forget")
  /\ answerMap' = IF port[f] = None THEN answerMap ELSE [answerMap EXCEPT ![port[f]] = None]
  /\ Goes(f, "closed")
  /\ UNCHANGED <<scheduler, channels, cliMap, client, history>>

\* answerMap.remove, whatever the entry is by now, and ctx.close().
RemoveAnswer(f) ==
  LET c == client[f]
  IN  /\ At(f, "forget")
      /\ IF Known(c)
           THEN answerMap' = [answerMap EXCEPT ![port[c]] = None] /\ named' = named \cup {c}
           ELSE UNCHANGED <<answerMap, named>>
      /\ Goes(f, "closed")
      /\ UNCHANGED <<scheduler, back, port, cliMap, client, history>>

-----------------------------------------------------------------------------
(* The back of f: ClientHandle, its event loop and its server. *)

\* What front g gets to hear of the back of f: nothing, once it is closed.
Hears(g, f) ==
  heard' = IF stage[g] \in {"left", "closed"} THEN heard
                                              ELSE [heard EXCEPT ![g] = @ \cup ({f} \ {g})]

\* Mutant of Answer: the front is looked up like the back of a request.
AnswerByKey(f) ==
  /\ Connected(f)
  /\ LET g == cliMap[KeyOf[f]]
     IN  g # None /\ Hears(g, f)
  /\ named' = named \cup {f}
  /\ UNCHANGED <<scheduler, stage, back, port, maps, client, closer>>

\* channelRead: the server's bytes, possibly unasked for, go to the front found.
Answer(f) ==
  /\ Connected(f)
  /\ LET g == answerMap[port[f]]
     IN  g # None /\ Hears(g, f)
  /\ named' = named \cup {f}
  /\ UNCHANGED <<scheduler, stage, back, port, maps, client, closer>>

\* Mutant of AnswerMissing: the requests' entry is removed with the back.
AnswerMissingForgets(f) ==
  /\ Connected(f)
  /\ answerMap[port[f]] = None
  /\ back' = [back EXCEPT ![f] = "closed"]
  /\ named' = named \cup {f}
  /\ cliMap' = [cliMap EXCEPT ![KeyOf[f]] = None]
  /\ UNCHANGED <<scheduler, stage, port, answerMap, client, history>>

\* There is none, or not yet: NullPointerException, and exceptionCaught closes
\* the back.
AnswerMissing(f) ==
  /\ Connected(f)
  /\ answerMap[port[f]] = None
  /\ back' = [back EXCEPT ![f] = "closed"]
  /\ named' = named \cup {f}
  /\ UNCHANGED <<scheduler, stage, port, maps, client, history>>

\* The server closes the connection: no handler is told.
ServerCloses(f) ==
  /\ Connected(f)
  /\ back' = [back EXCEPT ![f] = "closed"]
  /\ UNCHANGED <<scheduler, stage, port, named, maps, client, history>>

\* The event loop of the back runs channel.close().
BackCloses(f) ==
  /\ back[f] = "closing"
  /\ back' = [back EXCEPT ![f] = "closed"]
  /\ UNCHANGED <<scheduler, stage, port, named, maps, client, history>>

-----------------------------------------------------------------------------
ProxyInit ==
  /\ Init
  /\ stage = [f \in Fronts |-> "new"]
  /\ back = [f \in Fronts |-> "none"]
  /\ port = [f \in Fronts |-> None]
  /\ named = {}
  /\ cliMap = [k \in Keys |-> None]
  /\ answerMap = [p \in Ports |-> None]
  /\ client = [f \in Fronts |-> None]
  /\ heard = [f \in Fronts |-> {}]
  /\ closer = [f \in Fronts |-> None]

\* What the handlers of a front do once they were called.
FrontStep(f) ==
  \/ Pick(f) \/ Connect(f) \/ ConnectFails(f) \/ PutClient(f) \/ PutAnswer(f)
  \/ ClientMissing(f) \/ CloseBack(f) \/ RemoveClient(f) \/ RemoveAnswer(f)

\* What happens at a front, from outside.
FrontEvent(f) == ChannelActive(f) \/ WrideMissing(f) \/ Breaks(f)

\* What happens at a back.
BackEvent(f) == Answer(f) \/ AnswerMissing(f) \/ ServerCloses(f) \/ BackCloses(f)

ProxyNext == \E f \in Fronts : FrontStep(f) \/ FrontEvent(f) \/ BackEvent(f)

ProxySpec == ProxyInit /\ [][ProxyNext]_proxyVars

\* A handler goes on, and connect ends, if only by its timeout.
ProxyFairSpec == ProxySpec /\ \A f \in Fronts : WF_proxyVars(FrontStep(f))

-----------------------------------------------------------------------------
(* Properties. *)

Stages == {"new", "pick", "connect", "put", "answer", "active",
           "caught", "broken", "left", "remove", "forget", "closed"}

\* The types of the proxy's state.
ProxyTypeOK ==
  /\ stage \in [Fronts -> Stages]
  /\ back \in [Fronts -> {"none", "open", "closing", "closed"}]
  /\ port \in [Fronts -> Ports \cup {None}]
  /\ named \subseteq Fronts
  /\ cliMap \in [Keys -> Fronts \cup {None}]
  /\ answerMap \in [Ports -> Fronts \cup {None}]
  /\ client \in [Fronts -> Fronts \cup {None}]
  /\ heard \in [Fronts -> SUBSET Fronts]
  /\ closer \in [Fronts -> Fronts \cup {None}]

\* An answer that reaches another front than the one its back was created for
\* does so because the two backs had the same local port, one after the other or
\* towards different servers: answerMap, unlike cliMap, never confuses fronts.
HomeUnlessPortShared ==
  \A f, g \in Fronts : g \in heard[f] => port[f] = port[g]

\* Nobody else reaches the proxy at the local address of f.
Alone(f) == \A g \in Fronts \ {f} : KeyOf[g] # KeyOf[f]

\* A front alone under its key is isolated: its requests go to its own back, no
\* other front writes to that back or closes it, it stays registered until it
\* breaks, and is left open without a back only if connect failed.  (Fronts that
\* share a key, as those that reach the proxy at one address do, have none of this.)
Isolated ==
  \A f \in Fronts : Alone(f) =>
    /\ closer[f] \in {None, f}
    /\ \A g \in Fronts \ {f} : cliMap[KeyOf[g]] # f /\ cliMap[KeyOf[f]] # g
    /\ At(f, "active") /\ back[f] # "none" => cliMap[KeyOf[f]] = f

\* The requests at an address find a back from the first registration on: neither
\* backs that are closed nor fronts that register there take the entry away, only
\* closeClient for a front of that address does, whoever the entry belongs to.
RequestsFindBack ==
  \A f \in Fronts :
    /\ stage[f] \in {"answer", "active"} /\ back[f] # "none"
    /\ \A g \in Fronts : KeyOf[g] = KeyOf[f] => stage[g] \notin {"forget", "closed"}
    => cliMap[KeyOf[f]] # None

Registered(f) == stage[f] \notin {"new", "pick", "connect", "put", "answer"}

\* The answers of an open back find its front from the registration on, however
\* the others register and close, unless somebody closes that very back or
\* another back has its port.  (Before the registration is complete an answer
\* finds nothing, and the back is closed for it.)
AnswersFindFront ==
  \A f \in Fronts :
    /\ Registered(f) /\ back[f] = "open" /\ closer[f] = None
    /\ \A g \in Fronts \ {f} : port[g] # port[f]
    => answerMap[port[f]] = f

\* A front that was closed for an exception is forgotten: no request goes to its
\* back any more and, unless it was another's back that it closed, no answer is
\* looked up for it.
ClosedForgotten ==
  \A f \in Fronts : At(f, "closed") =>
    /\ \A k \in Keys : cliMap[k] # f
    /\ client[f] = f => \A p \in Ports : answerMap[p] # f

\* channelActive comes to an end, whatever is closed meanwhile and although it
\* blocks the event loop for the connection and the scheduler may start over.
ChannelActiveEnds == \A f \in Fronts : At(f, "pick") ~> Registered(f)
=============================================================================
