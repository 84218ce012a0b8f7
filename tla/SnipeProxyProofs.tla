-------------------------- MODULE SnipeProxyProofs --------------------------
(***************************************************************************)
(* Theorems about SnipeProxy for any fronts, addresses, ports and servers. *)
(* All rest on ProxyInv: an entry of a map leads to a front that has the   *)
(* key or the port it is under, and a port stays with its back.            *)
(***************************************************************************)
EXTENDS SnipeProxy, TLAPS

USE KeyAssumption, PortAssumption, NoneAssumption

-----------------------------------------------------------------------------
(* The inductive invariant. *)

\* Before connect returns there is no back, and no port.
EarlyNone ==
  \A f \in Fronts : stage[f] \in {"new", "pick", "connect"} => back[f] = "none" /\ port[f] = None

\* A back has a port.
Ported == \A f \in Fronts : back[f] # "none" => port[f] \in Ports

\* An entry of answerMap is under the port of the back of its front.
AnswersOwn == \A p \in Ports, f \in Fronts : answerMap[p] = f => port[f] = p

\* What HomeUnlessPortShared says, of backs that have a port.
HeardShared ==
  \A f, g \in Fronts : g \in heard[f] => port[f] = port[g] /\ port[f] \in Ports

\* An entry of cliMap is under the key of its front.
KeysOwn == \A k \in Keys, f \in Fronts : cliMap[k] = f => KeyOf[f] = k

\* A back is closed by a front with the key of its own.
ClosersOwn == \A f, g \in Fronts : closer[f] = g => KeyOf[f] = KeyOf[g]

\* There is an entry under the key of a front that is registered, until a front of
\* that key removes it.
EntryKept ==
  \A f \in Fronts :
    /\ stage[f] \in {"answer", "active", "caught", "broken"} /\ back[f] # "none"
    /\ \A g \in Fronts : KeyOf[g] = KeyOf[f] => stage[g] \notin {"forget", "closed"}
    => cliMap[KeyOf[f]] # None

\* The back of a front that answerMap leads to keeps its address.
AnswersNamed == \A p \in Ports, f \in Fronts : answerMap[p] = f => f \in named

\* Who is past client.close() has noted whose back it closes.
ClientsNoted ==
  \A f \in Fronts : stage[f] \in {"remove", "forget", "closed"} => client[f] \in Fronts

ProxyInv ==
  /\ ProxyTypeOK /\ EarlyNone /\ Ported /\ AnswersOwn
  /\ HeardShared /\ KeysOwn /\ ClosersOwn /\ EntryKept /\ AnswersNamed /\ ClientsNoted

\* It holds before any front connects.
LEMMA ProxyInvInit == ProxyInit => ProxyInv
BY DEF ProxyInit, ProxyInv, ProxyTypeOK, EarlyNone, Ported, AnswersOwn, HeardShared,
       KeysOwn, ClosersOwn, EntryKept, AnswersNamed, ClientsNoted, Stages

-----------------------------------------------------------------------------
\* The steps of channelActive keep it.
LEMMA ActiveStep ==
  ASSUME ProxyInv, NEW f \in Fronts,
         ChannelActive(f) \/ Pick(f) \/ Connect(f) \/ ConnectFails(f) \/ PutClient(f) \/ PutAnswer(f)
  PROVE  ProxyInv'
<1> USE DEF ProxyInv, At, Goes, channels, maps, history
<1>1. CASE ChannelActive(f)
  <2>1. stage[f] = "new" /\ stage' = [stage EXCEPT ![f] = "pick"]
        /\ UNCHANGED <<back, port, named, cliMap, answerMap, client, heard, closer>>
    BY <1>1 DEF ChannelActive
  <2> QED
    BY <2>1 DEF ProxyTypeOK, EarlyNone, Ported, AnswersOwn, HeardShared, KeysOwn, ClosersOwn, EntryKept, AnswersNamed, ClientsNoted, Stages
<1>2. CASE Pick(f)
  <2>1. stage[f] = "pick" /\ (stage' = stage \/ stage' = [stage EXCEPT ![f] = "connect"])
        /\ UNCHANGED <<back, port, named, cliMap, answerMap, client, heard, closer>>
    BY <1>2 DEF Pick
  <2> QED
    BY <2>1 DEF ProxyTypeOK, EarlyNone, Ported, AnswersOwn, HeardShared, KeysOwn, ClosersOwn, EntryKept, AnswersNamed, ClientsNoted, Stages
<1>3. CASE Connect(f)
  <2>1. PICK p \in PortsOf[f] : port' = [port EXCEPT ![f] = p]
    BY <1>3 DEF Connect
  <2>2. /\ stage[f] = "connect" /\ stage' = [stage EXCEPT ![f] = "put"]
        /\ back' = [back EXCEPT ![f] = "open"] /\ p \in Ports
        /\ UNCHANGED <<named, cliMap, answerMap, client, heard, closer>>
    BY <1>3, <2>1 DEF Connect
  <2>3. back[f] = "none" /\ port[f] = None /\ None \notin Ports
    BY <2>2 DEF EarlyNone
  <2>4. ProxyTypeOK' /\ EarlyNone' /\ Ported' /\ KeysOwn' /\ ClosersOwn'
    BY <2>1, <2>2 DEF ProxyTypeOK, EarlyNone, Ported, KeysOwn, ClosersOwn, Stages
  <2>5. AnswersOwn' /\ HeardShared' /\ AnswersNamed' /\ ClientsNoted'
    BY <2>1, <2>2, <2>3 DEF ProxyTypeOK, AnswersOwn, HeardShared, AnswersNamed, ClientsNoted
  <2>6. EntryKept'
    BY <2>2 DEF ProxyTypeOK, EntryKept
  <2> QED
    BY <2>4, <2>5, <2>6
<1>4. CASE ConnectFails(f)
  <2>1. stage[f] = "connect" /\ stage' = [stage EXCEPT ![f] = "caught"]
        /\ UNCHANGED <<back, port, named, cliMap, answerMap, client, heard, closer>>
    BY <1>4 DEF ConnectFails
  <2> QED
    BY <2>1 DEF ProxyTypeOK, EarlyNone, Ported, AnswersOwn, HeardShared, KeysOwn, ClosersOwn, EntryKept, AnswersNamed, ClientsNoted, Stages
<1>5. CASE PutClient(f)
  <2>1. /\ stage[f] = "put" /\ stage' = [stage EXCEPT ![f] = "answer"]
        /\ cliMap' = [cliMap EXCEPT ![KeyOf[f]] = f]
        /\ UNCHANGED <<back, port, named, answerMap, client, heard, closer>>
    BY <1>5 DEF PutClient
  <2>2. ProxyTypeOK' /\ EarlyNone' /\ Ported' /\ AnswersOwn' /\ HeardShared' /\ ClosersOwn'
        /\ AnswersNamed' /\ ClientsNoted'
    BY <2>1 DEF ProxyTypeOK, EarlyNone, Ported, AnswersOwn, HeardShared, ClosersOwn, AnswersNamed, ClientsNoted, Stages
  <2>3. KeysOwn'
    BY <2>1 DEF ProxyTypeOK, KeysOwn
  <2>4. EntryKept'
    BY <2>1 DEF ProxyTypeOK, EntryKept
  <2> QED
    BY <2>2, <2>3, <2>4
<1>6. CASE PutAnswer(f)
  <2>1. /\ stage[f] = "answer" /\ stage' = [stage EXCEPT ![f] = "active"]
        /\ \/ answerMap' = answerMap /\ named' = named
           \/ answerMap' = [answerMap EXCEPT ![port[f]] = f] /\ named' = named \cup {f}
        /\ UNCHANGED <<back, port, cliMap, client, heard, closer>>
    BY <1>6 DEF PutAnswer
  <2>2. ProxyTypeOK' /\ EarlyNone' /\ Ported' /\ HeardShared' /\ KeysOwn' /\ ClosersOwn'
    BY <2>1 DEF ProxyTypeOK, EarlyNone, Ported, HeardShared, KeysOwn, ClosersOwn, Stages
  <2>3. AnswersOwn' /\ AnswersNamed' /\ ClientsNoted'
    BY <2>1 DEF ProxyTypeOK, AnswersOwn, AnswersNamed, ClientsNoted
  <2>4. EntryKept'
    BY <2>1 DEF ProxyTypeOK, EntryKept
  <2> QED
    BY <2>2, <2>3, <2>4
<1> QED
  BY <1>1, <1>2, <1>3, <1>4, <1>5, <1>6

\* So do those of channelRead and exceptionCaught.
LEMMA CloseStep ==
  ASSUME ProxyInv, NEW f \in Fronts,
         \/ WrideMissing(f) \/ Breaks(f) \/ ClientMissing(f)
         \/ CloseBack(f) \/ RemoveClient(f) \/ RemoveAnswer(f)
  PROVE  ProxyInv'
<1> USE DEF ProxyInv, At, Goes, channels, maps, history
<1>1. CASE WrideMissing(f) \/ Breaks(f)
  <2>1. /\ stage[f] = "active"
        /\ stage' = [stage EXCEPT ![f] = "caught"] \/ stage' = [stage EXCEPT ![f] = "broken"]
        /\ UNCHANGED <<back, port, named, cliMap, answerMap, client, heard, closer>>
    BY <1>1 DEF WrideMissing, Breaks
  <2> QED
    BY <2>1 DEF ProxyTypeOK, EarlyNone, Ported, AnswersOwn, HeardShared, KeysOwn, ClosersOwn, EntryKept, AnswersNamed, ClientsNoted, Stages
<1>2. CASE ClientMissing(f)
  <2>1. /\ stage[f] \in {"caught", "broken"}
        /\ stage' = [stage EXCEPT ![f] = "active"] \/ stage' = [stage EXCEPT ![f] = "left"]
        /\ UNCHANGED <<back, port, named, cliMap, answerMap, client, heard, closer>>
    BY <1>2 DEF ClientMissing, Caught
  <2> QED
    BY <2>1 DEF ProxyTypeOK, EarlyNone, Ported, AnswersOwn, HeardShared, KeysOwn, ClosersOwn, EntryKept, AnswersNamed, ClientsNoted, Stages
<1>3. CASE CloseBack(f)
  <2> DEFINE c == cliMap[KeyOf[f]]
  <2>1. /\ stage[f] \in {"caught", "broken"} /\ stage' = [stage EXCEPT ![f] = "remove"]
        /\ c # None /\ c \in Fronts
        /\ client' = [client EXCEPT ![f] = c]
        /\ back' = [back EXCEPT ![c] = IF back[c] = "open" THEN "closing" ELSE back[c]]
        /\ closer' = [closer EXCEPT ![c] = IF closer[c] \in {None, c} THEN f ELSE closer[c]]
        /\ UNCHANGED <<port, named, cliMap, answerMap, heard>>
    BY <1>3 DEF CloseBack, Caught, ProxyTypeOK
  <2>2. KeyOf[c] = KeyOf[f]
    BY <2>1 DEF KeysOwn
  <2> HIDE DEF c
  <2>3. ProxyTypeOK'
    BY <2>1 DEF ProxyTypeOK, Stages
  <2>4. \A g \in Fronts : back'[g] = "none" <=> back[g] = "none"
    BY <2>1 DEF ProxyTypeOK
  <2>5. EarlyNone' /\ Ported' /\ EntryKept'
    BY <2>1, <2>4 DEF ProxyTypeOK, EarlyNone, Ported, EntryKept
  <2>6. AnswersOwn' /\ HeardShared' /\ KeysOwn' /\ AnswersNamed' /\ ClientsNoted'
    BY <2>1 DEF ProxyTypeOK, AnswersOwn, HeardShared, KeysOwn, AnswersNamed, ClientsNoted
  <2>7. ClosersOwn'
    BY <2>1, <2>2 DEF ProxyTypeOK, ClosersOwn
  <2> QED
    BY <2>3, <2>5, <2>6, <2>7
<1>4. CASE RemoveClient(f)
  <2>1. /\ stage[f] = "remove" /\ stage' = [stage EXCEPT ![f] = "forget"]
        /\ cliMap' = [cliMap EXCEPT ![KeyOf[f]] = None]
        /\ UNCHANGED <<back, port, named, answerMap, client, heard, closer>>
    BY <1>4 DEF RemoveClient
  <2>2. ProxyTypeOK' /\ EarlyNone' /\ Ported' /\ AnswersOwn' /\ HeardShared' /\ ClosersOwn'
        /\ AnswersNamed' /\ ClientsNoted'
    BY <2>1 DEF ProxyTypeOK, EarlyNone, Ported, AnswersOwn, HeardShared, ClosersOwn, AnswersNamed, ClientsNoted, Stages
  <2>3. KeysOwn'
    BY <2>1 DEF ProxyTypeOK, KeysOwn
  <2>4. EntryKept'
    <3>1. stage'[f] = "forget"
      BY <2>1 DEF ProxyTypeOK
    <3>2. \A k \in Keys : k # KeyOf[f] => cliMap'[k] = cliMap[k]
      BY <2>1 DEF ProxyTypeOK
    <3>3. \A g \in Fronts : g # f => stage'[g] = stage[g]
      BY <2>1 DEF ProxyTypeOK
    <3> QED
      BY <2>1, <3>1, <3>2, <3>3 DEF EntryKept
  <2> QED
    BY <2>2, <2>3, <2>4
<1>5. CASE RemoveAnswer(f)
  <2>1. /\ stage[f] = "forget" /\ stage' = [stage EXCEPT ![f] = "closed"]
        /\ answerMap' = answerMap \/ answerMap' = [answerMap EXCEPT ![port[client[f]]] = None]
        /\ client[f] \in Fronts => named' \subseteq Fronts
        /\ named \subseteq named'
        /\ UNCHANGED <<back, port, cliMap, client, heard, closer>>
    BY <1>5 DEF RemoveAnswer, ProxyTypeOK
  <2>2. client[f] \in Fronts
    BY <2>1 DEF ClientsNoted
  <2>3. ProxyTypeOK'
    <3>1. answerMap' \in [Ports -> Fronts \cup {None}]
      BY <2>1 DEF ProxyTypeOK
    <3>2. stage' \in [Fronts -> Stages]
      BY <2>1 DEF ProxyTypeOK, Stages
    <3> QED
      BY <2>1, <2>2, <3>1, <3>2 DEF ProxyTypeOK
  <2>4. EarlyNone' /\ Ported' /\ HeardShared' /\ KeysOwn' /\ ClosersOwn' /\ EntryKept'
    BY <2>1 DEF ProxyTypeOK, EarlyNone, Ported, HeardShared, KeysOwn, ClosersOwn, EntryKept
  <2>5. AnswersOwn' /\ AnswersNamed' /\ ClientsNoted'
    BY <2>1 DEF ProxyTypeOK, AnswersOwn, AnswersNamed, ClientsNoted
  <2> QED
    BY <2>3, <2>4, <2>5
<1> QED
  BY <1>1, <1>2, <1>3, <1>4, <1>5

\* So do those of a back: an answer goes to a front that answerMap has under the
\* port of the back, which is the port of that front's own.
LEMMA BackStep ==
  ASSUME ProxyInv, NEW f \in Fronts, BackEvent(f)
  PROVE  ProxyInv'
<1> USE DEF ProxyInv, channels, maps, history
<1>1. CASE Answer(f)
  <2> DEFINE g == answerMap[port[f]]
  <2>1. /\ back[f] # "none" /\ g # None /\ Hears(g, f)
        /\ named' = named \cup {f}
        /\ UNCHANGED <<stage, back, port, cliMap, answerMap, client, closer>>
    BY <1>1 DEF Answer, Connected
  <2>2. port[f] \in Ports
    BY <2>1 DEF Ported
  <2>3. g \in Fronts /\ port[g] = port[f]
    BY <2>1, <2>2 DEF ProxyTypeOK, AnswersOwn
  <2> HIDE DEF g
  <2>4. heard' = heard \/ heard' = [heard EXCEPT ![g] = heard[g] \cup ({f} \ {g})]
    BY <2>1 DEF Hears
  <2>5. ProxyTypeOK'
    BY <2>1, <2>3, <2>4 DEF ProxyTypeOK, Stages
  <2>6. EarlyNone' /\ Ported' /\ AnswersOwn' /\ KeysOwn' /\ ClosersOwn' /\ EntryKept'
        /\ AnswersNamed' /\ ClientsNoted'
    BY <2>1 DEF EarlyNone, Ported, AnswersOwn, KeysOwn, ClosersOwn, EntryKept, AnswersNamed, ClientsNoted
  <2>7. HeardShared'
    BY <2>1, <2>2, <2>3, <2>4 DEF ProxyTypeOK, HeardShared
  <2> QED
    BY <2>5, <2>6, <2>7
<1>2. CASE AnswerMissing(f) \/ ServerCloses(f) \/ BackCloses(f)
  <2>1. /\ back[f] # "none" /\ back' = [back EXCEPT ![f] = "closed"]
        /\ named' = named \/ named' = named \cup {f}
        /\ UNCHANGED <<stage, port, cliMap, answerMap, client, heard, closer>>
    BY <1>2 DEF AnswerMissing, ServerCloses, BackCloses, Connected
  <2>2. \A g \in Fronts : back'[g] = "none" <=> back[g] = "none"
    BY <2>1 DEF ProxyTypeOK
  <2>3. ProxyTypeOK'
    BY <2>1 DEF ProxyTypeOK, Stages
  <2> QED
    BY <2>1, <2>2, <2>3 DEF EarlyNone, Ported, AnswersOwn, HeardShared, KeysOwn, ClosersOwn, EntryKept, AnswersNamed, ClientsNoted
<1> QED
  BY <1>1, <1>2 DEF BackEvent

\* ProxyInv is an invariant of the proxy.
LEMMA ProxyInvCorrect == ProxySpec => []ProxyInv
<1>1. ASSUME ProxyInv, [ProxyNext]_proxyVars
      PROVE  ProxyInv'
  <2>1. CASE UNCHANGED proxyVars
    BY <1>1, <2>1 DEF proxyVars, channels, maps, history, ProxyInv, ProxyTypeOK, EarlyNone, Ported,
                      AnswersOwn, HeardShared, KeysOwn, ClosersOwn, EntryKept, AnswersNamed, ClientsNoted
  <2>2. ASSUME NEW f \in Fronts, FrontStep(f) \/ FrontEvent(f) \/ BackEvent(f)
        PROVE  ProxyInv'
    BY <1>1, <2>2, ActiveStep, CloseStep, BackStep DEF FrontStep, FrontEvent
  <2> QED
    BY <1>1, <2>1, <2>2 DEF ProxyNext
<1> QED
  BY <1>1, ProxyInvInit, PTL DEF ProxySpec

-----------------------------------------------------------------------------
(* The second invariant: which entries are still there, and which are gone. *)

\* The back that a front has closed knows that it was closed.
ClosersNoted ==
  \A f \in Fronts : stage[f] \in {"remove", "forget", "closed"} => closer[client[f]] # None

\* A front that has removed the entry under its key has none.
ClientForgotten ==
  \A f \in Fronts : stage[f] \in {"forget", "closed"} => \A k \in Keys : cliMap[k] # f

EntryInv == ClosersNoted /\ ClientForgotten /\ ClosedForgotten /\ AnswersFindFront

\* It holds before any front connects.
LEMMA EntryInvInit == ProxyInit => EntryInv
BY DEF ProxyInit, EntryInv, ClosersNoted, ClientForgotten, ClosedForgotten, AnswersFindFront,
       Registered, At

\* A step that leaves the maps, ports and closers alone, closes no back but may close
\* one, and registers nobody but who has no open back, keeps it.
LEMMA EntryFrame ==
  ASSUME ProxyInv, EntryInv,
         UNCHANGED <<port, maps, client, closer>>,
         \A f \in Fronts : back'[f] = "open" => back[f] = "open",
         \A f \in Fronts : stage'[f] = stage[f] \/ stage'[f] \notin {"remove", "forget", "closed"},
         \A f \in Fronts : Registered(f)' /\ back[f] = "open" => Registered(f)
  PROVE  EntryInv'
<1>1. ClosersNoted'
  BY DEF EntryInv, ClosersNoted
<1>2. ClientForgotten' /\ ClosedForgotten'
  BY DEF EntryInv, ClientForgotten, ClosedForgotten, maps, At
<1>3. AnswersFindFront'
  BY DEF EntryInv, AnswersFindFront, maps
<1> QED
  BY <1>1, <1>2, <1>3 DEF EntryInv

\* The steps of channelActive keep it.
LEMMA EntryActive ==
  ASSUME ProxyInv, EntryInv, NEW f \in Fronts,
         ChannelActive(f) \/ Pick(f) \/ Connect(f) \/ ConnectFails(f) \/ PutClient(f) \/ PutAnswer(f)
  PROVE  EntryInv'
<1> USE DEF ProxyInv, At, Goes, channels, maps, history
<1>1. CASE ChannelActive(f) \/ Pick(f) \/ ConnectFails(f)
  <2>1. /\ stage[f] \in {"new", "pick", "connect"}
        /\ \/ stage' = stage
           \/ \E s \in {"pick", "connect", "caught"} : stage' = [stage EXCEPT ![f] = s]
        /\ UNCHANGED <<back, port, maps, client, closer>>
    BY <1>1 DEF ChannelActive, Pick, ConnectFails
  <2>2. back[f] # "open"
    BY <2>1 DEF EarlyNone
  <2>3. \A g \in Fronts : stage'[g] = stage[g] \/ (g = f /\ stage'[g] \in {"pick", "connect", "caught"})
    BY <2>1 DEF ProxyTypeOK
  <2> QED
    BY <2>1, <2>2, <2>3, EntryFrame DEF Registered
<1>2. CASE Connect(f)
  <2>1. PICK p \in PortsOf[f] : port' = [port EXCEPT ![f] = p]
    BY <1>2 DEF Connect
  <2>2. /\ stage[f] = "connect" /\ stage' = [stage EXCEPT ![f] = "put"]
        /\ back' = [back EXCEPT ![f] = "open"]
        /\ UNCHANGED <<cliMap, answerMap, client, heard, closer>>
    BY <1>2 DEF Connect
  <2>3. port[f] = None
    BY <2>2 DEF EarlyNone
  <2>4. ClosersNoted' /\ ClientForgotten' /\ ClosedForgotten'
    BY <2>2 DEF ProxyTypeOK, EntryInv, ClosersNoted, ClientForgotten, ClosedForgotten
  <2>5. ASSUME NEW g \in Fronts, Registered(g)', back'[g] = "open", closer'[g] = None,
               \A h \in Fronts \ {g} : port'[h] # port'[g]
        PROVE  answerMap'[port'[g]] = g
    <3>1. g # f /\ Registered(g) /\ back[g] = "open" /\ closer[g] = None
      BY <2>2, <2>5 DEF Registered, ProxyTypeOK
    <3>2. port[g] \in Ports /\ port'[g] = port[g]
      BY <2>1, <3>1 DEF Ported, ProxyTypeOK
    <3>3. \A h \in Fronts \ {g} : port[h] # port[g]
      BY <2>1, <2>3, <2>5, <3>2 DEF ProxyTypeOK
    <3> QED
      BY <2>2, <3>1, <3>2, <3>3 DEF EntryInv, AnswersFindFront
  <2> QED
    BY <2>4, <2>5 DEF EntryInv, AnswersFindFront
<1>3. CASE PutClient(f)
  <2>1. /\ stage[f] = "put" /\ stage' = [stage EXCEPT ![f] = "answer"]
        /\ cliMap' = [cliMap EXCEPT ![KeyOf[f]] = f]
        /\ UNCHANGED <<back, port, answerMap, client, heard, closer>>
    BY <1>3 DEF PutClient
  <2>2. ClosersNoted' /\ ClientForgotten' /\ ClosedForgotten'
    BY <2>1 DEF ProxyTypeOK, EntryInv, ClosersNoted, ClientForgotten, ClosedForgotten
  <2>3. AnswersFindFront'
    BY <2>1 DEF ProxyTypeOK, EntryInv, AnswersFindFront, Registered
  <2> QED
    BY <2>2, <2>3 DEF EntryInv
<1>4. CASE PutAnswer(f)
  <2>1. /\ stage[f] = "answer" /\ stage' = [stage EXCEPT ![f] = "active"]
        /\ \/ answerMap' = answerMap /\ back[f] # "open"
           \/ answerMap' = [answerMap EXCEPT ![port[f]] = f]
        /\ UNCHANGED <<back, port, cliMap, client, heard, closer>>
    BY <1>4 DEF PutAnswer, Known, Connected
  <2>2. ClosersNoted' /\ ClientForgotten' /\ ClosedForgotten'
    BY <2>1 DEF ProxyTypeOK, EntryInv, ClosersNoted, ClientForgotten, ClosedForgotten
  <2>3. ASSUME NEW g \in Fronts, Registered(g)', back'[g] = "open", closer'[g] = None,
               \A h \in Fronts \ {g} : port'[h] # port'[g]
        PROVE  answerMap'[port'[g]] = g
    <3>1. port[g] \in Ports
      BY <2>1, <2>3 DEF Ported
    <3>2. CASE g = f
      BY <2>1, <2>3, <3>1, <3>2 DEF ProxyTypeOK
    <3>3. CASE g # f
      <4>1. answerMap[port[g]] = g
        BY <2>1, <2>3, <3>3 DEF ProxyTypeOK, EntryInv, AnswersFindFront, Registered
      <4> QED
        BY <2>1, <2>3, <3>1, <3>3, <4>1 DEF ProxyTypeOK
    <3> QED
      BY <3>2, <3>3
  <2> QED
    BY <2>2, <2>3 DEF EntryInv, AnswersFindFront
<1> QED
  BY <1>1, <1>2, <1>3, <1>4

\* So do those of channelRead and exceptionCaught.
LEMMA EntryClose ==
  ASSUME ProxyInv, EntryInv, NEW f \in Fronts,
         \/ WrideMissing(f) \/ Breaks(f) \/ ClientMissing(f)
         \/ CloseBack(f) \/ RemoveClient(f) \/ RemoveAnswer(f)
  PROVE  EntryInv'
<1> USE DEF ProxyInv, At, Goes, channels, maps, history
<1>1. CASE WrideMissing(f) \/ Breaks(f) \/ ClientMissing(f)
  <2>1. /\ stage[f] \in {"active", "caught", "broken"}
        /\ \E s \in {"active", "caught", "broken", "left"} : stage' = [stage EXCEPT ![f] = s]
        /\ UNCHANGED <<back, port, maps, client, closer>>
    BY <1>1 DEF WrideMissing, Breaks, ClientMissing, Caught
  <2>2. \A g \in Fronts : \/ stage'[g] = stage[g]
                          \/ g = f /\ stage'[g] \in {"active", "caught", "broken", "left"}
    BY <2>1 DEF ProxyTypeOK
  <2> QED
    BY <2>1, <2>2, EntryFrame DEF Registered
<1>2. CASE CloseBack(f)
  <2> DEFINE c == cliMap[KeyOf[f]]
  <2>1. /\ stage[f] \in {"caught", "broken"} /\ stage' = [stage EXCEPT ![f] = "remove"]
        /\ c # None /\ c \in Fronts
        /\ client' = [client EXCEPT ![f] = c]
        /\ back' = [back EXCEPT ![c] = IF back[c] = "open" THEN "closing" ELSE back[c]]
        /\ closer' = [closer EXCEPT ![c] = IF closer[c] \in {None, c} THEN f ELSE closer[c]]
        /\ UNCHANGED <<port, cliMap, answerMap, heard>>
    BY <1>2 DEF CloseBack, Caught, ProxyTypeOK
  <2> HIDE DEF c
  <2>2. f # None /\ c # None
    BY <2>1
  <2>3. \A g \in Fronts : closer[g] # None => closer'[g] # None
    BY <2>1, <2>2 DEF ProxyTypeOK
  <2>4. closer'[c] # None
    BY <2>1, <2>2 DEF ProxyTypeOK
  <2>5. ClosersNoted'
    BY <2>1, <2>3, <2>4 DEF ProxyTypeOK, EntryInv, ClosersNoted
  <2>6. ClientForgotten' /\ ClosedForgotten'
    BY <2>1 DEF ProxyTypeOK, EntryInv, ClientForgotten, ClosedForgotten
  <2>7. \A g \in Fronts : /\ Registered(g)' => Registered(g)
                          /\ back'[g] = "open" => back[g] = "open"
    BY <2>1 DEF Registered, ProxyTypeOK
  <2>8. AnswersFindFront'
    BY <2>1, <2>3, <2>7 DEF EntryInv, AnswersFindFront
  <2> QED
    BY <2>5, <2>6, <2>8 DEF EntryInv
<1>3. CASE RemoveClient(f)
  <2>1. /\ stage[f] = "remove" /\ stage' = [stage EXCEPT ![f] = "forget"]
        /\ cliMap' = [cliMap EXCEPT ![KeyOf[f]] = None]
        /\ UNCHANGED <<back, port, answerMap, client, heard, closer>>
    BY <1>3 DEF RemoveClient
  <2>2. \A k \in Keys : cliMap'[k] = cliMap[k] \/ cliMap'[k] = None
    BY <2>1 DEF ProxyTypeOK
  <2>3. \A k \in Keys : cliMap'[k] # f
    BY <2>1 DEF ProxyTypeOK, KeysOwn
  <2>4. ClosersNoted'
    BY <2>1 DEF ProxyTypeOK, EntryInv, ClosersNoted
  <2>5. \A g \in Fronts : g # f => stage'[g] = stage[g]
    BY <2>1 DEF ProxyTypeOK
  <2>6. ClientForgotten'
    BY <2>2, <2>3, <2>5 DEF EntryInv, ClientForgotten
  <2>7. ClosedForgotten'
    BY <2>1, <2>2, <2>5 DEF ProxyTypeOK, EntryInv, ClosedForgotten
  <2>8. AnswersFindFront'
    BY <2>1 DEF ProxyTypeOK, EntryInv, AnswersFindFront, Registered
  <2> QED
    BY <2>4, <2>6, <2>7, <2>8 DEF EntryInv
<1>4. CASE RemoveAnswer(f)
  <2> DEFINE c == client[f]
  <2>1. /\ stage[f] = "forget" /\ stage' = [stage EXCEPT ![f] = "closed"]
        /\ \/ answerMap' = [answerMap EXCEPT ![port[c]] = None]
           \/ answerMap' = answerMap /\ c \notin named
        /\ UNCHANGED <<back, port, cliMap, client, heard, closer>>
    BY <1>4 DEF RemoveAnswer, Known
  <2>2. c \in Fronts /\ closer[c] # None
    BY <2>1 DEF EntryInv, ClosersNoted, ClientsNoted
  <2>3. \A g \in Fronts : g # f => stage'[g] = stage[g]
    BY <2>1 DEF ProxyTypeOK
  <2>4. /\ \A p \in Ports : p # port[c] => answerMap'[p] = answerMap[p]
        /\ \A p \in Ports : answerMap'[p] \in {None, answerMap[p]}
        /\ \A p \in Ports : answerMap'[p] = None \/ c \notin named \/ p # port[c]
    BY <2>1 DEF ProxyTypeOK
  <2>5. c = f => \A p \in Ports : answerMap'[p] # f
    BY <2>4 DEF AnswersOwn, AnswersNamed
  <2>6. ClosersNoted' /\ ClientForgotten'
    BY <2>1, <2>3 DEF EntryInv, ClosersNoted, ClientForgotten
  <2>7. ClosedForgotten'
    <3>1. ASSUME NEW g \in Fronts, stage'[g] = "closed"
          PROVE  /\ \A k \in Keys : cliMap'[k] # g
                 /\ client'[g] = g => \A p \in Ports : answerMap'[p] # g
      <4>1. CASE g = f
        BY <2>1, <2>5, <4>1 DEF EntryInv, ClientForgotten
      <4>2. CASE g # f
        BY <2>1, <2>3, <2>4, <3>1, <4>2 DEF EntryInv, ClosedForgotten
      <4> QED
        BY <4>1, <4>2
    <3> QED
      BY <3>1 DEF ClosedForgotten
  <2> HIDE DEF c
  <2>8. ASSUME NEW g \in Fronts, Registered(g)', back'[g] = "open", closer'[g] = None,
               \A h \in Fronts \ {g} : port'[h] # port'[g]
        PROVE  answerMap'[port'[g]] = g
    <3>1. Registered(g)
      BY <2>1, <2>3, <2>8 DEF Registered
    <3>2. c # g /\ port[c] # port[g] /\ port[g] \in Ports
      BY <2>1, <2>2, <2>8 DEF Ported
    <3>3. answerMap[port[g]] = g
      BY <2>1, <2>8, <3>1 DEF EntryInv, AnswersFindFront
    <3> QED
      BY <2>1, <2>4, <3>2, <3>3
  <2> QED
    BY <2>6, <2>7, <2>8 DEF EntryInv, AnswersFindFront
<1> QED
  BY <1>1, <1>2, <1>3, <1>4

\* So do those of a back, which touch no map.
LEMMA EntryBack ==
  ASSUME ProxyInv, EntryInv, NEW f \in Fronts, BackEvent(f)
  PROVE  EntryInv'
<1>1. UNCHANGED <<stage, port, maps, client, closer>> /\ (back' = back \/ back' = [back EXCEPT ![f] = "closed"])
  BY DEF BackEvent, Answer, AnswerMissing, ServerCloses, BackCloses, channels, history
<1>2. \A g \in Fronts : back'[g] = "open" => back[g] = "open"
  BY <1>1 DEF ProxyInv, ProxyTypeOK
<1> QED
  BY <1>1, <1>2, EntryFrame DEF Registered

\* EntryInv is an invariant of the proxy.
LEMMA EntryInvCorrect == ProxySpec => []EntryInv
<1>1. ASSUME ProxyInv, EntryInv, [ProxyNext]_proxyVars
      PROVE  EntryInv'
  <2>1. CASE UNCHANGED proxyVars
    BY <1>1, <2>1, EntryFrame DEF proxyVars, channels, history, Registered
  <2>2. ASSUME NEW f \in Fronts, FrontStep(f) \/ FrontEvent(f) \/ BackEvent(f)
        PROVE  EntryInv'
    BY <1>1, <2>2, EntryActive, EntryClose, EntryBack DEF FrontStep, FrontEvent
  <2> QED
    BY <1>1, <2>1, <2>2 DEF ProxyNext
<1> QED
  BY <1>1, EntryInvInit, ProxyInvCorrect, PTL DEF ProxySpec

-----------------------------------------------------------------------------
(* The theorems. *)

\* Two fronts hear each other's answers only if their backs shared a local port
\* (createClient's answerMap.put and ClientHandle.channelRead).
THEOREM HomeCorrect == ProxySpec => []HomeUnlessPortShared
<1>1. ProxyInv => HomeUnlessPortShared
  BY DEF ProxyInv, HeardShared, HomeUnlessPortShared
<1> QED
  BY <1>1, ProxyInvCorrect, PTL

\* A front that nobody shares its address with is isolated (cliMap and closeClient).
THEOREM IsolatedCorrect == ProxySpec => []Isolated
<1>1. ASSUME ProxyInv, NEW f \in Fronts, Alone(f)
      PROVE  /\ closer[f] \in {None, f}
             /\ \A g \in Fronts \ {f} : cliMap[KeyOf[g]] # f /\ cliMap[KeyOf[f]] # g
             /\ At(f, "active") /\ back[f] # "none" => cliMap[KeyOf[f]] = f
  <2>1. closer[f] \in {None, f}
    BY <1>1 DEF ProxyInv, ProxyTypeOK, ClosersOwn, Alone
  <2>2. \A g \in Fronts \ {f} : cliMap[KeyOf[g]] # f /\ cliMap[KeyOf[f]] # g
    BY <1>1 DEF ProxyInv, KeysOwn, Alone
  <2>3. ASSUME At(f, "active"), back[f] # "none"
        PROVE  cliMap[KeyOf[f]] = f
    <3>1. \A g \in Fronts : KeyOf[g] = KeyOf[f] => stage[g] \notin {"forget", "closed"}
      BY <1>1, <2>3 DEF Alone, At
    <3>2. cliMap[KeyOf[f]] # None
      BY <1>1, <2>3, <3>1 DEF ProxyInv, EntryKept, At
    <3> QED
      BY <1>1, <3>2 DEF ProxyInv, ProxyTypeOK, KeysOwn, Alone
  <2> QED
    BY <2>1, <2>2, <2>3
<1>2. ProxyInv => Isolated
  BY <1>1 DEF Isolated
<1> QED
  BY <1>2, ProxyInvCorrect, PTL

\* The requests at an address find a back until a front of that address is closed
\* (createClient's cliMap.put and closeClient).
THEOREM RequestsFindCorrect == ProxySpec => []RequestsFindBack
<1>1. ProxyInv => RequestsFindBack
  BY DEF ProxyInv, EntryKept, RequestsFindBack
<1> QED
  BY <1>1, ProxyInvCorrect, PTL

\* The answers of an open back find its front, unless somebody closes that very back
\* or another back has its port (answerMap.put and answerMap.remove).
THEOREM AnswersFindCorrect == ProxySpec => []AnswersFindFront
BY EntryInvCorrect, PTL DEF EntryInv

\* A front that was closed for an exception is forgotten (closeClient).
THEOREM ForgottenCorrect == ProxySpec => []ClosedForgotten
BY EntryInvCorrect, PTL DEF EntryInv

\* Whatever the proxy does, it uses the scheduler as BalanceScheduler says: the
\* theorems about the scheduler hold of the proxy.
THEOREM UsesScheduler == ProxySpec => Spec
<1>1. ProxyInit => Init
  BY DEF ProxyInit
<1>2. ASSUME [ProxyNext]_proxyVars
      PROVE  [Next]_vars
  <2>1. CASE UNCHANGED proxyVars
    BY <2>1 DEF proxyVars, scheduler
  <2>2. ASSUME NEW f \in Fronts, FrontStep(f) \/ FrontEvent(f) \/ BackEvent(f)
        PROVE  [Next]_vars
    <3>1. CASE ChannelActive(f)
      BY <3>1 DEF ChannelActive, Next, Fronts
    <3>2. CASE Pick(f)
      BY <3>2 DEF Pick, Next, Step, Fronts
    <3>3. CASE \/ Connect(f) \/ ConnectFails(f) \/ PutClient(f) \/ PutAnswer(f)
               \/ ClientMissing(f) \/ CloseBack(f) \/ RemoveClient(f) \/ RemoveAnswer(f)
      BY <3>3 DEF Connect, ConnectFails, PutClient, PutAnswer, ClientMissing, CloseBack,
                  RemoveClient, RemoveAnswer, scheduler
    <3>4. CASE WrideMissing(f) \/ Breaks(f) \/ BackEvent(f)
      BY <3>4 DEF WrideMissing, Breaks, BackEvent, Answer, AnswerMissing, ServerCloses, BackCloses, scheduler
    <3> QED
      BY <2>2, <3>1, <3>2, <3>3, <3>4 DEF FrontStep, FrontEvent
  <2> QED
    BY <1>2, <2>1, <2>2 DEF ProxyNext
<1> QED
  BY <1>1, <1>2, PTL DEF ProxySpec, Spec
=============================================================================
