------------------------- MODULE DataBusStartProofs -------------------------
(***************************************************************************)
(* Theorems about DataBusStart for any processes, endpoints and services,  *)
(* any number of which may be killed.  All rest on StartInv: what a thread *)
(* is past tells what the other thread, or another process, has done.      *)
(***************************************************************************)
EXTENDS DataBusStart, TLAPS

USE EndpointAssumption, ConfigAssumption, NoneAssumption

-----------------------------------------------------------------------------
(* The inductive invariant. *)

\* An accept thread inside parper is preparing the worker.
ParperWorker == \A n \in Nodes : parper[n] # "idle" => "worker" \in toPrepare[n]

\* Connections are accepted once everything is prepared.
OpenedPrepared ==
  \A n \in Nodes : /\ n \in opened => toPrepare[n] = {}
                   /\ accept[n] = "accepting" => n \in opened

\* An endpoint was examined by a call, so connections were accepted.
ExaminedOpened == \A n \in Nodes : toExamine[n] # Endpoints[n] => n \in opened

\* start returns with nothing left to examine.
ReturnedExamined == \A n \in Nodes : main[n] = "returned" => toExamine[n] = {}

\* start throws when the accept thread is over, or when the time is up.
ThrewLate == \A n \in Nodes : main[n] = "threw" => n \in late \/ accept[n] = "stopped"

\* A prepared worker was configured by its service, which served.
WorkerServed ==
  \A n \in Nodes : "worker" \in Endpoints[n] \ toPrepare[n] => service[n] \in opened /\ service[n] \in confs

StartInv ==
  /\ TypeOK /\ ParperWorker /\ OpenedPrepared /\ ExaminedOpened
  /\ ReturnedExamined /\ ThrewLate /\ WorkerServed

\* It holds before any process begins.
LEMMA StartInvInit == Init => StartInv
<1> SUFFICES ASSUME Init PROVE StartInv
  OBVIOUS
<1>1. service \in [Nodes -> Nodes \cup {None}] /\ confs \subseteq Nodes
  BY DEF Init
<1>2. TypeOK
  BY <1>1 DEF Init, TypeOK
<1> QED
  BY <1>2 DEF Init, StartInv, ParperWorker, OpenedPrepared, ExaminedOpened,
              ReturnedExamined, ThrewLate, WorkerServed

-----------------------------------------------------------------------------
\* The steps of the main thread keep it, and its launch.
LEMMA MainKept ==
  ASSUME StartInv, NEW n \in Nodes, Launch(n) \/ MainStep(n)
  PROVE  StartInv'
<1> USE DEF StartInv, TypeOK, ParperWorker, OpenedPrepared, ExaminedOpened,
            ReturnedExamined, ThrewLate, WorkerServed, config, server, mains, Main
<1>1. CASE Launch(n)
  BY <1>1 DEF Launch
<1>2. CASE Examine(n)
  BY <1>2 DEF Examine
<1>3. CASE ExamineRefused(n)
  BY <1>3 DEF ExamineRefused
<1>4. CASE ExamineTimeout(n)
  BY <1>4 DEF ExamineTimeout
<1>5. CASE Examined(n)
  <2>1. n \in opened /\ main[n] = "examining"
    BY <1>5 DEF Examined
  <2> QED
    BY <1>5, <2>1 DEF Examined
<1>6. CASE ExamineFails(n)
  BY <1>6 DEF ExamineFails, Dies, Stops
<1>7. CASE StartReturns(n)
  BY <1>7 DEF StartReturns
<1> QED
  BY <1>1, <1>2, <1>3, <1>4, <1>5, <1>6, <1>7 DEF MainStep

\* So do those of the accept thread, and a kill.
LEMMA AcceptKept ==
  ASSUME StartInv, NEW n \in Nodes, Kill(n) \/ AcceptStep(n)
  PROVE  StartInv'
<1> USE DEF StartInv, TypeOK, ParperWorker, OpenedPrepared, ExaminedOpened,
            ReturnedExamined, ThrewLate, WorkerServed, config, mains, Preparing, Parper
<1>1. CASE Kill(n)
  BY <1>1 DEF Kill, Dies, Main, Stops
<1>2. CASE PrepareServer(n)
  BY <1>2 DEF PrepareServer, Prepared
<1>3. CASE ParperConnects(n)
  BY <1>3 DEF ParperConnects
<1>4. CASE ParperFails(n)
  BY <1>4 DEF ParperFails, Stops
<1>5. CASE Regist(n)
  BY <1>5 DEF Regist
<1>6. CASE AgentConf(n)
  <2>1. service[n] \in Nodes /\ service[n] \in opened /\ service[n] \in confs
    BY <1>6 DEF AgentConf, Answers
  <2> QED
    BY <1>6, <2>1 DEF AgentConf, Prepared
<1>7. CASE Accept(n)
  <2>1. parper[n] = "idle"
    BY <1>7 DEF Accept
  <2> QED
    BY <1>7, <2>1 DEF Accept
<1> QED
  BY <1>1, <1>2, <1>3, <1>4, <1>5, <1>6, <1>7 DEF AcceptStep

\* StartInv is an invariant of the start.
LEMMA StartInvCorrect == Spec => []StartInv
<1>1. ASSUME StartInv, [Next]_vars
      PROVE  StartInv'
  <2>1. CASE UNCHANGED vars
    BY <1>1, <2>1 DEF vars, config, mains, server, StartInv, TypeOK, ParperWorker, OpenedPrepared,
                      ExaminedOpened, ReturnedExamined, ThrewLate, WorkerServed
  <2>2. CASE Next
    BY <1>1, <2>2, MainKept, AcceptKept DEF Next
  <2> QED
    BY <1>1, <2>1, <2>2
<1> QED
  BY <1>1, StartInvInit, PTL DEF Spec

-----------------------------------------------------------------------------
(* The theorems. *)

\* The types of the state, and that a thread that is over waits for no call.
THEOREM TypeCorrect == Spec => []TypeOK
BY StartInvCorrect, PTL DEF StartInv

\* RpcEnv.start returns only when the process has served.
THEOREM StartedCorrect == Spec => []StartedServes
<1>1. StartInv => StartedServes
  BY DEF StartInv, ReturnedExamined, ExaminedOpened, OpenedPrepared, StartedServes
<1> QED
  BY <1>1, StartInvCorrect, PTL

\* A process whose start threw serves only if its own calls ran out of time
\* (RpcEnv.getClient's timeouts).
THEOREM UnstartedCorrect == Spec => []ServesUnstarted
<1>1. StartInv => ServesUnstarted
  BY DEF StartInv, ThrewLate, ServesUnstarted
<1> QED
  BY <1>1, StartInvCorrect, PTL

\* A worker begins to serve only after its service (WorkerEndpoint.parper).
THEOREM OpensCorrect == Spec => OpensAfterService
<1>1. ASSUME StartInv, [Next]_vars, NEW n \in opened' \ opened, "worker" \in Endpoints[n]
      PROVE  service[n] \in opened /\ service[n] \in confs
  <2>1. PICK m \in Nodes : Accept(m)
    BY <1>1 DEF vars, Next, Launch, Kill, Dies, MainStep, Examine, ExamineRefused, ExamineTimeout,
                Examined, ExamineFails, StartReturns, AcceptStep, PrepareServer, ParperConnects,
                ParperFails, Regist, AgentConf
  <2>2. n = m /\ toPrepare[m] = {}
    BY <1>1, <2>1 DEF Accept
  <2> QED
    BY <1>1, <2>2 DEF StartInv, WorkerServed
<1>2. StartInv /\ [Next]_vars
        => [\A n \in opened' \ opened :
              "worker" \in Endpoints[n] => service[n] \in opened /\ service[n] \in confs]_vars
  BY <1>1
<1> QED
  BY <1>2, StartInvCorrect, PTL DEF Spec, OpensAfterService
=============================================================================
