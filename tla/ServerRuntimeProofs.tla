------------------------ MODULE ServerRuntimeProofs ------------------------
(***************************************************************************)
(* Proofs about ServerRuntime for every set of workers, connections and    *)
(* addresses and every sequence of configurations.                         *)
(***************************************************************************)
EXTENDS ServerRuntime, FiniteSetTheorems, TLAPS

USE DEF world, signals, mainVars, published, control, loopVars, acceptVars

----------------------------------------------------------------------------
(* Type correctness.                                                       *)

LEMMA VacantType == Vacant \in Connection
  BY ConstantsAssumption
  DEF Vacant, NoTls, Connection, ConnStates, TlsContext, Versions, Certs

LEMMA CountersType ==
    ASSUME NEW s \in Counters, NEW ip \in Ips
    PROVE  open_connection(s, ip) \in Counters /\ close_connection(s, ip) \in Counters
  BY DEF Counters, open_connection, close_connection

LEMMA InitTypeOK == Init => TypeOK
  <1> SUFFICES ASSUME Init PROVE TypeOK
    OBVIOUS
  <1>1. 0 \in Versions /\ 0 \in Certs /\ 0 \in 0 .. PoolSize
    BY ConstantsAssumption DEF Versions, Certs
  <1>2. NoTls \in TlsContext
    BY <1>1 DEF NoTls, TlsContext
  <1>3. no_connections \in Counters
    BY DEF no_connections, Counters
  <1>4. conn \in [Conns -> Connection]
    BY VacantType DEF Init
  <1>5. QED
    BY <1>1, <1>2, <1>3, <1>4 DEF Init, TypeOK, MainSteps, WorkerSteps

LEMMA EnvironmentTypeOK == TypeOK /\ Environment => TypeOK'
  <1> SUFFICES ASSUME TypeOK, Environment PROVE TypeOK'
    OBVIOUS
  <1>1. CASE UpdateDatabase
    BY <1>1, ConstantsAssumption DEF TypeOK, UpdateDatabase, Versions
  <1>2. CASE RotateCertificate
    BY <1>2, ConstantsAssumption DEF TypeOK, RotateCertificate, Certs
  <1>3. CASE SendSighup
    BY <1>3 DEF TypeOK, SendSighup
  <1>4. CASE SendSigterm
    BY <1>4 DEF TypeOK, SendSigterm
  <1>5. ASSUME NEW w \in Workers, DeadlinePasses(w) PROVE TypeOK'
    BY <1>5 DEF TypeOK, DeadlinePasses
  <1>6. ASSUME NEW w \in Workers, NEW c \in Conns, Connect(c, w) PROVE TypeOK'
    <2>1. [Vacant EXCEPT !.st = "backlog", !.owner = w] \in Connection
      BY VacantType DEF Connection, ConnStates
    <2>2. QED
      BY <2>1, <1>6 DEF TypeOK, Connect
  <1>7. QED
    BY <1>1, <1>2, <1>3, <1>4, <1>5, <1>6 DEF Environment

LEMMA MainTypeOK == TypeOK /\ Main => TypeOK'
  <1> SUFFICES ASSUME TypeOK, Main PROVE TypeOK'
    OBVIOUS
  <1> USE ConstantsAssumption DEF TypeOK, MainGoto, MainSteps
  <1>1. CASE ZeroSignalFlags BY <1>1 DEF ZeroSignalFlags
  <1>2. CASE StartServing
    BY <1>2 DEF StartServing, NoTls, TlsContext, Versions, Certs, WorkerSteps
  <1>3. CASE TakeReload BY <1>3 DEF TakeReload
  <1>4. CASE NoReload BY <1>4 DEF NoReload
  <1>5. CASE LeaveLoop BY <1>5 DEF LeaveLoop
  <1>6. CASE LoadConfig BY <1>6 DEF LoadConfig
  <1>7. CASE PublishTls BY <1>7 DEF PublishTls, TlsContext
  <1>8. CASE BuildTlsFails BY <1>8 DEF BuildTlsFails
  <1>9. CASE PublishConfig BY <1>9 DEF PublishConfig
  <1>10. CASE BumpGeneration BY <1>10 DEF BumpGeneration
  <1>11. CASE RequestShutdown BY <1>11 DEF RequestShutdown
  <1>12. CASE Sleep BY <1>12 DEF Sleep
  <1>13. CASE JoinWorkers BY <1>13 DEF JoinWorkers
  <1>14. QED
    BY <1>1, <1>2, <1>3, <1>4, <1>5, <1>6, <1>7, <1>8, <1>9, <1>10, <1>11, <1>12,
       <1>13 DEF Main

\* The steps of a worker that only move its program counter.
WorkerMoves(w) ==
    \/ StartWorker(w) \/ StopDrained(w) \/ CloseAtDeadline(w) \/ EnterWait(w)
    \/ EpollReturns(w) \/ EpollInterrupted(w) \/ RefreshSkipped(w) \/ AcceptEnds(w)
    \/ HandleEnds(w) \/ ExpireEnds(w) \/ ReleaseEnds(w) \/ ReleaseExpiredEnds(w)
    \/ CloseAllEnds(w)

\* Everything but the program counters.
rest == <<world, signals, mainVars, published, control, security, loopVars,
          acceptVars, conn>>

(***************************************************************************)
(* Those steps leave everything else alone; no one of them goes to a       *)
(* step that holds an accepted connection or a generation that was read.   *)
(***************************************************************************)
LEMMA MovesKeepRest ==
    ASSUME TypeOK, NEW w \in Workers, WorkerMoves(w)
    PROVE  /\ UNCHANGED rest
           /\ \E l \in WorkerSteps \ {"admit", "open", "refreshing", "unborn", "starting"} :
                 pc' = [pc EXCEPT ![w] = l]
  BY DEF rest, WorkerMoves, StartWorker, StopDrained, CloseAtDeadline, EnterWait,
         EpollReturns, EpollInterrupted, RefreshSkipped, AcceptEnds, HandleEnds,
         ExpireEnds, ReleaseEnds, ReleaseExpiredEnds, CloseAllEnds, Goto,
         AfterRefresh, WorkerSteps

\* The steps of a worker, by what they change.
LEMMA WorkerCases ==
    ASSUME NEW w \in Workers, Worker(w)
    PROVE  \/ WorkerMoves(w) \/ BeginDraining(w) \/ RefreshBegins(w) \/ RefreshApplies(w)
           \/ WorkerFails(w)
           \/ \E c \in Conns :
                \/ AcceptClient(w, c) \/ Admit(w, c) \/ Reject(w, c)
                \/ OpenClient(w, c) \/ OpenFails(w, c) \/ ReleaseClient(w, c)
                \/ HandlerCloses(w, c) \/ TimeoutCloses(w, c)
  BY Zenon DEF Worker, WorkerStep, WorkerMoves

LEMMA DropType ==
    ASSUME TypeOK, NEW w \in Workers
    PROVE  WithoutBacklog(w) \in [Conns -> Connection]
  BY VacantType DEF TypeOK, WithoutBacklog

LEMMA WorkerTypeOK ==
    ASSUME TypeOK, NEW w \in Workers, Worker(w)
    PROVE  TypeOK'
  <1> USE DEF Goto
  <1>1. CASE WorkerMoves(w)
    BY <1>1, MovesKeepRest DEF TypeOK, rest
  <1>2. CASE BeginDraining(w)
    BY <1>2, DropType DEF TypeOK, BeginDraining
  <1>3. CASE RefreshBegins(w)
    BY <1>3 DEF TypeOK, RefreshBegins, WorkerSteps
  <1>4. CASE RefreshApplies(w)
    <2>1. conn' \in [Conns -> Connection]
      BY <1>4 DEF TypeOK, RefreshApplies, Connection
    <2>2. QED
      BY <1>4, <2>1 DEF TypeOK, RefreshApplies, AfterRefresh, WorkerSteps
  <1>5. CASE WorkerFails(w)
    <2>1. conn' \in [Conns -> Connection]
      BY <1>5, DropType, ZenonT(60) DEF TypeOK, WorkerFails, Connection, ConnStates
    <2>2. QED
      BY <1>5, <2>1 DEF TypeOK, WorkerFails, WorkerSteps
  <1>6. ASSUME NEW c \in Conns, AcceptClient(w, c) PROVE TypeOK'
    <2>1. conn' \in [Conns -> Connection]
      BY <1>6 DEF TypeOK, AcceptClient, Connection, ConnStates
    <2>2. QED
      BY <1>6, <2>1 DEF TypeOK, AcceptClient, WorkerSteps
  <1>7. ASSUME NEW c \in Conns, Admit(w, c) PROVE TypeOK'
    <2>1. conn' \in [Conns -> Connection]
      BY <1>7 DEF TypeOK, Admit, Connection, ConnStates
    <2>2. security' \in Counters
      BY <1>7, CountersType, ConstantsAssumption DEF TypeOK, Admit
    <2>3. QED
      BY <1>7, <2>1, <2>2 DEF TypeOK, Admit, WorkerSteps
  <1>8. ASSUME NEW c \in Conns, Reject(w, c) PROVE TypeOK'
    BY <1>8, VacantType, ConstantsAssumption DEF TypeOK, Reject, WorkerSteps, Versions
  <1>9. ASSUME NEW c \in Conns, OpenClient(w, c) PROVE TypeOK'
    <2>1. conn' \in [Conns -> Connection]
      BY <1>9 DEF TypeOK, OpenClient, Connection, ConnStates
    <2>2. pool' \in [Workers -> 0 .. PoolSize] /\ snapshot' \in [Workers -> Versions]
      BY <1>9, ConstantsAssumption DEF TypeOK, OpenClient, acquire, Versions
    <2>3. QED
      BY <1>9, <2>1, <2>2 DEF TypeOK, OpenClient, WorkerSteps
  <1>10. ASSUME NEW c \in Conns, OpenFails(w, c) PROVE TypeOK'
    <2>1. conn' \in [Conns -> Connection]
      BY <1>10, VacantType DEF TypeOK, OpenFails
    <2>2. pool' \in [Workers -> 0 .. PoolSize] /\ snapshot' \in [Workers -> Versions]
      BY <1>10, ConstantsAssumption DEF TypeOK, OpenFails, acquire, release, Versions
    <2>3. security' \in Counters
      BY <1>10, CountersType, ConstantsAssumption DEF TypeOK, OpenFails
    <2>4. QED
      BY <1>10, <2>1, <2>2, <2>3 DEF TypeOK, OpenFails, WorkerSteps
  <1>11. ASSUME NEW c \in Conns, ReleaseClient(w, c) PROVE TypeOK'
    <2>1. conn' \in [Conns -> Connection]
      BY <1>11, VacantType DEF TypeOK, ReleaseClient
    <2>2. pool' \in [Workers -> 0 .. PoolSize]
      BY <1>11, ConstantsAssumption DEF TypeOK, ReleaseClient, release
    <2>3. security' \in Counters
      BY <1>11, CountersType, ConstantsAssumption DEF TypeOK, ReleaseClient
    <2>4. QED
      BY <1>11, <2>1, <2>2, <2>3 DEF TypeOK, ReleaseClient
  <1>12. ASSUME NEW c \in Conns, HandlerCloses(w, c) \/ TimeoutCloses(w, c) PROVE TypeOK'
    <2>1. conn' \in [Conns -> Connection]
      BY <1>12 DEF TypeOK, HandlerCloses, TimeoutCloses, Connection, ConnStates
    <2>2. QED
      BY <1>12, <2>1 DEF TypeOK, HandlerCloses, TimeoutCloses
  <1>13. QED
    BY <1>1, <1>2, <1>3, <1>4, <1>5, <1>6, <1>7, <1>8, <1>9, <1>10, <1>11, <1>12,
       WorkerCases

\* Every variable keeps its type (no counter of SecurityState below zero, no
\* pool beyond connection_pool_size).
THEOREM TypeCorrect == Safety => []TypeOK
  <1>1. TypeOK /\ [Next]_vars => TypeOK'
    <2> SUFFICES ASSUME TypeOK, [Next]_vars PROVE TypeOK'
      OBVIOUS
    <2>1. CASE UNCHANGED vars
      BY <2>1 DEF vars, TypeOK
    <2>2. QED
      BY <2>1, MainTypeOK, WorkerTypeOK, EnvironmentTypeOK DEF Next, Terminated
  <1>2. QED
    BY InitTypeOK, <1>1, PTL DEF Safety

----------------------------------------------------------------------------
(* The counters of SecurityState.                                          *)

LEMMA CountedFinite ==
    /\ IsFiniteSet(Counted)
    /\ \A ip \in Ips : IsFiniteSet(CountedFrom(ip))
  BY ConstantsAssumption, FS_Subset DEF Counted, CountedFrom

\* How a step may change the set of counted connections.
CountKept == security' = security /\ Counted' = Counted
CountUp(c) == /\ security' = open_connection(security, IpOf[c])
              /\ c \notin Counted /\ Counted' = Counted \cup {c}
CountDown(c) == /\ security' = close_connection(security, IpOf[c])
                /\ c \in Counted /\ Counted' = Counted \ {c}

\* A step of the server counts one connection, gives one back, or does neither.
LEMMA CountCases ==
    ASSUME TypeOK, [Next]_vars
    PROVE  \/ CountKept
           \/ \E w \in Workers, c \in Conns : Admit(w, c) /\ CountUp(c)
           \/ \E c \in Conns : CountDown(c)
  <1>1. CASE Main
    BY <1>1 DEF Main, ZeroSignalFlags, StartServing, TakeReload, NoReload, LeaveLoop,
                LoadConfig, PublishTls, BuildTlsFails, PublishConfig, BumpGeneration,
                RequestShutdown, Sleep, JoinWorkers, CountKept, Counted
  <1>2. CASE Environment
    <2>1. ASSUME NEW w \in Workers, NEW c \in Conns, Connect(c, w) PROVE CountKept
      BY <2>1 DEF Connect, CountKept, Counted, Vacant, TypeOK, Connection
    <2>2. QED
      BY <1>2, <2>1 DEF Environment, UpdateDatabase, RotateCertificate, SendSighup,
                        SendSigterm, DeadlinePasses, CountKept, Counted
  <1>3. ASSUME NEW w \in Workers, Worker(w)
        PROVE  \/ CountKept
               \/ \E c \in Conns : Admit(w, c) /\ CountUp(c)
               \/ \E c \in Conns : CountDown(c)
    <2>1. CASE WorkerMoves(w)
      BY <2>1, MovesKeepRest DEF rest, CountKept, Counted
    <2>2. CASE BeginDraining(w)
      BY <2>2 DEF BeginDraining, WithoutBacklog, Vacant, CountKept, Counted
    <2>3. CASE RefreshBegins(w)
      BY <2>3 DEF RefreshBegins, CountKept, Counted
    <2>4. CASE RefreshApplies(w)
      BY <2>4 DEF RefreshApplies, CountKept, Counted, TypeOK, Connection
    <2>5. CASE WorkerFails(w)
      BY <2>5 DEF WorkerFails, WithoutBacklog, clients_, Vacant, CountKept, Counted,
                  TypeOK, Connection
    <2>6. ASSUME NEW c \in Conns, AcceptClient(w, c) PROVE CountKept
      BY <2>6 DEF AcceptClient, CountKept, Counted, TypeOK, Connection
    <2>7. ASSUME NEW c \in Conns, Admit(w, c) PROVE CountUp(c)
      BY <2>7 DEF Admit, CountUp, Counted, TypeOK, Connection
    <2>8. ASSUME NEW c \in Conns, Reject(w, c) PROVE CountKept
      BY <2>8 DEF Reject, CountKept, Counted, Vacant, TypeOK, Connection
    <2>9. ASSUME NEW c \in Conns, OpenClient(w, c) PROVE CountKept
      BY <2>9 DEF OpenClient, CountKept, Counted, TypeOK, Connection
    <2>10. ASSUME NEW c \in Conns, OpenFails(w, c) PROVE CountDown(c)
      BY <2>10 DEF OpenFails, CountDown, Counted, Vacant, TypeOK, Connection
    <2>11. ASSUME NEW c \in Conns, ReleaseClient(w, c) PROVE CountDown(c)
      BY <2>11 DEF ReleaseClient, CountDown, Counted, Vacant, TypeOK, Connection
    <2>12. ASSUME NEW c \in Conns, HandlerCloses(w, c) \/ TimeoutCloses(w, c)
           PROVE  CountKept
      BY <2>12 DEF HandlerCloses, TimeoutCloses, CountKept, Counted, TypeOK, Connection
    <2>13. QED
      BY <1>3, <2>1, <2>2, <2>3, <2>4, <2>5, <2>6, <2>7, <2>8, <2>9, <2>10, <2>11,
         <2>12, WorkerCases
  <1>4. CASE UNCHANGED vars
    BY <1>4 DEF vars, CountKept, Counted
  <1>5. QED
    BY <1>1, <1>2, <1>3, <1>4 DEF Next, Terminated

LEMMA CountUpExact ==
    ASSUME TypeOK, CountersExact, NEW c \in Conns, CountUp(c)
    PROVE  CountersExact'
  <1> DEFINE ip0 == IpOf[c]
  <1>0. ip0 \in Ips
    BY ConstantsAssumption
  <1>1. security'.total = Cardinality(Counted')
    <2>1. Cardinality(Counted') = Cardinality(Counted) + 1
      BY CountedFinite, FS_AddElement DEF CountUp
    <2>2. QED
      BY <2>1 DEF CountersExact, CountUp, open_connection
  <1>2. ASSUME NEW ip \in Ips
        PROVE  security'.by_ip[ip] = Cardinality(CountedFrom(ip)')
    <2>1. CASE ip = ip0
      <3>1. CountedFrom(ip)' = CountedFrom(ip) \cup {c} /\ c \notin CountedFrom(ip)
        BY <2>1 DEF CountUp, CountedFrom
      <3>2. Cardinality(CountedFrom(ip)') = Cardinality(CountedFrom(ip)) + 1
        BY <3>1, CountedFinite, FS_AddElement
      <3>3. QED
        BY <2>1, <3>2 DEF CountersExact, CountUp, open_connection, TypeOK, Counters
    <2>2. CASE ip # ip0
      <3>1. CountedFrom(ip)' = CountedFrom(ip)
        BY <2>2 DEF CountUp, CountedFrom
      <3>2. QED
        BY <2>2, <3>1 DEF CountersExact, CountUp, open_connection, TypeOK, Counters
    <2>3. QED
      BY <2>1, <2>2
  <1>3. QED
    BY <1>1, <1>2 DEF CountersExact

LEMMA CountDownExact ==
    ASSUME TypeOK, CountersExact, NEW c \in Conns, CountDown(c)
    PROVE  CountersExact'
  <1> DEFINE ip0 == IpOf[c]
  <1>0. ip0 \in Ips
    BY ConstantsAssumption
  <1>1. security'.total = Cardinality(Counted')
    <2>1. Cardinality(Counted') = Cardinality(Counted) - 1 /\ Cardinality(Counted) \in Nat
      BY CountedFinite, FS_RemoveElement, FS_CardinalityType DEF CountDown
    <2>2. Cardinality(Counted) # 0
      BY CountedFinite, FS_EmptySet DEF CountDown
    <2>3. QED
      BY <2>1, <2>2 DEF CountersExact, CountDown, close_connection
  <1>2. ASSUME NEW ip \in Ips
        PROVE  security'.by_ip[ip] = Cardinality(CountedFrom(ip)')
    <2>1. CASE ip = ip0
      <3>1. CountedFrom(ip)' = CountedFrom(ip) \ {c} /\ c \in CountedFrom(ip)
        BY <2>1 DEF CountDown, CountedFrom
      <3>2. /\ Cardinality(CountedFrom(ip)') = Cardinality(CountedFrom(ip)) - 1
            /\ Cardinality(CountedFrom(ip)) \in Nat
        BY <3>1, CountedFinite, FS_RemoveElement, FS_CardinalityType
      <3>3. Cardinality(CountedFrom(ip)) # 0
        BY <3>1, CountedFinite, FS_EmptySet
      <3>4. QED
        BY <2>1, <3>2, <3>3 DEF CountersExact, CountDown, close_connection, TypeOK, Counters
    <2>2. CASE ip # ip0
      <3>1. CountedFrom(ip)' = CountedFrom(ip)
        BY <2>2 DEF CountDown, CountedFrom
      <3>2. QED
        BY <2>2, <3>1 DEF CountersExact, CountDown, close_connection, TypeOK, Counters
    <2>3. QED
      BY <2>1, <2>2
  <1>3. QED
    BY <1>1, <1>2 DEF CountersExact

\* The counters of SecurityState count exactly the admitted connections that
\* have not been given back.
THEOREM CountersAreExact == Safety => []CountersExact
  <1>1. Init => CountersExact
    <2> SUFFICES ASSUME Init PROVE CountersExact
      OBVIOUS
    <2>1. Counted = {} /\ \A ip \in Ips : CountedFrom(ip) = {}
      BY DEF Init, Vacant, Counted, CountedFrom
    <2>2. QED
      BY <2>1, FS_EmptySet DEF Init, CountersExact, no_connections
  <1>2. TypeOK /\ CountersExact /\ [Next]_vars => CountersExact'
    <2> SUFFICES ASSUME TypeOK, CountersExact, [Next]_vars PROVE CountersExact'
      OBVIOUS
    <2>1. CASE CountKept
      BY <2>1 DEF CountKept, CountersExact, CountedFrom
    <2>2. QED
      BY <2>1, CountCases, CountUpExact, CountDownExact
  <1>3. QED
    BY <1>1, <1>2, TypeCorrect, PTL DEF Safety

\* The connection limits hold for every number of workers.
THEOREM LimitsAreRespected == Safety => []LimitsRespected
  <1>1. Init => LimitsRespected
    BY DEF Init, Vacant, Counted, CountedFrom, LimitsRespected
  <1>2. TypeOK /\ CountersExact /\ LimitsRespected /\ [Next]_vars => LimitsRespected'
    <2> SUFFICES ASSUME TypeOK, CountersExact, LimitsRespected, [Next]_vars
                 PROVE  LimitsRespected'
      OBVIOUS
    <2>0. \A v \in Versions : /\ Config[v].global_connection_limit \in Nat
                              /\ Config[v].per_ip_connection_limit \in Nat
      BY ConstantsAssumption DEF ConfigType
    <2>1. CASE CountKept
      BY <2>1 DEF CountKept, LimitsRespected, CountedFrom
    <2>2. ASSUME NEW w \in Workers, NEW c \in Conns, Admit(w, c), CountUp(c)
          PROVE  LimitsRespected'
      <3> DEFINE v0 == snapshot[w]
      <3>1. v0 \in Versions /\ admits(security, IpOf[c], Config[v0])
        BY <2>2 DEF TypeOK, Admit
      <3>2. Cardinality(Counted') <= Config[v0].global_connection_limit
        <4>1. Cardinality(Counted') = Cardinality(Counted) + 1
          BY <2>2, CountedFinite, FS_AddElement DEF CountUp
        <4>2. QED
          BY <3>1, <4>1, <2>0 DEF admits, CountersExact, TypeOK, Counters
      <3>3. ASSUME NEW ip \in Ips, CountedFrom(ip)' # {}
            PROVE  \E v \in Versions :
                      Cardinality(CountedFrom(ip)') <= Config[v].per_ip_connection_limit
        <4>1. CASE ip = IpOf[c]
          <5>1. CountedFrom(ip)' = CountedFrom(ip) \cup {c} /\ c \notin CountedFrom(ip)
            BY <2>2, <4>1 DEF CountUp, CountedFrom
          <5>2. Cardinality(CountedFrom(ip)') = Cardinality(CountedFrom(ip)) + 1
            BY <5>1, CountedFinite, FS_AddElement
          <5>3. QED
            BY <3>1, <4>1, <5>2, <2>0 DEF admits, CountersExact, TypeOK, Counters
        <4>2. CASE ip # IpOf[c]
          <5>1. CountedFrom(ip)' = CountedFrom(ip)
            BY <2>2, <4>2 DEF CountUp, CountedFrom
          <5>2. QED
            BY <3>3, <5>1 DEF LimitsRespected
        <4>3. QED
          BY <4>1, <4>2
      <3>4. QED
        BY <3>1, <3>2, <3>3 DEF LimitsRespected
    <2>3. ASSUME NEW c \in Conns, CountDown(c) PROVE LimitsRespected'
      <3>1. /\ Counted' # {} => Counted # {}
            /\ Cardinality(Counted') <= Cardinality(Counted)
            /\ Cardinality(Counted) \in Nat /\ Cardinality(Counted') \in Nat
        BY <2>3, CountedFinite, FS_Subset, FS_CardinalityType DEF CountDown
      <3>2. ASSUME NEW ip \in Ips
            PROVE  /\ CountedFrom(ip)' # {} => CountedFrom(ip) # {}
                   /\ Cardinality(CountedFrom(ip)') <= Cardinality(CountedFrom(ip))
                   /\ Cardinality(CountedFrom(ip)) \in Nat
                   /\ Cardinality(CountedFrom(ip)') \in Nat
        <4>1. CountedFrom(ip)' \subseteq CountedFrom(ip)
          BY <2>3 DEF CountDown, CountedFrom
        <4>2. QED
          BY <4>1, CountedFinite, FS_Subset, FS_CardinalityType
      <3>3. Counted' # {} =>
              \E v \in Versions : Cardinality(Counted') <= Config[v].global_connection_limit
        BY <3>1, <2>0 DEF LimitsRespected
      <3>4. ASSUME NEW ip \in Ips, CountedFrom(ip)' # {}
            PROVE  \E v \in Versions :
                      Cardinality(CountedFrom(ip)') <= Config[v].per_ip_connection_limit
        BY <3>2, <3>4, <2>0 DEF LimitsRespected
      <3>5. QED
        BY <3>3, <3>4 DEF LimitsRespected
    <2>4. QED
      BY <2>1, <2>2, <2>3, CountCases
  <1>3. QED
    BY <1>1, <1>2, TypeCorrect, CountersAreExact, PTL DEF Safety

----------------------------------------------------------------------------
(* Publishing and noticing a configuration.                                *)

(***************************************************************************)
(* The generations a worker holds are not ahead of the published one, and  *)
(* a worker that is up to date holds the live configuration in its accept  *)
(* loop as well: without this, StaleClientsNoticed is not inductive,       *)
(* because OpenClient turns the snapshot into a client's configuration.    *)
(***************************************************************************)
GenerationInv ==
    \A w \in Workers :
       /\ config_generation[w] <= generation
       /\ seen[w] <= generation
       /\ (config_generation[w] = generation /\ main # "bump")
             => /\ \A c \in clients_(w) : conn[c].cfg = live_config
                /\ pc[w] \in {"admit", "open"} => snapshot[w] = live_config

(***************************************************************************)
(* What the main thread knows at each of its steps about the               *)
(* configuration and the TLS context it has published.                     *)
(***************************************************************************)
ReloadInv ==
    /\ config_ <= db /\ loaded <= db
    /\ Config[config_].valid /\ Config[config_].pinned = Config[0].pinned
    /\ main \notin {"install", "boot"} => live_config = config_
    /\ main \in {"tls", "publish"} => config_ <= loaded
    /\ main \in {"tls", "publish"} =>
         Config[loaded].valid /\ Config[loaded].pinned = Config[config_].pinned
    /\ main = "tls" => Config[loaded].tls # Config[config_].tls
    /\ TlsEnabled /\ main \notin {"install", "boot", "publish"}
          => Config[live_tls.ver].tls = Config[config_].tls
    /\ TlsEnabled /\ main = "publish"
          => /\ Config[live_tls.ver].tls = Config[loaded].tls
             /\ TlsCovers(live_tls, config_)

\* The accept loop of a worker holds no configuration newer than its TLS context.
SnapshotInv ==
    /\ \A w \in Workers : pc[w] \in {"admit", "open"} =>
          /\ snapshot[w] <= config_
          /\ TlsEnabled => TlsCovers(live_tls, snapshot[w])
    /\ main \in {"install", "boot"} => \A w \in Workers : pc[w] = "unborn"

(***************************************************************************)
(* Which worker owns a connection, and where that worker is.               *)
(***************************************************************************)
InHand(c) == conn[c].st \in {"accepted", "admitted"}

HeldByOwner(c) ==
    /\ conn[c].st # "idle" => conn[c].owner \in Workers
    /\ conn[c].st = "backlog" => Listening(conn[c].owner)
    /\ conn[c].st = "accepted" => pc[conn[c].owner] = "admit"
    /\ conn[c].st = "admitted" => pc[conn[c].owner] = "open"
    /\ conn[c].st \in {"open", "closed"} =>
         pc[conn[c].owner] \notin {"unborn", "starting", "stopped", "failed"}
    /\ conn[c].st = "leaked" => pc[conn[c].owner] = "failed"

OneInHand ==
    \A c, d \in Conns : InHand(c) /\ InHand(d) /\ conn[c].owner = conn[d].owner => c = d

LoopInv ==
    /\ \A w \in Workers :
         /\ pc[w] = "closing" => draining[w]
         /\ pc[w] = "failed" => worker_failed
    /\ main \in {"install", "boot"} => \A w \in Workers : pc[w] = "unborn"
    /\ main = "done" => \A w \in Workers : pc[w] \in {"stopped", "failed"}

OwnerInv == (\A c \in Conns : HeldByOwner(c)) /\ OneInHand /\ LoopInv

\* A worker writes nothing the main thread decides by, except shutdown_requested.
LEMMA WorkerKeepsMain ==
    ASSUME NEW w \in Workers, Worker(w)
    PROVE  UNCHANGED <<world, signals, mainVars, published>>
  BY DEF Worker, WorkerStep, StartWorker, BeginDraining, StopDrained, CloseAtDeadline,
         EnterWait, EpollReturns, RefreshSkipped, RefreshBegins, RefreshApplies,
         AcceptEnds, HandleEnds, ExpireEnds, ReleaseEnds, ReleaseExpiredEnds,
         CloseAllEnds, AcceptClient, Admit, Reject, OpenClient, OpenFails,
         ReleaseClient, EpollInterrupted, WorkerFails, HandlerCloses, TimeoutCloses

\* The environment writes the database, the certificate files and the flags.
LEMMA EnvironmentKeepsMain ==
    ASSUME Environment
    PROVE  UNCHANGED <<mainVars, published, control, security, pc, acceptVars,
                       config_generation, seen, draining>>
  BY DEF Environment, UpdateDatabase, RotateCertificate, SendSighup, SendSigterm,
         DeadlinePasses, Connect

LEMMA DatabaseGrows ==
    ASSUME TypeOK, Environment
    PROVE  db' \in Nat /\ db <= db'
  <1>1. db \in Nat
    BY ConstantsAssumption DEF TypeOK, Versions
  <1>2. db' = db \/ db' = db + 1
    BY DEF Environment, UpdateDatabase, RotateCertificate, SendSighup, SendSigterm,
           DeadlinePasses, Connect
  <1>3. QED
    BY <1>1, <1>2

LEMMA ReloadInvInit == Init => ReloadInv
  BY ConstantsAssumption DEF Init, ReloadInv

LEMMA ReloadInvStep ==
    ASSUME TypeOK, ReloadInv, [Next]_vars
    PROVE  ReloadInv'
  <1>0. /\ db \in Nat /\ config_ \in Nat /\ loaded \in Nat /\ live_tls.ver \in Nat
    BY ConstantsAssumption DEF TypeOK, Versions, TlsContext
  <1>1. CASE Main
    <2> USE <1>0 DEF ReloadInv, MainGoto, TlsCovers
    <2>1. CASE ZeroSignalFlags BY <2>1 DEF ZeroSignalFlags
    <2>2. CASE StartServing BY <2>2 DEF StartServing
    <2>3. CASE TakeReload BY <2>3 DEF TakeReload
    <2>4. CASE NoReload BY <2>4 DEF NoReload
    <2>5. CASE LeaveLoop BY <2>5 DEF LeaveLoop
    <2>6. CASE LoadConfig
      BY <2>6 DEF LoadConfig, loads, live_reload_blocked, tls_runtime_settings_changed
    <2>7. CASE PublishTls
      <3>1. live_tls'.ver = loaded /\ config_ < loaded
        BY <2>7 DEF PublishTls
      <3>2. QED
        BY <2>7, <3>1 DEF PublishTls
    <2>8. CASE BuildTlsFails BY <2>8 DEF BuildTlsFails
    <2>9. CASE PublishConfig BY <2>9 DEF PublishConfig
    <2>10. CASE BumpGeneration BY <2>10 DEF BumpGeneration
    <2>11. CASE RequestShutdown BY <2>11 DEF RequestShutdown
    <2>12. CASE Sleep BY <2>12 DEF Sleep
    <2>13. CASE JoinWorkers BY <2>13 DEF JoinWorkers
    <2>14. QED
      BY <1>1, <2>1, <2>2, <2>3, <2>4, <2>5, <2>6, <2>7, <2>8, <2>9, <2>10, <2>11,
         <2>12, <2>13 DEF Main
  <1>2. ASSUME NEW w \in Workers, Worker(w) PROVE ReloadInv'
    BY <1>2, WorkerKeepsMain DEF ReloadInv, TlsCovers
  <1>3. CASE Environment
    BY <1>0, <1>3, EnvironmentKeepsMain, DatabaseGrows DEF ReloadInv, TlsCovers
  <1>4. CASE UNCHANGED vars
    BY <1>4 DEF vars, ReloadInv, TlsCovers
  <1>5. QED
    BY <1>1, <1>2, <1>3, <1>4 DEF Next, Terminated

LEMMA ReloadInvHolds == Safety => []ReloadInv
  <1>1. TypeOK /\ ReloadInv /\ [Next]_vars => ReloadInv'
    BY ReloadInvStep
  <1>2. QED
    BY <1>1, ReloadInvInit, TypeCorrect, PTL DEF Safety

\* A live reload is all or nothing, whatever fails in it: what is in force loads,
\* changes no key that needs a restart, and has the TLS context it asks for.
THEOREM ReloadIsAllOrNothing == Safety => []ReloadAllOrNothing
  <1>1. ReloadInv => ReloadAllOrNothing
    BY DEF ReloadInv, ReloadAllOrNothing
  <1>2. QED
    BY <1>1, ReloadInvHolds, PTL

LEMMA SnapshotInvInit == Init => SnapshotInv
  BY DEF Init, SnapshotInv

\* A worker step writes the snapshot only with the live configuration.
LEMMA WorkerSnapshot ==
    ASSUME TypeOK, NEW w \in Workers, Worker(w), NEW u \in Workers,
           pc'[u] \in {"admit", "open"}
    PROVE  \/ pc[u] \in {"admit", "open"} /\ snapshot'[u] = snapshot[u]
           \/ pc[u] = "accept" /\ snapshot'[u] = live_config
  <1> USE DEF Goto, TypeOK
  <1>1. CASE WorkerMoves(w)
    BY <1>1, MovesKeepRest DEF rest
  <1>2. CASE BeginDraining(w) BY <1>2 DEF BeginDraining
  <1>3. CASE RefreshBegins(w) BY <1>3 DEF RefreshBegins
  <1>4. CASE RefreshApplies(w) BY <1>4 DEF RefreshApplies, AfterRefresh
  <1>5. CASE WorkerFails(w) BY <1>5 DEF WorkerFails
  <1>6. ASSUME NEW c \in Conns,
               \/ AcceptClient(w, c) \/ Admit(w, c) \/ Reject(w, c)
               \/ OpenClient(w, c) \/ OpenFails(w, c) \/ ReleaseClient(w, c)
               \/ HandlerCloses(w, c) \/ TimeoutCloses(w, c)
        PROVE  \/ pc[u] \in {"admit", "open"} /\ snapshot'[u] = snapshot[u]
               \/ pc[u] = "accept" /\ snapshot'[u] = live_config
    BY <1>6 DEF AcceptClient, Admit, Reject, OpenClient, OpenFails, ReleaseClient,
                HandlerCloses, TimeoutCloses
  <1>7. QED
    BY <1>1, <1>2, <1>3, <1>4, <1>5, <1>6, WorkerCases

\* No worker step starts or restarts a thread.
LEMMA WorkerBorn ==
    ASSUME TypeOK, NEW w \in Workers, Worker(w)
    PROVE  pc[w] # "unborn"
  BY DEF Worker, WorkerStep, Goto, StartWorker, BeginDraining, StopDrained,
         CloseAtDeadline, EnterWait, EpollReturns, RefreshSkipped, RefreshBegins,
         RefreshApplies, AcceptEnds, HandleEnds, ExpireEnds, ReleaseEnds,
         ReleaseExpiredEnds, CloseAllEnds, AcceptClient, Admit, Reject, OpenClient,
         OpenFails, ReleaseClient, EpollInterrupted, WorkerFails, HandlerCloses,
         TimeoutCloses

LEMMA SnapshotInvStep ==
    ASSUME TypeOK, ReloadInv, SnapshotInv, [Next]_vars
    PROVE  SnapshotInv'
  <1>0. /\ db \in Nat /\ config_ \in Nat /\ loaded \in Nat /\ live_tls.ver \in Nat
        /\ live_config \in Nat /\ \A w \in Workers : snapshot[w] \in Nat
    BY ConstantsAssumption DEF TypeOK, Versions, TlsContext
  <1>1. CASE Main
    <2> USE <1>0 DEF SnapshotInv, MainGoto
    <2>1. CASE ZeroSignalFlags BY <2>1 DEF ZeroSignalFlags, TlsCovers
    <2>2. CASE StartServing BY <2>2 DEF StartServing
    <2>3. CASE TakeReload BY <2>3 DEF TakeReload, TlsCovers
    <2>4. CASE NoReload BY <2>4 DEF NoReload, TlsCovers
    <2>5. CASE LeaveLoop BY <2>5 DEF LeaveLoop, TlsCovers
    <2>6. CASE LoadConfig BY <2>6 DEF LoadConfig, TlsCovers
    <2>7. CASE PublishTls
      <3>1. live_tls'.ver = loaded /\ config_ < loaded
        BY <2>7 DEF PublishTls, ReloadInv
      <3>2. QED
        BY <2>7, <3>1 DEF PublishTls, TlsCovers
    <2>8. CASE BuildTlsFails BY <2>8 DEF BuildTlsFails, TlsCovers
    <2>9. CASE PublishConfig BY <2>9 DEF PublishConfig, TlsCovers, ReloadInv
    <2>10. CASE BumpGeneration BY <2>10 DEF BumpGeneration, TlsCovers
    <2>11. CASE RequestShutdown BY <2>11 DEF RequestShutdown, TlsCovers
    <2>12. CASE Sleep BY <2>12 DEF Sleep, TlsCovers
    <2>13. CASE JoinWorkers BY <2>13 DEF JoinWorkers, TlsCovers
    <2>14. QED
      BY <1>1, <2>1, <2>2, <2>3, <2>4, <2>5, <2>6, <2>7, <2>8, <2>9, <2>10, <2>11,
         <2>12, <2>13 DEF Main
  <1>2. ASSUME NEW w \in Workers, Worker(w) PROVE SnapshotInv'
    <2>0. main \notin {"install", "boot"}
      BY <1>2, WorkerBorn DEF SnapshotInv
    <2>1. live_config = config_ /\ (TlsEnabled => TlsCovers(live_tls, config_))
      BY <2>0 DEF ReloadInv, TlsCovers
    <2>2. UNCHANGED <<main, config_, live_config, live_tls>>
      BY <1>2, WorkerKeepsMain
    <2>3. ASSUME NEW u \in Workers, pc'[u] \in {"admit", "open"}
          PROVE  /\ snapshot'[u] <= config_
                 /\ TlsEnabled => TlsCovers(live_tls, snapshot'[u])
      BY <1>0, <1>2, <2>1, <2>3, WorkerSnapshot DEF SnapshotInv
    <2>4. QED
      BY <2>0, <2>2, <2>3 DEF SnapshotInv, TlsCovers
  <1>3. CASE Environment
    BY <1>3, EnvironmentKeepsMain DEF SnapshotInv, TlsCovers
  <1>4. CASE UNCHANGED vars
    BY <1>4 DEF vars, SnapshotInv, TlsCovers
  <1>5. QED
    BY <1>1, <1>2, <1>3, <1>4 DEF Next, Terminated

LEMMA SnapshotInvHolds == Safety => []SnapshotInv
  <1>1. TypeOK /\ ReloadInv /\ SnapshotInv /\ [Next]_vars => SnapshotInv'
    BY SnapshotInvStep
  <1>2. QED
    BY <1>1, SnapshotInvInit, ReloadInvHolds, TypeCorrect, PTL DEF Safety

\* Although the accept loop reads them at different times, a connection never
\* starts with a TLS context older than its configuration.
THEOREM TlsIsNotOlderThanConfig == Safety => TlsNotOlderThanConfig
  <1>1. TypeOK /\ SnapshotInv /\ [Next]_vars
          => [\A c \in Conns :
                (TlsEnabled /\ conn[c].st = "admitted" /\ conn'[c].st = "open")
                   => TlsCovers(conn'[c].tls, conn'[c].cfg)]_vars
    <2> SUFFICES ASSUME TypeOK, SnapshotInv, [Next]_vars, TlsEnabled,
                        NEW c \in Conns, conn[c].st = "admitted", conn'[c].st = "open"
                 PROVE  TlsCovers(conn'[c].tls, conn'[c].cfg)
      OBVIOUS
    <2>1. PICK w \in Workers : OpenClient(w, c)
      <3>1. ~Main /\ ~UNCHANGED vars
        BY DEF vars, Main, ZeroSignalFlags, StartServing, TakeReload, NoReload, LeaveLoop,
               LoadConfig, PublishTls, BuildTlsFails, PublishConfig, BumpGeneration,
               RequestShutdown, Sleep, JoinWorkers
      <3>2. ~Environment
        BY DEF Environment, UpdateDatabase, RotateCertificate, SendSighup, SendSigterm,
               DeadlinePasses, Connect, TypeOK, Vacant
      <3>3. ASSUME NEW w \in Workers, Worker(w) PROVE OpenClient(w, c)
        <4>1. ~WorkerMoves(w)
          BY MovesKeepRest DEF rest
        <4>2. ~BeginDraining(w) /\ ~RefreshBegins(w)
          BY DEF BeginDraining, RefreshBegins, WithoutBacklog, Vacant
        <4>3. ~RefreshApplies(w) /\ ~WorkerFails(w)
          BY DEF RefreshApplies, WorkerFails, WithoutBacklog, Vacant, clients_, TypeOK,
                 Connection
        <4>4. ASSUME NEW d \in Conns,
                     \/ AcceptClient(w, d) \/ Admit(w, d) \/ Reject(w, d)
                     \/ OpenClient(w, d) \/ OpenFails(w, d) \/ ReleaseClient(w, d)
                     \/ HandlerCloses(w, d) \/ TimeoutCloses(w, d)
              PROVE  OpenClient(w, c)
          <5>1. OpenClient(w, d)
            BY <4>4 DEF AcceptClient, Admit, Reject, OpenFails, ReleaseClient,
                        HandlerCloses, TimeoutCloses, TypeOK, Connection, Vacant
          <5>2. d = c
            BY <5>1 DEF OpenClient, TypeOK
          <5>3. QED
            BY <5>1, <5>2
        <4>5. QED
          BY <3>3, <4>1, <4>2, <4>3, <4>4, WorkerCases
      <3>4. QED
        BY <3>1, <3>2, <3>3 DEF Next, Terminated
    <2>2. conn'[c].tls = live_tls /\ conn'[c].cfg = snapshot[w] /\ pc[w] = "open"
      BY <2>1 DEF OpenClient, Goto, TypeOK
    <2>3. QED
      BY <2>2 DEF SnapshotInv
  <1>2. QED
    BY <1>1, TypeCorrect, SnapshotInvHolds, PTL DEF Safety, TlsNotOlderThanConfig

LEMMA GenerationInvInit == Init => GenerationInv
  BY DEF Init, GenerationInv, clients_, Vacant

\* The clients of u that a step of w leaves, and what they are configured with.
LEMMA WorkerClients ==
    ASSUME TypeOK, NEW w \in Workers, Worker(w), ~RefreshApplies(w), NEW u \in Workers,
           NEW c \in Conns, c \in clients_(u)'
    PROVE  \/ c \in clients_(u) /\ conn'[c].cfg = conn[c].cfg
           \/ u = w /\ pc[u] = "open" /\ conn'[c].cfg = snapshot[u]
  <1> DEFINE Goal == \/ c \in clients_(u) /\ conn'[c].cfg = conn[c].cfg
                     \/ u = w /\ pc[u] = "open" /\ conn'[c].cfg = snapshot[u]
  <1> USE DEF Goto, TypeOK, clients_
  <1>1. CASE WorkerMoves(w)
    BY <1>1, MovesKeepRest DEF rest
  <1>2. CASE BeginDraining(w) BY <1>2 DEF BeginDraining, WithoutBacklog, Vacant
  <1>3. CASE RefreshBegins(w) BY <1>3 DEF RefreshBegins
  <1>5. CASE WorkerFails(w)
    BY <1>5 DEF WorkerFails, WithoutBacklog, Vacant, Connection
  <1>6. ASSUME NEW d \in Conns, OpenClient(w, d) PROVE Goal
    BY <1>6 DEF OpenClient
  <1>7. ASSUME NEW d \in Conns,
               \/ AcceptClient(w, d) \/ Admit(w, d) \/ Reject(w, d)
               \/ OpenFails(w, d) \/ ReleaseClient(w, d)
               \/ HandlerCloses(w, d) \/ TimeoutCloses(w, d)
        PROVE  Goal
    BY <1>7 DEF AcceptClient, Admit, Reject, OpenFails, ReleaseClient, HandlerCloses,
                TimeoutCloses, Vacant, Connection
  <1>8. QED
    BY <1>1, <1>2, <1>3, <1>5, <1>6, <1>7, WorkerCases

\* Only RefreshBegins and RefreshApplies write the generations of a worker.
LEMMA WorkerGenerations ==
    ASSUME TypeOK, NEW w \in Workers, Worker(w), ~RefreshApplies(w)
    PROVE  /\ config_generation' = config_generation
           /\ seen' = seen \/ seen' = [seen EXCEPT ![w] = generation]
  BY DEF Worker, WorkerStep, StartWorker, BeginDraining, StopDrained, CloseAtDeadline,
         EnterWait, EpollReturns, RefreshSkipped, RefreshBegins, AcceptEnds, HandleEnds,
         ExpireEnds, ReleaseEnds, ReleaseExpiredEnds, CloseAllEnds, AcceptClient, Admit,
         Reject, OpenClient, OpenFails, ReleaseClient, EpollInterrupted, WorkerFails,
         HandlerCloses, TimeoutCloses

LEMMA GenerationInvStep ==
    ASSUME TypeOK, GenerationInv, [Next]_vars
    PROVE  GenerationInv'
  <1>0. generation \in Nat /\ \A w \in Workers : config_generation[w] \in Nat /\ seen[w] \in Nat
    BY DEF TypeOK
  <1>1. CASE Main
    <2> USE <1>0 DEF GenerationInv, MainGoto, clients_
    <2>1. CASE ZeroSignalFlags BY <2>1 DEF ZeroSignalFlags
    <2>2. CASE StartServing BY <2>2 DEF StartServing
    <2>3. CASE TakeReload BY <2>3 DEF TakeReload
    <2>4. CASE NoReload BY <2>4 DEF NoReload
    <2>5. CASE LeaveLoop BY <2>5 DEF LeaveLoop
    <2>6. CASE LoadConfig BY <2>6 DEF LoadConfig
    <2>7. CASE PublishTls BY <2>7 DEF PublishTls
    <2>8. CASE BuildTlsFails BY <2>8 DEF BuildTlsFails
    <2>9. CASE PublishConfig BY <2>9 DEF PublishConfig
    <2>10. CASE BumpGeneration BY <2>10 DEF BumpGeneration
    <2>11. CASE RequestShutdown BY <2>11 DEF RequestShutdown
    <2>12. CASE Sleep BY <2>12 DEF Sleep
    <2>13. CASE JoinWorkers BY <2>13 DEF JoinWorkers
    <2>14. QED
      BY <1>1, <2>1, <2>2, <2>3, <2>4, <2>5, <2>6, <2>7, <2>8, <2>9, <2>10, <2>11,
         <2>12, <2>13 DEF Main
  <1>2. ASSUME NEW w \in Workers, Worker(w) PROVE GenerationInv'
    <2>0. UNCHANGED <<main, generation, live_config>>
      BY <1>2, WorkerKeepsMain
    <2>1. CASE RefreshApplies(w)
      BY <1>0, <2>0, <2>1 DEF GenerationInv, RefreshApplies, clients_, Goto, AfterRefresh,
                              TypeOK, Connection
    <2>2. CASE ~RefreshApplies(w)
      <3> SUFFICES ASSUME NEW u \in Workers
                   PROVE  /\ config_generation'[u] <= generation
                          /\ seen'[u] <= generation
                          /\ (config_generation'[u] = generation /\ main # "bump")
                               => /\ \A c \in clients_(u)' : conn'[c].cfg = live_config
                                  /\ pc'[u] \in {"admit", "open"} => snapshot'[u] = live_config
        BY <2>0 DEF GenerationInv
      <3>1. config_generation'[u] = config_generation[u] /\ seen'[u] <= generation
        BY <1>0, <1>2, <2>2, WorkerGenerations DEF GenerationInv, TypeOK
      <3>2. ASSUME config_generation[u] = generation, main # "bump",
                   NEW c \in Conns, c \in clients_(u)'
            PROVE  conn'[c].cfg = live_config
        BY <1>2, <2>2, <3>2, WorkerClients DEF GenerationInv
      <3>3. ASSUME config_generation[u] = generation, main # "bump",
                   pc'[u] \in {"admit", "open"}
            PROVE  snapshot'[u] = live_config
        BY <1>2, <3>3, WorkerSnapshot DEF GenerationInv
      <3>4. QED
        BY <3>1, <3>2, <3>3 DEF GenerationInv, clients_
    <2>3. QED
      BY <2>1, <2>2
  <1>3. CASE Environment
    <2>1. \A w \in Workers : \A c \in clients_(w)' : c \in clients_(w) /\ conn'[c] = conn[c]
      <3>1. ASSUME NEW d \in Conns, NEW v \in Workers, Connect(d, v)
            PROVE  \A c \in Conns : conn'[c].st \in {"open", "closed"} => conn'[c] = conn[c]
        BY <3>1 DEF Connect, Vacant, TypeOK
      <3>2. \A c \in Conns : conn'[c].st \in {"open", "closed"} => conn'[c] = conn[c]
        BY <1>3, <3>1 DEF Environment, UpdateDatabase, RotateCertificate, SendSighup,
                          SendSigterm, DeadlinePasses
      <3>3. QED
        BY <3>2 DEF clients_
    <2>2. QED
      BY <1>3, <2>1, EnvironmentKeepsMain DEF GenerationInv
  <1>4. CASE UNCHANGED vars
    BY <1>4 DEF vars, GenerationInv, clients_
  <1>5. QED
    BY <1>1, <1>2, <1>3, <1>4 DEF Next, Terminated

\* A client with an outdated configuration is always a noticed one.
THEOREM StaleClientsAreNoticed == Safety => []StaleClientsNoticed
  <1>1. TypeOK /\ GenerationInv /\ [Next]_vars => GenerationInv'
    BY GenerationInvStep
  <1>2. GenerationInv => StaleClientsNoticed
    BY DEF GenerationInv, StaleClientsNoticed
  <1>3. QED
    BY <1>1, <1>2, GenerationInvInit, TypeCorrect, PTL DEF Safety

----------------------------------------------------------------------------
(* A clean shutdown.                                                       *)

LEMMA OwnerInvInit == Init => OwnerInv
  BY DEF Init, OwnerInv, HeldByOwner, OneInHand, InHand, LoopInv, Vacant

LEMMA MainOwnerInv ==
    ASSUME TypeOK, OwnerInv, Main
    PROVE  OwnerInv'
  <1> USE DEF OwnerInv, HeldByOwner, OneInHand, InHand, LoopInv, MainGoto, Listening
  <1>1. CASE StartServing
    <2>1. \A c \in Conns : conn[c].st = "idle"
      BY <1>1 DEF StartServing, TypeOK, Connection, ConnStates
    <2>2. QED
      BY <1>1, <2>1 DEF StartServing
  <1>2. CASE JoinWorkers
    BY <1>2 DEF JoinWorkers
  <1>3. CASE ~StartServing /\ ~JoinWorkers
    <2>1. UNCHANGED <<conn, pc, draining, worker_failed>>
      BY <1>3 DEF Main, ZeroSignalFlags, TakeReload, NoReload, LeaveLoop, LoadConfig,
                  PublishTls, BuildTlsFails, PublishConfig, BumpGeneration,
                  RequestShutdown, Sleep
    <2>2. main' # "done" /\ (main' \in {"install", "boot"} => main \in {"install", "boot"})
      BY <1>3 DEF Main, ZeroSignalFlags, TakeReload, NoReload, LeaveLoop, LoadConfig,
                  PublishTls, BuildTlsFails, PublishConfig, BumpGeneration,
                  RequestShutdown, Sleep
    <2>3. QED
      BY <2>1, <2>2
  <1>4. QED
    BY <1>1, <1>2, <1>3

LEMMA WorkerOwnerInv ==
    ASSUME TypeOK, OwnerInv, NEW w \in Workers, Worker(w)
    PROVE  OwnerInv'
  <1> USE DEF OwnerInv, HeldByOwner, OneInHand, InHand, LoopInv, Goto, Listening, TypeOK
  <1>0. main' = main
    BY WorkerKeepsMain
  <1>1. CASE WorkerMoves(w)
    <2>1. UNCHANGED <<conn, draining, worker_failed, main>>
      BY <1>1, MovesKeepRest DEF rest
    <2>2. PICK l \in WorkerSteps \ {"admit", "open", "refreshing", "unborn", "starting"} :
             pc' = [pc EXCEPT ![w] = l]
      BY <1>1, MovesKeepRest
    <2>3. /\ pc[w] \notin {"unborn", "stopped", "failed", "admit", "open"}
          /\ l # "failed"
          /\ l = "stopped" => draining[w] /\ clients_(w) = {}
          /\ l = "closing" => draining[w]
      BY <1>1, <2>2 DEF WorkerMoves, StartWorker, StopDrained, CloseAtDeadline, EnterWait,
         EpollReturns, EpollInterrupted, RefreshSkipped, AcceptEnds, HandleEnds,
         ExpireEnds, ReleaseEnds, ReleaseExpiredEnds, CloseAllEnds, AfterRefresh
    <2>4. ASSUME NEW c \in Conns PROVE HeldByOwner(c)'
      BY <2>1, <2>2, <2>3 DEF clients_, Connection, ConnStates
    <2>5. QED
      BY <2>1, <2>2, <2>3, <2>4
  <1>2. CASE BeginDraining(w)
    BY <1>0, <1>2 DEF BeginDraining, WithoutBacklog, Vacant
  <1>3. CASE RefreshBegins(w)
    BY <1>0, <1>3 DEF RefreshBegins
  <1>4. CASE RefreshApplies(w)
    <2>1. \A c \in Conns : conn'[c].st = conn[c].st /\ conn'[c].owner = conn[c].owner
      BY <1>4 DEF RefreshApplies, Connection
    <2>2. QED
      BY <1>0, <1>4, <2>1 DEF RefreshApplies, AfterRefresh
  <1>5. CASE WorkerFails(w)
    BY <1>0, <1>5 DEF WorkerFails, WithoutBacklog, Vacant, clients_
  <1>6. ASSUME NEW c \in Conns, AcceptClient(w, c) PROVE OwnerInv'
    BY <1>0, <1>6 DEF AcceptClient
  <1>7. ASSUME NEW c \in Conns, Admit(w, c) PROVE OwnerInv'
    BY <1>0, <1>7 DEF Admit
  <1>8. ASSUME NEW c \in Conns, Reject(w, c) PROVE OwnerInv'
    BY <1>0, <1>8 DEF Reject, Vacant
  <1>9. ASSUME NEW c \in Conns, OpenClient(w, c) PROVE OwnerInv'
    BY <1>0, <1>9 DEF OpenClient
  <1>10. ASSUME NEW c \in Conns, OpenFails(w, c) PROVE OwnerInv'
    BY <1>0, <1>10 DEF OpenFails, Vacant
  <1>11. ASSUME NEW c \in Conns, ReleaseClient(w, c) PROVE OwnerInv'
    BY <1>0, <1>11 DEF ReleaseClient, Vacant
  <1>12. ASSUME NEW c \in Conns, HandlerCloses(w, c) \/ TimeoutCloses(w, c) PROVE OwnerInv'
    <2>1. /\ conn' = [conn EXCEPT ![c].st = "closed"] /\ conn[c].st = "open"
          /\ UNCHANGED <<pc, draining, worker_failed>>
      BY <1>12 DEF HandlerCloses, TimeoutCloses
    <2>2. ASSUME NEW d \in Conns
          PROVE  /\ conn'[d].owner = conn[d].owner
                 /\ conn'[d].st = conn[d].st
                    \/ (conn'[d].st = "closed" /\ conn[d].st = "open")
      BY <2>1 DEF Connection
    <2>3. QED
      BY <1>0, <2>1, <2>2
  <1>13. QED
    BY <1>1, <1>2, <1>3, <1>4, <1>5, <1>6, <1>7, <1>8, <1>9, <1>10, <1>11, <1>12,
       WorkerCases

LEMMA EnvironmentOwnerInv ==
    ASSUME TypeOK, OwnerInv, Environment
    PROVE  OwnerInv'
  <1> USE DEF OwnerInv, HeldByOwner, OneInHand, InHand, LoopInv, Listening
  <1>1. UNCHANGED <<main, pc, draining, worker_failed>>
    BY EnvironmentKeepsMain
  <1>2. ASSUME NEW w \in Workers, NEW c \in Conns, Connect(c, w) PROVE OwnerInv'
    BY <1>1, <1>2 DEF Connect, Vacant, TypeOK
  <1>3. CASE UNCHANGED conn
    BY <1>1, <1>3
  <1>4. QED
    BY <1>2, <1>3 DEF Environment, UpdateDatabase, RotateCertificate, SendSighup,
                      SendSigterm, DeadlinePasses

LEMMA OwnerInvHolds == Safety => []OwnerInv
  <1>1. TypeOK /\ OwnerInv /\ [Next]_vars => OwnerInv'
    <2> SUFFICES ASSUME TypeOK, OwnerInv, [Next]_vars PROVE OwnerInv'
      OBVIOUS
    <2>1. CASE UNCHANGED vars
      BY <2>1 DEF vars, OwnerInv, HeldByOwner, OneInHand, InHand, LoopInv, Listening
    <2>2. QED
      BY <2>1, MainOwnerInv, WorkerOwnerInv, EnvironmentOwnerInv DEF Next, Terminated
  <1>2. QED
    BY <1>1, OwnerInvInit, TypeCorrect, PTL DEF Safety

\* A shutdown without a failed worker gives every connection back.
THEOREM ShutdownIsClean == Safety => []CleanShutdown
  <1>1. TypeOK /\ OwnerInv /\ CountersExact => CleanShutdown
    <2> SUFFICES ASSUME TypeOK, OwnerInv, CountersExact, main = "done"
                 PROVE  /\ \A c \in Conns : conn[c].st \in {"idle", "leaked"}
                        /\ ~worker_failed => security = no_connections
      BY DEF CleanShutdown
    <2>1. \A w \in Workers : pc[w] \in {"stopped", "failed"}
      BY DEF OwnerInv, LoopInv
    <2>2. ASSUME NEW c \in Conns PROVE conn[c].st \in {"idle", "leaked"}
      BY <2>1 DEF OwnerInv, HeldByOwner, Listening, TypeOK, Connection, ConnStates
    <2>3. ASSUME ~worker_failed PROVE security = no_connections
      <3>1. \A c \in Conns : conn[c].st = "idle"
        BY <2>2, <2>3 DEF OwnerInv, HeldByOwner, LoopInv
      <3>2. Counted = {} /\ \A ip \in Ips : CountedFrom(ip) = {}
        BY <3>1 DEF Counted, CountedFrom
      <3>3. security.total = 0 /\ \A ip \in Ips : security.by_ip[ip] = 0
        BY <3>2, FS_EmptySet DEF CountersExact
      <3>4. security \in [total : Nat, by_ip : [Ips -> Nat]]
        BY DEF TypeOK, Counters
      <3>5. QED
        BY <3>3, <3>4 DEF no_connections
    <2>4. QED
      BY <2>2, <2>3
  <1>2. QED
    BY <1>1, OwnerInvHolds, TypeCorrect, CountersAreExact, PTL

----------------------------------------------------------------------------
(* The workers together are one AdmissionControl.                          *)

\* A step that neither accepts a connection nor decides on one.
LEMMA NothingDecided ==
    ASSUME TypeOK,
           \A c \in Conns : conn'[c].st = "accepted" <=> conn[c].st = "accepted",
           \A c \in Conns : conn[c].st = "accepted" =>
             conn'[c].owner = conn[c].owner /\ snapshot'[conn[c].owner] = snapshot[conn[c].owner]
    PROVE  Undecided' = Undecided
  BY DEF Undecided

\* try_open_connection decides as the policy says: its counters are exact.
LEMMA AdmitsAllowed ==
    ASSUME CountersExact, NEW c \in Conns, NEW v \in Versions
    PROVE  admits(security, IpOf[c], Config[v]) <=> Admission!Allowed(c, v)
  <1>1. IpOf[c] \in Ips
    BY ConstantsAssumption
  <1>2. Admission!From(IpOf[c]) = CountedFrom(IpOf[c])
    BY DEF Admission!From, CountedFrom
  <1>3. /\ security.total = Cardinality(Counted)
        /\ security.by_ip[IpOf[c]] = Cardinality(Admission!From(IpOf[c]))
    BY <1>1, <1>2, Zenon DEF CountersExact
  <1>4. \A S : Admission!Cardinality(S) = Cardinality(S)
    BY Zenon DEF Admission!Cardinality, Cardinality
  <1>5. QED
    BY <1>3, <1>4, Zenon DEF admits, Admission!Allowed

LEMMA AcceptArrives ==
    ASSUME TypeOK, OwnerInv, NEW w \in Workers, NEW c \in Conns, AcceptClient(w, c)
    PROVE  Admission!Arrive(c)
  <1>1. pc[w] = "accept" /\ conn[c].st = "backlog" /\ conn[c].owner = w /\ live_config' = live_config
    BY DEF AcceptClient, Goto, published
  <1>2. c \notin Counted /\ \A v \in Versions : <<c, v>> \notin Undecided
    BY <1>1 DEF Counted, Undecided
  <1>3. \A d \in Conns : conn[d].st = "accepted" => conn[d].owner # w
    BY <1>1 DEF OwnerInv, HeldByOwner
  <1>4. /\ conn'[c].st = "accepted" /\ conn'[c].owner = w /\ snapshot'[w] = live_config
        /\ \A d \in Conns \ {c} : conn'[d] = conn[d]
        /\ \A x \in Workers \ {w} : snapshot'[x] = snapshot[x]
    BY <1>1 DEF AcceptClient, TypeOK, Connection
  <1>5. Undecided' = Undecided \cup {<<c, live_config>>}
    <2>1. ASSUME NEW r \in Conns \X Versions
          PROVE  r \in Undecided' <=> r \in Undecided \cup {<<c, live_config>>}
      <3>1. CASE r[1] = c
        BY <1>1, <1>4, <3>1 DEF Undecided
      <3>2. CASE r[1] # c
        BY <1>3, <1>4, <3>2 DEF Undecided, OwnerInv, HeldByOwner
      <3>3. QED
        BY <3>1, <3>2
    <2>2. <<c, live_config>> \in Conns \X Versions
      BY DEF TypeOK
    <2>3. QED
      BY <2>1, <2>2 DEF Undecided
  <1>6. Counted' = Counted
    BY <1>1, <1>4 DEF Counted
  <1>7. QED
    BY <1>1, <1>2, <1>5, <1>6 DEF Admission!Arrive

\* The connection a worker decides on is the only one it has in hand.
LEMMA DecidedOne ==
    ASSUME TypeOK, OwnerInv, NEW w \in Workers, NEW c \in Conns,
           conn[c].st = "accepted", conn[c].owner = w, conn'[c].st # "accepted",
           \A d \in Conns \ {c} : conn'[d] = conn[d],
           \A x \in Workers \ {w} : snapshot'[x] = snapshot[x]
    PROVE  /\ <<c, snapshot[w]>> \in Undecided
           /\ Undecided' = Undecided \ {<<c, snapshot[w]>>}
  <1>1. snapshot[w] \in Versions
    BY DEF TypeOK
  <1>2. \A d \in Conns \ {c} : conn[d].st = "accepted" => conn[d].owner \in Workers \ {w}
    BY DEF OwnerInv, HeldByOwner, OneInHand, InHand
  <1>3. ASSUME NEW r \in Conns \X Versions
        PROVE  r \in Undecided' <=> r \in Undecided \ {<<c, snapshot[w]>>}
    <2>1. CASE r[1] = c
      BY <2>1 DEF Undecided
    <2>2. CASE r[1] # c
      BY <1>2, <2>2 DEF Undecided
    <2>3. QED
      BY <2>1, <2>2
  <1>4. QED
    BY <1>1, <1>3 DEF Undecided

LEMMA AdmitAdmits ==
    ASSUME TypeOK, OwnerInv, CountersExact, NEW w \in Workers, NEW c \in Conns, Admit(w, c)
    PROVE  Admission!Admit(c, snapshot[w])
  <1>1. /\ conn[c].st = "accepted" /\ conn[c].owner = w /\ live_config' = live_config
        /\ snapshot' = snapshot /\ admits(security, IpOf[c], Config[snapshot[w]])
    BY DEF Admit, published, acceptVars
  <1>2. conn'[c].st = "admitted" /\ \A d \in Conns \ {c} : conn'[d] = conn[d]
    BY DEF Admit, TypeOK, Connection
  <1>3. <<c, snapshot[w]>> \in Undecided /\ Undecided' = Undecided \ {<<c, snapshot[w]>>}
    BY <1>1, <1>2, DecidedOne
  <1>4. Counted' = Counted \cup {c}
    BY <1>1, <1>2 DEF Counted
  <1>5. Admission!Allowed(c, snapshot[w])
    BY <1>1, AdmitsAllowed DEF TypeOK
  <1>6. QED
    BY <1>1, <1>3, <1>4, <1>5 DEF Admission!Admit

LEMMA RejectRefuses ==
    ASSUME TypeOK, OwnerInv, CountersExact, NEW w \in Workers, NEW c \in Conns, Reject(w, c)
    PROVE  Admission!Refuse(c, snapshot[w])
  <1>1. /\ conn[c].st = "accepted" /\ conn[c].owner = w /\ live_config' = live_config
        /\ ~admits(security, IpOf[c], Config[snapshot[w]])
    BY DEF Reject, published
  <1>2. /\ conn'[c].st = "idle" /\ \A d \in Conns \ {c} : conn'[d] = conn[d]
        /\ \A x \in Workers \ {w} : snapshot'[x] = snapshot[x]
    BY DEF Reject, TypeOK, Connection, Vacant
  <1>3. <<c, snapshot[w]>> \in Undecided /\ Undecided' = Undecided \ {<<c, snapshot[w]>>}
    BY <1>1, <1>2, DecidedOne
  <1>4. Counted' = Counted
    BY <1>1, <1>2 DEF Counted
  <1>5. ~Admission!Allowed(c, snapshot[w])
    BY <1>1, AdmitsAllowed DEF TypeOK
  <1>6. QED
    BY <1>1, <1>3, <1>4, <1>5 DEF Admission!Refuse

\* Every other step of a worker.
LEMMA WorkerDecides ==
    ASSUME TypeOK, OwnerInv, NEW w \in Workers, Worker(w),
           \A c \in Conns : ~AcceptClient(w, c) /\ ~Admit(w, c) /\ ~Reject(w, c)
    PROVE  Undecided' = Undecided /\ live_config' = live_config
  <1> USE DEF Goto, acceptVars
  <1>1. CASE WorkerMoves(w)
    BY <1>1, MovesKeepRest, NothingDecided DEF rest
  <1>2. CASE BeginDraining(w)
    <2>1. /\ \A c \in Conns : conn'[c] = conn[c] \/ (conn[c].st = "backlog" /\ conn'[c].st = "idle")
          /\ snapshot' = snapshot /\ live_config' = live_config
      BY <1>2 DEF BeginDraining, WithoutBacklog, Vacant, published
    <2>2. QED
      BY <2>1, NothingDecided
  <1>3. CASE RefreshBegins(w)
    BY <1>3, NothingDecided DEF RefreshBegins, published
  <1>4. CASE RefreshApplies(w)
    <2>1. /\ \A c \in Conns : conn'[c].st = conn[c].st /\ conn'[c].owner = conn[c].owner
          /\ snapshot' = snapshot /\ live_config' = live_config
      BY <1>4 DEF RefreshApplies, TypeOK, Connection, published
    <2>2. QED
      BY <2>1, NothingDecided
  <1>5. CASE WorkerFails(w)
    <2>1. /\ \A c \in Conns :
               conn'[c] = conn[c] \/ (conn[c].st # "accepted" /\ conn'[c].st # "accepted")
          /\ snapshot' = snapshot /\ live_config' = live_config
      BY <1>5 DEF WorkerFails, WithoutBacklog, clients_, Vacant, TypeOK, Connection, published
    <2>2. QED
      BY <2>1, NothingDecided
  <1>6. ASSUME NEW c \in Conns,
               OpenClient(w, c) \/ OpenFails(w, c) \/ ReleaseClient(w, c)
                 \/ HandlerCloses(w, c) \/ TimeoutCloses(w, c)
        PROVE  Undecided' = Undecided /\ live_config' = live_config
    <2>1. /\ \A d \in Conns \ {c} : conn'[d] = conn[d]
          /\ conn[c].st # "accepted" /\ conn'[c].st # "accepted" /\ live_config' = live_config
          /\ \A x \in Workers \ {w} : snapshot'[x] = snapshot[x]
          /\ snapshot' = snapshot \/ pc[w] = "open"
      BY <1>6 DEF OpenClient, OpenFails, ReleaseClient, HandlerCloses, TimeoutCloses, TypeOK,
                  Connection, Vacant, published
    <2>2. \A d \in Conns : conn[d].st = "accepted" =>
             conn[d].owner \in Workers /\ (pc[w] = "open" => conn[d].owner # w)
      BY DEF OwnerInv, HeldByOwner
    <2>3. QED
      BY <2>1, <2>2, NothingDecided
  <1>7. QED
    BY <1>1, <1>2, <1>3, <1>4, <1>5, <1>6, WorkerCases

LEMMA StepImplementsAdmission ==
    ASSUME TypeOK, OwnerInv, CountersExact, [Next]_vars, TypeOK'
    PROVE  [Admission!Next]_(Admission!vars)
  <1>1. CASE Main
    <2>1. conn' = conn /\ snapshot' = snapshot
      BY <1>1 DEF Main, ZeroSignalFlags, StartServing, TakeReload, NoReload, LeaveLoop,
                  LoadConfig, PublishTls, BuildTlsFails, PublishConfig, BumpGeneration,
                  RequestShutdown, Sleep, JoinWorkers, acceptVars
    <2>2. Undecided' = Undecided /\ Counted' = Counted
      BY <2>1, NothingDecided DEF Counted
    <2>3. live_config' \in Versions
      BY DEF TypeOK
    <2>4. Admission!Publish(live_config')
      BY <2>2 DEF Admission!Publish
    <2>5. QED
      BY <2>3, <2>4 DEF Admission!Next
  <1>2. CASE Environment
    <2>0. ASSUME NEW w \in Workers, NEW c \in Conns, Connect(c, w)
          PROVE  \A d \in Conns : conn'[d] = conn[d] \/ (conn[d].st = "idle" /\ conn'[d].st = "backlog")
      BY <2>0 DEF Connect, Vacant, TypeOK
    <2>1. /\ \A c \in Conns : conn'[c] = conn[c] \/ (conn[c].st = "idle" /\ conn'[c].st = "backlog")
          /\ snapshot' = snapshot /\ live_config' = live_config
      <3>1. CASE UNCHANGED <<conn, acceptVars, published>>
        BY <3>1 DEF acceptVars, published
      <3>2. ASSUME NEW w \in Workers, NEW c \in Conns, Connect(c, w)
            PROVE  snapshot' = snapshot /\ live_config' = live_config
        BY <3>2 DEF Connect, acceptVars, published
      <3>3. QED
        BY <1>2, <2>0, <3>1, <3>2 DEF Environment, UpdateDatabase, RotateCertificate, SendSighup,
                                     SendSigterm, DeadlinePasses
    <2>2. Undecided' = Undecided /\ Counted' = Counted
      BY <2>1, NothingDecided DEF Counted
    <2>3. QED
      BY <2>1, <2>2 DEF Admission!vars
  <1>3. ASSUME NEW w \in Workers, Worker(w) PROVE [Admission!Next]_(Admission!vars)
    <2>1. ASSUME NEW c \in Conns, AcceptClient(w, c) PROVE Admission!Next
      BY <2>1, AcceptArrives DEF Admission!Next
    <2>2. ASSUME NEW c \in Conns, Admit(w, c) PROVE Admission!Next
      BY <2>2, AdmitAdmits DEF Admission!Next, TypeOK
    <2>3. ASSUME NEW c \in Conns, Reject(w, c) PROVE Admission!Next
      BY <2>3, RejectRefuses DEF Admission!Next, TypeOK
    <2>4. CASE \A c \in Conns : ~AcceptClient(w, c) /\ ~Admit(w, c) /\ ~Reject(w, c)
      <3>1. Undecided' = Undecided /\ live_config' = live_config
        BY <1>3, <2>4, WorkerDecides
      <3>2. CASE CountKept
        BY <3>1, <3>2 DEF CountKept, Admission!vars
      <3>3. ASSUME NEW c \in Conns, CountDown(c) PROVE Admission!Next
        BY <3>1, <3>3 DEF CountDown, Admission!Leave, Admission!Next
      <3>4. ASSUME NEW x \in Workers, NEW c \in Conns, Admit(x, c) PROVE Admission!Next
        BY <3>4, AdmitAdmits DEF Admission!Next, TypeOK
      <3>5. QED
        BY <3>2, <3>3, <3>4, CountCases
    <2>5. QED
      BY <2>1, <2>2, <2>3, <2>4
  <1>4. CASE UNCHANGED vars
    BY <1>4 DEF vars, acceptVars, published, Admission!vars, Undecided, Counted
  <1>5. QED
    BY <1>1, <1>2, <1>3, <1>4 DEF Next, Terminated

(***************************************************************************)
(* The workers together are one AdmissionControl, for any number of them:  *)
(* try_open_connection takes or turns away each connection as the          *)
(* configuration of its arrival says of the connections that are live,     *)
(* and each connection is given back once.                                 *)
(***************************************************************************)
THEOREM RuntimeImplementsAdmissionControl == Safety => ImplementsAdmissionControl
  <1>1. Init => Admission!Init
    BY ConstantsAssumption DEF Init, Admission!Init, Undecided, Counted, Vacant, Versions
  <1>2. TypeOK /\ OwnerInv /\ CountersExact /\ [Next]_vars /\ TypeOK'
          => [Admission!Next]_(Admission!vars)
    BY StepImplementsAdmission
  <1>3. QED
    BY <1>1, <1>2, TypeCorrect, OwnerInvHolds, CountersAreExact, PTL
       DEF Safety, ImplementsAdmissionControl, Admission!Spec
============================================================================
