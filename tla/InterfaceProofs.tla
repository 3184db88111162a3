-------------------------- MODULE InterfaceProofs ---------------------------
(***************************************************************************)
(* The two interfaces a client meets.  SyncWebSocketServer: its safety for *)
(* every set of sessions and every maxConnections.  The REST API: what the *)
(* rate limiter promises, who may own a name and how the alerts' history   *)
(* reads, for every window, every limit, every set of clients, calls and   *)
(* rules, under all of the API's steps.                                    *)
(***************************************************************************)
EXTENDS Clients, Api, SequenceTheorems, FiniteSetTheorems, TLAPS

(* A registered session has a socket that is not closed yet; a session     *)
(* whose handlers are installed has connected.                             *)
SocketsKnown ==
  \A s \in Sessions :
    /\ s \in accepted => sock[s] # "none"
    /\ s \in clients => sock[s] \in {"open", "closing"}

MapWithinCapacity == Cardinality(clients) <= MaxConnections

(* A session is reported once by checkHeartbeats, if that gave it up, and  *)
(* once by its close event, if that has come; and what checkHeartbeats     *)
(* gave up is not registered.                                              *)
ReportsExact ==
  \A s \in Sessions :
    /\ s \in clients => s \notin timedOut
    /\ reports[s] = IF s \in accepted /\ sock[s] = "closed"
                    THEN IF s \in timedOut THEN 2 ELSE 1
                    ELSE IF s \in timedOut THEN 1 ELSE 0

(* Once stop has cleared the map, counters that are not zero yet have a    *)
(* close event to come that sets them.                                     *)
CountsSettle ==
  /\ phase # "serving" => clients = {}
  /\ phase = "stopping" =>
       \/ active = 0 /\ connections = 0
       \/ \E s \in accepted : sock[s] = "closing"

ClientsInv ==
  /\ ClientsTypeOK
  /\ SocketsKnown
  /\ MapWithinCapacity
  /\ ReportsExact
  /\ CountsAgree
  /\ CountsSettle

-----------------------------------------------------------------------------
(* The map stays finite, so that its size is a number. *)
LEMMA ClientsFinite ==
  ASSUME ClientsTypeOK
  PROVE  IsFiniteSet(clients) /\ Cardinality(clients) \in Nat
BY SessionsAssumption, FS_Subset, FS_CardinalityType DEF ClientsTypeOK

(* Removing sessions from the map leaves it within capacity, and counted   *)
(* by a natural number.                                                    *)
LEMMA SmallerMap ==
  ASSUME ClientsTypeOK, MapWithinCapacity, NEW C \in SUBSET clients
  PROVE  Cardinality(C) \in Nat /\ Cardinality(C) <= MaxConnections
<1>1. IsFiniteSet(clients) /\ Cardinality(clients) \in Nat
  BY ClientsFinite
<1>2. Cardinality(C) <= Cardinality(clients) /\ Cardinality(C) \in Nat
  BY <1>1, FS_Subset, FS_CardinalityType
<1> QED BY <1>1, <1>2, ConnectionsAssumption DEF MapWithinCapacity

(* The server starts without clients. *)
LEMMA ClientsInitInv == ClientsInit => ClientsInv
<1> SUFFICES ASSUME ClientsInit PROVE ClientsInv
  OBVIOUS
<1>1. Cardinality({}) = 0
  BY FS_EmptySet
<1> QED BY <1>1, ConnectionsAssumption
     DEF ClientsInit, ClientsInv, ClientsTypeOK, SocketStates, SocketsKnown,
         MapWithinCapacity, ReportsExact, CountsAgree, CountsSettle

(* A connection is refused, or counted in. *)
LEMMA ConnectionKeeps ==
  ASSUME ClientsInv, NEW s \in Sessions, HandleConnection(s)
  PROVE  ClientsInv'
<1> USE DEF ClientsInv
<1>1. phase = "serving" /\ sock[s] = "none" /\ s \notin accepted /\ s \notin clients
  BY DEF HandleConnection, SocketsKnown, ClientsTypeOK
<1>2. CASE /\ sock' = [sock EXCEPT ![s] = "closing"]
           /\ UNCHANGED <<accepted, clients, counters>>
  <2>1. UNCHANGED <<phase, silent, deciding, reports, timedOut, rejected,
                    accepted, clients, active, connections>>
    BY <1>2 DEF HandleConnection, wsGhosts, counters
  <2>2. /\ sock' \in [Sessions -> SocketStates]
        /\ sock'[s] = "closing"
        /\ \A t \in Sessions \ {s} : sock'[t] = sock[t]
    BY <1>2 DEF ClientsTypeOK, SocketStates
  <2>3. ClientsTypeOK'
    BY <2>1, <2>2, <1>1 DEF ClientsTypeOK
  <2>4. SocketsKnown' /\ ReportsExact'
    BY <2>1, <2>2, <1>1 DEF SocketsKnown, ReportsExact
  <2>5. MapWithinCapacity' /\ CountsAgree' /\ CountsSettle'
    BY <2>1, <2>2, <1>1 DEF MapWithinCapacity, CountsAgree, CountsSettle
  <2> QED BY <2>3, <2>4, <2>5
<1>3. CASE /\ Cardinality(clients) < MaxConnections
           /\ sock' = [sock EXCEPT ![s] = "open"]
           /\ accepted' = accepted \cup {s}
           /\ clients' = clients \cup {s}
           /\ CountClients
  <2>1. UNCHANGED <<phase, silent, deciding, reports, timedOut, rejected>>
    BY DEF HandleConnection, wsGhosts
  <2>2. /\ sock' \in [Sessions -> SocketStates]
        /\ sock'[s] = "open"
        /\ \A t \in Sessions \ {s} : sock'[t] = sock[t]
    BY <1>3 DEF ClientsTypeOK, SocketStates
  <2>3. Cardinality(clients \cup {s}) = Cardinality(clients) + 1
    BY <1>1, ClientsFinite, FS_AddElement
  <2>4. Cardinality(clients') \in Nat /\ Cardinality(clients') <= MaxConnections
    BY <1>3, <2>3, ClientsFinite, ConnectionsAssumption
  <2>5. active' = Cardinality(clients') /\ connections' = Cardinality(clients')
    BY <1>3 DEF CountClients
  <2>6. ClientsTypeOK'
    BY <1>3, <2>1, <2>2, <2>4, <2>5 DEF ClientsTypeOK
  <2>7. SocketsKnown'
    BY <1>3, <2>2 DEF SocketsKnown
  <2>8. ReportsExact'
    BY <1>1, <1>3, <2>1, <2>2 DEF ReportsExact, ClientsTypeOK
  <2>9. MapWithinCapacity' /\ CountsAgree' /\ CountsSettle'
    BY <1>1, <2>1, <2>4, <2>5 DEF MapWithinCapacity, CountsAgree, CountsSettle
  <2> QED BY <2>6, <2>7, <2>8, <2>9
<1> QED BY <1>2, <1>3 DEF HandleConnection

(* Steps that only let open sockets start to close and leave the map, the  *)
(* counters and the reports alone: packets, authentication, the peer.      *)
LEMMA ClosingKeeps ==
  ASSUME ClientsInv,
         UNCHANGED <<phase, accepted, clients, active, connections, reports, timedOut>>,
         silent' \in [Sessions -> 0 .. 3],
         deciding' \in SUBSET accepted, rejected' \in SUBSET accepted,
         sock' \in [Sessions -> SocketStates],
         \A s \in Sessions : sock'[s] = sock[s] \/ (sock[s] = "open" /\ sock'[s] = "closing")
  PROVE  ClientsInv'
<1> USE DEF ClientsInv
<1>1. ClientsTypeOK'
  BY DEF ClientsTypeOK
<1>2. SocketsKnown' /\ ReportsExact'
  BY DEF SocketsKnown, ReportsExact
<1>3. MapWithinCapacity' /\ CountsAgree'
  BY DEF MapWithinCapacity, CountsAgree
<1>4. CountsSettle'
  BY DEF CountsSettle, ClientsTypeOK
<1> QED BY <1>1, <1>2, <1>3, <1>4

(* The close event takes the session out and reports it. *)
LEMMA CloseKeeps ==
  ASSUME ClientsInv, NEW s \in Sessions, CloseEvent(s)
  PROVE  ClientsInv'
<1> USE DEF ClientsInv
<1>1. /\ sock[s] = "closing"
      /\ sock' \in [Sessions -> SocketStates]
      /\ sock'[s] = "closed"
      /\ \A t \in Sessions \ {s} : sock'[t] = sock[t]
      /\ silent' \in [Sessions -> 0 .. 3]
      /\ UNCHANGED <<phase, accepted, deciding, timedOut, rejected>>
  BY DEF CloseEvent, ClientsTypeOK, SocketStates
<1>2. CASE s \notin accepted /\ UNCHANGED <<clients, counters, reports>>
  <2>1. s \notin clients /\ UNCHANGED <<clients, active, connections, reports>>
    BY <1>2 DEF ClientsTypeOK, counters
  <2>2. ClientsTypeOK'
    BY <1>1, <2>1 DEF ClientsTypeOK
  <2>3. SocketsKnown' /\ ReportsExact'
    BY <1>1, <1>2, <2>1 DEF SocketsKnown, ReportsExact
  <2>4. MapWithinCapacity' /\ CountsAgree'
    BY <1>1, <2>1 DEF MapWithinCapacity, CountsAgree
  <2>5. CountsSettle'
    BY <1>1, <1>2, <2>1 DEF CountsSettle, ClientsTypeOK
  <2> QED BY <2>2, <2>3, <2>4, <2>5
<1>3. CASE s \in accepted /\ HandleDisconnect({s})
  <2>1. /\ clients' = clients \ {s}
        /\ active' = Cardinality(clients') /\ connections' = Cardinality(clients')
        /\ reports'[s] = reports[s] + 1
        /\ \A t \in Sessions \ {s} : reports'[t] = reports[t]
        /\ DOMAIN reports' = Sessions
    BY <1>3 DEF HandleDisconnect, CountClients
  <2>2. Cardinality(clients') \in Nat /\ Cardinality(clients') <= MaxConnections
    BY <2>1, SmallerMap
  <2>3. reports[s] = IF s \in timedOut THEN 1 ELSE 0
    BY <1>1 DEF ReportsExact
  <2>4. reports' \in [Sessions -> 0 .. 2]
    <3>1. \A t \in Sessions : reports'[t] \in 0 .. 2
      BY <2>1, <2>3 DEF ClientsTypeOK
    <3> QED BY <1>3, <3>1 DEF HandleDisconnect
  <2>5. ClientsTypeOK'
    BY <1>1, <2>1, <2>2, <2>4 DEF ClientsTypeOK
  <2>6. SocketsKnown'
    BY <1>1, <2>1 DEF SocketsKnown
  <2>7. ReportsExact'
    BY <1>1, <1>3, <2>1, <2>3 DEF ReportsExact
  <2>8. MapWithinCapacity' /\ CountsAgree'
    BY <2>1, <2>2 DEF MapWithinCapacity, CountsAgree
  <2>9. CountsSettle'
    <3>1. CASE phase = "serving"
      BY <1>1, <3>1 DEF CountsSettle
    <3>2. CASE phase # "serving"
      <4>1. clients' = {}
        BY <2>1, <3>2 DEF CountsSettle
      <4>2. active' = 0 /\ connections' = 0
        BY <2>1, <4>1, FS_EmptySet
      <4> QED BY <4>1, <4>2 DEF CountsSettle
    <3> QED BY <3>1, <3>2
  <2> QED BY <2>5, <2>6, <2>7, <2>8, <2>9
<1> QED BY <1>2, <1>3 DEF CloseEvent

(* checkHeartbeats reports only sessions it has not reported before. *)
LEMMA HeartbeatsKeep == ASSUME ClientsInv, CheckHeartbeats PROVE ClientsInv'
<1> USE DEF ClientsInv
<1>1. PICK late \in SUBSET {s \in clients : silent[s] >= 1} :
        /\ {s \in clients : silent[s] = 3} \subseteq late
        /\ sock' = [s \in Sessions |-> IF s \in late THEN Closed(s) ELSE sock[s]]
        /\ silent' = [s \in Sessions |-> IF s \in clients \ late THEN silent[s] + 1 ELSE 0]
        /\ HandleDisconnect(late)
        /\ timedOut' = timedOut \cup late
  BY DEF CheckHeartbeats
<1>2. phase = "serving" /\ UNCHANGED <<phase, accepted, deciding, rejected>>
  BY DEF CheckHeartbeats
<1>3. late \subseteq clients /\ clients \subseteq accepted /\ accepted \subseteq Sessions
  BY DEF ClientsTypeOK
<1>4. /\ sock' \in [Sessions -> SocketStates]
      /\ \A s \in late : sock'[s] = "closing"
      /\ \A s \in Sessions \ late : sock'[s] = sock[s]
  BY <1>1, <1>3 DEF Closed, ClientsTypeOK, SocketStates, SocketsKnown
<1>5. /\ clients' = clients \ late
      /\ active' = Cardinality(clients') /\ connections' = Cardinality(clients')
      /\ \A s \in late : reports'[s] = reports[s] + 1
      /\ \A s \in Sessions \ late : reports'[s] = reports[s]
      /\ reports' = [s \in Sessions |-> reports'[s]]
  BY <1>1, <1>3 DEF HandleDisconnect, CountClients
<1>6. Cardinality(clients') \in Nat /\ Cardinality(clients') <= MaxConnections
  BY <1>5, SmallerMap
<1>7. \A s \in late : reports[s] = 0 /\ s \notin timedOut
  BY <1>3 DEF ReportsExact, SocketsKnown
<1>8. reports' \in [Sessions -> 0 .. 2]
  <2>1. \A s \in Sessions : reports'[s] \in 0 .. 2
    BY <1>3, <1>5, <1>7 DEF ClientsTypeOK
  <2> QED BY <1>5, <2>1
<1>9. silent' \in [Sessions -> 0 .. 3]
  BY <1>1 DEF ClientsTypeOK
<1>10. ClientsTypeOK'
  BY <1>1, <1>2, <1>3, <1>4, <1>5, <1>6, <1>8, <1>9 DEF ClientsTypeOK
<1>11. SocketsKnown'
  BY <1>2, <1>3, <1>4, <1>5 DEF SocketsKnown
<1>12. ReportsExact'
  BY <1>1, <1>2, <1>3, <1>4, <1>5, <1>7 DEF ReportsExact
<1>13. MapWithinCapacity' /\ CountsAgree' /\ CountsSettle'
  BY <1>2, <1>5, <1>6 DEF MapWithinCapacity, CountsAgree, CountsSettle
<1> QED BY <1>10, <1>11, <1>12, <1>13

(* stop: a client that was registered has its close event still to come. *)
LEMMA StopKeeps == ASSUME ClientsInv, Stop PROVE ClientsInv'
<1> USE DEF ClientsInv
<1>1. /\ phase = "serving" /\ phase' = "stopping" /\ clients' = {}
      /\ sock' = [s \in Sessions |-> IF s \in clients THEN Closed(s) ELSE sock[s]]
      /\ silent' \in [Sessions -> 0 .. 3]
      /\ UNCHANGED <<accepted, deciding, active, connections, reports, timedOut, rejected>>
  BY DEF Stop, counters, wsGhosts
<1>2. clients \subseteq accepted /\ accepted \subseteq Sessions
  BY DEF ClientsTypeOK
<1>3. /\ sock' \in [Sessions -> SocketStates]
      /\ \A s \in clients : sock'[s] = "closing"
      /\ \A s \in Sessions \ clients : sock'[s] = sock[s]
  BY <1>1, <1>2 DEF Closed, ClientsTypeOK, SocketStates, SocketsKnown
<1>4. ClientsTypeOK'
  BY <1>1, <1>2, <1>3 DEF ClientsTypeOK
<1>5. SocketsKnown' /\ ReportsExact'
  BY <1>1, <1>2, <1>3 DEF SocketsKnown, ReportsExact
<1>6. MapWithinCapacity' /\ CountsAgree'
  BY <1>1, FS_EmptySet, ConnectionsAssumption DEF MapWithinCapacity, CountsAgree
<1>7. CountsSettle'
  <2>1. CASE clients = {}
    BY <1>1, <2>1, FS_EmptySet DEF CountsSettle, CountsAgree
  <2>2. CASE clients # {}
    BY <1>1, <1>2, <1>3, <2>2 DEF CountsSettle
  <2> QED BY <2>1, <2>2
<1> QED BY <1>4, <1>5, <1>6, <1>7

(* When the last socket is closed no close event is left to come, so the   *)
(* counters have been set.                                                 *)
LEMMA StoppedKeeps == ASSUME ClientsInv, Stopped PROVE ClientsInv'
<1> USE DEF ClientsInv
<1>1. /\ phase = "stopping" /\ phase' = "stopped"
      /\ \A s \in Sessions : sock[s] \in {"none", "closed"}
      /\ UNCHANGED <<sock, accepted, clients, silent, deciding, active, connections,
                     reports, timedOut, rejected>>
  BY DEF Stopped, counters, wsGhosts
<1>2. clients = {} /\ active = 0 /\ connections = 0
  BY <1>1 DEF CountsSettle, ClientsTypeOK
<1>3. ClientsTypeOK' /\ SocketsKnown' /\ ReportsExact' /\ MapWithinCapacity'
  BY <1>1 DEF ClientsTypeOK, SocketsKnown, ReportsExact, MapWithinCapacity
<1>4. CountsAgree' /\ CountsSettle'
  BY <1>1, <1>2, FS_EmptySet DEF CountsAgree, CountsSettle
<1> QED BY <1>3, <1>4

(* The invariant is inductive. *)
LEMMA ClientsNextInv == ClientsInv /\ [ClientsNext]_clientVars => ClientsInv'
<1> SUFFICES ASSUME ClientsInv, [ClientsNext]_clientVars PROVE ClientsInv'
  OBVIOUS
<1>0. ClientsTypeOK
  BY DEF ClientsInv
<1>1. ASSUME NEW s \in Sessions, HandleConnection(s) PROVE ClientsInv'
  BY <1>1, ConnectionKeeps
<1>2. ASSUME NEW s \in Sessions, HandlePacket(s) PROVE ClientsInv'
  BY <1>0, <1>2, ClosingKeeps
     DEF HandlePacket, Receives, ClientsTypeOK, counters, wsGhosts
<1>3. ASSUME NEW s \in Sessions, HandleDisconnectPacket(s) PROVE ClientsInv'
  BY <1>0, <1>3, ClosingKeeps
     DEF HandleDisconnectPacket, Receives, Closed, ClientsTypeOK, SocketStates,
         counters, wsGhosts
<1>4. ASSUME NEW s \in Sessions, HandleHandshakeAck(s) PROVE ClientsInv'
  BY <1>0, <1>4, ClosingKeeps
     DEF HandleHandshakeAck, Receives, ClientsTypeOK, counters, wsGhosts
<1>5. ASSUME NEW s \in Sessions, NEW ok \in BOOLEAN, AuthResult(s, ok) PROVE ClientsInv'
  BY <1>0, <1>5, ClosingKeeps
     DEF AuthResult, Closed, ClientsTypeOK, SocketStates, counters
<1>6. ASSUME NEW s \in Sessions, PeerCloses(s) PROVE ClientsInv'
  BY <1>0, <1>6, ClosingKeeps
     DEF PeerCloses, ClientsTypeOK, SocketStates, counters, wsGhosts
<1>7. ASSUME NEW s \in Sessions, CloseEvent(s) PROVE ClientsInv'
  BY <1>7, CloseKeeps
<1>8. ASSUME CheckHeartbeats PROVE ClientsInv'
  BY <1>8, HeartbeatsKeep
<1>9. ASSUME Stop PROVE ClientsInv'
  BY <1>9, StopKeeps
<1>10. ASSUME Stopped PROVE ClientsInv'
  BY <1>10, StoppedKeeps
<1>11. ASSUME UNCHANGED clientVars PROVE ClientsInv'
  BY <1>0, <1>11, ClosingKeeps DEF clientVars, ClientsTypeOK, counters, wsGhosts
<1> QED
  BY <1>1, <1>2, <1>3, <1>4, <1>5, <1>6, <1>7, <1>8, <1>9, <1>10, <1>11 DEF ClientsNext

(* The inductive invariant holds in every reachable state of the server. *)
THEOREM ClientsInvariance == ClientsSpec => []ClientsInv
  BY ClientsInitInv, ClientsNextInv, PTL DEF ClientsSpec

(* No open socket is ever without its entry in the map of clients. *)
THEOREM OpenSocketsRegistered == ClientsSpec => []ClientsTypeOK
<1>1. ClientsInv => ClientsTypeOK
  BY DEF ClientsInv
<1> QED BY <1>1, ClientsInvariance, PTL

(* However heartbeat timeouts, rejections and new connections interleave,  *)
(* no more than maxConnections sockets are open.                           *)
THEOREM CapacityHolds == ClientsSpec => []OpenWithinCapacity
<1>1. ClientsInv => OpenWithinCapacity
  <2> SUFFICES ASSUME ClientsInv PROVE OpenWithinCapacity
    OBVIOUS
  <2>1. {s \in Sessions : sock[s] = "open"} \in SUBSET clients
    BY DEF ClientsInv, ClientsTypeOK
  <2> QED BY <2>1, SmallerMap DEF ClientsInv, OpenWithinCapacity
<1> QED BY <1>1, ClientsInvariance, PTL

(* The connection counters equal the size of the map while the server      *)
(* runs, and again once it has stopped.                                    *)
THEOREM CountersAgree == ClientsSpec => []CountsAgree
<1>1. ClientsInv => CountsAgree
  BY DEF ClientsInv
<1> QED BY <1>1, ClientsInvariance, PTL

(* A closed session was reported, and twice only when checkHeartbeats gave *)
(* it up before its close event came.                                      *)
THEOREM DisconnectsReported == ClientsSpec => []DisconnectReported
<1>1. ClientsInv => DisconnectReported
  BY DEF ClientsInv, ClientsTypeOK, ReportsExact, SocketsKnown, DisconnectReported
<1> QED BY <1>1, ClientsInvariance, PTL

-----------------------------------------------------------------------------
(* The entry of a client, and how long it still has to wait: a refusal     *)
(* hands out what is left of the window, and from then on both run down    *)
(* together, whatever cleanup drops and however often the client is        *)
(* refused again.                                                          *)
LimiterTypeOK ==
  /\ limits \in [Keys -> [count : Nat, left : 0 .. Window]]
  /\ retry \in [Keys -> 0 .. NoRetry]
WaitsForWindow == \A k \in Keys : retry[k] = NoRetry \/ retry[k] = limits[k].left
LimiterInv == LimiterTypeOK /\ WaitsForWindow

(* What is left of a time is a time. *)
LEMMA SoonerIsLess ==
  ASSUME NEW n \in Nat
  PROVE  Sooner(n) \in Nat /\ Sooner(n) <= n
BY DEF Sooner

(* The entry that check leaves is well typed, and a window that is over    *)
(* makes room for a request.                                               *)
LEMMA CountedEntry ==
  ASSUME LimiterTypeOK, NEW k \in Keys
  PROVE  /\ Counted(k) \in [count : Nat, left : 0 .. Window]
         /\ limits[k].left = 0 => Allowed(k)
         /\ limits[k].left # 0 => Counted(k).left = limits[k].left
<1>1. limits[k] \in [count : Nat, left : 0 .. Window]
  BY DEF LimiterTypeOK
<1>2. CASE limits[k].left = 0
  <2>1. Counted(k) = [count |-> 1, left |-> Window]
    BY <1>2 DEF Counted
  <2>2. QED
    BY <1>2, <2>1, LimiterAssumption DEF Allowed
<1>3. CASE limits[k].left # 0
  <2>1. Counted(k) = [limits[k] EXCEPT !.count = IF @ > MaxRequests THEN @ ELSE @ + 1]
    BY <1>3 DEF Counted
  <2>2. QED
    BY <1>1, <1>3, <2>1, LimiterAssumption
<1>4. QED
  BY <1>2, <1>3

-----------------------------------------------------------------------------
(* A new limiter has refused nobody. *)
LEMMA ApiInitInv == ApiInit => LimiterInv
BY LimiterAssumption DEF ApiInit, LimiterInit, LimiterInv, LimiterTypeOK, WaitsForWindow, NoEntry, NoRetry

(* What the API does to the limiter in one step. *)
LEMMA LimiterSteps ==
  ASSUME [ApiNext]_apiVars
  PROVE  (\E k \in Keys : Check(k)) \/ Cleanup \/ LimiterTick \/ UNCHANGED limiterVars
<1>1. CASE \E k \in Keys :
             \/ TooMany(k)
             \/ OtherRoute(k)
             \/ \E c \in Calls, name \in Names, role \in Roles : Register(k, c, name, role)
             \/ \E c \in Calls : Login(k, c)
             \/ \E c \in Calls, id \in AlertIds : Acknowledge(k, c, id)
  BY <1>1 DEF TooMany, OtherRoute, Register, Login, Acknowledge, Passes
<1>2. CASE Timers \/ Tick
  BY <1>2 DEF Timers, Tick, limiterVars
<1>3. CASE UNCHANGED apiVars
  BY <1>3 DEF apiVars, limiterVars
<1>4. CASE (\E c \in Calls : (Hashed(c) \/ HashFails(c) \/ TokenExpires(c)) /\ UNCHANGED <<limiterVars, alertVars>>)
             \/ (Changes /\ UNCHANGED <<limiterVars, authVars>>)
  BY <1>4 DEF limiterVars
<1> QED
  BY <1>1, <1>2, <1>3, <1>4 DEF ApiNext

(* Every request, timer and tick keeps the invariant. *)
LEMMA ApiNextInv == LimiterInv /\ [ApiNext]_apiVars => LimiterInv'
<1> SUFFICES ASSUME LimiterInv, [ApiNext]_apiVars
             PROVE  LimiterInv'
  OBVIOUS
<1>0. LimiterTypeOK /\ WaitsForWindow
  BY DEF LimiterInv
<1>1. ASSUME NEW k \in Keys, Check(k)
      PROVE  LimiterInv'
  <2>1. /\ limits' = [limits EXCEPT ![k] = Counted(k)]
        /\ retry' = [retry EXCEPT ![k] = IF Allowed(k) THEN NoRetry ELSE Counted(k).left]
    BY <1>1 DEF Check
  <2>2. Counted(k) \in [count : Nat, left : 0 .. Window]
    BY <1>0, CountedEntry
  <2>3. LimiterTypeOK'
    BY <1>0, <2>1, <2>2, LimiterAssumption DEF LimiterTypeOK, NoRetry
  <2>4. WaitsForWindow'
    BY <1>0, <2>1 DEF LimiterTypeOK, WaitsForWindow
  <2>5. QED
    BY <2>3, <2>4 DEF LimiterInv
<1>2. CASE Cleanup
  <2>1. retry' = retry
    BY <1>2 DEF Cleanup
  <2>2. \A k \in Keys : limits'[k] = limits[k] \/ (limits[k].left = 0 /\ limits'[k] = NoEntry)
    BY <1>0, <1>2 DEF Cleanup
  <2>3. limits' \in [Keys -> [count : Nat, left : 0 .. Window]]
    BY <1>0, <1>2, LimiterAssumption DEF Cleanup, LimiterTypeOK, NoEntry
  <2>4. QED
    BY <1>0, <2>1, <2>2, <2>3 DEF LimiterInv, LimiterTypeOK, WaitsForWindow, NoEntry
<1>3. CASE LimiterTick
  <2>1. /\ limits' = [k \in Keys |-> [limits[k] EXCEPT !.left = Sooner(@)]]
        /\ retry' = [k \in Keys |-> IF retry[k] = NoRetry THEN NoRetry ELSE Sooner(retry[k])]
    BY <1>3 DEF LimiterTick
  <2>2. \A k \in Keys : /\ limits[k] \in [count : Nat, left : 0 .. Window]
                        /\ retry[k] \in 0 .. NoRetry
    BY <1>0 DEF LimiterTypeOK
  <2>3. \A k \in Keys : limits'[k].left = Sooner(limits[k].left)
    BY <2>1, <2>2
  <2>4. LimiterTypeOK'
    BY <2>1, <2>2, SoonerIsLess, LimiterAssumption DEF LimiterTypeOK, NoRetry, Sooner
  <2>5. WaitsForWindow'
    BY <1>0, <2>1, <2>3 DEF WaitsForWindow
  <2>6. QED
    BY <2>4, <2>5 DEF LimiterInv
<1>4. CASE UNCHANGED limiterVars
  BY <1>0, <1>4 DEF limiterVars, LimiterInv, LimiterTypeOK, WaitsForWindow
<1> QED
  BY <1>1, <1>2, <1>3, <1>4, LimiterSteps

(* RateLimiter.check keeps the word of its refusals: a client that has     *)
(* waited for retryAfterMs is let through, at the very millisecond and     *)
(* whether or not cleanup ran in between.                                  *)
THEOREM RetryPromiseKept == ApiSpec => []RetryAfterKept
<1>1. LimiterInv => RetryAfterKept
  <2> SUFFICES ASSUME LimiterInv, NEW k \in Keys, retry[k] = 0
               PROVE  Allowed(k)
    BY DEF RetryAfterKept
  <2>1. limits[k].left = 0
    BY LimiterAssumption DEF LimiterInv, WaitsForWindow, NoRetry
  <2>2. QED
    BY <2>1, CountedEntry DEF LimiterInv
<1>2. QED
  BY <1>1, ApiInitInv, ApiNextInv, PTL DEF ApiSpec

-----------------------------------------------------------------------------
(* The requests of a client, the latest first, against its entry: those of *)
(* the present window are as many as the entry counts, those before them   *)
(* are older than the window, and all but maxRequests of these are as old  *)
(* as two windows, the one that may have filled up last and the present.   *)
Counts(entry) == IF entry.count > MaxRequests THEN MaxRequests ELSE entry.count
WindowsApart(entry, ages) ==
  /\ \A i, j \in Latest : i <= j => ages[i] <= ages[j]
  /\ entry.left = 0 => ages[MaxRequests + 1] = Window
  /\ entry.left > 0 => /\ ages[Counts(entry) + 1] >= Window - entry.left
                       /\ ages[Counts(entry) + MaxRequests + 1] = Window
PassedInv ==
  /\ passed \in [Keys -> [Latest -> 0 .. Window]]
  /\ \A k \in Keys : WindowsApart(limits[k], passed[k])

(* Nobody has had a request allowed at first. *)
LEMMA PassedInitInv == ApiInit => PassedInv
<1> SUFFICES ASSUME ApiInit PROVE PassedInv
  OBVIOUS
<1>1. /\ limits = [k \in Keys |-> NoEntry]
      /\ passed = [k \in Keys |-> [i \in Latest |-> Window]]
  BY DEF ApiInit, LimiterInit
<1>2. MaxRequests + 1 \in Latest
  BY LimiterAssumption DEF Latest
<1>3. ASSUME NEW k \in Keys PROVE WindowsApart(limits[k], passed[k])
  <2>1. limits[k].left = 0
    BY <1>1 DEF NoEntry
  <2>2. \A i \in Latest : passed[k][i] = Window
    BY <1>1
  <2> QED BY <1>2, <2>1, <2>2, LimiterAssumption DEF WindowsApart
<1>4. [i \in Latest |-> Window] \in [Latest -> 0 .. Window]
  BY LimiterAssumption
<1>5. passed \in [Keys -> [Latest -> 0 .. Window]]
  BY <1>1, <1>4
<1> QED BY <1>3, <1>5 DEF PassedInv

(* A request that is allowed is the latest, in the window it opens or in   *)
(* the one that has room for it.                                           *)
LEMMA AllowedKeepsApart ==
  ASSUME LimiterTypeOK, PassedInv, NEW k \in Keys, Allowed(k)
  PROVE  Passed(k) \in [Latest -> 0 .. Window] /\ WindowsApart(Counted(k), Passed(k))
<1> PICK e, a, b : e = limits[k] /\ a = passed[k] /\ b = Passed(k)
  OBVIOUS
<1>1. e \in [count : Nat, left : 0 .. Window] /\ a \in [Latest -> 0 .. Window] /\ WindowsApart(e, a)
  BY DEF LimiterTypeOK, PassedInv
<1>2. b = [i \in Latest |-> IF i = 1 THEN 0 ELSE a[i - 1]]
  BY DEF Passed
<1>3. b \in [Latest -> 0 .. Window]
  <2>1. \A i \in Latest : i # 1 => i - 1 \in Latest
    BY LimiterAssumption DEF Latest
  <2> QED BY <1>1, <1>2, <2>1, LimiterAssumption
<1>4. ASSUME NEW i \in Latest, NEW j \in Latest, i <= j PROVE b[i] <= b[j]
  <2>1. CASE i = 1
    BY <1>2, <1>3, <2>1, LimiterAssumption
  <2>2. CASE i # 1
    <3>1. i - 1 \in Latest /\ j - 1 \in Latest /\ i - 1 <= j - 1 /\ j # 1
      BY <1>4, <2>2, LimiterAssumption DEF Latest
    <3> QED BY <1>1, <1>2, <3>1, <2>2 DEF WindowsApart
  <2> QED BY <2>1, <2>2
<1>5. CASE e.left = 0
  <2>1. Counted(k) = [count |-> 1, left |-> Window]
    BY <1>5 DEF Counted
  <2>2. Counts(Counted(k)) = 1 /\ 1 + 1 \in Latest /\ MaxRequests + 2 \in Latest
    BY <2>1, LimiterAssumption DEF Counts, Latest
  <2>3. b[MaxRequests + 2] = a[MaxRequests + 1] /\ a[MaxRequests + 1] = Window
    BY <1>1, <1>2, <1>5, <2>2, LimiterAssumption DEF WindowsApart
  <2>4. b[1 + 1] >= Window - Window /\ 1 + MaxRequests + 1 = MaxRequests + 2 /\ Window # 0
    BY <1>3, <2>2, LimiterAssumption
  <2>5. Counted(k).left = Window
    BY <2>1
  <2>6. b[1 + MaxRequests + 1] = Window
    BY <2>3, <2>4
  <2>7. WindowsApart(Counted(k), b)
    BY <1>4, <2>2, <2>4, <2>5, <2>6 DEF WindowsApart
  <2> QED BY <1>3, <2>7
<1>6. CASE e.left # 0
  <2>1. /\ e.count < MaxRequests
        /\ Counted(k) = [count |-> e.count + 1, left |-> e.left]
    BY <1>1, <1>6, LimiterAssumption DEF Counted, Allowed
  <2>2. Counts(e) = e.count /\ Counts(Counted(k)) = e.count + 1
    BY <1>1, <2>1, LimiterAssumption DEF Counts
  <2>3. e.count + 2 \in Latest /\ e.count + MaxRequests + 2 \in Latest
    <3>1. e.count \in Nat
      BY <1>1
    <3> QED BY <2>1, <3>1, LimiterAssumption DEF Latest
  <2>4. b[e.count + 2] = a[e.count + 1] /\ b[e.count + MaxRequests + 2] = a[e.count + MaxRequests + 1]
    BY <1>1, <1>2, <2>3, LimiterAssumption
  <2>5. a[e.count + 1] >= Window - e.left /\ a[e.count + MaxRequests + 1] = Window
    BY <1>1, <1>6, <2>2 DEF WindowsApart
  <2>6. e.count + 2 = e.count + 1 + 1 /\ e.count + MaxRequests + 2 = e.count + 1 + MaxRequests + 1
    BY <1>1, LimiterAssumption
  <2> QED BY <1>1, <1>3, <1>4, <1>6, <2>1, <2>2, <2>4, <2>5, <2>6 DEF WindowsApart
<1> QED BY <1>3, <1>5, <1>6

(* A request that is refused finds the window full. *)
LEMMA RefusedKeepsApart ==
  ASSUME LimiterTypeOK, PassedInv, NEW k \in Keys, ~Allowed(k)
  PROVE  WindowsApart(Counted(k), passed[k])
<1> PICK e, a : e = limits[k] /\ a = passed[k]
  OBVIOUS
<1>1. e \in [count : Nat, left : 0 .. Window] /\ WindowsApart(e, a)
  BY DEF LimiterTypeOK, PassedInv
<1>2. e.left # 0
  BY CountedEntry
<1>3. /\ Counted(k) = [count |-> IF e.count > MaxRequests THEN e.count ELSE e.count + 1, left |-> e.left]
      /\ e.count >= MaxRequests
  BY <1>1, <1>2, LimiterAssumption DEF Counted, Allowed
<1>4. Counts(Counted(k)) = Counts(e) /\ Counted(k).left = e.left
  BY <1>1, <1>3, LimiterAssumption DEF Counts
<1> QED BY <1>1, <1>4 DEF WindowsApart

(* A tick brings the end of the window nearer and every request as much    *)
(* further away.                                                           *)
LEMMA TickKeepsApart ==
  ASSUME NEW e \in [count : Nat, left : 0 .. Window], NEW a \in [Latest -> 0 .. Window],
         WindowsApart(e, a)
  PROVE  /\ [i \in Latest |-> Older(a[i])] \in [Latest -> 0 .. Window]
         /\ WindowsApart([e EXCEPT !.left = Sooner(@)], [i \in Latest |-> Older(a[i])])
<1> PICK b, d, n : b = [i \in Latest |-> Older(a[i])] /\ d = [e EXCEPT !.left = Sooner(@)] /\ n = Counts(e)
  OBVIOUS
<1>1. \A i \in Latest : /\ b[i] \in 0 .. Window
                        /\ b[i] = IF a[i] = Window THEN Window ELSE a[i] + 1
  BY LimiterAssumption DEF Older
<1>2. b \in [Latest -> 0 .. Window]
  BY <1>1
<1>3. \A i, j \in Latest : i <= j => b[i] <= b[j]
  BY <1>1, LimiterAssumption DEF WindowsApart
<1>4. n \in 0 .. MaxRequests /\ Counts(d) = n /\ d.left = Sooner(e.left)
  BY LimiterAssumption DEF Counts
<1>5. n + 1 \in Latest /\ n + MaxRequests + 1 \in Latest /\ MaxRequests + 1 \in Latest /\ n + 1 <= MaxRequests + 1
  BY <1>4, LimiterAssumption, SMTT(30) DEF Latest
<1>6. CASE e.left = 0
  BY <1>1, <1>2, <1>3, <1>4, <1>5, <1>6, LimiterAssumption DEF WindowsApart, Sooner
<1>7. CASE e.left > 0
  <2>1. a[n + 1] >= Window - e.left /\ a[n + MaxRequests + 1] = Window
    BY <1>7 DEF WindowsApart
  <2>2. d.left = e.left - 1
    BY <1>4, <1>7 DEF Sooner
  <2>3. b[n + 1] >= Window - d.left /\ b[n + MaxRequests + 1] = Window
    <3>1. a[n + 1] \in 0 .. Window /\ e.left \in 0 .. Window
      BY <1>5
    <3>2. b[n + 1] = IF a[n + 1] = Window THEN Window ELSE a[n + 1] + 1
      BY <1>1, <1>5
    <3>3. b[n + MaxRequests + 1] = Window
      BY <1>1, <1>5, <2>1
    <3> QED BY <1>7, <2>1, <2>2, <3>1, <3>2, <3>3, LimiterAssumption
  <2>4. d.left = 0 => b[MaxRequests + 1] = Window
    BY <1>1, <1>3, <1>5, <2>3, LimiterAssumption
  <2>5. WindowsApart(d, b)
    BY <1>3, <1>4, <2>3, <2>4 DEF WindowsApart
  <2> QED BY <1>2, <2>5
<1> QED BY <1>6, <1>7

(* Every step of the API keeps the requests of two windows apart.          *)
LEMMA PassedNextInv == LimiterInv /\ PassedInv /\ [ApiNext]_apiVars => PassedInv'
<1> SUFFICES ASSUME LimiterTypeOK, PassedInv, [ApiNext]_apiVars
             PROVE  PassedInv'
  BY DEF LimiterInv
<1>1. ASSUME NEW k \in Keys, Check(k)
      PROVE  PassedInv'
  <2>1. /\ limits' = [limits EXCEPT ![k] = Counted(k)]
        /\ passed' = IF Allowed(k) THEN [passed EXCEPT ![k] = Passed(k)] ELSE passed
    BY <1>1 DEF Check
  <2>2. limits \in [Keys -> [count : Nat, left : 0 .. Window]]
    BY DEF LimiterTypeOK
  <2> QED BY <2>1, <2>2, AllowedKeepsApart, RefusedKeepsApart DEF PassedInv
<1>2. CASE Cleanup
  <2>1. passed' = passed
    BY <1>2 DEF Cleanup
  <2>2. \A k \in Keys : limits'[k] = limits[k] \/ (limits[k].left = 0 /\ limits'[k] = NoEntry)
    BY <1>2 DEF Cleanup
  <2>3. \A k \in Keys : WindowsApart(limits'[k], passed[k])
    BY <2>2 DEF PassedInv, WindowsApart, NoEntry
  <2> QED BY <2>1, <2>3 DEF PassedInv
<1>3. CASE LimiterTick
  <2>1. /\ limits' = [k \in Keys |-> [limits[k] EXCEPT !.left = Sooner(@)]]
        /\ passed' = [k \in Keys |-> [i \in Latest |-> Older(passed[k][i])]]
    BY <1>3 DEF LimiterTick
  <2>2. \A k \in Keys : /\ limits[k] \in [count : Nat, left : 0 .. Window]
                        /\ passed[k] \in [Latest -> 0 .. Window]
                        /\ WindowsApart(limits[k], passed[k])
    BY DEF LimiterTypeOK, PassedInv
  <2>3. \A k \in Keys : passed'[k] \in [Latest -> 0 .. Window] /\ WindowsApart(limits'[k], passed'[k])
    BY <2>1, <2>2, TickKeepsApart
  <2> QED BY <2>1, <2>3 DEF PassedInv
<1>4. CASE UNCHANGED limiterVars
  BY <1>4 DEF limiterVars, PassedInv
<1> QED
  BY <1>1, <1>2, <1>3, <1>4, LimiterSteps

(* RateLimiter.check lets at most twice maxRequests requests through in    *)
(* any period as long as a window, also one that lies across two windows,  *)
(* and although cleanup forgets the windows that are over.                 *)
THEOREM TwiceAtMost == ApiSpec => []AtMostTwice
<1>1. LimiterInv /\ PassedInv => AtMostTwice
  <2> SUFFICES ASSUME LimiterTypeOK, PassedInv, NEW k \in Keys
               PROVE  passed[k][2 * MaxRequests + 1] = Window
    BY DEF AtMostTwice, LimiterInv
  <2>1. /\ limits[k] \in [count : Nat, left : 0 .. Window]
        /\ passed[k] \in [Latest -> 0 .. Window]
        /\ WindowsApart(limits[k], passed[k])
    BY DEF LimiterTypeOK, PassedInv
  <2>2. Counts(limits[k]) \in 0 .. MaxRequests
    BY <2>1, LimiterAssumption DEF Counts
  <2>3. PICK i \in Latest : passed[k][i] = Window
    <3>1. MaxRequests + 1 \in Latest /\ Counts(limits[k]) + MaxRequests + 1 \in Latest
      BY <2>2, LimiterAssumption DEF Latest
    <3> QED BY <2>1, <3>1 DEF WindowsApart
  <2>4. 2 * MaxRequests + 1 \in Latest /\ i <= 2 * MaxRequests + 1
    BY <2>3, LimiterAssumption DEF Latest
  <2>5. passed[k][2 * MaxRequests + 1] >= Window /\ passed[k][2 * MaxRequests + 1] \in 0 .. Window
    BY <2>1, <2>3, <2>4 DEF WindowsApart
  <2> QED BY <2>5, LimiterAssumption
<1> QED
  BY <1>1, ApiInitInv, ApiNextInv, PassedInitInv, PassedNextInv, PTL DEF ApiSpec

-----------------------------------------------------------------------------
(* The accounts: a user is stored for every call that created one, and two *)
(* registrations of one name, stored or under way, overlapped.             *)
CallStates == {"none", "hashing", "over", "created"}
AuthTypeOK ==
  /\ calls \in [Calls -> [state : CallStates, name : Names \cup {"-"}, role : Roles \cup {"-"}]]
  /\ users \in Seq(Calls)
  /\ beside \in [Calls -> SUBSET Calls]
StoredWhenCreated == \A c \in Calls : calls[c].state = "created" <=> c \in ToSet(users)
Claims(c) == calls[c].state \in {"hashing", "created"}
NamesOverlapOnly ==
  \A c, d \in Calls :
    Claims(c) /\ Claims(d) /\ c # d /\ calls[c].name = calls[d].name
      => c \in beside[d] \/ d \in beside[c]
AuthInv == AuthTypeOK /\ StoredWhenCreated /\ NamesOverlapOnly

(* Nobody has registered at first. *)
LEMMA AuthInitInv == ApiInit => AuthInv
<1> SUFFICES ASSUME ApiInit PROVE AuthInv
  OBVIOUS
<1>1. /\ calls = [c \in Calls |-> [state |-> "none", name |-> "-", role |-> "-"]]
      /\ users = <<>> /\ beside = [c \in Calls |-> {}]
  BY DEF ApiInit, AuthInit, Call
<1>2. users \in Seq(Calls) /\ ToSet(users) = {}
  BY <1>1 DEF ToSet
<1> QED BY <1>1, <1>2 DEF AuthInv, AuthTypeOK, StoredWhenCreated, NamesOverlapOnly, Claims, CallStates

(* createUser claims a name that no user has; whoever else claims it is    *)
(* being hashed.                                                           *)
LEMMA CreateUserKeeps ==
  ASSUME AuthInv, NEW c \in Calls, NEW name \in Names, NEW role \in Roles,
         CreateUser(c, name, role)
  PROVE  AuthInv'
<1> USE DEF AuthInv
<1>1. users' = users /\ calls[c].state = "none"
  BY DEF CreateUser
<1>2. CASE Taken(name)
  <2>1. /\ calls' = [calls EXCEPT ![c] = [state |-> "over", name |-> "-", role |-> "-"]]
        /\ beside' = beside
    BY <1>2 DEF CreateUser, Call
  <2> QED BY <1>1, <2>1 DEF AuthTypeOK, StoredWhenCreated, NamesOverlapOnly, Claims, CallStates
<1>3. CASE ~Taken(name)
  <2>1. /\ calls' = [calls EXCEPT ![c] = [state |-> "hashing", name |-> name, role |-> role]]
        /\ beside' = [beside EXCEPT ![c] = Hashing]
    BY <1>3 DEF CreateUser, Call
  <2>2. \A d \in Calls : Claims(d) /\ calls[d].name = name => d \in Hashing
    BY <1>3 DEF StoredWhenCreated, Taken, ToSet, Claims, Hashing
  <2>3. AuthTypeOK' /\ StoredWhenCreated'
    BY <1>1, <2>1 DEF AuthTypeOK, StoredWhenCreated, CallStates, Hashing
  <2>4. NamesOverlapOnly'
    BY <2>1, <2>2 DEF AuthTypeOK, NamesOverlapOnly, Claims
  <2> QED BY <2>3, <2>4
<1> QED BY <1>2, <1>3

(* The hash is ready: the user is stored under the name it has claimed. *)
LEMMA HashedKeeps == ASSUME AuthInv, NEW c \in Calls, Hashed(c) PROVE AuthInv'
<1> USE DEF AuthInv
<1>1. /\ calls[c].state = "hashing" /\ calls' = [calls EXCEPT ![c].state = "created"]
      /\ users' = Append(users, c) /\ beside' = beside
  BY DEF Hashed
<1>2. users' \in Seq(Calls) /\ ToSet(users') = ToSet(users) \cup {c}
  <2>1. PICK n \in Nat : n = Len(users)
    BY LenProperties DEF AuthTypeOK
  <2>2. /\ users' \in Seq(Calls) /\ Len(users') = n + 1
        /\ \A i \in 1 .. n : users'[i] = users[i]
        /\ users'[n + 1] = c
    BY <1>1, <2>1, AppendProperties DEF AuthTypeOK
  <2>3. DOMAIN users = 1 .. n /\ DOMAIN users' = 1 .. n + 1
    BY <2>1, <2>2, LenProperties DEF AuthTypeOK
  <2>4. 1 .. n + 1 = 1 .. n \cup {n + 1}
    BY <2>1
  <2> QED BY <2>2, <2>3, <2>4 DEF ToSet
<1>3. AuthTypeOK'
  BY <1>1, <1>2, ZenonT(30) DEF AuthTypeOK, CallStates
<1>4. StoredWhenCreated'
  BY <1>1, <1>2 DEF AuthTypeOK, StoredWhenCreated
<1>5. NamesOverlapOnly'
  BY <1>1 DEF AuthTypeOK, NamesOverlapOnly, Claims
<1> QED BY <1>3, <1>4, <1>5

(* Every step of the API keeps the accounts' invariant. *)
LEMMA AuthNextInv == AuthInv /\ [ApiNext]_apiVars => AuthInv'
<1> SUFFICES ASSUME AuthInv, [ApiNext]_apiVars PROVE AuthInv'
  OBVIOUS
<1>1. CASE UNCHANGED <<calls, users, beside>>
  BY <1>1 DEF AuthInv, AuthTypeOK, StoredWhenCreated, NamesOverlapOnly, Claims
<1>2. ASSUME NEW c \in Calls, NEW name \in Names, NEW role \in Roles, CreateUser(c, name, role)
      PROVE  AuthInv'
  BY <1>2, CreateUserKeeps
<1>3. ASSUME NEW c \in Calls, Hashed(c) PROVE AuthInv'
  BY <1>3, HashedKeeps
<1>4. ASSUME NEW c \in Calls, HashFails(c) PROVE AuthInv'
  <2>1. /\ calls' = [calls EXCEPT ![c] = [state |-> "over", name |-> "-", role |-> "-"]]
        /\ calls[c].state = "hashing" /\ UNCHANGED <<users, beside>>
    BY <1>4 DEF HashFails, Call
  <2> QED BY <2>1
    DEF AuthInv, AuthTypeOK, StoredWhenCreated, NamesOverlapOnly, Claims, CallStates
<1>5. ASSUME NEW c \in Calls, Authenticate(c) \/ TokenExpires(c) PROVE AuthInv'
  BY <1>1, <1>5 DEF Authenticate, TokenExpires
<1>6. CASE UNCHANGED authVars
  BY <1>1, <1>6 DEF authVars
<1>7. CASE \E k \in Keys : TooMany(k) \/ OtherRoute(k) \/ \E c \in Calls, id \in AlertIds : Acknowledge(k, c, id)
  BY <1>6, <1>7 DEF TooMany, OtherRoute, Acknowledge
<1>8. CASE \E k \in Keys, c \in Calls :
             Login(k, c) \/ \E name \in Names, role \in Roles : Register(k, c, name, role)
  BY <1>2, <1>5, <1>8 DEF Login, Register
<1>9. CASE Timers \/ Tick \/ (Changes /\ UNCHANGED <<limiterVars, authVars>>) \/ UNCHANGED apiVars
  BY <1>6, <1>9 DEF Timers, Tick, apiVars
<1> QED BY <1>3, <1>4, <1>5, <1>7, <1>8, <1>9 DEF ApiNext

(* createUser gives a name away twice only to registrations that overlap:  *)
(* however logins, hashes and failures interleave, one of two users of a   *)
(* name was being hashed when the other registration began.                *)
THEOREM NamesGivenOnce == ApiSpec => []NamesTakenOnce
<1>1. AuthInv => NamesTakenOnce
  <2>1. AuthInv => \A c \in ToSet(users) : c \in Calls
    BY ElementOfSeq, LenProperties DEF AuthInv, AuthTypeOK, ToSet
  <2> QED BY <2>1 DEF AuthInv, StoredWhenCreated, NamesOverlapOnly, Claims, NamesTakenOnce
<1>2. QED
  BY <1>1, AuthInitInv, AuthNextInv, PTL DEF ApiSpec

-----------------------------------------------------------------------------
(* The alert history: it alternates per rule, and every entry is of a rule *)
(* there is.                                                               *)
Entries == [rule : DOMAIN Rules, status : {"active", "resolved"}]
AlertTypeOK ==
  /\ alerts \in [DOMAIN Rules -> {"none", "active", "acknowledged"}]
  /\ history \in Seq(Entries)

(* HistoryAlternates of any list of entries and any state of the alerts. *)
Alternates(h, al) ==
  \A j \in DOMAIN h :
    /\ \A i \in 1 .. j - 1 : NextOfRule(h, i, j) => h[i].status # h[j].status
    /\ LastOfRule(h, j) => (h[j].status = "resolved" <=> al[h[j].rule] = "none")
AlertInv == AlertTypeOK /\ Alternates(history, alerts)

(* A smaller number has a smaller place, so that the places of n numbers   *)
(* are 1 to n, each taken once: InOrder lists every element once.          *)
LEMMA InOrderLists ==
  ASSUME NEW S \in SUBSET Nat, IsFiniteSet(S)
  PROVE  /\ Cardinality(S) \in Nat
         /\ InOrder(S) \in [1 .. Cardinality(S) -> S]
         /\ \A i \in S : \E k \in 1 .. Cardinality(S) : InOrder(S)[k] = i
         /\ \A k, l \in 1 .. Cardinality(S) : InOrder(S)[k] = InOrder(S)[l] => k = l
<1> DEFINE UpTo(i) == {j \in S : j <= i}
           Place(i) == Cardinality(UpTo(i))
           n == Cardinality(S)
           places == [i \in S |-> Place(i)]
           T == {places[i] : i \in S}
<1>1. n \in Nat
  BY FS_CardinalityType
<1>2. ASSUME NEW i \in S PROVE Place(i) \in 1 .. n
  <2>1. UpTo(i) \in SUBSET S /\ i \in UpTo(i)
    OBVIOUS
  <2>2. IsFiniteSet(UpTo(i)) /\ Place(i) <= n
    BY <2>1, FS_Subset
  <2>3. Place(i) \in Nat /\ Place(i) # 0
    BY <2>1, <2>2, FS_CardinalityType, FS_EmptySet
  <2> HIDE DEF Place, n
  <2> QED BY <1>1, <2>2, <2>3
<1>3. ASSUME NEW i \in S, NEW j \in S, i < j PROVE Place(i) < Place(j)
  <2>1. UpTo(i) \in SUBSET UpTo(j) /\ j \in UpTo(j) /\ j \notin UpTo(i)
    <3>1. i \in Nat /\ j \in Nat
      OBVIOUS
    <3>2. ASSUME NEW x \in S, x <= i PROVE x <= j
      <4>1. x \in Nat
        OBVIOUS
      <4> QED BY <1>3, <3>1, <3>2, <4>1
    <3>3. j <= j /\ ~(j <= i)
      BY <1>3, <3>1
    <3> QED BY <3>2, <3>3
  <2>2. UpTo(j) \in SUBSET S
    OBVIOUS
  <2>3. IsFiniteSet(UpTo(j))
    BY <2>2, FS_Subset
  <2>4. /\ Place(i) <= Place(j)
        /\ Place(j) = Place(i) => UpTo(i) = UpTo(j)
    <3> HIDE DEF UpTo
    <3> QED BY <2>1, <2>3, FS_Subset
  <2>5. Place(i) \in 1 .. n /\ Place(j) \in 1 .. n
    BY <1>2
  <2>6. Place(j) # Place(i)
    <3> HIDE DEF UpTo
    <3> QED BY <2>1, <2>4
  <2> HIDE DEF Place, n
  <2> QED BY <1>1, <2>4, <2>5, <2>6
<1>4. ASSUME NEW i \in S, NEW j \in S, Place(i) = Place(j) PROVE i = j
  <2>1. i \in Nat /\ j \in Nat /\ (i < j \/ j < i \/ i = j)
    OBVIOUS
  <2>2. Place(i) \in 1 .. n /\ Place(j) \in 1 .. n
    BY <1>2
  <2> HIDE DEF Place, n
  <2> QED BY <1>1, <1>3, <1>4, <2>1, <2>2
<1>5. T = 1 .. n
  <2> HIDE DEF Place, n
  <2>1. places \in Bijection(S, T)
    <3>1. places \in [S -> T] /\ (\A t \in T : \E s \in S : places[s] = t)
      OBVIOUS
    <3>2. \A a, b \in S : places[a] = places[b] => a = b
      BY <1>4
    <3> HIDE DEF places, T
    <3> QED BY <3>1, <3>2 DEF Bijection, Injection, Surjection, IsInjective
  <2>2. ExistsBijection(S, T)
    <3> HIDE DEF places, T
    <3> QED BY <2>1 DEF ExistsBijection
  <2>3. IsFiniteSet(T) /\ Cardinality(T) = Cardinality(S)
    <3> HIDE DEF places, T
    <3> QED BY <2>2, FS_Bijection
  <2>4. T \in SUBSET (1 .. n)
    BY <1>2
  <2>5. IsFiniteSet(1 .. n) /\ Cardinality(1 .. n) = n
    <3>1. 1 \in Int /\ n \in Int /\ n >= 0
      BY <1>1
    <3>2. IsFiniteSet(1 .. n) /\ Cardinality(1 .. n) = IF 1 > n THEN 0 ELSE n - 1 + 1
      BY <3>1, FS_Interval
    <3> QED BY <1>1, <3>2
  <2> HIDE DEF places, T
  <2> QED BY <2>3, <2>4, <2>5, FS_Subset DEF n
<1>6. \A k \in 1 .. n : \E i \in S : Place(i) = k
  <2> HIDE DEF Place, n
  <2> QED BY <1>5
<1>7. InOrder(S) = [k \in 1 .. n |-> CHOOSE i \in S : Place(i) = k]
  BY DEF InOrder
<1> HIDE DEF Place, n, T, places
<1>8. \A k \in 1 .. n : InOrder(S)[k] \in S /\ Place(InOrder(S)[k]) = k
  BY <1>6, <1>7
<1>9. \A i \in S : InOrder(S)[Place(i)] = i
  BY <1>2, <1>4, <1>8
<1>10. /\ n \in Nat
       /\ InOrder(S) \in [1 .. n -> S]
       /\ \A i \in S : \E k \in 1 .. n : InOrder(S)[k] = i
       /\ \A k, l \in 1 .. n : InOrder(S)[k] = InOrder(S)[l] => k = l
  BY <1>1, <1>2, <1>7, <1>8, <1>9
<1> QED BY <1>10 DEF n

(* What one run of the loop appends: one entry for every rule that has     *)
(* changed, and none for another.                                          *)
LEMMA NewEntriesListed ==
  ASSUME NEW m, NEW f, NEW e,
         m = Cardinality(Changed), f = InOrder(Changed), e = NewEntries(Changed)
  PROVE  /\ m \in Nat
         /\ e \in [1 .. m -> Entries]
         /\ f \in [1 .. m -> Changed]
         /\ \A k \in 1 .. m : e[k] = NewEntry(f[k])
         /\ \A i \in Changed : \E k \in 1 .. m : f[k] = i
         /\ \A k, l \in 1 .. m : f[k] = f[l] => k = l
<1>1. DOMAIN Rules = 1 .. Len(Rules) /\ Len(Rules) \in Nat
  BY RulesAssumption, LenProperties
<1>2. Changed \in SUBSET Nat /\ IsFiniteSet(Changed) /\ Changed \subseteq DOMAIN Rules
  <2>1. Changed \subseteq DOMAIN Rules
    BY DEF Changed
  <2>2. IsFiniteSet(1 .. Len(Rules))
    BY <1>1, FS_Interval
  <2> QED BY <1>1, <2>1, <2>2, FS_Subset
<1>3. /\ m \in Nat /\ f \in [1 .. m -> Changed]
      /\ \A i \in Changed : \E k \in 1 .. m : f[k] = i
      /\ \A k, l \in 1 .. m : f[k] = f[l] => k = l
  BY <1>2, InOrderLists
<1>4. e = [k \in DOMAIN f |-> NewEntry(f[k])]
  BY DEF NewEntries
<1>5. e = [k \in 1 .. m |-> NewEntry(f[k])]
  BY <1>3, <1>4
<1>6. \A i \in Changed : NewEntry(i) \in Entries
  BY <1>2 DEF NewEntry, Entries
<1>7. e \in [1 .. m -> Entries]
  BY <1>3, <1>5, <1>6
<1>8. \A k \in 1 .. m : e[k] = NewEntry(f[k])
  BY <1>5
<1> QED BY <1>3, <1>7, <1>8

(* evaluateRules: the entry of a rule that fires follows a resolution, or  *)
(* none at all, that of a rule that resolves follows its firing, and every *)
(* rule that changes gets one.                                             *)
LEMMA LoopAlternates ==
  ASSUME AlertInv, EvaluateRules
  PROVE  /\ history \o NewEntries(Changed) \in Seq(Entries)
         /\ Alternates(history \o NewEntries(Changed), alerts')
<1> PICK n : n = Len(history)
  OBVIOUS
<1>1. n \in Nat /\ DOMAIN history = 1 .. n /\ history \in Seq(Entries)
  BY LenProperties DEF AlertInv, AlertTypeOK
<1> PICK m, f, e : m = Cardinality(Changed) /\ f = InOrder(Changed) /\ e = NewEntries(Changed)
  OBVIOUS
<1>2. /\ m \in Nat
      /\ e \in [1 .. m -> Entries]
      /\ f \in [1 .. m -> Changed]
      /\ \A k \in 1 .. m : e[k] = NewEntry(f[k])
      /\ \A i \in Changed : \E k \in 1 .. m : f[k] = i
      /\ \A k, l \in 1 .. m : f[k] = f[l] => k = l
  BY NewEntriesListed
<1>3. e \in Seq(Entries) /\ Len(e) = m
  BY <1>2, SeqDef, LenProperties
<1> PICK a : a = history \o e
  OBVIOUS
<1>4. /\ a \in Seq(Entries) /\ Len(a) = n + m /\ DOMAIN a = 1 .. n + m
      /\ \A i \in 1 .. n + m : a[i] = IF i <= n THEN history[i] ELSE e[i - n]
  <2>1. /\ a \in Seq(Entries)
        /\ Len(a) = Len(history) + Len(e)
        /\ \A i \in 1 .. Len(history) + Len(e) :
             a[i] = IF i <= Len(history) THEN history[i] ELSE e[i - Len(history)]
    BY <1>1, <1>3, ConcatProperties
  <2>2. DOMAIN a = 1 .. Len(a)
    BY <2>1, LenProperties
  <2> QED BY <1>1, <1>3, <2>1, <2>2
<1>5. /\ \A i \in 1 .. n : a[i] = history[i] /\ i \in DOMAIN history
      /\ \A k \in 1 .. m : a[n + k] = e[k] /\ n + k \in 1 .. n + m
  <2>1. ASSUME NEW i \in 1 .. n PROVE a[i] = history[i] /\ i \in DOMAIN history
    <3>1. i \in 1 .. n + m /\ i <= n
      BY <1>1, <1>2
    <3> QED BY <1>1, <1>4, <3>1
  <2>2. ASSUME NEW k \in 1 .. m PROVE a[n + k] = e[k] /\ n + k \in 1 .. n + m
    <3>1. n + k \in 1 .. n + m /\ ~(n + k <= n) /\ (n + k) - n = k
      BY <1>1, <1>2
    <3> QED BY <1>4, <3>1
  <2> QED BY <2>1, <2>2
<1>6. /\ \A i \in DOMAIN Rules : alerts[i] \in {"none", "active", "acknowledged"}
      /\ \A i \in DOMAIN Rules : alerts'[i] =
           IF Fires(i) THEN "active" ELSE IF Resolves(i) THEN "none" ELSE alerts[i]
      /\ Changed \subseteq DOMAIN Rules
      /\ \A i \in DOMAIN Rules : i \in Changed <=> Fires(i) \/ Resolves(i)
  BY DEF AlertInv, AlertTypeOK, EvaluateRules, Changed
<1>7. \A i \in 1 .. n : history[i].rule \in DOMAIN Rules
  <2>1. \A i \in 1 .. n : history[i] \in Entries
    BY <1>1, ElementOfSeq
  <2> QED BY <2>1 DEF Entries
<1>8. ASSUME NEW j \in 1 .. n
      PROVE  /\ \A i \in 1 .. j - 1 : NextOfRule(a, i, j) => a[i].status # a[j].status
             /\ LastOfRule(a, j) => (a[j].status = "resolved" <=> alerts'[a[j].rule] = "none")
  <2>1. ASSUME NEW i \in 1 .. j - 1, NextOfRule(a, i, j) PROVE a[i].status # a[j].status
    <3>1. i \in 1 .. n /\ \A l \in i + 1 .. j - 1 : l \in 1 .. n
      BY <1>1
    <3>2. NextOfRule(history, i, j)
      BY <1>5, <2>1, <3>1 DEF NextOfRule
    <3> QED BY <1>5, <3>1, <3>2 DEF AlertInv, Alternates
  <2>2. ASSUME LastOfRule(a, j)
        PROVE  a[j].status = "resolved" <=> alerts'[a[j].rule] = "none"
    <3>1. a[j].rule \notin Changed
      <4> SUFFICES ASSUME NEW k \in 1 .. m, f[k] = a[j].rule PROVE FALSE
        BY <1>2
      <4>1. a[n + k].rule = a[j].rule
        BY <1>2, <1>5 DEF NewEntry
      <4>2. n + k \in j + 1 .. n + m
        BY <1>1, <1>2
      <4> QED BY <1>4, <2>2, <4>1, <4>2 DEF LastOfRule
    <3>2. alerts'[a[j].rule] = alerts[a[j].rule]
      BY <1>5, <1>6, <1>7, <3>1
    <3>3. \A l \in j + 1 .. n : l \in 1 .. n /\ l \in j + 1 .. n + m
      BY <1>1, <1>2
    <3>4. LastOfRule(history, j)
      BY <1>4, <1>5, <2>2, <3>3 DEF LastOfRule
    <3> QED BY <1>5, <3>2, <3>4 DEF AlertInv, Alternates
  <2> QED BY <2>1, <2>2
<1>9. ASSUME NEW k \in 1 .. m
      PROVE  /\ \A i \in 1 .. (n + k) - 1 :
                  NextOfRule(a, i, n + k) => a[i].status # a[n + k].status
             /\ a[n + k].status = "resolved" <=> alerts'[a[n + k].rule] = "none"
  <2> PICK r : r = f[k]
    OBVIOUS
  <2>1. r \in Changed /\ r \in DOMAIN Rules /\ a[n + k] = NewEntry(r)
    BY <1>2, <1>5, <1>6
  <2>2. a[n + k].rule = r /\ a[n + k].status = IF Fires(r) THEN "active" ELSE "resolved"
    BY <2>1 DEF NewEntry
  <2>3. ASSUME NEW i \in 1 .. (n + k) - 1, NextOfRule(a, i, n + k)
        PROVE  a[i].status # a[n + k].status
    <3>1. a[i].rule = r /\ \A l \in i + 1 .. (n + k) - 1 : a[l].rule # r
      BY <2>2, <2>3 DEF NextOfRule
    <3>2. i <= n
      <4> SUFFICES ASSUME i > n PROVE FALSE
        BY <1>1, <1>2
      <4>1. i - n \in 1 .. m /\ n + (i - n) = i /\ i - n # k
        BY <1>1, <1>2
      <4>2. f[i - n] = r
        BY <1>2, <1>5, <3>1, <4>1 DEF NewEntry
      <4> QED BY <1>2, <4>1, <4>2
    <3>3. i \in 1 .. n /\ \A l \in i + 1 .. n : l \in 1 .. n /\ l \in i + 1 .. (n + k) - 1
      BY <1>1, <1>2, <3>2
    <3>4. history[i].rule = r /\ LastOfRule(history, i) /\ i \in DOMAIN history
      BY <1>5, <3>1, <3>3 DEF LastOfRule
    <3>5. history[i].status = "resolved" <=> alerts[r] = "none"
      BY <3>4 DEF AlertInv, Alternates
    <3>6. CASE Fires(r)
      BY <1>5, <2>2, <3>3, <3>5, <3>6 DEF Fires
    <3>7. CASE ~Fires(r)
      BY <1>5, <1>6, <2>1, <2>2, <3>3, <3>5, <3>7 DEF Resolves
    <3> QED BY <3>6, <3>7
  <2>4. a[n + k].status = "resolved" <=> alerts'[a[n + k].rule] = "none"
    BY <1>6, <2>1, <2>2
  <2> QED BY <2>3, <2>4
<1>10. \A j \in 1 .. n + m : j \in 1 .. n \/ \E k \in 1 .. m : j = n + k
  <2> SUFFICES ASSUME NEW j \in 1 .. n + m, ~(j \in 1 .. n) PROVE \E k \in 1 .. m : j = n + k
    OBVIOUS
  <2>1. j - n \in 1 .. m /\ j = n + (j - n)
    BY <1>1, <1>2
  <2> QED BY <2>1
<1>11. Alternates(a, alerts')
  <2> SUFFICES ASSUME NEW j \in 1 .. n + m
               PROVE  /\ \A i \in 1 .. j - 1 : NextOfRule(a, i, j) => a[i].status # a[j].status
                      /\ LastOfRule(a, j) =>
                           (a[j].status = "resolved" <=> alerts'[a[j].rule] = "none")
    BY <1>4 DEF Alternates
  <2>1. CASE j \in 1 .. n
    BY <1>8, <2>1
  <2>2. ASSUME NEW k \in 1 .. m, j = n + k
        PROVE  /\ \A i \in 1 .. j - 1 : NextOfRule(a, i, j) => a[i].status # a[j].status
               /\ a[j].status = "resolved" <=> alerts'[a[j].rule] = "none"
    BY <1>9, <2>2
  <2> QED BY <1>10, <2>1, <2>2
<1> QED BY <1>2, <1>4, <1>11

(* The shift of addToHistory forgets the oldest entries only. *)
LEMMA ShiftAlternates ==
  ASSUME NEW h \in Seq(Entries), NEW al, Alternates(h, al), NEW m \in Nat, m <= Len(h)
  PROVE  /\ SubSeq(h, m + 1, Len(h)) \in Seq(Entries)
         /\ Alternates(SubSeq(h, m + 1, Len(h)), al)
<1> PICK n : n = Len(h)
  OBVIOUS
<1>1. n \in Nat /\ DOMAIN h = 1 .. n /\ \A i \in 1 .. n : h[i] \in Entries
  BY LenProperties, ElementOfSeq
<1> PICK q : q = SubSeq(h, m + 1, n)
  OBVIOUS
<1>2. /\ q \in Seq(Entries)
      /\ Len(q) = n - m
      /\ \A i \in 1 .. n - m : q[i] = h[m + i]
  <2>0. \A i \in m + 1 .. n : h[i] \in Entries
    BY <1>1
  <2>1. /\ q \in Seq(Entries)
        /\ Len(q) = IF m + 1 <= n THEN n - (m + 1) + 1 ELSE 0
        /\ \A i \in 1 .. n - (m + 1) + 1 : q[i] = h[(m + 1) + i - 1]
    BY <1>1, <2>0, SubSeqProperties
  <2>2. \A i \in 1 .. n - m : (m + 1) + i - 1 = m + i /\ i \in 1 .. n - (m + 1) + 1
    BY <1>1
  <2>3. Len(q) = n - m
    BY <1>1, <2>1
  <2> QED BY <2>1, <2>2, <2>3
<1>3. DOMAIN q = 1 .. n - m /\ \A i \in 1 .. n - m : m + i \in DOMAIN h
  BY <1>1, <1>2, LenProperties
<1>4. ASSUME NEW j \in 1 .. n - m
      PROVE  /\ \A i \in 1 .. j - 1 : NextOfRule(q, i, j) => q[i].status # q[j].status
             /\ LastOfRule(q, j) => (q[j].status = "resolved" <=> al[q[j].rule] = "none")
  <2>1. ASSUME NEW i \in 1 .. j - 1, NextOfRule(q, i, j) PROVE q[i].status # q[j].status
    <3>1. i \in 1 .. n - m /\ m + i \in 1 .. (m + j) - 1
      BY <1>1
    <3>2. ASSUME NEW l \in (m + i) + 1 .. (m + j) - 1 PROVE h[l].rule # h[m + j].rule
      <4>1. l - m \in i + 1 .. j - 1 /\ l - m \in 1 .. n - m /\ m + (l - m) = l
        BY <1>1, <3>1
      <4> QED BY <1>2, <2>1, <4>1, ZenonT(30) DEF NextOfRule
    <3>3. NextOfRule(h, m + i, m + j)
      BY <1>2, <2>1, <3>1, <3>2 DEF NextOfRule
    <3> QED BY <1>2, <1>3, <3>1, <3>3, SMTT(30) DEF Alternates
  <2>2. ASSUME LastOfRule(q, j) PROVE q[j].status = "resolved" <=> al[q[j].rule] = "none"
    <3>1. ASSUME NEW l \in (m + j) + 1 .. n PROVE h[l].rule # h[m + j].rule
      <4>1. l - m \in j + 1 .. n - m /\ l - m \in 1 .. n - m /\ m + (l - m) = l
        BY <1>1
      <4>2. q[l - m] = h[l] /\ q[j] = h[m + j]
        BY <1>2, <4>1
      <4>3. q[l - m].rule # q[j].rule
        BY <1>2, <2>2, <4>1 DEF LastOfRule
      <4> QED BY <4>2, <4>3
    <3>2. LastOfRule(h, m + j)
      BY <3>1 DEF LastOfRule
    <3>3. m + j \in DOMAIN h /\ q[j] = h[m + j]
      BY <1>2, <1>3
    <3> QED BY <3>2, <3>3 DEF Alternates
  <2> QED BY <2>1, <2>2
<1>5. Alternates(q, al)
  BY <1>3, <1>4 DEF Alternates
<1> QED BY <1>2, <1>5

(* evaluateRules with its shift. *)
LEMMA EvaluateKeeps == ASSUME AlertInv, EvaluateRules PROVE AlertInv'
<1> PICK all : all = history \o NewEntries(Changed)
  OBVIOUS
<1>1. all \in Seq(Entries) /\ Alternates(all, alerts') /\ Len(all) \in Nat
  BY LoopAlternates, LenProperties
<1>2. history' = IF Len(all) <= MaxHistory THEN all
                 ELSE SubSeq(all, Len(all) - MaxHistory + 1, Len(all))
  BY DEF EvaluateRules, AddToHistory
<1>3. history' \in Seq(Entries) /\ Alternates(history', alerts')
  <2>1. CASE Len(all) <= MaxHistory
    BY <1>1, <1>2, <2>1
  <2>2. CASE ~(Len(all) <= MaxHistory)
    <3> PICK m : m = Len(all) - MaxHistory
      OBVIOUS
    <3>1. m \in Nat /\ m <= Len(all)
      BY <1>1, <2>2, HistoryAssumption
    <3>2. history' = SubSeq(all, m + 1, Len(all))
      BY <1>2, <2>2
    <3> QED BY <1>1, <3>1, <3>2, ShiftAlternates
  <2> QED BY <2>1, <2>2
<1>4. alerts' \in [DOMAIN Rules -> {"none", "active", "acknowledged"}]
  BY DEF EvaluateRules, AlertInv, AlertTypeOK
<1> QED BY <1>3, <1>4 DEF AlertInv, AlertTypeOK

(* Acknowledging an alert does not end it. *)
LEMMA AcknowledgeKeeps ==
  ASSUME AlertInv, NEW id \in AlertIds, AcknowledgeAlert(id)
  PROVE  AlertInv'
<1>1. history' = history /\ history \in Seq(Entries)
  BY DEF AcknowledgeAlert, AlertInv, AlertTypeOK
<1>2. alerts' \in [DOMAIN Rules -> {"none", "active", "acknowledged"}]
  BY DEF AcknowledgeAlert, AlertInv, AlertTypeOK
<1>3. \A i \in DOMAIN Rules : alerts'[i] = "none" <=> alerts[i] = "none"
  BY DEF AcknowledgeAlert, AlertInv, AlertTypeOK
<1>4. \A j \in DOMAIN history : history[j].rule \in DOMAIN Rules
  <2>1. \A j \in DOMAIN history : history[j] \in Entries
    <3> HIDE DEF Entries
    <3> QED BY <1>1, ElementOfSeq, LenProperties
  <2> QED BY <2>1 DEF Entries
<1>5. Alternates(history, alerts')
  BY <1>3, <1>4 DEF AlertInv, Alternates
<1> QED BY <1>1, <1>2, <1>5 DEF AlertInv, AlertTypeOK

(* The history is empty at first. *)
LEMMA AlertInitInv == ApiInit => AlertInv
BY DEF ApiInit, AlertInit, AlertInv, AlertTypeOK, Alternates

(* Every step of the API keeps the history's invariant. *)
LEMMA AlertNextInv == AlertInv /\ [ApiNext]_apiVars => AlertInv'
<1> SUFFICES ASSUME AlertInv, [ApiNext]_apiVars PROVE AlertInv'
  OBVIOUS
<1>1. CASE UNCHANGED <<alerts, history>>
  BY <1>1 DEF AlertInv, AlertTypeOK, Alternates
<1>2. ASSUME NEW id \in AlertIds, AcknowledgeAlert(id) PROVE AlertInv'
  BY <1>2, AcknowledgeKeeps
<1>3. ASSUME UNCHANGED alertVars PROVE AlertInv'
  BY <1>1, <1>3 DEF alertVars
<1>4. CASE \E k \in Keys :
             \/ TooMany(k) \/ OtherRoute(k)
             \/ \E c \in Calls, name \in Names, role \in Roles : Register(k, c, name, role)
             \/ \E c \in Calls : Login(k, c)
             \/ \E c \in Calls, id \in AlertIds : Acknowledge(k, c, id)
  BY <1>2, <1>3, <1>4 DEF TooMany, OtherRoute, Register, Login, Acknowledge
<1>5. CASE Timers
  BY <1>1, <1>3, <1>5, EvaluateKeeps DEF Timers, Collect
<1>6. CASE Tick \/ (Changes /\ UNCHANGED <<limiterVars, authVars>>) \/ UNCHANGED apiVars
  BY <1>1, <1>6 DEF Tick, AlertTick, Changes, apiVars, alertVars
<1>7. CASE \E c \in Calls : (Hashed(c) \/ HashFails(c) \/ TokenExpires(c)) /\ UNCHANGED <<limiterVars, alertVars>>
  BY <1>3, <1>7
<1> QED BY <1>4, <1>5, <1>6, <1>7 DEF ApiNext

(* What alertHistory tells of a rule is consistent, whatever the rules and *)
(* however many of them share the bounded history: firings and resolutions *)
(* alternate, and the last entry agrees with activeAlerts.                 *)
THEOREM HistoryConsistent == ApiSpec => []HistoryAlternates
<1>1. AlertInv => HistoryAlternates
  BY DEF AlertInv, Alternates, HistoryAlternates
<1> QED BY <1>1, AlertInitInv, AlertNextInv, PTL DEF ApiSpec
=============================================================================
