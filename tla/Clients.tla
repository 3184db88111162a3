------------------------------ MODULE Clients -------------------------------
(***************************************************************************)
(* SyncWebSocketServer: the sessions, their sockets, heartbeats,           *)
(* authentication and shutdown, with the counters that SyncEngine's        *)
(* handlers keep.                                                          *)
(*                                                                         *)
(* A socket of the ws library is open, closing (a close is under way, and  *)
(* messages already sent still arrive) or closed; its close event comes    *)
(* once, at the end.  The client object outlives its entry in the map, as  *)
(* its event handlers hold it.  "reports", "timedOut" and "rejected" are   *)
(* history variables: how often a session was reported disconnected, and   *)
(* the sessions checkHeartbeats and the auth handler gave up.              *)
(***************************************************************************)
EXTENDS Naturals, FiniteSets

CONSTANTS
  Sessions,        \* session ids
  MaxConnections   \* maxConnections

ASSUME SessionsAssumption == IsFiniteSet(Sessions)
ASSUME ConnectionsAssumption == MaxConnections \in Nat \ {0}

VARIABLES
  phase,           \* "serving", "stopping" or "stopped"
  sock,            \* readyState per session; "none" before it connects
  accepted,        \* the sessions whose event handlers are installed
  clients,         \* the keys of the clients Map
  silent,          \* heartbeat checks since lastActivity, of a registered session
  deciding,        \* calls of the auth handler that are not resolved
  active,          \* stats.activeConnections
  connections,     \* localNode.connections of the coordinator
  reports, timedOut, rejected

counters   == <<active, connections>>
wsGhosts   == <<reports, timedOut, rejected>>
clientVars == <<phase, sock, accepted, clients, silent, deciding,
                counters, wsGhosts>>

ClientsInit ==
  /\ phase = "serving"
  /\ sock = [s \in Sessions |-> "none"]
  /\ accepted = {} /\ clients = {} /\ deciding = {}
  /\ silent = [s \in Sessions |-> 0]
  /\ active = 0 /\ connections = 0
  /\ reports = [s \in Sessions |-> 0] /\ timedOut = {} /\ rejected = {}

(* ws.close: nothing happens unless the socket is open. *)
Closed(s) == IF sock[s] = "open" THEN "closing" ELSE sock[s]

(* Both counters are set to the size of the map. *)
CountClients ==
  /\ active' = Cardinality(clients')
  /\ connections' = Cardinality(clients')

(* Faulty: one client too many. *)
HandleConnectionOneMore(s) ==
  /\ phase = "serving" /\ sock[s] = "none" /\ Cardinality(clients) <= MaxConnections
  /\ sock' = [sock EXCEPT ![s] = "open"]
  /\ accepted' = accepted \cup {s} /\ clients' = clients \cup {s} /\ CountClients
  /\ UNCHANGED <<phase, silent, deciding, wsGhosts>>

(* handleConnection: refused at capacity, otherwise registered. *)
HandleConnection(s) ==
  /\ phase = "serving"
  /\ sock[s] = "none"
  /\ \/ /\ Cardinality(clients) >= MaxConnections
        /\ sock' = [sock EXCEPT ![s] = "closing"]
        /\ UNCHANGED <<accepted, clients, counters>>
     \/ /\ Cardinality(clients) < MaxConnections
        /\ sock' = [sock EXCEPT ![s] = "open"]
        /\ accepted' = accepted \cup {s}
        /\ clients' = clients \cup {s}
        /\ CountClients
  /\ UNCHANGED <<phase, silent, deciding, wsGhosts>>

(* handleMessage returns early for a session that is no longer registered; *)
(* otherwise the packet counts as activity whatever it is.                 *)
Receives(s) ==
  /\ sock[s] \in {"open", "closing"}
  /\ s \in clients
  /\ silent' = [silent EXCEPT ![s] = 0]

(* Data, batches, heartbeats and packets that do not decode change nothing *)
(* else here.  A pong counts as activity too.                              *)
HandlePacket(s) ==
  /\ Receives(s)
  /\ UNCHANGED <<phase, sock, accepted, clients, deciding, counters, wsGhosts>>

(* DISCONNECT. *)
HandleDisconnectPacket(s) ==
  /\ Receives(s)
  /\ sock' = [sock EXCEPT ![s] = Closed(s)]
  /\ UNCHANGED <<phase, accepted, clients, deciding, counters, wsGhosts>>

(* handleHandshakeAck with a token: the auth handler decides later.        *)
(* Without one it only sets a flag that nothing reads, like HandlePacket.  *)
HandleHandshakeAck(s) ==
  /\ Receives(s)
  /\ deciding' = deciding \cup {s}
  /\ UNCHANGED <<phase, sock, accepted, clients, counters, wsGhosts>>

(* Faulty: a rejected client is told so but not closed. *)
AuthResultKeepsSocket(s, ok) ==
  /\ s \in deciding /\ deciding' = deciding \ {s}
  /\ rejected' = IF ok THEN rejected ELSE rejected \cup {s}
  /\ UNCHANGED <<phase, sock, accepted, clients, silent, counters, reports, timedOut>>

(* The answer may find the session gone: only the detached object and a    *)
(* socket that is closing or closed are left to change.                    *)
AuthResult(s, ok) ==
  /\ s \in deciding
  /\ deciding' = deciding \ {s}
  /\ sock' = IF ok THEN sock ELSE [sock EXCEPT ![s] = Closed(s)]
  /\ rejected' = IF ok THEN rejected ELSE rejected \cup {s}
  /\ UNCHANGED <<phase, accepted, clients, silent, counters, reports, timedOut>>

(* The other side closes the connection, or it breaks. *)
PeerCloses(s) ==
  /\ sock[s] = "open"
  /\ sock' = [sock EXCEPT ![s] = "closing"]
  /\ UNCHANGED <<phase, accepted, clients, silent, deciding, counters, wsGhosts>>

(* Faulty: the session leaves the map, the counters stay. *)
HandleDisconnectUncounted(gone) ==
  /\ clients' = clients \ gone
  /\ reports' = [s \in Sessions |-> IF s \in gone THEN reports[s] + 1 ELSE reports[s]]
  /\ UNCHANGED counters

(* handleDisconnect, for a set of sessions: it reports a session whether   *)
(* or not it was still registered.                                         *)
HandleDisconnect(gone) ==
  /\ clients' = clients \ gone
  /\ CountClients
  /\ reports' = [s \in Sessions |-> IF s \in gone THEN reports[s] + 1 ELSE reports[s]]

(* Faulty: a session that is no longer registered is not reported. *)
CloseEventOfClients(s) ==
  /\ sock[s] = "closing" /\ sock' = [sock EXCEPT ![s] = "closed"]
  /\ IF s \in clients THEN HandleDisconnect({s}) ELSE UNCHANGED <<clients, counters, reports>>
  /\ UNCHANGED <<phase, accepted, silent, deciding, timedOut, rejected>>

(* The close event; a socket that was refused has no handler for it. *)
CloseEvent(s) ==
  /\ sock[s] = "closing"
  /\ sock' = [sock EXCEPT ![s] = "closed"]
  /\ \/ s \in accepted /\ HandleDisconnect({s})
     \/ s \notin accepted /\ UNCHANGED <<clients, counters, reports>>
  /\ silent' = [silent EXCEPT ![s] = 0]
  /\ UNCHANGED <<phase, accepted, deciding, timedOut, rejected>>

(* checkHeartbeats gives up the clients silent for more than two           *)
(* intervals.  When it runs for the third time since lastActivity that is  *)
(* two intervals ago, or a little more; the second time it may be, if the  *)
(* timer is late.                                                          *)
CheckHeartbeats ==
  /\ phase = "serving"
  /\ \E late \in SUBSET {s \in clients : silent[s] >= 1} :
       /\ {s \in clients : silent[s] = 3} \subseteq late
       /\ sock' = [s \in Sessions |-> IF s \in late THEN Closed(s) ELSE sock[s]]
       /\ silent' = [s \in Sessions |-> IF s \in clients \ late THEN silent[s] + 1 ELSE 0]
       /\ HandleDisconnect(late)
       /\ timedOut' = timedOut \cup late
  /\ UNCHANGED <<phase, accepted, deciding, rejected>>

(* Faulty: the map is cleared before the loop over it. *)
StopClearsFirst ==
  /\ phase = "serving" /\ phase' = "stopping" /\ clients' = {}
  /\ UNCHANGED <<sock, accepted, silent, deciding, counters, wsGhosts>>

(* stop closes what is registered, clears the map without a word to the    *)
(* counters, and waits until the last socket is closed.                    *)
Stop ==
  /\ phase = "serving"
  /\ phase' = "stopping"
  /\ sock' = [s \in Sessions |-> IF s \in clients THEN Closed(s) ELSE sock[s]]
  /\ clients' = {}
  /\ silent' = [s \in Sessions |-> 0]
  /\ UNCHANGED <<accepted, deciding, counters, wsGhosts>>

Stopped ==
  /\ phase = "stopping"
  /\ \A s \in Sessions : sock[s] \in {"none", "closed"}
  /\ phase' = "stopped"
  /\ UNCHANGED <<sock, accepted, clients, silent, deciding, counters, wsGhosts>>

ClientsNext ==
  \/ \E s \in Sessions :
       \/ HandleConnection(s)
       \/ HandlePacket(s) \/ HandleDisconnectPacket(s) \/ HandleHandshakeAck(s)
       \/ \E ok \in BOOLEAN : AuthResult(s, ok)
       \/ PeerCloses(s) \/ CloseEvent(s)
  \/ CheckHeartbeats
  \/ Stop
  \/ Stopped

(* The interval timer fires while the server runs, a closing socket is     *)
(* closed at the latest by the library's own timeout, and then the         *)
(* callback of close runs.                                                 *)
ClientsFairness ==
  /\ WF_clientVars(CheckHeartbeats)
  /\ \A s \in Sessions : WF_clientVars(CloseEvent(s))
  /\ WF_clientVars(Stopped)

ClientsSpec == ClientsInit /\ [][ClientsNext]_clientVars /\ ClientsFairness
-----------------------------------------------------------------------------
SocketStates == {"none", "open", "closing", "closed"}

(* Types, and that every open socket has its entry in the map: one without *)
(* would never be checked for silence, and stop would not close it.        *)
ClientsTypeOK ==
  /\ phase \in {"serving", "stopping", "stopped"}
  /\ sock \in [Sessions -> SocketStates]
  /\ accepted \in SUBSET Sessions /\ clients \in SUBSET accepted
  /\ silent \in [Sessions -> 0 .. 3]
  /\ deciding \in SUBSET accepted
  /\ active \in Nat /\ connections \in Nat
  /\ reports \in [Sessions -> 0 .. 2]
  /\ timedOut \in SUBSET accepted /\ rejected \in SUBSET accepted
  /\ \A s \in Sessions : sock[s] = "open" => s \in clients

(* The capacity check looks at the map, which heartbeat timeouts shrink    *)
(* before the sockets are closed; still no more than maxConnections        *)
(* sockets are open.                                                       *)
OpenWithinCapacity == Cardinality({s \in Sessions : sock[s] = "open"}) <= MaxConnections

(* activeConnections and the load figure of the coordinator are set from   *)
(* several handlers, and stop clears the map without them: they agree with *)
(* the map while the server runs and again when it has stopped.            *)
CountsAgree ==
  phase # "stopping" => active = Cardinality(clients) /\ connections = Cardinality(clients)

(* A session is reported disconnected when its socket is closed, after a   *)
(* stop too, and no more than once, unless checkHeartbeats gave it up:     *)
(* then its close event reports it again.                                  *)
DisconnectReported ==
  \A s \in accepted :
    /\ sock[s] = "closed" => reports[s] >= 1
    /\ reports[s] <= IF s \in timedOut THEN 2 ELSE 1
    /\ s \in clients => reports[s] = 0

(* checkHeartbeats and handleHandshakeAck: a client that stays silent does *)
(* not stay registered, and a rejected one is disconnected, whatever else  *)
(* arrives from it and however late the answer is.                         *)
UnwantedLeave ==
  \A s \in Sessions :
    /\ (s \in clients /\ silent[s] > 0) ~> (s \notin clients \/ silent[s] = 0)
    /\ (s \in rejected) ~> (sock[s] = "closed")

(* stop comes to an end: no socket keeps its callback from running.        *)
StopCompletes == (phase = "stopping") ~> (phase = "stopped")
=============================================================================
