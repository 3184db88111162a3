---------------------------- MODULE GameServers -----------------------------
(***************************************************************************)
(* GameServerManager: the life cycle and the player count of game servers. *)
(*                                                                         *)
(* createServer and stopServer leave a setTimeout behind; "starting" and   *)
(* "stopping" are the ids whose timers have yet to fire.  Timers are not   *)
(* cancelled and look the server up again when they fire.                  *)
(***************************************************************************)
EXTENDS Integers, FiniteSets

CONSTANTS
  ServerIds,    \* the ids generateServerId may return
  Modes,        \* game modes
  Capacities,   \* the maxPlayers servers are created with
  MaxServers    \* config.gameServer.maxServers

ASSUME CapacityAssumption == Capacities \subseteq Nat \ {0}
ASSUME MaxServersAssumption == MaxServers \in Nat
ASSUME ServerIdsAssumption == IsFiniteSet(ServerIds)

VARIABLES
  servers,   \* the servers Map: id -> [mode, status, players, max]
  usedIds,   \* server ids handed out so far
  starting,  \* pending timers of createServer
  stopping   \* pending timers of stopServer

serverVars == <<servers, usedIds, starting, stopping>>

Statuses == {"starting", "running", "full", "draining", "stopped"}

ServersInit ==
  /\ servers = [s \in {} |-> 0]
  /\ usedIds = {}
  /\ starting = {}
  /\ stopping = {}

NewServer(mode, max) == [mode |-> mode, status |-> "starting", players |-> 0, max |-> max]
HasRoom == Cardinality(DOMAIN servers) < MaxServers

(* createServer; at the limit it throws and changes nothing. *)
CreateServer(id, mode, max) ==
  /\ HasRoom
  /\ id \notin usedIds
  /\ servers' = [s \in DOMAIN servers \cup {id} |->
                   IF s = id THEN NewServer(mode, max) ELSE servers[s]]
  /\ usedIds' = usedIds \cup {id}
  /\ starting' = starting \cup {id}
  /\ UNCHANGED stopping

(* Faulty: the timer does not look at the status. *)
ServerStartedAnyway(id) ==
  /\ id \in starting
  /\ starting' = starting \ {id}
  /\ servers' = IF id \in DOMAIN servers
                THEN [servers EXCEPT ![id].status = "running"] ELSE servers
  /\ UNCHANGED <<usedIds, stopping>>

(* The timer of createServer. *)
ServerStarted(id) ==
  /\ id \in starting
  /\ starting' = starting \ {id}
  /\ servers' = IF id \in DOMAIN servers /\ servers[id].status = "starting"
                THEN [servers EXCEPT ![id].status = "running"] ELSE servers
  /\ UNCHANGED <<usedIds, stopping>>

(* stopServer; only removeServer calls it so far. *)
StopServer(id) ==
  /\ id \in DOMAIN servers
  /\ servers' = [servers EXCEPT ![id].status = "draining"]
  /\ stopping' = stopping \cup {id}
  /\ UNCHANGED <<usedIds, starting>>

(* The timer of stopServer. *)
ServerStopped(id) ==
  /\ id \in stopping
  /\ stopping' = stopping \ {id}
  /\ servers' = IF id \in DOMAIN servers
                THEN [servers EXCEPT ![id].status = "stopped"] ELSE servers
  /\ UNCHANGED <<usedIds, starting>>

(* removeServer stops a server that is not stopped, then forgets it. *)
RemoveServer(id) ==
  /\ id \in DOMAIN servers
  /\ stopping' = IF servers[id].status = "stopped" THEN stopping ELSE stopping \cup {id}
  /\ servers' = [s \in DOMAIN servers \ {id} |-> servers[s]]
  /\ UNCHANGED <<usedIds, starting>>

(* Faulty: > for >= when the server fills up. *)
JoinedNeverFull(srv, n) ==
  LET p == IF srv.players + n > srv.max THEN srv.max ELSE srv.players + n
  IN  IF srv.status = "running"
      THEN [srv EXCEPT !.players = p, !.status = IF p > srv.max THEN "full" ELSE "running"]
      ELSE srv

(* What n calls of addPlayer, and of removePlayer, leave of a server. *)
Joined(srv, n) ==
  LET p == IF srv.players + n > srv.max THEN srv.max ELSE srv.players + n
  IN  IF srv.status = "running"
      THEN [srv EXCEPT !.players = p, !.status = IF p >= srv.max THEN "full" ELSE "running"]
      ELSE srv

Left(srv, n) ==
  LET p == IF srv.players < n THEN 0 ELSE srv.players - n
  IN  [srv EXCEPT !.players = p,
                  !.status = IF srv.status = "full" /\ p < srv.max THEN "running" ELSE @]

(* As many calls as a match has players, in one synchronous run. *)
GroupSizes == UNION {1 .. c : c \in Capacities}

AddPlayers(id, n) ==
  /\ id \in DOMAIN servers
  /\ servers' = [servers EXCEPT ![id] = Joined(@, n)]
  /\ UNCHANGED <<usedIds, starting, stopping>>

RemovePlayers(id, n) ==
  /\ id \in DOMAIN servers
  /\ servers' = [servers EXCEPT ![id] = Left(@, n)]
  /\ UNCHANGED <<usedIds, starting, stopping>>

(* GameServerManager.stop; pending timers still fire. *)
StopAll ==
  /\ servers' = [s \in DOMAIN servers |-> [servers[s] EXCEPT !.status = "stopped"]]
  /\ UNCHANGED <<usedIds, starting, stopping>>

ServersNext ==
  \/ \E id \in ServerIds, mode \in Modes, max \in Capacities : CreateServer(id, mode, max)
  \/ \E id \in starting : ServerStarted(id)
  \/ \E id \in ServerIds : StopServer(id)
  \/ \E id \in stopping : ServerStopped(id)
  \/ \E id \in ServerIds : RemoveServer(id)
  \/ \E id \in ServerIds, n \in GroupSizes : AddPlayers(id, n) \/ RemovePlayers(id, n)
  \/ StopAll

(* setTimeout fires. *)
TimersFire ==
  \A id \in ServerIds :
    WF_serverVars(ServerStarted(id)) /\ WF_serverVars(ServerStopped(id))

ServersSpec == ServersInit /\ [][ServersNext]_serverVars /\ TimersFire
-----------------------------------------------------------------------------
ServersTypeOK ==
  /\ DOMAIN servers \subseteq usedIds
  /\ usedIds \subseteq ServerIds
  /\ servers \in [DOMAIN servers ->
                    [mode : Modes, status : Statuses, players : Nat, max : Capacities]]
  /\ starting \subseteq ServerIds
  /\ stopping \subseteq ServerIds

(* addPlayer, removePlayer, the timers and stop together: a server never   *)
(* has more players than it takes, one that players can be sent to has a   *)
(* free place, one that is marked full really is, and a server that has    *)
(* not started yet has none.                                               *)
CapacityRespected ==
  \A s \in DOMAIN servers :
    LET srv == servers[s]
    IN  /\ srv.players <= srv.max
        /\ srv.status = "running" => srv.players < srv.max
        /\ srv.status = "full" => srv.players = srv.max
        /\ srv.status = "starting" => srv.players = 0 /\ s \in starting

(* createServer never exceeds maxServers, whoever creates servers. *)
ServerLimit == Cardinality(DOMAIN servers) <= MaxServers

(* A stopped or draining server never serves again: a late timer of        *)
(* createServer, or players leaving, do not revive it.                     *)
NoRevival ==
  [][\A s \in DOMAIN servers \cap DOMAIN servers' :
       servers[s].status \in {"draining", "stopped"} =>
         servers'[s].status \in {"draining", "stopped"}]_serverVars

=============================================================================
