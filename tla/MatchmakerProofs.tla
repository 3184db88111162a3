-------------------------- MODULE MatchmakerProofs --------------------------
(***************************************************************************)
(* The safety of GameServerManager, that of Matchmaker, and that the       *)
(* latter drives the former as module GameServers allows, for every set of *)
(* players, modes and servers and every limit.                             *)
(***************************************************************************)
EXTENDS Matchmaker, SequenceTheorems, FiniteSetTheorems, TLAPS

(* The inductive invariant: the player counts need the types, and the      *)
(* limit needs the servers to be among the finitely many ids.              *)
ServersInv == ServersTypeOK /\ CapacityRespected /\ ServerLimit

(* What a server record may be: CapacityRespected, of one record. *)
Fits(srv, id, timers) ==
  /\ srv \in [mode : Modes, status : Statuses, players : Nat, max : Capacities]
  /\ srv.players <= srv.max
  /\ srv.status = "running" => srv.players < srv.max
  /\ srv.status = "full" => srv.players = srv.max
  /\ srv.status = "starting" => srv.players = 0 /\ id \in timers

(* addPlayer keeps a record consistent, however many players join. *)
LEMMA JoinedFits ==
  ASSUME NEW srv, NEW id, NEW timers, NEW n \in Nat, Fits(srv, id, timers)
  PROVE  Fits(Joined(srv, n), id, timers)
<1>1. srv.players \in Nat /\ srv.max \in Nat
  BY CapacityAssumption DEF Fits
<1>2. CASE srv.status # "running"
  BY <1>2 DEF Joined, Fits
<1>3. CASE srv.status = "running"
  <2> DEFINE p == IF srv.players + n > srv.max THEN srv.max ELSE srv.players + n
             new == [srv EXCEPT !.players = p,
                                !.status = IF p >= srv.max THEN "full" ELSE "running"]
  <2>1. Joined(srv, n) = new
    BY <1>3 DEF Joined
  <2>2. p \in Nat /\ p <= srv.max
    BY <1>1
  <2>3. /\ new.players = p
        /\ new.max = srv.max
        /\ new.status = IF p >= srv.max THEN "full" ELSE "running"
    BY DEF Fits
  <2>4. new \in [mode : Modes, status : Statuses, players : Nat, max : Capacities]
    BY <2>2 DEF Fits, Statuses
  <2> HIDE DEF p, new
  <2>5. QED
    BY <1>1, <2>1, <2>2, <2>3, <2>4 DEF Fits
<1>4. QED
  BY <1>2, <1>3

(* removePlayer keeps a record consistent, even when more players leave    *)
(* than were counted.                                                      *)
LEMMA LeftFits ==
  ASSUME NEW srv, NEW id, NEW timers, NEW n \in Nat, Fits(srv, id, timers)
  PROVE  Fits(Left(srv, n), id, timers)
<1> DEFINE p == IF srv.players < n THEN 0 ELSE srv.players - n
           new == Left(srv, n)
<1>1. srv.players \in Nat /\ srv.max \in Nat \ {0}
  BY CapacityAssumption DEF Fits
<1>2. p \in Nat /\ p <= srv.players
  BY <1>1
<1>3. /\ new.players = p
      /\ new.max = srv.max
      /\ new.status = IF srv.status = "full" /\ p < srv.max THEN "running" ELSE srv.status
  BY DEF Fits, Left
<1>4. new \in [mode : Modes, status : Statuses, players : Nat, max : Capacities]
  BY <1>2 DEF Fits, Left, Statuses
<1> HIDE DEF p, new
<1>5. Fits(new, id, timers)
  BY <1>1, <1>2, <1>3, <1>4 DEF Fits
<1>6. QED
  BY <1>5 DEF new

(* A group has a number of players. *)
LEMMA SizesAreNat == GroupSizes \subseteq Nat
BY CapacityAssumption DEF GroupSizes

(* The invariant, said of every record. *)
AllFit(srvs, timers) == \A s \in DOMAIN srvs : Fits(srvs[s], s, timers)

(* Types and capacities are the same as fitting records. *)
LEMMA InvAsRecords ==
  (ServersTypeOK /\ CapacityRespected)
    <=> /\ DOMAIN servers \subseteq usedIds
        /\ usedIds \subseteq ServerIds
        /\ servers = [s \in DOMAIN servers |-> servers[s]]
        /\ starting \subseteq ServerIds
        /\ stopping \subseteq ServerIds
        /\ AllFit(servers, starting)
BY DEF ServersTypeOK, CapacityRespected, AllFit, Fits

-----------------------------------------------------------------------------
(* The manager starts with no server. *)
LEMMA ServersInitInv == ServersInit => ServersInv
BY FS_EmptySet, MaxServersAssumption
   DEF ServersInit, ServersInv, ServersTypeOK, CapacityRespected, ServerLimit

(* Every method and every timer keeps the invariant. *)
LEMMA ServersNextInv == ServersInv /\ [ServersNext]_serverVars => ServersInv'
<1> SUFFICES ASSUME ServersInv, [ServersNext]_serverVars
             PROVE  ServersInv'
  OBVIOUS
<1>1. /\ DOMAIN servers \subseteq usedIds
      /\ usedIds \subseteq ServerIds
      /\ servers = [s \in DOMAIN servers |-> servers[s]]
      /\ starting \subseteq ServerIds
      /\ stopping \subseteq ServerIds
      /\ AllFit(servers, starting)
  BY InvAsRecords DEF ServersInv
<1>2. IsFiniteSet(DOMAIN servers) /\ Cardinality(DOMAIN servers) \in Nat
  BY <1>1, ServerIdsAssumption, FS_Subset, FS_CardinalityType
<1>3. Cardinality(DOMAIN servers) <= MaxServers
  BY DEF ServersInv, ServerLimit
<1> DEFINE Goal == /\ (/\ DOMAIN servers \subseteq usedIds
                       /\ usedIds \subseteq ServerIds
                       /\ servers = [s \in DOMAIN servers |-> servers[s]]
                       /\ starting \subseteq ServerIds
                       /\ stopping \subseteq ServerIds
                       /\ AllFit(servers, starting))'
                   /\ Cardinality(DOMAIN servers') <= MaxServers
<1>4. CASE UNCHANGED serverVars
  BY <1>4 DEF serverVars, ServersInv, ServersTypeOK, CapacityRespected, ServerLimit
<1>5. ASSUME NEW id \in ServerIds, NEW mode \in Modes, NEW max \in Capacities,
             CreateServer(id, mode, max)
      PROVE  Goal
  <2>1. /\ DOMAIN servers' = DOMAIN servers \cup {id}
        /\ servers'[id] = NewServer(mode, max)
        /\ \A s \in DOMAIN servers \ {id} : servers'[s] = servers[s]
        /\ starting' = starting \cup {id}
    BY <1>5 DEF CreateServer
  <2>2. Fits(NewServer(mode, max), id, starting')
    BY <2>1, CapacityAssumption DEF Fits, NewServer, Statuses
  <2>3. AllFit(servers', starting')
    BY <1>1, <2>1, <2>2 DEF AllFit, Fits
  <2>4. Cardinality(DOMAIN servers') <= MaxServers
    <3>1. \/ Cardinality(DOMAIN servers \cup {id}) = Cardinality(DOMAIN servers)
          \/ Cardinality(DOMAIN servers \cup {id}) = Cardinality(DOMAIN servers) + 1
      BY <1>2, FS_AddElement
    <3>2. Cardinality(DOMAIN servers) < MaxServers
      BY <1>5 DEF CreateServer, HasRoom
    <3>3. QED
      BY <1>2, <2>1, <3>1, <3>2, MaxServersAssumption
  <2>5. QED
    BY <1>1, <1>5, <2>3, <2>4 DEF CreateServer
<1>6. ASSUME NEW id \in starting, ServerStarted(id)
      PROVE  Goal
  <2>1. ASSUME NEW s \in DOMAIN servers
        PROVE  Fits(servers'[s], s, starting')
    <3>1. CASE s = id /\ servers[id].status = "starting"
      <4>1. servers'[s] = [servers[s] EXCEPT !.status = "running"]
        BY <1>6, <2>1, <3>1 DEF ServerStarted
      <4>2. Fits(servers[s], s, starting) /\ servers[s].players = 0
        BY <1>1, <2>1, <3>1 DEF AllFit, Fits
      <4>3. servers[s].max \in Nat \ {0}
        BY <4>2, CapacityAssumption DEF Fits
      <4>4. [servers[s] EXCEPT !.status = "running"]
              \in [mode : Modes, status : Statuses, players : Nat, max : Capacities]
        BY <4>2 DEF Fits, Statuses
      <4>5. QED
        BY <4>1, <4>2, <4>3, <4>4 DEF Fits
    <3>2. CASE ~(s = id /\ servers[id].status = "starting")
      <4>1. servers'[s] = servers[s]
        BY <1>6, <2>1, <3>2 DEF ServerStarted
      <4>2. servers[s].status = "starting" => s # id
        BY <3>2
      <4>3. QED
        BY <1>1, <1>6, <4>1, <4>2 DEF ServerStarted, AllFit, Fits
    <3>3. QED
      BY <3>1, <3>2
  <2>2. DOMAIN servers' = DOMAIN servers
    BY <1>6 DEF ServerStarted
  <2>3. QED
    BY <1>1, <1>3, <1>6, <2>1, <2>2 DEF ServerStarted, AllFit
<1>7. ASSUME NEW id \in ServerIds, StopServer(id)
      PROVE  Goal
  <2>1. /\ DOMAIN servers' = DOMAIN servers
        /\ \A s \in DOMAIN servers :
             servers'[s] = IF s = id THEN [servers[s] EXCEPT !.status = "draining"]
                                     ELSE servers[s]
        /\ starting' = starting
    BY <1>1, <1>7 DEF StopServer
  <2>2. AllFit(servers', starting')
    BY <1>1, <2>1 DEF AllFit, Fits, Statuses
  <2>3. QED
    BY <1>1, <1>3, <1>7, <2>1, <2>2 DEF StopServer
<1>8. ASSUME NEW id \in stopping, ServerStopped(id)
      PROVE  Goal
  BY <1>1, <1>3, <1>8 DEF ServerStopped, AllFit, Fits, Statuses
<1>9. ASSUME NEW id \in ServerIds, RemoveServer(id)
      PROVE  Goal
  <2>1. /\ DOMAIN servers' = DOMAIN servers \ {id}
        /\ \A s \in DOMAIN servers' : servers'[s] = servers[s]
        /\ starting' = starting
    BY <1>9 DEF RemoveServer
  <2>2. Cardinality(DOMAIN servers') <= MaxServers
    <3>1. Cardinality(DOMAIN servers \ {id}) = Cardinality(DOMAIN servers) - 1
      BY <1>2, <1>9, FS_RemoveElement DEF RemoveServer
    <3>2. QED
      BY <1>2, <1>3, <2>1, <3>1, MaxServersAssumption
  <2>3. AllFit(servers', starting')
    BY <1>1, <2>1 DEF AllFit
  <2>4. QED
    BY <1>1, <1>9, <2>1, <2>2, <2>3 DEF RemoveServer
<1>10. ASSUME NEW id \in ServerIds, NEW n \in GroupSizes, AddPlayers(id, n)
       PROVE  Goal
  <2>1. /\ DOMAIN servers' = DOMAIN servers
        /\ \A s \in DOMAIN servers :
             servers'[s] = IF s = id THEN Joined(servers[s], n) ELSE servers[s]
        /\ starting' = starting
    BY <1>1, <1>10 DEF AddPlayers
  <2>2. AllFit(servers', starting')
    BY <1>1, <2>1, SizesAreNat, JoinedFits DEF AllFit
  <2>3. QED
    BY <1>1, <1>3, <1>10, <2>1, <2>2 DEF AddPlayers
<1>11. ASSUME NEW id \in ServerIds, NEW n \in GroupSizes, RemovePlayers(id, n)
       PROVE  Goal
  <2>1. /\ DOMAIN servers' = DOMAIN servers
        /\ \A s \in DOMAIN servers :
             servers'[s] = IF s = id THEN Left(servers[s], n) ELSE servers[s]
        /\ starting' = starting
    BY <1>1, <1>11 DEF RemovePlayers
  <2>2. AllFit(servers', starting')
    BY <1>1, <2>1, SizesAreNat, LeftFits DEF AllFit
  <2>3. QED
    BY <1>1, <1>3, <1>11, <2>1, <2>2 DEF RemovePlayers
<1>12. ASSUME StopAll
       PROVE  Goal
  BY <1>1, <1>3, <1>12 DEF StopAll, AllFit, Fits, Statuses
<1>13. Goal => ServersInv'
  BY DEF ServersInv, ServersTypeOK, CapacityRespected, ServerLimit, AllFit, Fits
<1> HIDE DEF Goal
<1>14. CASE ServersNext
  BY <1>5, <1>6, <1>7, <1>8, <1>9, <1>10, <1>11, <1>12, <1>13, <1>14 DEF ServersNext
<1>15. QED
  BY <1>4, <1>14

-----------------------------------------------------------------------------
(* The inductive invariant holds throughout. *)
LEMMA ServersInvariance == ServersSpec => []ServersInv
<1>1. QED
  BY ServersInitInv, ServersNextInv, PTL DEF ServersSpec

(* GameServerManager's records are well typed for every set of ids, modes  *)
(* and capacities.                                                         *)
THEOREM ServersTypeCorrect == ServersSpec => []ServersTypeOK
<1>1. ServersInv => ServersTypeOK
  BY DEF ServersInv
<1>2. QED
  BY <1>1, ServersInvariance, PTL

(* addPlayer, removePlayer and the uncancelled timers never let a server   *)
(* exceed its capacity or carry a status its player count contradicts.     *)
THEOREM CapacityAlwaysRespected == ServersSpec => []CapacityRespected
<1>1. ServersInv => CapacityRespected
  BY DEF ServersInv
<1>2. QED
  BY <1>1, ServersInvariance, PTL

(* createServer keeps within maxServers. *)
THEOREM ServerLimitKept == ServersSpec => []ServerLimit
<1>1. ServersInv => ServerLimit
  BY DEF ServersInv
<1>2. QED
  BY <1>1, ServersInvariance, PTL

(* NoRevival, of one step. *)
StatusesStay ==
  \A s \in DOMAIN servers \cap DOMAIN servers' :
    servers[s].status \in {"draining", "stopped"} =>
      servers'[s].status \in {"draining", "stopped"}

(* No step of the servers gives a stopped one another life. *)
LEMMA NoRevivalStep == ASSUME ServersInv, ServersNext PROVE StatusesStay
<1> SUFFICES ASSUME NEW s \in DOMAIN servers \cap DOMAIN servers',
                    servers[s].status \in {"draining", "stopped"}
             PROVE  servers'[s].status \in {"draining", "stopped"}
  BY DEF StatusesStay
<1>1. servers[s] \in [mode : Modes, status : Statuses, players : Nat, max : Capacities]
  BY DEF ServersInv, ServersTypeOK
<1>2. \A n : Joined(servers[s], n) = servers[s]
  BY DEF Joined
<1>3. \A n : Left(servers[s], n).status = servers[s].status
  BY <1>1 DEF Left
<1>4. ASSUME NEW id \in ServerIds, NEW n \in GroupSizes, AddPlayers(id, n)
      PROVE  servers'[s] = servers[s]
  BY <1>2, <1>4 DEF AddPlayers
<1>5. ASSUME NEW id \in ServerIds, NEW n \in GroupSizes, RemovePlayers(id, n)
      PROVE  servers'[s].status = servers[s].status
  BY <1>3, <1>5 DEF RemovePlayers
<1>6. ASSUME NEW id \in ServerIds, NEW mode \in Modes, NEW max \in Capacities,
             CreateServer(id, mode, max)
      PROVE  servers'[s] = servers[s]
  BY <1>6 DEF CreateServer, ServersInv, ServersTypeOK
<1>7. CASE \E id \in starting : ServerStarted(id)
  BY <1>1, <1>7 DEF ServerStarted
<1>8. CASE \E id \in ServerIds : StopServer(id)
  BY <1>1, <1>8 DEF StopServer
<1>9. CASE \E id \in stopping : ServerStopped(id)
  BY <1>1, <1>9 DEF ServerStopped
<1>10. CASE \E id \in ServerIds : RemoveServer(id)
  BY <1>10 DEF RemoveServer
<1>11. CASE StopAll
  BY <1>1, <1>11 DEF StopAll
<1>12. QED
  BY <1>4, <1>5, <1>6, <1>7, <1>8, <1>9, <1>10, <1>11 DEF ServersNext

(* No timer and no leaving player revives a draining or stopped server. *)
THEOREM NeverRevived == ServersSpec => NoRevival
<1>1. ServersInv /\ [ServersNext]_serverVars => [StatusesStay]_serverVars
  BY NoRevivalStep
<1>2. QED
  BY <1>1, ServersInvariance, PTL DEF ServersSpec, NoRevival, StatusesStay

-----------------------------------------------------------------------------
(* What the queue and the matches hold. *)
Requests == [id : Nat, player : Players, mode : Modes, skill : Nat, age : Nat]
MatchRecords ==
  [server : ServerIds, mode : Modes,
   status : {"starting", "in_progress", "ending", "completed"}, requests : SUBSET Requests]

(* The requests matched so far, by their ids. *)
HeldIn(m) == IdsOf(matches[m].requests)
Held == UNION {HeldIn(m) : m \in DOMAIN matches}

MMTypes ==
  /\ queue \in SUBSET Requests
  /\ matches \in Seq(MatchRecords)
  /\ issued \in Nat
  /\ gone \in SUBSET (1 .. issued)
  /\ step \in {"idle", "modes", "groups"}

(* What a pass has sorted is queued for the mode it works on, and nothing  *)
(* is left of it when the mode is done.                                    *)
PassState ==
  /\ sorted \subseteq queue
  /\ step # "groups" => sorted = {}
  /\ step = "groups" => Head(todo) \in Modes /\ \A r \in sorted : r.mode = Head(todo)

(* Requests are told apart by their ids, and none that is gone is queued.  *)
Identified ==
  /\ \A r \in queue : r.id \in 1 .. issued /\ r.id \notin gone
  /\ \A a, b \in queue : a.id = b.id => a = b

(* A match has between one player and maxPlayers of them. *)
MatchesFit ==
  \A m \in DOMAIN matches :
    Cardinality(matches[m].requests) \in 1 .. MaxPlayers /\ HeldIn(m) \subseteq 1 .. issued

(* Whatever filter drops is accounted for. *)
AllKept ==
  /\ \A r \in 1 .. issued : r \in Queued \/ r \in Held \/ r \in gone
  /\ step = "groups" => \A r \in QueueOf(Head(todo)) : r \in sorted \/ r.id \in Held

(* Unless players queue twice or createServer throws: players are distinct *)
(* within a mode, matches are disjoint, what is matched is not gone, and   *)
(* it is still queued only while its mode is being worked on.              *)
OnceKept ==
  (~aborted /\ ~duplicated) =>
    /\ \A a, b \in queue : a.mode = b.mode /\ a.player = b.player => a = b
    /\ \A m, n \in DOMAIN matches : m # n => HeldIn(m) \cap HeldIn(n) = {}
    /\ Held \cap gone = {}
    /\ \A r \in queue :
         r.id \in Held => step = "groups" /\ r.mode = Head(todo) /\ r \notin sorted

QueueInv ==
  /\ MMTypes
  /\ PassState
  /\ Identified
  /\ MatchesFit
  /\ AllKept
  /\ OnceKept

MMInv == ServersInv /\ QueueInv

-----------------------------------------------------------------------------
(* Ids being distinct numbers, there are finitely many requests. *)
LEMMA QueueFinite ==
  ASSUME QueueInv
  PROVE  IsFiniteSet(queue) /\ IsFiniteSet(sorted) /\ Cardinality(sorted) \in Nat
<1> DEFINE f == [r \in queue |-> r.id]
<1>1. f \in Injection(queue, 1 .. issued)
  BY DEF QueueInv, Identified, Injection, IsInjective
<1>2. IsFiniteSet(1 .. issued)
  BY FS_Interval DEF QueueInv, MMTypes
<1>3. IsFiniteSet(queue)
  <2> HIDE DEF f
  <2> QED BY <1>1, <1>2, FS_Injection
<1> QED BY <1>3, FS_Subset, FS_CardinalityType DEF QueueInv, PassState

(* Another pass changes the age of a request only. *)
LEMMA OlderFacts ==
  ASSUME NEW r \in Requests
  PROVE  /\ Older(r) \in Requests
         /\ Older(r).id = r.id /\ Older(r).player = r.player /\ Older(r).mode = r.mode
BY DEF Older, Requests

(* Steps that change no queue and no match but for its status.             *)
LEMMA StatusKeeps ==
  ASSUME QueueInv, UNCHANGED <<queue, step, todo, sorted, mmGhosts>>,
         matches' \in Seq(MatchRecords), DOMAIN matches' = DOMAIN matches,
         \A m \in DOMAIN matches : matches'[m].requests = matches[m].requests
  PROVE  QueueInv'
<1> USE DEF QueueInv, mmGhosts
<1>1. /\ \A m \in DOMAIN matches : HeldIn(m)' = HeldIn(m)
      /\ Held' = Held /\ Queued' = Queued
      /\ \A mode : QueueOf(mode)' = QueueOf(mode)
  BY DEF HeldIn, Held, Queued, QueueOf, IdsOf
<1>2. MMTypes' /\ PassState' /\ Identified'
  BY DEF MMTypes, PassState, Identified
<1>3. MatchesFit'
  BY <1>1 DEF MatchesFit
<1>4. AllKept'
  BY <1>1 DEF AllKept
<1>5. OnceKept'
  BY <1>1 DEF OnceKept
<1> QED BY <1>2, <1>3, <1>4, <1>5

(* The status of one match changes. *)
LEMMA OneStatus ==
  ASSUME matches \in Seq(MatchRecords), NEW m \in DOMAIN matches,
         NEW st \in {"in_progress", "ending", "completed"},
         NEW ms, ms = [matches EXCEPT ![m].status = st]
  PROVE  /\ ms \in Seq(MatchRecords) /\ DOMAIN ms = DOMAIN matches
         /\ \A n \in DOMAIN matches : ms[n].requests = matches[n].requests
<1>1. DOMAIN matches = 1 .. Len(matches) /\ matches[m] \in MatchRecords
  BY LenProperties, ElementOfSeq
<1>2. [matches[m] EXCEPT !.status = st] \in MatchRecords
  BY <1>1 DEF MatchRecords
<1>3. ms = [matches EXCEPT ![m] = [matches[m] EXCEPT !.status = st]]
  OBVIOUS
<1>4. ms \in Seq(MatchRecords)
  BY <1>1, <1>2, <1>3, ExceptSeq
<1>5. \A n \in DOMAIN matches : ms[n].requests = matches[n].requests
  BY <1>1 DEF MatchRecords
<1> QED BY <1>4, <1>5

-----------------------------------------------------------------------------
(* The matchmaker starts with an empty queue. *)
LEMMA QueueInitInv == MMInit => QueueInv
<1> SUFFICES ASSUME MMInit PROVE QueueInv
  OBVIOUS
<1>1. /\ queue = {} /\ matches = <<>> /\ issued = 0 /\ gone = {} /\ step = "idle"
      /\ sorted = {}
  BY DEF MMInit
<1>2. matches \in Seq(MatchRecords) /\ DOMAIN matches = {}
  BY <1>1
<1> QED BY <1>1, <1>2
  DEF QueueInv, MMTypes, PassState, Identified, MatchesFit, AllKept, OnceKept, Held

(* A new request has an id that nobody had. *)
LEMMA EnqueueKeeps ==
  ASSUME QueueInv, NEW p \in Players, NEW mode \in Modes, Enqueue(p, mode)
  PROVE  QueueInv'
<1> USE DEF QueueInv
<1> DEFINE r == Request(p, mode)
<1>1. /\ step = "idle"
      /\ issued' = issued + 1
      /\ queue' = queue \cup {r}
      /\ duplicated' = (duplicated \/ p \in PlayersOf(QueueOf(mode)))
      /\ UNCHANGED <<matches, step, todo, sorted, gone, aborted>>
  BY DEF Enqueue, Idle, SetQueue, QueueOf, passVars
<1>2. /\ r \in Requests /\ r.id = issued + 1 /\ r.player = p /\ r.mode = mode
  BY RatingAssumption DEF Request, Requests, MMTypes
<1> HIDE DEF r
<1>3. issued \in Nat /\ issued' \in Nat /\ r.id \notin 1 .. issued /\ r.id \in 1 .. issued'
      /\ 1 .. issued \subseteq 1 .. issued'
      /\ \A i \in 1 .. issued' : i \in 1 .. issued \/ i = r.id
  BY <1>1, <1>2 DEF MMTypes
<1>4. Held \subseteq 1 .. issued /\ Held' = Held /\ \A m \in DOMAIN matches : HeldIn(m)' = HeldIn(m)
  BY <1>1 DEF Held, HeldIn, MatchesFit
<1>5. MMTypes' /\ PassState'
  BY <1>1, <1>2, <1>3 DEF MMTypes, PassState
<1>6. Identified'
  <2>1. \A q \in queue : q.id \in 1 .. issued
    BY DEF Identified
  <2> QED BY <1>1, <1>3, <2>1 DEF Identified, MMTypes
<1>7. MatchesFit'
  BY <1>1, <1>3, <1>4 DEF MatchesFit
<1>8. AllKept'
  <2>1. Queued' = Queued \cup {r.id}
    BY <1>1 DEF Queued, IdsOf
  <2> QED BY <1>1, <1>3, <1>4, <2>1 DEF AllKept
<1>9. OnceKept'
  <2> SUFFICES ASSUME ~aborted', ~duplicated'
               PROVE  /\ (\A a, b \in queue : a.mode = b.mode /\ a.player = b.player => a = b)'
                      /\ (\A m, n \in DOMAIN matches : m # n => HeldIn(m) \cap HeldIn(n) = {})'
                      /\ (Held \cap gone = {})'
                      /\ (\A q \in queue : q.id \notin Held)'
    BY <1>1 DEF OnceKept
  <2>1. ~aborted /\ ~duplicated /\ p \notin PlayersOf(QueueOf(mode))
    BY <1>1
  <2>2. \A q \in queue : ~(q.mode = mode /\ q.player = p)
    BY <2>1 DEF PlayersOf, QueueOf
  <2>3. (\A a, b \in queue : a.mode = b.mode /\ a.player = b.player => a = b)'
    BY <1>1, <1>2, <2>1, <2>2 DEF OnceKept
  <2>4. (\A q \in queue : q.id \notin Held)'
    BY <1>1, <1>3, <1>4, <2>1 DEF OnceKept
  <2> QED BY <1>1, <1>4, <2>1, <2>3, <2>4 DEF OnceKept
<1> QED BY <1>5, <1>6, <1>7, <1>8, <1>9

(* Requests leave the queue and are recorded as gone: none of them was     *)
(* matched, if nobody queued twice.                                        *)
LEMMA LeavingKeeps ==
  ASSUME QueueInv, step # "groups", NEW out \in SUBSET queue,
         queue' = queue \ out, gone' = gone \cup IdsOf(out),
         UNCHANGED <<matches, issued, aborted, duplicated>>,
         step' \in {"idle", "modes", "groups"},
         sorted' \subseteq queue',
         step' # "groups" => sorted' = {},
         step' = "groups" => /\ Head(todo') \in Modes
                             /\ sorted' = {r \in queue' : r.mode = Head(todo')}
  PROVE  QueueInv'
<1> USE DEF QueueInv
<1>1. /\ Held' = Held /\ \A m \in DOMAIN matches : HeldIn(m)' = HeldIn(m)
  BY DEF Held, HeldIn
<1>2. \A r \in out : r.id \in 1 .. issued
  BY DEF Identified
<1>3. MMTypes' /\ PassState'
  BY <1>2 DEF MMTypes, PassState, IdsOf
<1>4. Identified'
  <2>1. \A q \in queue' : q.id \notin IdsOf(out)
    BY DEF Identified, IdsOf
  <2> QED BY <2>1 DEF Identified
<1>5. MatchesFit'
  BY <1>1 DEF MatchesFit
<1>6. AllKept'
  <2>1. \A i \in Queued : i \in Queued' \/ i \in gone'
    BY DEF Queued, IdsOf
  <2>2. step' = "groups" => \A r \in QueueOf(Head(todo))' : r \in sorted'
    BY DEF QueueOf
  <2>3. \A i \in 1 .. issued' : i \in Queued' \/ i \in Held' \/ i \in gone'
    BY <1>1, <2>1 DEF AllKept
  <2> QED BY <2>2, <2>3 DEF AllKept
<1>7. OnceKept'
  <2> SUFFICES ASSUME ~aborted, ~duplicated
               PROVE  /\ (\A a, b \in queue : a.mode = b.mode /\ a.player = b.player => a = b)'
                      /\ (\A m, n \in DOMAIN matches : m # n => HeldIn(m) \cap HeldIn(n) = {})'
                      /\ (Held \cap gone = {})'
                      /\ (\A q \in queue : q.id \notin Held)'
    BY DEF OnceKept
  <2>1. \A q \in queue : q.id \notin Held
    BY DEF OnceKept
  <2>2. (Held \cap gone = {})'
    BY <1>1, <2>1 DEF OnceKept, IdsOf
  <2> QED BY <1>1, <2>1, <2>2 DEF OnceKept
<1> QED BY <1>3, <1>4, <1>5, <1>6, <1>7

(* dequeue withdraws one request. *)
LEMMA DequeueKeeps ==
  ASSUME QueueInv, NEW p \in Players, NEW mode \in Modes, Dequeue(p, mode)
  PROVE  QueueInv'
<1>1. PICK r \in QueueOf(mode) :
        SetQueue(mode, QueueOf(mode) \ {r}) /\ gone' = gone \cup {r.id}
  BY DEF Dequeue
<1>2. /\ step = "idle"
      /\ UNCHANGED <<matches, issued, aborted, duplicated, step, sorted, todo>>
  BY DEF Dequeue, Idle, passVars
<1>3. {r} \in SUBSET queue /\ queue' = queue \ {r} /\ gone' = gone \cup IdsOf({r})
  BY <1>1 DEF QueueOf, SetQueue, IdsOf
<1>4. sorted = {}
  BY <1>2 DEF QueueInv, PassState
<1> QED BY <1>2, <1>3, <1>4, LeavingKeeps

(* What has expired leaves the queue, the rest is sorted. *)
LEMMA ExpireKeeps == ASSUME QueueInv, Expire PROVE QueueInv'
<1> DEFINE mode == Head(todo)
           out  == QueueOf(mode) \ Active(mode)
<1>1. /\ step = "modes" /\ todo # <<>>
      /\ SetQueue(mode, Active(mode))
      /\ gone' = gone \cup IdsOf(out)
      /\ sorted' = Active(mode)
      /\ step' = IF Active(mode) = {} THEN "modes" ELSE "groups"
      /\ todo' = IF Active(mode) = {} THEN Tail(todo) ELSE todo
      /\ UNCHANGED <<matches, issued, aborted, duplicated>>
  BY DEF Expire
<1>2. out \in SUBSET queue /\ queue' = queue \ out
  BY <1>1 DEF SetQueue, QueueOf, Active
<1>3. Active(mode) = {r \in queue' : r.mode = mode}
  BY <1>1 DEF SetQueue, QueueOf, Active
<1>4. Active(mode) # {} => mode \in Modes
  BY DEF Active, QueueOf, QueueInv, MMTypes, Requests
<1> HIDE DEF mode, out
<1>5. step' = "groups" => Head(todo') = mode
  BY <1>1 DEF mode
<1> QED BY <1>1, <1>2, <1>3, <1>4, <1>5, LeavingKeeps

(* One more interval: only ages change. *)
LEMMA ProcessKeeps == ASSUME QueueInv, ProcessQueues PROVE QueueInv'
<1> USE DEF QueueInv
<1>1. /\ step = "idle" /\ step' = "modes" /\ sorted = {} /\ sorted' = {}
      /\ queue' = {Older(r) : r \in queue}
      /\ UNCHANGED <<matches, issued, gone, aborted, duplicated>>
  BY DEF ProcessQueues, Idle, mmGhosts, PassState
<1>2. /\ Held' = Held /\ \A m \in DOMAIN matches : HeldIn(m)' = HeldIn(m)
  BY <1>1 DEF Held, HeldIn
<1>3. \A r \in queue : /\ Older(r) \in Requests
                       /\ Older(r).id = r.id /\ Older(r).player = r.player
                       /\ Older(r).mode = r.mode
  BY OlderFacts DEF MMTypes
<1>4. \A q \in queue' : \E r \in queue : q = Older(r)
  BY <1>1
<1>5. MMTypes' /\ PassState'
  BY <1>1, <1>3, <1>4 DEF MMTypes, PassState
<1>6. Identified'
  BY <1>1, <1>3, <1>4 DEF Identified
<1>7. MatchesFit'
  BY <1>1, <1>2 DEF MatchesFit
<1>8. AllKept'
  <2>1. Queued' = Queued
    BY <1>1, <1>3 DEF Queued, IdsOf
  <2> QED BY <1>1, <1>2, <2>1 DEF AllKept
<1>9. OnceKept'
  BY <1>1, <1>2, <1>3, <1>4 DEF OnceKept
<1> QED BY <1>5, <1>6, <1>7, <1>8, <1>9

(* The pass is over when no mode is left. *)
LEMMA PassEndsKeeps == ASSUME QueueInv, PassEnds PROVE QueueInv'
<1>1. /\ step # "groups" /\ step' = "idle"
      /\ UNCHANGED <<queue, matches, sorted, issued, gone, aborted, duplicated>>
  BY DEF PassEnds, queueVars, mmGhosts
<1>2. Held' = Held /\ Queued' = Queued /\ \A m \in DOMAIN matches : HeldIn(m)' = HeldIn(m)
  BY <1>1 DEF Held, HeldIn, Queued, IdsOf
<1> QED BY <1>1, <1>2
  DEF QueueInv, MMTypes, PassState, Identified, MatchesFit, AllKept, OnceKept

(* createServer throws: the requests stay queued. *)
LEMMA AbortKeeps == ASSUME QueueInv, PassAborted PROVE QueueInv'
<1>1. /\ step' = "idle" /\ sorted' = {} /\ aborted'
      /\ UNCHANGED <<queue, matches, issued, gone, duplicated>>
  BY DEF PassAborted, queueVars
<1>2. Held' = Held /\ Queued' = Queued /\ \A m \in DOMAIN matches : HeldIn(m)' = HeldIn(m)
  BY <1>1 DEF Held, HeldIn, Queued, IdsOf
<1> QED BY <1>1, <1>2
  DEF QueueInv, MMTypes, PassState, Identified, MatchesFit, AllKept, OnceKept

(* The end of processQueue drops the players that are not left over: all   *)
(* of them are in a match.                                                 *)
LEMMA FinishKeeps == ASSUME QueueInv, FinishQueue PROVE QueueInv'
<1> USE DEF QueueInv
<1> DEFINE mode == Head(todo)
<1>1. /\ step = "groups" /\ step' = "modes" /\ sorted' = {}
      /\ SetQueue(mode, {r \in QueueOf(mode) : r.player \in PlayersOf(sorted)})
      /\ UNCHANGED <<matches, issued, gone, aborted, duplicated>>
  BY DEF FinishQueue, mmGhosts
<1>2. queue' = {r \in queue : r.mode = mode => r.player \in PlayersOf(sorted)}
  BY <1>1 DEF SetQueue, QueueOf
<1>3. /\ Held' = Held /\ \A m \in DOMAIN matches : HeldIn(m)' = HeldIn(m)
  BY <1>1 DEF Held, HeldIn
<1>4. MMTypes' /\ PassState' /\ Identified' /\ MatchesFit'
  BY <1>1, <1>2, <1>3 DEF MMTypes, PassState, Identified, MatchesFit
<1>5. AllKept'
  <2>1. \A r \in queue : r \in queue' \/ r.id \in Held
    BY <1>1, <1>2 DEF AllKept, QueueOf, PlayersOf
  <2>2. \A i \in Queued : i \in Queued' \/ i \in Held
    BY <2>1 DEF Queued, IdsOf
  <2> QED BY <1>1, <1>3, <2>2 DEF AllKept
<1>6. OnceKept'
  <2> SUFFICES ASSUME ~aborted, ~duplicated PROVE (\A q \in queue : q.id \notin Held)'
    BY <1>1, <1>2, <1>3 DEF OnceKept
  <2> SUFFICES ASSUME NEW q \in queue', q.id \in Held PROVE FALSE
    BY <1>3
  <2>1. q \in queue /\ q.mode = mode /\ q \notin sorted
    BY <1>2 DEF OnceKept
  <2>2. PICK s \in sorted : s.player = q.player
    BY <1>2, <2>1 DEF PlayersOf
  <2>3. s \in queue /\ s.mode = mode
    BY <1>1 DEF PassState
  <2> QED BY <2>1, <2>2, <2>3 DEF OnceKept
<1> QED BY <1>4, <1>5, <1>6

(* A group moves from what is sorted into a match of its own. *)
LEMMA MatchKeeps ==
  ASSUME QueueInv, InGroups, NEW server \in ServerIds, NEW group \in NextGroups,
         AddMatch(server, group)
  PROVE  QueueInv' /\ GroupSize \in 1 .. MaxPlayers
<1> USE DEF QueueInv
<1> DEFINE new == [server |-> server, mode |-> Head(todo), status |-> "starting",
                   requests |-> group]
<1>1. /\ step = "groups" /\ matches' = Append(matches, new) /\ sorted' = sorted \ group
      /\ UNCHANGED <<queue, step, todo, issued, gone, aborted, duplicated>>
  BY DEF InGroups, AddMatch, queueVars, mmGhosts
<1>2. GroupSize \in 1 .. MaxPlayers
  BY QueueFinite, PlayersAssumption DEF InGroups, GroupSize
<1>3. /\ group \subseteq sorted /\ sorted \subseteq queue /\ group \subseteq Requests
      /\ Cardinality(group) \in 1 .. MaxPlayers
  BY <1>2 DEF NextGroups, PassState, MMTypes
<1>4. new \in MatchRecords
  BY <1>1, <1>3 DEF MatchRecords, PassState
<1>5. new.requests = group
  OBVIOUS
<1> HIDE DEF new
<1>6. PICK n \in Nat :
        /\ matches' \in Seq(MatchRecords)
        /\ DOMAIN matches = 1 .. n - 1 /\ DOMAIN matches' = 1 .. n /\ n > 0
        /\ \A m \in DOMAIN matches : matches'[m] = matches[m]
        /\ matches'[n] = new
  BY <1>1, <1>4, AppendProperties, LenProperties DEF MMTypes
<1>7. /\ n \notin DOMAIN matches /\ DOMAIN matches' = DOMAIN matches \cup {n}
      /\ \A m \in DOMAIN matches : IdsOf(matches'[m].requests) = HeldIn(m)
      /\ IdsOf(matches'[n].requests) = IdsOf(group)
  BY <1>5, <1>6 DEF HeldIn
<1>8. Held' = Held \cup IdsOf(group)
  <2>1. Held' = UNION {IdsOf(matches'[m].requests) : m \in DOMAIN matches'}
    BY DEF Held, HeldIn, IdsOf
  <2> QED BY <1>7, <2>1 DEF Held
<1>9. \A r \in group : r.id \in 1 .. issued /\ r.id \notin gone
  BY <1>3 DEF Identified
<1>10. MMTypes' /\ PassState' /\ Identified'
  BY <1>1, <1>6 DEF MMTypes, PassState, Identified
<1>11. MatchesFit'
  <2>1. \A m \in DOMAIN matches' :
          /\ Cardinality(matches'[m].requests) \in 1 .. MaxPlayers
          /\ IdsOf(matches'[m].requests) \subseteq 1 .. issued
    BY <1>3, <1>5, <1>6, <1>7, <1>9 DEF MatchesFit, IdsOf
  <2> QED BY <1>1, <2>1 DEF MatchesFit, HeldIn
<1>12. AllKept'
  <2>1. Queued' = Queued
    BY <1>1 DEF Queued, IdsOf
  <2>2. \A r \in QueueOf(Head(todo))' : r \in sorted' \/ r.id \in Held'
    BY <1>1, <1>8 DEF AllKept, QueueOf, IdsOf
  <2> QED BY <1>1, <1>8, <2>1, <2>2 DEF AllKept
<1>13. OnceKept'
  <2> SUFFICES ASSUME ~aborted, ~duplicated
               PROVE  /\ (\A a, b \in queue : a.mode = b.mode /\ a.player = b.player => a = b)'
                      /\ (\A m, k \in DOMAIN matches : m # k => HeldIn(m) \cap HeldIn(k) = {})'
                      /\ (Held \cap gone = {})'
                      /\ (\A r \in queue : r.id \in Held =>
                            step = "groups" /\ r.mode = Head(todo) /\ r \notin sorted)'
    BY <1>1 DEF OnceKept
  <2>1. Held \cap IdsOf(group) = {}
    BY <1>3 DEF OnceKept, IdsOf
  <2>2. (\A m, k \in DOMAIN matches : m # k => HeldIn(m) \cap HeldIn(k) = {})'
    <3>1. ASSUME NEW m \in DOMAIN matches', NEW k \in DOMAIN matches', m # k
          PROVE  IdsOf(matches'[m].requests) \cap IdsOf(matches'[k].requests) = {}
      <4>1. \A i \in DOMAIN matches : HeldIn(i) \subseteq Held
        BY DEF Held
      <4> QED BY <1>7, <2>1, <3>1, <4>1 DEF OnceKept
    <3> QED BY <3>1 DEF HeldIn
  <2>3. (Held \cap gone = {})'
    BY <1>1, <1>8, <1>9 DEF OnceKept, IdsOf
  <2>4. (\A r \in queue : r.id \in Held =>
            step = "groups" /\ r.mode = Head(todo) /\ r \notin sorted)'
    <3> SUFFICES ASSUME NEW r \in queue, r.id \in Held'
                 PROVE  r.mode = Head(todo) /\ r \notin sorted'
      BY <1>1
    <3>1. CASE r.id \in Held
      BY <1>1, <3>1 DEF OnceKept
    <3>2. CASE r.id \in IdsOf(group)
      <4>1. r \in group
        BY <1>3, <3>2 DEF Identified, IdsOf
      <4> QED BY <1>1, <1>3, <4>1 DEF PassState
    <3> QED BY <1>8, <3>1, <3>2
  <2> QED BY <1>1, <2>2, <2>3, <2>4 DEF OnceKept
<1> QED BY <1>2, <1>10, <1>11, <1>12, <1>13

-----------------------------------------------------------------------------
(* A match has a server's id, and as many players as addPlayer and         *)
(* removePlayer may be called for in one run.                              *)
LEMMA SizesFit == 1 .. MaxPlayers \subseteq GroupSizes
BY PlayersAssumption DEF GroupSizes

(* Both ways of creating a match take a group out of the sorted requests. *)
LEMMA MatchFacts ==
  ASSUME QueueInv, NEW m \in DOMAIN matches
  PROVE  /\ matches[m] \in MatchRecords
         /\ Cardinality(matches[m].requests) \in 1 .. MaxPlayers
<1>1. DOMAIN matches = 1 .. Len(matches) /\ matches \in Seq(MatchRecords)
  BY LenProperties DEF QueueInv, MMTypes
<1>2. matches[m] \in MatchRecords
  BY <1>1, ElementOfSeq
<1> QED BY <1>2 DEF QueueInv, MatchesFit

(* Whatever the matchmaker, its callers and the shutdown do to the         *)
(* servers, GameServers allows.                                            *)
LEMMA ServersStep ==
  ASSUME ServersInv, QueueInv, MMNext
  PROVE  ServersNext \/ UNCHANGED serverVars
<1>1. DOMAIN servers \subseteq ServerIds
  BY DEF ServersInv, ServersTypeOK
<1>2. ASSUME NEW p \in Players, NEW mode \in Modes, Enqueue(p, mode) \/ Dequeue(p, mode)
      PROVE  UNCHANGED serverVars
  BY <1>2 DEF Enqueue, Dequeue
<1>3. CASE ProcessQueues \/ PassEnds \/ Expire \/ PassAborted \/ FinishQueue
  BY <1>3 DEF ProcessQueues, PassEnds, Expire, PassAborted, FinishQueue
<1>4. CASE CreateMatch
  <2>1. PICK s \in Emptiest(Head(todo)), group \in NextGroups :
          AddMatch(s, group) /\ AddPlayers(s, GroupSize)
    BY <1>4 DEF CreateMatch
  <2>2. s \in ServerIds
    BY <1>1, <2>1 DEF AddPlayers
  <2>3. GroupSize \in GroupSizes
    BY <1>4, <2>1, <2>2, MatchKeeps, SizesFit DEF CreateMatch
  <2> QED BY <2>1, <2>2, <2>3 DEF ServersNext
<1>5. CASE CreateMatchAndServer
  <2>1. PICK id \in ServerIds : CreateServer(id, Head(todo), MaxPlayers)
    BY <1>5 DEF CreateMatchAndServer
  <2>2. Head(todo) \in Modes
    BY <1>5 DEF CreateMatchAndServer, InGroups, QueueInv, PassState
  <2> QED BY <2>1, <2>2, PlayersAssumption DEF ServersNext
<1>6. ASSUME NEW m \in DOMAIN matches, MatchStarted(m) \/ MatchCompleted(m)
      PROVE  UNCHANGED serverVars
  BY <1>6 DEF MatchStarted, MatchCompleted
<1>7. ASSUME NEW m \in DOMAIN matches, EndMatch(m)
      PROVE  ServersNext \/ UNCHANGED serverVars
  <2>1. /\ matches[m].server \in ServerIds
        /\ Cardinality(matches[m].requests) \in GroupSizes
    BY MatchFacts, SizesFit DEF MatchRecords
  <2> QED BY <1>7, <2>1 DEF EndMatch, ServersNext
<1>8. ASSUME NEW id \in ServerIds, ServerTimer(id)
      PROVE  ServersNext
  BY <1>8 DEF ServerTimer, ServerStarted, ServerStopped, ServersNext
<1>9. CASE AdminCreates \/ AdminRemoves \/ EngineStops
  BY <1>9 DEF AdminCreates, AdminRemoves, EngineStops, ServersNext
<1> QED
  BY <1>2, <1>3, <1>4, <1>5, <1>6, <1>7, <1>8, <1>9 DEF MMNext, PassStep

(* Every step of the queues, the pass and the match timers. *)
LEMMA QueueStep == ASSUME ServersInv, QueueInv, [MMNext]_allVars PROVE QueueInv'
<1> USE DEF QueueInv
<1>1. matches \in Seq(MatchRecords)
  BY DEF MMTypes
<1>2. CASE UNCHANGED mmVars
  BY <1>1, <1>2, StatusKeeps DEF mmVars, queueVars, passVars
<1>3. ASSUME NEW m \in DOMAIN matches, MatchStarted(m)
      PROVE  QueueInv'
  <2>1. /\ UNCHANGED <<queue, step, todo, sorted, mmGhosts>>
        /\ matches' = matches \/ matches' = [matches EXCEPT ![m].status = "in_progress"]
    BY <1>3 DEF MatchStarted, queueVars, passVars
  <2> QED BY <1>1, <2>1, OneStatus, StatusKeeps
<1>4. ASSUME NEW m \in DOMAIN matches, MatchCompleted(m) \/ EndMatch(m)
      PROVE  QueueInv'
  <2>1. /\ UNCHANGED <<queue, step, todo, sorted, mmGhosts>>
        /\ \/ matches' = [matches EXCEPT ![m].status = "completed"]
           \/ matches' = [matches EXCEPT ![m].status = "ending"]
    BY <1>4 DEF MatchCompleted, EndMatch, queueVars, passVars
  <2> QED BY <1>1, <2>1, OneStatus, StatusKeeps
<1>5. CASE CreateMatch
  <2>1. PICK s \in Emptiest(Head(todo)), group \in NextGroups :
          AddMatch(s, group) /\ AddPlayers(s, GroupSize)
    BY <1>5 DEF CreateMatch
  <2>2. s \in ServerIds
    BY <2>1 DEF AddPlayers, ServersInv, ServersTypeOK
  <2> QED BY <1>5, <2>1, <2>2, MatchKeeps DEF CreateMatch
<1>6. CASE CreateMatchAndServer
  BY <1>6, MatchKeeps DEF CreateMatchAndServer
<1>7. ASSUME NEW id \in ServerIds, ServerTimer(id)
      PROVE  QueueInv'
  BY <1>2, <1>7 DEF ServerTimer
<1>8. CASE AdminCreates \/ AdminRemoves
  BY <1>2, <1>8 DEF AdminCreates, AdminRemoves
<1>9. CASE EngineStops
  BY <1>1, <1>9, StatusKeeps DEF EngineStops, queueVars
<1>10. CASE UNCHANGED allVars
  BY <1>2, <1>10 DEF allVars
<1>11. ASSUME NEW p \in Players, NEW mode \in Modes, Enqueue(p, mode) \/ Dequeue(p, mode)
       PROVE  QueueInv'
  BY <1>11, EnqueueKeeps, DequeueKeeps
<1>12. CASE ProcessQueues \/ PassEnds \/ Expire \/ PassAborted \/ FinishQueue
  BY <1>12, ProcessKeeps, PassEndsKeeps, ExpireKeeps, AbortKeeps, FinishKeeps
<1> HIDE DEF QueueInv
<1> QED
  BY <1>3, <1>4, <1>5, <1>6, <1>7, <1>8, <1>9, <1>10, <1>11, <1>12 DEF MMNext, PassStep

(* The inductive invariant of the matchmaker on its servers. *)
LEMMA MMNextInv == MMInv /\ [MMNext]_allVars => MMInv'
<1> SUFFICES ASSUME MMInv, [MMNext]_allVars PROVE MMInv'
  OBVIOUS
<1>1. QueueInv'
  BY QueueStep DEF MMInv
<1>2. [ServersNext]_serverVars
  BY ServersStep DEF MMInv, allVars
<1>3. ServersInv'
  BY <1>2, ServersNextInv DEF MMInv
<1> QED BY <1>1, <1>3 DEF MMInv

-----------------------------------------------------------------------------
(* The queues, the matches and the servers keep the inductive invariant,   *)
(* whatever players, timers and administrators do, in any order.           *)
THEOREM MMInvariance == MMSpec => []MMInv
<1>1. MMInit => MMInv
  BY QueueInitInv, ServersInitInv DEF MMInit, MMInv
<1> QED BY <1>1, MMNextInv, PTL DEF MMSpec

(* The filters of processQueue and dequeue, and a pass that createServer's *)
(* exception cuts short, lose no request.                                  *)
THEOREM RequestsKept == MMSpec => []NoRequestLost
<1>1. MMInv => NoRequestLost
  <2> SUFFICES ASSUME MMInv, NEW r \in 1 .. issued, r \in Held
               PROVE  Holding(r) # {}
    BY DEF MMInv, QueueInv, AllKept, NoRequestLost
  <2>1. PICK m \in DOMAIN matches : r \in HeldIn(m)
    BY DEF Held
  <2> QED BY <2>1 DEF Holding, HeldIn
<1> QED BY <1>1, MMInvariance, PTL

(* A request ends in at most one match and leaves the queue when it does,  *)
(* unless its player queued twice or createServer threw inside a pass.     *)
THEOREM MatchedAtMostOnce == MMSpec => []MatchedOnce
<1>1. MMInv => MatchedOnce
  <2> SUFFICES ASSUME MMInv, ~aborted, ~duplicated, NEW r \in 1 .. issued
               PROVE  /\ Cardinality(Holding(r)) <= 1
                      /\ Idle /\ Holding(r) # {} => r \notin Queued \cup gone
    BY DEF MatchedOnce
  <2>1. OnceKept
    BY DEF MMInv, QueueInv
  <2>2. \A m, n \in Holding(r) : m = n
    BY <2>1 DEF OnceKept, Holding, HeldIn
  <2>3. Cardinality(Holding(r)) <= 1
    <3>1. CASE Holding(r) = {}
      BY <3>1, FS_EmptySet
    <3>2. CASE Holding(r) # {}
      <4>1. PICK m : Holding(r) = {m}
        BY <2>2, <3>2
      <4>2. Cardinality({m}) = 1
        BY FS_Singleton
      <4> QED BY <4>1, <4>2
    <3> QED BY <3>1, <3>2
  <2>4. ASSUME Idle, Holding(r) # {}
        PROVE  r \notin Queued \cup gone
    <3>1. r \in Held
      BY <2>4 DEF Holding, Held, HeldIn
    <3> QED BY <2>1, <2>4, <3>1 DEF OnceKept, Idle, Queued, IdsOf
  <2> QED BY <2>3, <2>4
<1> QED BY <1>1, MMInvariance, PTL

(* The matchmaker, the administrator and the shutdown call                 *)
(* GameServerManager as module GameServers allows, step by step.           *)
THEOREM ServersSafely == MMSpec => ServersInit /\ [][ServersNext]_serverVars
<1>1. MMInit => ServersInit
  BY DEF MMInit
<1>2. MMInv /\ [MMNext]_allVars => [ServersNext]_serverVars
  BY ServersStep DEF MMInv, allVars
<1> QED BY <1>1, <1>2, MMInvariance, PTL DEF MMSpec

(* A server never has more players than it takes, whatever groups the      *)
(* matchmaker sends and however often a match is ended.                    *)
THEOREM GroupsFit == MMSpec => []CapacityRespected
<1>1. MMInv => CapacityRespected
  BY DEF MMInv, ServersInv
<1> QED BY <1>1, MMInvariance, PTL

(* No timer, no ended match and no shutdown revives a draining or stopped  *)
(* server.                                                                 *)
THEOREM ServersStayDown == MMSpec => NoRevival
<1>1. MMInv /\ [MMNext]_allVars => [StatusesStay]_serverVars
  BY ServersStep, NoRevivalStep DEF MMInv, allVars
<1> QED BY <1>1, MMInvariance, PTL DEF MMSpec, NoRevival, StatusesStay

(* The status of a match changes as NothingReturns says. *)
EndedStay ==
  \A m \in DOMAIN matches :
    matches[m].status \in {"ending", "completed"} =>
      matches'[m].status \in {"ending", "completed"}

(* A match that has ended stays as it is. *)
LEMMA StatusStep == ASSUME QueueInv, MMNext PROVE EndedStay
<1>1. DOMAIN matches = 1 .. Len(matches) /\ \A m \in DOMAIN matches : matches[m] \in MatchRecords
  BY MatchFacts, LenProperties DEF QueueInv, MMTypes
<1>2. CASE UNCHANGED matches
  BY <1>2 DEF EndedStay
<1>3. ASSUME NEW server, NEW group, AddMatch(server, group)
      PROVE  EndedStay
  BY <1>3, AppendProperties DEF AddMatch, EndedStay, QueueInv, MMTypes
<1>4. ASSUME NEW m \in DOMAIN matches, MatchStarted(m) \/ MatchCompleted(m) \/ EndMatch(m)
      PROVE  EndedStay
  BY <1>1, <1>4 DEF MatchStarted, MatchCompleted, EndMatch, EndedStay, MatchRecords
<1> QED
  BY <1>2, <1>3, <1>4
  DEF MMNext, PassStep, Enqueue, Dequeue, ProcessQueues, PassEnds, Expire, CreateMatch,
      CreateMatchAndServer, PassAborted, FinishQueue, ServerTimer, AdminCreates,
      AdminRemoves, EngineStops, mmVars

(* A new match takes its players from what the pass has sorted, and what   *)
(* is sorted is still queued.                                              *)
LEMMA NewMatches ==
  ASSUME QueueInv, MMNext
  PROVE  \A m \in DOMAIN matches' \ DOMAIN matches :
           IdsOf(matches'[m].requests) \cap gone = {}
<1> SUFFICES ASSUME NEW m \in DOMAIN matches' \ DOMAIN matches
             PROVE  IdsOf(matches'[m].requests) \cap gone = {}
  OBVIOUS
<1>1. ASSUME NEW server, NEW group \in NextGroups, AddMatch(server, group)
      PROVE  IdsOf(matches'[m].requests) \cap gone = {}
  <2>1. matches'[m].requests = group
    BY <1>1, AppendProperties DEF AddMatch, QueueInv, MMTypes
  <2>2. group \subseteq queue
    BY DEF NextGroups, QueueInv, PassState
  <2> QED BY <2>1, <2>2 DEF QueueInv, Identified, IdsOf
<1>2. CASE \E i \in DOMAIN matches : MatchStarted(i) \/ MatchCompleted(i) \/ EndMatch(i)
  BY <1>2 DEF MatchStarted, MatchCompleted, EndMatch
<1> QED
  BY <1>1, <1>2
  DEF MMNext, PassStep, Enqueue, Dequeue, ProcessQueues, PassEnds, Expire, CreateMatch,
      CreateMatchAndServer, PassAborted, FinishQueue, ServerTimer, AdminCreates,
      AdminRemoves, EngineStops, mmVars

(* A request that was withdrawn or timed out is never matched, and a match *)
(* that was ended is not restarted by createMatch's timer.                 *)
THEOREM NothingComesBack == MMSpec => NothingReturns
<1> DEFINE A == /\ \A m \in DOMAIN matches' \ DOMAIN matches :
                     IdsOf(matches'[m].requests) \cap gone = {}
                /\ EndedStay
<1>1. MMInv /\ [MMNext]_allVars => [A]_allVars
  BY StatusStep, NewMatches DEF MMInv
<1> QED BY <1>1, MMInvariance, PTL DEF MMSpec, NothingReturns, EndedStay
=============================================================================
