----------------------------- MODULE Matchmaker -----------------------------
(***************************************************************************)
(* Matchmaker on top of GameServerManager.                                 *)
(*                                                                         *)
(* processQueues runs to completion on the JavaScript thread; it is taken  *)
(* apart into steps, "step" and "todo" say how far it is, and clients and  *)
(* timers wait until it is idle again.  Nothing calls setModeConfig, so    *)
(* every mode has DEFAULT_CONFIG.  Requests and timers go on after stop,   *)
(* until the process exits, but there are no more passes.                  *)
(*                                                                         *)
(* A request carries an id of its own, which the code does not have: its   *)
(* number.  The array of a mode is pushed to and filtered, never           *)
(* rearranged, so it is a set of requests here, in the order of their ids; *)
(* so is processQueue's sorted array, in the order of Before.  "gone",     *)
(* "aborted" and "duplicated" are history variables: the requests that     *)
(* expired or were withdrawn, whether createServer ever threw inside a     *)
(* pass, and whether a player was ever queued twice for a mode.            *)
(***************************************************************************)
EXTENDS GameServers, Sequences, SequencesExt

CONSTANTS
  Players,      \* player ids
  Rating,       \* the skillRating each player asks with
  MinPlayers,   \* minPlayers
  MaxPlayers,   \* maxPlayers
  MaxWait,      \* maxWaitTimeMs, in matchmaking intervals
  MaxRequests   \* bound on the requests made

ASSUME PlayersAssumption ==
  /\ MinPlayers \in Nat \ {0} /\ MaxPlayers \in Nat /\ MinPlayers <= MaxPlayers
  /\ MaxPlayers \in Capacities
ASSUME WaitAssumption == MaxWait \in Nat /\ MaxRequests \in Nat
ASSUME RatingAssumption == Rating \in [Players -> Nat]

VARIABLES
  queue,      \* the requests in the queue Map, of all modes
  order,      \* the keys of the queue Map, in insertion order
  matches,    \* the matches Map in creation order
  launching,  \* pending timers of createMatch, by match
  closing,    \* pending timers of endMatch, by match
  ticking,    \* whether matchmakingTimer runs
  step,       \* "idle", "modes" or "groups"
  todo,       \* the modes the pass has not finished
  sorted,     \* what is left of processQueue's sorted array
  issued,     \* the number of requests made
  gone, aborted, duplicated

mmGhosts == <<issued, gone, aborted, duplicated>>
passVars == <<ticking, step, todo, sorted>>
queueVars == <<queue, order>>
mmVars   == <<queueVars, matches, launching, closing, passVars, mmGhosts>>
allVars  == <<serverVars, mmVars>>

MMInit ==
  /\ ServersInit
  /\ queue = {} /\ order = <<>> /\ matches = <<>>
  /\ launching = {} /\ closing = {}
  /\ ticking = TRUE /\ step = "idle" /\ todo = <<>> /\ sorted = {}
  /\ issued = 0 /\ gone = {} /\ aborted = FALSE /\ duplicated = FALSE

Idle == step = "idle"

PlayersOf(requests) == {r.player : r \in requests}
IdsOf(requests) == {r.id : r \in requests}

(* queue.get(mode) || [], and queue.set, or queue.delete when nothing is   *)
(* left.                                                                   *)
QueueOf(mode) == {r \in queue : r.mode = mode}
SetQueue(mode, requests) ==
  /\ queue' = (queue \ QueueOf(mode)) \cup requests
  /\ order' = IF requests = {} THEN Remove(order, mode)
              ELSE IF Contains(order, mode) THEN order
              ELSE Append(order, mode)

Request(p, mode) ==
  [id |-> issued + 1, player |-> p, mode |-> mode, skill |-> Rating[p], age |-> 0]

Enqueue(p, mode) ==
  /\ Idle
  /\ issued < MaxRequests
  /\ issued' = issued + 1
  /\ SetQueue(mode, QueueOf(mode) \cup {Request(p, mode)})
  /\ duplicated' = (duplicated \/ p \in PlayersOf(QueueOf(mode)))
  /\ UNCHANGED <<serverVars, matches, launching, closing, passVars, gone, aborted>>

(* dequeue takes the first request of the player. *)
Dequeue(p, mode) ==
  /\ Idle
  /\ \E r \in QueueOf(mode) :
       /\ r.player = p
       /\ \A q \in QueueOf(mode) : q.player = p => r.id <= q.id
       /\ SetQueue(mode, QueueOf(mode) \ {r})
       /\ gone' = gone \cup {r.id}
  /\ UNCHANGED <<serverVars, matches, launching, closing, passVars, issued, aborted, duplicated>>

(* Faulty: requestedAt is refreshed by every pass. *)
OlderNever(r) == r

(* The interval timer calls processQueues: one more interval has passed    *)
(* for every request.                                                      *)
Older(r) == [r EXCEPT !.age = @ + 1]
ProcessQueues ==
  /\ Idle
  /\ ticking
  /\ todo' = order
  /\ queue' = {Older(r) : r \in queue}
  /\ step' = "modes"
  /\ UNCHANGED <<serverVars, order, matches, launching, closing, ticking, sorted, mmGhosts>>

PassEnds ==
  /\ step = "modes"
  /\ todo = <<>>
  /\ step' = "idle"
  /\ UNCHANGED <<serverVars, queueVars, matches, launching, closing, ticking, todo, sorted, mmGhosts>>

(* The sort by skillRating is stable. *)
Before(a, b) == a.skill < b.skill \/ (a.skill = b.skill /\ a.id < b.id)

Active(mode) == {r \in QueueOf(mode) : r.age <= MaxWait}

(* Faulty: the unfiltered queue is sorted. *)
ExpireSortsAll ==
  /\ step = "modes" /\ todo # <<>>
  /\ LET mode == Head(todo)
     IN  /\ SetQueue(mode, Active(mode))
         /\ gone' = gone \cup IdsOf(QueueOf(mode) \ Active(mode))
         /\ sorted' = QueueOf(mode)
  /\ step' = "groups"
  /\ UNCHANGED <<serverVars, matches, launching, closing, ticking, todo, issued, aborted, duplicated>>

(* processQueue, up to the loop: drop what has expired, sort the rest. *)
Expire ==
  /\ step = "modes"
  /\ todo # <<>>
  /\ LET mode == Head(todo)
     IN  /\ SetQueue(mode, Active(mode))
         /\ gone' = gone \cup IdsOf(QueueOf(mode) \ Active(mode))
         /\ sorted' = Active(mode)
         /\ step' = IF Active(mode) = {} THEN "modes" ELSE "groups"
         /\ todo' = IF Active(mode) = {} THEN Tail(todo) ELSE todo
  /\ UNCHANGED <<serverVars, matches, launching, closing, ticking, issued, aborted, duplicated>>

(* getAvailableServers for the mode, the emptiest first; which of several  *)
(* equally empty ones comes first is left open.                            *)
Available(mode) ==
  {s \in DOMAIN servers : /\ servers[s].status = "running" /\ servers[s].mode = mode
                          /\ servers[s].players < servers[s].max}
Emptiest(mode) ==
  {s \in Available(mode) : \A t \in Available(mode) : servers[s].players <= servers[t].players}

(* sorted.splice(0, n) takes the first n, as many as fit into a match. *)
GroupSize == IF Cardinality(sorted) < MaxPlayers THEN Cardinality(sorted) ELSE MaxPlayers
NextGroups ==
  {g \in SUBSET sorted : /\ Cardinality(g) = GroupSize
                         /\ \A a \in g, b \in sorted \ g : Before(a, b)}

(* The rest of createMatch, once it has a server. *)
AddMatch(server, group) ==
  /\ matches' = Append(matches, [server |-> server, mode |-> Head(todo),
                                 status |-> "starting", requests |-> group])
  /\ launching' = launching \cup {Len(matches) + 1}
  /\ sorted' = sorted \ group
  /\ UNCHANGED <<queueVars, closing, ticking, step, todo, mmGhosts>>

InGroups == step = "groups" /\ Cardinality(sorted) >= MinPlayers

(* Faulty: the players are counted without addPlayer. *)
CreateMatchUncounted ==
  /\ InGroups
  /\ \E s \in Emptiest(Head(todo)), group \in NextGroups :
       /\ AddMatch(s, group)
       /\ servers' = [servers EXCEPT ![s].players = @ + GroupSize]
  /\ UNCHANGED <<usedIds, starting, stopping>>

(* A group goes to a running server; addPlayer's result is not looked at. *)
CreateMatch ==
  /\ InGroups
  /\ \E s \in Emptiest(Head(todo)), group \in NextGroups :
       /\ AddMatch(s, group)
       /\ AddPlayers(s, GroupSize)

(* A new server is made; it is still starting, so that addPlayer refuses   *)
(* every player of the group.                                              *)
CreateMatchAndServer ==
  /\ InGroups
  /\ Available(Head(todo)) = {}
  /\ \E id \in ServerIds, group \in NextGroups :
       /\ CreateServer(id, Head(todo), MaxPlayers)
       /\ AddMatch(id, group)

(* createServer throws: the exception ends the whole pass, and the queues  *)
(* stay as they are.                                                       *)
PassAborted ==
  /\ InGroups
  /\ Available(Head(todo)) = {}
  /\ ~HasRoom
  /\ step' = "idle" /\ todo' = <<>> /\ sorted' = {}
  /\ aborted' = TRUE
  /\ UNCHANGED <<serverVars, queueVars, matches, launching, closing, ticking, issued, gone, duplicated>>

(* Faulty: the queue is left as it was, or is deleted. *)
FinishQueueKeepsAll ==
  /\ step = "groups" /\ Cardinality(sorted) < MinPlayers
  /\ step' = "modes" /\ todo' = Tail(todo) /\ sorted' = {}
  /\ UNCHANGED <<serverVars, queueVars, matches, launching, closing, ticking, mmGhosts>>
FinishQueueDropsAll ==
  /\ step = "groups" /\ Cardinality(sorted) < MinPlayers
  /\ SetQueue(Head(todo), {})
  /\ step' = "modes" /\ todo' = Tail(todo) /\ sorted' = {}
  /\ UNCHANGED <<serverVars, matches, launching, closing, ticking, mmGhosts>>

(* The end of processQueue: whoever was left over stays queued, by player. *)
FinishQueue ==
  /\ step = "groups"
  /\ Cardinality(sorted) < MinPlayers
  /\ LET mode == Head(todo)
     IN  SetQueue(mode, {r \in QueueOf(mode) : r.player \in PlayersOf(sorted)})
  /\ step' = "modes" /\ todo' = Tail(todo) /\ sorted' = {}
  /\ UNCHANGED <<serverVars, matches, launching, closing, ticking, mmGhosts>>

(* The timers of createMatch and of endMatch. *)
MatchStarted(m) ==
  /\ Idle
  /\ m \in launching
  /\ launching' = launching \ {m}
  /\ matches' = IF matches[m].status = "starting"
                THEN [matches EXCEPT ![m].status = "in_progress"] ELSE matches
  /\ UNCHANGED <<serverVars, queueVars, closing, passVars, mmGhosts>>

MatchCompleted(m) ==
  /\ Idle
  /\ m \in closing
  /\ closing' = closing \ {m}
  /\ matches' = [matches EXCEPT ![m].status = "completed"]
  /\ UNCHANGED <<serverVars, queueVars, launching, passVars, mmGhosts>>

(* Faulty: nothing is scheduled. *)
EndMatchWithoutTimer(m) ==
  /\ Idle
  /\ matches' = [matches EXCEPT ![m].status = "ending"]
  /\ UNCHANGED <<serverVars, queueVars, launching, closing, passVars, mmGhosts>>

(* endMatch may be called at any time, again too: removePlayer runs once   *)
(* per player each time.                                                   *)
EndMatch(m) ==
  /\ Idle
  /\ matches' = [matches EXCEPT ![m].status = "ending"]
  /\ closing' = closing \cup {m}
  /\ \/ RemovePlayers(matches[m].server, Cardinality(matches[m].requests))
     \/ matches[m].server \notin DOMAIN servers /\ UNCHANGED serverVars
  /\ UNCHANGED <<queueVars, launching, passVars, mmGhosts>>

(* The servers' own timers, and the administrator's requests. *)
ServerTimer(id) ==
  /\ Idle
  /\ ServerStarted(id) \/ ServerStopped(id)
  /\ UNCHANGED mmVars

AdminCreates ==
  /\ Idle
  /\ \E id \in ServerIds, mode \in Modes, max \in Capacities : CreateServer(id, mode, max)
  /\ UNCHANGED mmVars

(* Bounded by the ids left: there is always one more when there is room.   *)
AdminRemoves ==
  /\ Idle
  /\ Cardinality(ServerIds \ usedIds) + Cardinality(DOMAIN servers) > MaxServers
  /\ \E id \in ServerIds : RemoveServer(id)
  /\ UNCHANGED mmVars

(* SyncEngine.stop: matchmaker.stop() and serverManager.stop(). *)
EngineStops ==
  /\ Idle
  /\ ticking
  /\ ticking' = FALSE
  /\ StopAll
  /\ UNCHANGED <<queueVars, matches, launching, closing, step, todo, sorted, mmGhosts>>

PassStep == PassEnds \/ Expire \/ CreateMatch \/ CreateMatchAndServer \/ PassAborted \/ FinishQueue

MMNext ==
  \/ \E p \in Players, mode \in Modes : Enqueue(p, mode) \/ Dequeue(p, mode)
  \/ ProcessQueues
  \/ PassStep
  \/ \E m \in DOMAIN matches : MatchStarted(m) \/ MatchCompleted(m) \/ EndMatch(m)
  \/ \E id \in ServerIds : ServerTimer(id)
  \/ AdminCreates
  \/ AdminRemoves
  \/ EngineStops

(* The interval timer keeps firing, the synchronous code of a pass runs    *)
(* on, and a due timer gets its turn between the passes.                   *)
MMFairness ==
  /\ WF_allVars(ProcessQueues) /\ WF_allVars(PassStep)
  /\ \A m \in 1 .. MaxRequests :
       /\ SF_allVars(m \in DOMAIN matches /\ MatchStarted(m))
       /\ SF_allVars(m \in DOMAIN matches /\ MatchCompleted(m))
  /\ \A id \in ServerIds :
       /\ SF_allVars(Idle /\ ServerStarted(id) /\ UNCHANGED mmVars)
       /\ SF_allVars(Idle /\ ServerStopped(id) /\ UNCHANGED mmVars)

MMSpec == MMInit /\ [][MMNext]_allVars /\ MMFairness
-----------------------------------------------------------------------------
Queued == IdsOf(queue)
Holding(r) == {m \in DOMAIN matches : r \in IdsOf(matches[m].requests)}

(* The filters of processQueue and dequeue, and a pass cut short by an     *)
(* exception, lose no request: each one is queued, in a match, withdrawn   *)
(* or timed out, even when a player is queued twice.                       *)
NoRequestLost ==
  \A r \in 1 .. issued : r \in Queued \/ Holding(r) # {} \/ r \in gone

(* Unless a player queues twice for a mode or createServer throws inside a *)
(* pass, a request ends in at most one match and leaves the queue when it  *)
(* does.                                                                   *)
MatchedOnce ==
  (~aborted /\ ~duplicated) =>
    \A r \in 1 .. issued :
      /\ Cardinality(Holding(r)) <= 1
      /\ Idle /\ Holding(r) # {} => r \notin Queued \cup gone

(* Nothing comes back late: a request that was withdrawn or has timed out  *)
(* is never matched, whatever the pass still holds in its sorted copy, and *)
(* the timer of createMatch does not restart a match that was ended.       *)
NothingReturns ==
  [][/\ \A m \in DOMAIN matches' \ DOMAIN matches :
          IdsOf(matches'[m].requests) \cap gone = {}
     /\ \A m \in DOMAIN matches :
          matches[m].status \in {"ending", "completed"} =>
            matches'[m].status \in {"ending", "completed"}]_allVars

(* No request waits forever while the server runs: it is matched,          *)
(* withdrawn or times out.  With one mode this holds even while            *)
(* createServer throws in every pass.                                      *)
NobodyWaitsForever ==
  \A r \in 1 .. MaxRequests : (r \in Queued) ~> (r \notin Queued \/ ~ticking)

(* The matchmaker, its callers and the shutdown use GameServerManager only *)
(* as module GameServers allows, and leave its timers their turn: what is  *)
(* proved of GameServers holds of the servers here.                        *)
ServersAsSpecified == ServersSpec

(* A match does not stay in a transitional state: one that is starting is  *)
(* in progress or over at last, one that is ending is completed, however   *)
(* often endMatch is repeated.                                             *)
MatchesSettle ==
  \A m \in 1 .. MaxRequests :
    (m \in DOMAIN matches /\ matches[m].status \in {"starting", "ending"})
      ~> (m \in DOMAIN matches /\ matches[m].status \in {"in_progress", "completed"})
=============================================================================
