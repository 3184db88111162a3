------------------------------ MODULE Cluster -------------------------------
(***************************************************************************)
(* NodeRegistry and ClusterCoordinator: how one node, Local, sees its      *)
(* cluster, detects failed nodes and chooses a leader.                     *)
(*                                                                         *)
(* The repository has no transport between nodes.  The peers, and the      *)
(* messages that reach Local on the coordination channel, are external:    *)
(* messages may be lost, delayed, reordered and duplicated, peers may      *)
(* crash and start again.                                                  *)
(*                                                                         *)
(* A node's load, its connections and the term, which counts the           *)
(* elections, are left out: no decision reads them.  So is the heartbeat   *)
(* of Local itself, as checkNodeHealth skips Local.  "heard" is a history  *)
(* variable: the nodes a message of which was handled since the last       *)
(* check.                                                                  *)
(***************************************************************************)
EXTENDS Naturals, Sequences, FiniteSets

CONSTANTS
  Nodes,        \* node ids, in the order of localeCompare
  Local,        \* config.cluster.nodeId
  Timeout,      \* heartbeatTimeout, in ticks
  StartTimes,   \* the values of a peer's startedAt
  LocalStart    \* startedAt of localNode

ASSUME NodesAssumption ==
  Nodes \subseteq Nat \ {0} /\ Local \in Nodes /\ IsFiniteSet(Nodes)
ASSUME TimesAssumption ==
  StartTimes \subseteq Nat \ {0} /\ LocalStart \in Nat /\ Timeout \in Nat

VARIABLES
  phase,      \* of start and stop: see Start, StartElection and Stop
  order,      \* the keys of the nodes Map, in insertion order
  status,     \* NodeStatus of a registered node; "none" for the others
  startedAt,  \* startedAt of a registered node
  silent,     \* ticks since lastHeartbeat, while the node is not offline
  leaderId,
  peers,      \* what the peers have done so far
  heard

registry    == <<order, status, startedAt, silent>>
clusterVars == <<phase, registry, leaderId, peers, heard>>

Peers   == Nodes \ {Local}
Nobody  == 0                  \* leaderId = null
Offline == 2 * Timeout        \* a suspect silent for longer is offline
Statuses == {"none", "active", "suspect", "offline"}

ClusterInit ==
  /\ phase = "created"
  /\ order = <<>>
  /\ status = [n \in Nodes |-> "none"]
  /\ startedAt = [n \in Nodes |-> 0]
  /\ silent = [n \in Nodes |-> 0]
  /\ leaderId = Nobody
  /\ peers = [p \in Peers |-> [state |-> "new", starts |-> {}, parted |-> FALSE]]
  /\ heard = {}

(* Map.set keeps the place of a key that is already there. *)
WithKey(n) == IF status[n] = "none" THEN Append(order, n) ELSE order
Position(n) == CHOOSE i \in DOMAIN order : order[i] = n

(* startElection: the oldest active node, by startedAt and then by id;     *)
(* Local when no node is active.                                           *)
Older(at, a, b) == at[a] < at[b] \/ (at[a] = at[b] /\ a <= b)
Elect(active, at) ==
  IF active = {} THEN Local
  ELSE CHOOSE n \in active : \A m \in active : Older(at, n, m)
Active == {n \in Nodes : status[n] = "active"}

(* start: Local registers itself and announces itself on the channel it    *)
(* has subscribed to; the election waits for the announcement.             *)
Start ==
  /\ phase = "created"
  /\ phase' = "announcing"
  /\ order' = WithKey(Local)
  /\ status' = [status EXCEPT ![Local] = "active"]
  /\ startedAt' = [startedAt EXCEPT ![Local] = LocalStart]
  /\ UNCHANGED <<silent, leaderId, peers, heard>>

StartElection ==
  /\ phase = "announcing"
  /\ phase' = "running"
  /\ leaderId' = Elect(Active, startedAt)
  /\ UNCHANGED <<registry, peers, heard>>

(* deregisterNode, and an election when the leader has left. *)
Deregister(n) ==
  /\ order' = SelectSeq(order, LAMBDA m : m # n)
  /\ status' = [status EXCEPT ![n] = "none"]
  /\ silent' = [silent EXCEPT ![n] = 0]
  /\ startedAt' = [startedAt EXCEPT ![n] = 0]

(* Faulty: the leader's farewell is noted and nothing else. *)
HandleNodeGoodbyeQuietly(n) == Deregister(n) /\ UNCHANGED leaderId

HandleNodeGoodbye(n) ==
  /\ Deregister(n)
  /\ leaderId' = IF n = leaderId THEN Elect(Active \ {n}, startedAt) ELSE leaderId

(* stop: the farewell of Local comes back to its own handler, and the      *)
(* health checks end; messages are still handled afterwards.               *)
Stop ==
  /\ phase = "running"
  /\ phase' = "left"
  /\ HandleNodeGoodbye(Local)
  /\ UNCHANGED <<peers, heard>>

(* handleNodeAnnounce: the announced record replaces what is known.  Its   *)
(* lastHeartbeat was set by the sender's clock, a while ago.  A leader     *)
(* announces itself in turn, which registers Local again; that Local also  *)
(* handles its own announcement, and answers it, until the stack           *)
(* overflows changes nothing more.                                         *)
Answers == leaderId = Local
HandleNodeAnnounce(n, at, ago) ==
  LET order1 == WithKey(n)
  IN  /\ order' = IF Answers /\ status[Local] = "none" THEN Append(order1, Local) ELSE order1
      /\ status' = [m \in Nodes |-> IF m = n \/ (m = Local /\ Answers) THEN "active" ELSE status[m]]
      /\ startedAt' = [m \in Nodes |-> IF m = n THEN at
                                       ELSE IF m = Local /\ Answers THEN LocalStart ELSE startedAt[m]]
      /\ silent' = [silent EXCEPT ![n] = ago]
      /\ UNCHANGED leaderId

(* updateHeartbeat: a suspect recovers; an offline node does not, until it *)
(* announces itself again.                                                 *)
UpdateHeartbeat(n) ==
  /\ silent' = [silent EXCEPT ![n] = 0]
  /\ status' = [status EXCEPT ![n] = IF @ = "suspect" THEN "active" ELSE @]
  /\ UNCHANGED <<order, startedAt, leaderId>>

(* What may reach Local from p: copies of whatever p has sent so far, in   *)
(* any order, unless none is under way any more.                           *)
Message(type, p, at) == [type |-> type, id |-> p, at |-> at]
UnderWay(p) ==
  IF peers[p].state \notin {"up", "down"} THEN {}
  ELSE {Message("announce", p, at) : at \in peers[p].starts}
         \cup {Message("heartbeat", p, 0)}
         \cup (IF peers[p].parted THEN {Message("goodbye", p, 0)} ELSE {})

(* The subscriber of the coordination channel. *)
Deliver(m) ==
  /\ phase # "created"
  /\ \/ m.type = "announce" /\ \E ago \in {0, Offline + 1} : HandleNodeAnnounce(m.id, m.at, ago)
     \/ m.type = "goodbye" /\ HandleNodeGoodbye(m.id)
     \/ m.type = "heartbeat" /\ status[m.id] # "none" /\ UpdateHeartbeat(m.id)
  /\ heard' = heard \cup {m.id}
  /\ UNCHANGED <<phase, peers>>

(* Faulty: both limits are tested in the same check; nothing follows from  *)
(* a leader's going offline; a suspect leader is replaced.                 *)
CheckedTwice(n) ==
  IF n = Local \/ status[n] = "none" \/ silent[n] <= Timeout THEN status[n]
  ELSE IF silent[n] > Offline THEN "offline"
  ELSE IF status[n] = "active" THEN "suspect" ELSE status[n]
NodeOfflineIgnored(checked) == leaderId
NodeOfflineAtOnce(checked) ==
  IF leaderId # Nobody /\ checked[leaderId] \in {"suspect", "offline"}
  THEN Elect({n \in Nodes : checked[n] = "active"}, startedAt) ELSE leaderId

(* checkNodeHealth makes at most one step with every node, in the order of *)
(* the Map.                                                                *)
Checked(n) ==
  IF n = Local \/ silent[n] <= Timeout THEN status[n]
  ELSE IF status[n] = "active" THEN "suspect"
  ELSE IF status[n] = "suspect" /\ silent[n] > Offline THEN "offline"
  ELSE status[n]

(* The listener of cluster:node_offline runs in the middle of the check:   *)
(* nodes behind the leader in the Map still have their old status.  Who is *)
(* elected then was active, so that it cannot go offline in this check.    *)
NodeOffline(checked) ==
  LET Now(n) == IF Position(n) <= Position(leaderId) THEN checked[n] ELSE status[n]
      lost   == /\ leaderId # Nobody /\ status[leaderId] = "suspect"
                /\ checked[leaderId] = "offline"
  IN  IF lost THEN Elect({n \in Nodes : status[n] # "none" /\ Now(n) = "active"}, startedAt)
      ELSE leaderId

CheckNodeHealth ==
  /\ phase \in {"announcing", "running"}
  /\ status' = [n \in Nodes |-> Checked(n)]
  /\ leaderId' = NodeOffline(status')
  /\ silent' = [n \in Nodes |-> IF status'[n] = "offline" THEN 0 ELSE silent[n]]
  /\ heard' = {}
  /\ UNCHANGED <<phase, order, startedAt, peers>>

(* Time passes; beyond the second limit, and after the last check, it      *)
(* makes no difference.                                                    *)
Tick ==
  /\ phase # "left"
  /\ silent' = [n \in Nodes |-> IF n \in Peers /\ status[n] \in {"active", "suspect"} /\ silent[n] <= Offline
                                THEN silent[n] + 1 ELSE silent[n]]
  /\ silent' # silent
  /\ UNCHANGED <<phase, order, status, startedAt, leaderId, peers, heard>>
-----------------------------------------------------------------------------
(* The peers, as far as Local can tell: a peer starts, ends with or        *)
(* without a farewell, and may start again; at last nothing of one that    *)
(* has ended is under way any more.                                        *)
PeerStarts(p, at) ==
  /\ peers[p].state \in {"new", "down"} /\ \A t \in peers[p].starts : at > t
  /\ peers' = [peers EXCEPT ![p] = [state |-> "up", starts |-> peers[p].starts \cup {at},
                                     parted |-> peers[p].parted]]
  /\ UNCHANGED <<phase, registry, leaderId, heard>>

PeerEnds(p, farewell) ==
  /\ peers[p].state = "up"
  /\ peers' = [peers EXCEPT ![p] = [state |-> "down", starts |-> peers[p].starts,
                                     parted |-> peers[p].parted \/ farewell]]
  /\ UNCHANGED <<phase, registry, leaderId, heard>>

PeerForgotten(p) ==
  /\ peers[p].state = "down"
  /\ peers' = [peers EXCEPT ![p] = [state |-> "gone", starts |-> {}, parted |-> FALSE]]
  /\ UNCHANGED <<phase, registry, leaderId, heard>>

ClusterNext ==
  \/ Start \/ StartElection \/ Stop
  \/ \E p \in Peers : \E m \in UnderWay(p) : Deliver(m)
  \/ CheckNodeHealth
  \/ Tick
  \/ \E p \in Peers :
       \/ \E at \in StartTimes : PeerStarts(p, at)
       \/ \E farewell \in BOOLEAN : PeerEnds(p, farewell)
       \/ PeerForgotten(p)

(* Time passes, the interval timer fires while it is set, the pending part *)
(* of start runs, and no message stays under way, in copies, forever.      *)
ClusterFairness ==
  /\ WF_clusterVars(StartElection)
  /\ WF_clusterVars(CheckNodeHealth)
  /\ WF_clusterVars(Tick)
  /\ \A p \in Peers : WF_clusterVars(PeerForgotten(p))

ClusterSpec == ClusterInit /\ [][ClusterNext]_clusterVars /\ ClusterFairness
-----------------------------------------------------------------------------
ClusterTypeOK ==
  /\ phase \in {"created", "announcing", "running", "left"}
  /\ status \in [Nodes -> Statuses]
  /\ startedAt \in [Nodes -> Nat]
  /\ silent \in [Nodes -> Nat]
  /\ leaderId \in Nodes \cup {Nobody}
  /\ peers \in [Peers -> [state : {"new", "up", "down", "gone"},
                           starts : SUBSET StartTimes, parted : BOOLEAN]]
  /\ heard \in SUBSET Peers

(* startElection runs at the start, when the leader leaves and when it     *)
(* goes offline, in the middle of a health check too: at no time is the    *)
(* leader a node that is offline or unknown, unless Local has nobody else  *)
(* to turn to after its own farewell.                                      *)
LeaderPresent ==
  phase \notin {"created", "announcing"} =>
    \/ leaderId \in Nodes /\ status[leaderId] \in {"active", "suspect"}
    \/ leaderId = Local /\ phase = "left"

(* checkNodeHealth declares a node offline only after a whole interval     *)
(* between two checks without a word from it, however long ago its         *)
(* lastHeartbeat is by the clock of the node that sent it.                 *)
NoHastyOffline ==
  [][\A n \in Nodes : status[n] # "offline" /\ status'[n] = "offline" => n \notin heard]_clusterVars

(* A leader is not deposed while it stays registered and in touch, whoever *)
(* else announces itself, leaves, fails or is older.                       *)
LeaderKept ==
  [][leaderId' # leaderId /\ leaderId # Nobody =>
       status'[leaderId] \in {"none", "offline"}]_clusterVars

(* A leader that is down does not stay the leader: its silence is noticed, *)
(* even if its goodbye is lost and late copies of its messages arrive.     *)
DeadLeaderReplaced ==
  \A p \in Peers :
    (phase = "running" /\ leaderId = p /\ peers[p].state \in {"down", "gone"})
      ~> (leaderId # p \/ peers[p].state = "up" \/ phase # "running")
=============================================================================
