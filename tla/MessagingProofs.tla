--------------------------- MODULE MessagingProofs --------------------------
(***************************************************************************)
(* What goes between the parts of a node and between nodes.  Cluster: its  *)
(* leader and its failure detector, for every set of nodes, every timeout  *)
(* and every start time, and whatever messages of the peers are lost,      *)
(* delayed, reordered and repeated.  MessageBroker: RingBuffer implements  *)
(* a bounded queue and messages are delivered as promised, for every       *)
(* capacity, every number of subscriptions and messages, every filter.     *)
(***************************************************************************)
EXTENDS Cluster, Broker, SequenceTheorems, NaturalsInduction, WellFoundedInduction,
        FiniteSetTheorems, TLAPS

(* Local is registered and active from start to stop: no message of a peer *)
(* removes it and no check looks at it.                                    *)
LocalPresent == phase \in {"announcing", "running"} => status[Local] = "active"

(* There is no leader before the first election. *)
NoLeaderYet == phase \in {"created", "announcing"} => leaderId = Nobody

(* A node that was heard of since the last check is not under suspicion:   *)
(* only a check suspects, and only suspects go offline.                    *)
HeardUnsuspected == \A n \in heard : status[n] # "suspect"

(* The inductive invariant.  LeaderPresent needs LocalPresent, because an  *)
(* election without an active node falls back on Local.                    *)
ClusterInv ==
  /\ ClusterTypeOK
  /\ LocalPresent
  /\ NoLeaderYet
  /\ LeaderPresent
  /\ HeardUnsuspected

-----------------------------------------------------------------------------
(* A set of numbers that is not empty has a least one. *)
LEMMA LeastNat ==
  ASSUME NEW T \in SUBSET Nat, T # {}
  PROVE  \E x \in T : \A y \in T : x <= y
<1>1. PICK x \in T : \A y \in T : ~(<<y, x>> \in OpToRel(<, Nat))
  BY NatLessThanWellFounded, WFMin
<1>2. \A y \in T : ~(y < x)
  BY <1>1 DEF OpToRel
<1>3. QED
  BY <1>2

(* startElection finds an oldest node: if some node is active, one of the  *)
(* active ones is elected.                                                 *)
LEMMA ElectedIsActive ==
  ASSUME NEW active \in SUBSET Nodes, active # {}, NEW at \in [Nodes -> Nat]
  PROVE  Elect(active, at) \in active
<1>1. PICK t \in {at[n] : n \in active} : \A u \in {at[n] : n \in active} : t <= u
  <2>1. {at[n] : n \in active} \in SUBSET Nat /\ {at[n] : n \in active} # {}
    OBVIOUS
  <2>2. QED
    BY <2>1, LeastNat
<1>2. PICK n \in {m \in active : at[m] = t} : \A m \in {k \in active : at[k] = t} : n <= m
  <2>1. {m \in active : at[m] = t} \in SUBSET Nat /\ {m \in active : at[m] = t} # {}
    BY NodesAssumption
  <2>2. QED
    BY <2>1, LeastNat
<1>3. \A m \in active : Older(at, n, m)
  BY <1>1, <1>2 DEF Older
<1>4. QED
  BY <1>2, <1>3 DEF Elect

(* When no node is active, Local is elected; so a node always is. *)
LEMMA ElectedIsNode ==
  ASSUME NEW active \in SUBSET Nodes, NEW at \in [Nodes -> Nat]
  PROVE  /\ Elect(active, at) \in Nodes
         /\ Elect(active, at) \in active \cup {Local}
         /\ active # {} => Elect(active, at) \in active
<1>1. CASE active = {}
  BY <1>1, NodesAssumption DEF Elect
<1>2. CASE active # {}
  BY <1>2, ElectedIsActive
<1>3. QED
  BY <1>1, <1>2

-----------------------------------------------------------------------------
(* A node that has not started knows nobody. *)
LEMMA ClusterInitInv == ClusterInit => ClusterInv
BY DEF ClusterInit, ClusterInv, ClusterTypeOK, LocalPresent, NoLeaderYet, LeaderPresent,
       HeardUnsuspected, Statuses, Nobody

(* deregisterNode with the election that follows it: what stop and every   *)
(* farewell of a peer do to the leader.                                    *)
LEMMA GoodbyeKeepsLeader ==
  ASSUME ClusterTypeOK, NEW n \in Nodes, HandleNodeGoodbye(n)
  PROVE  /\ status' \in [Nodes -> Statuses]
         /\ startedAt' \in [Nodes -> Nat]
         /\ silent' \in [Nodes -> Nat]
         /\ leaderId' \in Nodes \cup {Nobody}
         /\ \A m \in Nodes \ {n} : status'[m] = status[m]
         /\ status'[n] = "none"
         /\ n # leaderId => leaderId' = leaderId
         /\ n = leaderId => \/ leaderId' \in Nodes /\ status'[leaderId'] = "active"
                            \/ leaderId' = Local /\ Active \ {n} = {}
<1>1. /\ status' = [status EXCEPT ![n] = "none"]
      /\ silent' = [silent EXCEPT ![n] = 0]
      /\ startedAt' = [startedAt EXCEPT ![n] = 0]
      /\ leaderId' = IF n = leaderId THEN Elect(Active \ {n}, startedAt) ELSE leaderId
  BY DEF HandleNodeGoodbye, Deregister
<1>2. /\ status \in [Nodes -> Statuses] /\ startedAt \in [Nodes -> Nat]
      /\ silent \in [Nodes -> Nat] /\ leaderId \in Nodes \cup {Nobody}
  BY DEF ClusterTypeOK
<1>3. Active \ {n} \in SUBSET Nodes
  BY DEF Active
<1>4. /\ Elect(Active \ {n}, startedAt) \in Nodes
      /\ Elect(Active \ {n}, startedAt) \in (Active \ {n}) \cup {Local}
      /\ Active \ {n} # {} => Elect(Active \ {n}, startedAt) \in Active \ {n}
  BY <1>2, <1>3, ElectedIsNode
<1>5. \A m \in Active \ {n} : m \in Nodes /\ status'[m] = "active"
  BY <1>1, <1>2 DEF Active
<1>6. QED
  BY <1>1, <1>2, <1>4, <1>5 DEF Statuses

(* Every handler, timer and step of a peer keeps the invariant. *)
LEMMA ClusterNextInv == ClusterInv /\ [ClusterNext]_clusterVars => ClusterInv'
<1> SUFFICES ASSUME ClusterInv, [ClusterNext]_clusterVars
             PROVE  ClusterInv'
  OBVIOUS
<1>0. /\ ClusterTypeOK /\ LocalPresent /\ NoLeaderYet /\ LeaderPresent /\ HeardUnsuspected
  BY DEF ClusterInv
<1> USE NodesAssumption, TimesAssumption
<1>1. CASE Start
  BY <1>0, <1>1 DEF Start, ClusterInv, ClusterTypeOK, LocalPresent, NoLeaderYet, LeaderPresent,
                    HeardUnsuspected, Statuses, Peers
<1>2. CASE StartElection
  <2>1. Active \in SUBSET Nodes /\ startedAt \in [Nodes -> Nat] /\ Local \in Active
    BY <1>0, <1>2 DEF StartElection, LocalPresent, Active, ClusterTypeOK
  <2>2. leaderId' \in Active
    BY <1>2, <2>1, ElectedIsActive DEF StartElection
  <2>3. leaderId' \in Nodes /\ status[leaderId'] = "active"
    BY <2>2 DEF Active
  <2>4. QED
    BY <1>0, <1>2, <2>3 DEF StartElection, registry, ClusterInv, ClusterTypeOK, LocalPresent,
                            NoLeaderYet, LeaderPresent, HeardUnsuspected
<1>3. CASE Stop
  <2>1. HandleNodeGoodbye(Local) /\ phase' = "left" /\ phase = "running" /\ UNCHANGED <<peers, heard>>
    BY <1>3 DEF Stop
  <2>2. /\ status' \in [Nodes -> Statuses]
        /\ startedAt' \in [Nodes -> Nat]
        /\ silent' \in [Nodes -> Nat]
        /\ leaderId' \in Nodes \cup {Nobody}
        /\ \A m \in Nodes \ {Local} : status'[m] = status[m]
        /\ Local # leaderId => leaderId' = leaderId
        /\ Local = leaderId => \/ leaderId' \in Nodes /\ status'[leaderId'] = "active"
                               \/ leaderId' = Local
    BY <1>0, <2>1, GoodbyeKeepsLeader
  <2>3. LeaderPresent'
    BY <1>0, <2>1, <2>2 DEF LeaderPresent
  <2>4. ClusterTypeOK' /\ LocalPresent' /\ NoLeaderYet' /\ HeardUnsuspected'
    BY <1>0, <2>1, <2>2 DEF ClusterTypeOK, LocalPresent, NoLeaderYet, HeardUnsuspected, Peers
  <2>5. QED
    BY <2>3, <2>4 DEF ClusterInv
<1>4. ASSUME NEW p \in Peers, NEW m \in UnderWay(p), Deliver(m)
      PROVE  ClusterInv'
  <2>1. m.id = p /\ (m.type = "announce" => m.at \in Nat)
    BY <1>0 DEF UnderWay, Message, ClusterTypeOK
  <2>2. p \in Nodes /\ p # Local
    BY DEF Peers
  <2>3. phase # "created" /\ heard' = heard \cup {p} /\ phase' = phase /\ peers' = peers
    BY <1>4, <2>1 DEF Deliver
  <2>4. CASE m.type = "announce" /\ \E ago \in {0, Offline + 1} : HandleNodeAnnounce(m.id, m.at, ago)
    <3>1. PICK ago \in {0, Offline + 1} : HandleNodeAnnounce(p, m.at, ago)
      BY <2>1, <2>4
    <3>2. ago \in Nat /\ m.at \in Nat
      BY <2>1, <2>4 DEF Offline
    <3>3. /\ status' = [k \in Nodes |-> IF k = p \/ (k = Local /\ Answers) THEN "active" ELSE status[k]]
          /\ startedAt' \in [Nodes -> Nat]
          /\ silent' \in [Nodes -> Nat]
          /\ leaderId' = leaderId
      BY <1>0, <3>1, <3>2 DEF HandleNodeAnnounce, ClusterTypeOK
    <3>4. ClusterTypeOK'
      BY <1>0, <2>3, <3>3 DEF ClusterTypeOK, Statuses
    <3>5. LocalPresent' /\ NoLeaderYet' /\ LeaderPresent' /\ HeardUnsuspected'
      BY <1>0, <2>2, <2>3, <3>3 DEF LocalPresent, NoLeaderYet, LeaderPresent, HeardUnsuspected,
                                    ClusterTypeOK, Peers
    <3>6. QED
      BY <3>4, <3>5 DEF ClusterInv
  <2>5. CASE m.type = "goodbye" /\ HandleNodeGoodbye(m.id)
    <3>1. /\ status' \in [Nodes -> Statuses]
          /\ startedAt' \in [Nodes -> Nat]
          /\ silent' \in [Nodes -> Nat]
          /\ leaderId' \in Nodes \cup {Nobody}
          /\ \A k \in Nodes \ {p} : status'[k] = status[k]
          /\ status'[p] = "none"
          /\ p # leaderId => leaderId' = leaderId
          /\ p = leaderId => \/ leaderId' \in Nodes /\ status'[leaderId'] = "active"
                             \/ leaderId' = Local /\ Active \ {p} = {}
      BY <1>0, <2>1, <2>2, <2>5, GoodbyeKeepsLeader
    <3>2. phase \in {"announcing", "running"} => Local \in Active \ {p}
      BY <1>0, <2>2 DEF LocalPresent, Active
    <3>3. NoLeaderYet'
      BY <1>0, <2>2, <2>3, <3>1 DEF NoLeaderYet, Nobody
    <3>4. LeaderPresent'
      BY <1>0, <2>2, <2>3, <3>1, <3>2 DEF LeaderPresent, ClusterTypeOK
    <3>5. ClusterTypeOK' /\ LocalPresent' /\ HeardUnsuspected'
      BY <1>0, <2>2, <2>3, <3>1 DEF ClusterTypeOK, LocalPresent, HeardUnsuspected, Peers
    <3>6. QED
      BY <3>3, <3>4, <3>5 DEF ClusterInv
  <2>6. CASE m.type = "heartbeat" /\ status[m.id] # "none" /\ UpdateHeartbeat(m.id)
    <3>1. /\ status' = [status EXCEPT ![p] = IF @ = "suspect" THEN "active" ELSE @]
          /\ silent' = [silent EXCEPT ![p] = 0]
          /\ startedAt' = startedAt /\ leaderId' = leaderId
      BY <2>1, <2>6 DEF UpdateHeartbeat
    <3>2. ClusterTypeOK'
      BY <1>0, <2>2, <2>3, <3>1 DEF ClusterTypeOK, Statuses
    <3>3. LocalPresent' /\ NoLeaderYet' /\ LeaderPresent' /\ HeardUnsuspected'
      BY <1>0, <2>2, <2>3, <3>1 DEF LocalPresent, NoLeaderYet, LeaderPresent, HeardUnsuspected,
                                    ClusterTypeOK, Peers
    <3>4. QED
      BY <3>2, <3>3 DEF ClusterInv
  <2>7. QED
    BY <1>4, <2>4, <2>5, <2>6 DEF Deliver
<1>5. CASE CheckNodeHealth
  <2>1. /\ phase \in {"announcing", "running"}
        /\ status' = [n \in Nodes |-> Checked(n)]
        /\ leaderId' = NodeOffline(status')
        /\ silent' = [n \in Nodes |-> IF status'[n] = "offline" THEN 0 ELSE silent[n]]
        /\ heard' = {} /\ phase' = phase /\ startedAt' = startedAt /\ peers' = peers
    BY <1>5 DEF CheckNodeHealth
  <2>2. \A n \in Nodes : /\ status'[n] \in Statuses
                         /\ status[n] = "active" => status'[n] \in {"active", "suspect"}
                         /\ status'[n] = "offline" => status[n] \in {"suspect", "offline"}
                         /\ status'[n] = "none" => status[n] = "none"
    BY <1>0, <2>1 DEF Checked, ClusterTypeOK, Statuses
  <2>3. status'[Local] = "active"
    BY <1>0, <2>1 DEF Checked, LocalPresent
  <2>4. leaderId' = leaderId \/ (leaderId # Nobody /\ leaderId' \in Nodes /\ status'[leaderId'] \in {"active", "suspect"})
    <3> DEFINE Now(n) == IF Position(n) <= Position(leaderId) THEN status'[n] ELSE status[n]
               present == {n \in Nodes : status[n] # "none" /\ Now(n) = "active"}
    <3>1. leaderId' = leaderId \/ (leaderId # Nobody /\ leaderId' = Elect(present, startedAt))
      BY <2>1 DEF NodeOffline
    <3>2. \A n \in present : n \in Nodes /\ status'[n] \in {"active", "suspect"}
      BY <2>2
    <3>3. present \in SUBSET Nodes /\ startedAt \in [Nodes -> Nat]
      BY <1>0 DEF ClusterTypeOK
    <3> HIDE DEF present
    <3>4. Elect(present, startedAt) \in Nodes /\ Elect(present, startedAt) \in present \cup {Local}
      BY <3>3, ElectedIsNode
    <3>5. QED
      BY <2>3, <3>1, <3>2, <3>4
  <2>5. leaderId' = leaderId /\ leaderId # Nobody /\ status[leaderId] \in {"active", "suspect"}
          => status'[leaderId] \in {"active", "suspect"}
    <3> SUFFICES ASSUME leaderId' = leaderId, leaderId # Nobody,
                        status[leaderId] \in {"active", "suspect"},
                        status'[leaderId] \notin {"active", "suspect"}
                 PROVE  FALSE
      OBVIOUS
    <3>1. leaderId \in Nodes
      BY <1>0 DEF ClusterTypeOK
    <3>2. status[leaderId] = "suspect" /\ status'[leaderId] = "offline"
      BY <2>2, <3>1 DEF Statuses
    <3> DEFINE Now(n) == IF Position(n) <= Position(leaderId) THEN status'[n] ELSE status[n]
               present == {n \in Nodes : status[n] # "none" /\ Now(n) = "active"}
    <3>3. leaderId = Elect(present, startedAt)
      BY <2>1, <3>2 DEF NodeOffline
    <3>4. \A n \in present : n # leaderId
      BY <3>2
    <3>5. present \in SUBSET Nodes /\ startedAt \in [Nodes -> Nat]
      BY <1>0 DEF ClusterTypeOK
    <3> HIDE DEF present
    <3>6. leaderId \in present \cup {Local}
      BY <3>3, <3>5, ElectedIsNode
    <3>7. QED
      BY <2>3, <3>2, <3>4, <3>6
  <2>6. NoLeaderYet' /\ LeaderPresent'
    BY <1>0, <2>1, <2>4, <2>5 DEF NoLeaderYet, LeaderPresent, Nobody
  <2>7. ClusterTypeOK' /\ LocalPresent' /\ HeardUnsuspected'
    <3>1. leaderId' \in Nodes \cup {Nobody}
      BY <1>0, <2>4 DEF ClusterTypeOK
    <3>2. silent' \in [Nodes -> Nat]
      BY <1>0, <2>1 DEF ClusterTypeOK
    <3>3. status' \in [Nodes -> Statuses]
      BY <2>1, <2>2
    <3>4. QED
      BY <1>0, <2>1, <2>3, <3>1, <3>2, <3>3 DEF ClusterTypeOK, LocalPresent, HeardUnsuspected
  <2>8. QED
    BY <2>6, <2>7 DEF ClusterInv
<1>6. CASE Tick
  <2>1. silent' \in [Nodes -> Nat]
    BY <1>0, <1>6 DEF Tick, ClusterTypeOK
  <2>2. QED
    BY <1>0, <1>6, <2>1 DEF Tick, ClusterInv, ClusterTypeOK, LocalPresent, NoLeaderYet,
                            LeaderPresent, HeardUnsuspected
<1>7. ASSUME NEW p \in Peers,
             \/ \E at \in StartTimes : PeerStarts(p, at)
             \/ \E farewell \in BOOLEAN : PeerEnds(p, farewell)
             \/ PeerForgotten(p)
      PROVE  ClusterInv'
  <2>1. UNCHANGED <<phase, registry, leaderId, heard>>
    BY <1>7 DEF PeerStarts, PeerEnds, PeerForgotten
  <2>2. peers' \in [Peers -> [state : {"new", "up", "down", "gone"},
                               starts : SUBSET StartTimes, parted : BOOLEAN]]
    <3>1. peers \in [Peers -> [state : {"new", "up", "down", "gone"},
                                starts : SUBSET StartTimes, parted : BOOLEAN]]
      BY <1>0 DEF ClusterTypeOK
    <3>2. CASE \E at \in StartTimes : PeerStarts(p, at)
      BY <3>1, <3>2 DEF PeerStarts
    <3>3. CASE \E farewell \in BOOLEAN : PeerEnds(p, farewell)
      BY <3>1, <3>3 DEF PeerEnds
    <3>4. CASE PeerForgotten(p)
      BY <3>1, <3>4 DEF PeerForgotten
    <3>5. QED
      BY <1>7, <3>2, <3>3, <3>4
  <2>3. QED
    BY <1>0, <2>1, <2>2 DEF registry, ClusterInv, ClusterTypeOK, LocalPresent, NoLeaderYet,
                            LeaderPresent, HeardUnsuspected
<1>8. CASE UNCHANGED clusterVars
  BY <1>0, <1>8 DEF clusterVars, registry, ClusterInv, ClusterTypeOK, LocalPresent, NoLeaderYet,
                    LeaderPresent, HeardUnsuspected
<1>9. QED
  BY <1>1, <1>2, <1>3, <1>4, <1>5, <1>6, <1>7, <1>8 DEF ClusterNext

-----------------------------------------------------------------------------
(* The inductive invariant holds throughout. *)
LEMMA ClusterInvariance == ClusterSpec => []ClusterInv
<1>1. QED
  BY ClusterInitInv, ClusterNextInv, PTL DEF ClusterSpec

(* After the first election the leader is a node in touch, or Local when   *)
(* it has left with nobody else to turn to.                                *)
THEOREM LeaderAlwaysPresent == ClusterSpec => []LeaderPresent
<1>1. ClusterInv => LeaderPresent
  BY DEF ClusterInv
<1>2. QED
  BY <1>1, ClusterInvariance, PTL

(* checkNodeHealth declares nobody offline who was heard of since the      *)
(* check before.                                                           *)
THEOREM NobodyOfflineInHaste == ClusterSpec => NoHastyOffline
<1> DEFINE Patient == \A n \in Nodes : status[n] # "offline" /\ status'[n] = "offline" => n \notin heard
<1>1. ClusterInv /\ [ClusterNext]_clusterVars => [Patient]_clusterVars
  <2> SUFFICES ASSUME ClusterInv, ClusterNext, NEW n \in Nodes,
                      status[n] # "offline", status'[n] = "offline"
               PROVE  n \notin heard
    OBVIOUS
  <2>1. status \in [Nodes -> Statuses] /\ HeardUnsuspected
    BY DEF ClusterInv, ClusterTypeOK
  <2>2. ~Start /\ ~StartElection /\ ~Stop /\ ~Tick
    BY <2>1 DEF Start, StartElection, Stop, Tick, HandleNodeGoodbye, Deregister, registry
  <2>3. ASSUME NEW p \in Peers, NEW m \in UnderWay(p), Deliver(m)
        PROVE  FALSE
    BY <2>1, <2>3 DEF Deliver, HandleNodeAnnounce, HandleNodeGoodbye, Deregister, UpdateHeartbeat
  <2>4. ASSUME NEW p \in Peers,
               \/ \E at \in StartTimes : PeerStarts(p, at)
               \/ \E farewell \in BOOLEAN : PeerEnds(p, farewell)
               \/ PeerForgotten(p)
        PROVE  FALSE
    BY <2>4 DEF PeerStarts, PeerEnds, PeerForgotten, registry
  <2>5. CheckNodeHealth
    BY <2>2, <2>3, <2>4 DEF ClusterNext
  <2>6. status[n] = "suspect"
    BY <2>1, <2>5 DEF CheckNodeHealth, Checked, Statuses
  <2>7. QED
    BY <2>1, <2>6 DEF HeardUnsuspected
<1>2. QED
  BY <1>1, ClusterInvariance, PTL DEF ClusterSpec, NoHastyOffline

(* Only a leader that leaves or goes offline is replaced. *)
THEOREM LeaderStays == ClusterSpec => LeaderKept
<1> DEFINE Stays == leaderId' # leaderId /\ leaderId # Nobody => status'[leaderId] \in {"none", "offline"}
<1>1. ClusterInv /\ [ClusterNext]_clusterVars => [Stays]_clusterVars
  <2> SUFFICES ASSUME ClusterInv, ClusterNext, leaderId' # leaderId, leaderId # Nobody
               PROVE  status'[leaderId] \in {"none", "offline"}
    OBVIOUS
  <2>1. status \in [Nodes -> Statuses] /\ leaderId \in Nodes /\ NoLeaderYet
    BY DEF ClusterInv, ClusterTypeOK
  <2>2. ~Start /\ ~StartElection /\ ~Tick
    BY <2>1 DEF Start, StartElection, Tick, NoLeaderYet
  <2>3. ASSUME NEW n, HandleNodeGoodbye(n)
        PROVE  status'[leaderId] = "none"
    BY <2>1, <2>3 DEF HandleNodeGoodbye, Deregister
  <2>4. CASE Stop
    BY <2>3, <2>4 DEF Stop
  <2>5. ASSUME NEW p \in Peers, NEW m \in UnderWay(p), Deliver(m)
        PROVE  status'[leaderId] = "none"
    BY <2>3, <2>5 DEF Deliver, HandleNodeAnnounce, UpdateHeartbeat
  <2>6. CASE CheckNodeHealth
    BY <2>6 DEF CheckNodeHealth, NodeOffline
  <2>7. ASSUME NEW p \in Peers,
               \/ \E at \in StartTimes : PeerStarts(p, at)
               \/ \E farewell \in BOOLEAN : PeerEnds(p, farewell)
               \/ PeerForgotten(p)
        PROVE  FALSE
    BY <2>7 DEF PeerStarts, PeerEnds, PeerForgotten
  <2>8. QED
    BY <2>2, <2>4, <2>5, <2>6, <2>7 DEF ClusterNext
<1>2. QED
  BY <1>1, ClusterInvariance, PTL DEF ClusterSpec, LeaderKept
-----------------------------------------------------------------------------
(* The inductive invariant: tail is where head and count say it is, which  *)
(* no formula of the refinement mentions and every step relies on.         *)
RingInv ==
  /\ buffer \in [Slots -> Values \cup {Undefined}]
  /\ head \in Slots /\ tail \in Slots
  /\ count \in 0 .. Capacity
  /\ tail = (head + count) % Capacity

(* An index that has gone once past the end comes back by one Capacity. *)
LEMMA WrapsOnce ==
  ASSUME NEW a \in Nat, a < 2 * Capacity
  PROVE  a % Capacity = IF a < Capacity THEN a ELSE a - Capacity
<1>1. CASE a < Capacity
  BY <1>1, CapacityPositive, SMT
<1>2. CASE a >= Capacity
  BY <1>2, CapacityPositive, SMT
<1>3. QED
  BY <1>1, <1>2, CapacityPositive

(* The slots of the items: the i-th is head + i - 1, wrapped. *)
LEMMA SlotOfItem ==
  ASSUME NEW h \in Slots, NEW i \in 1 .. Capacity
  PROVE  /\ (h + i - 1) % Capacity = IF h + i - 1 < Capacity THEN h + i - 1 ELSE h + i - 1 - Capacity
         /\ (h + i - 1) % Capacity \in Slots
<1>1. /\ h + i - 1 \in Nat /\ h + i - 1 < 2 * Capacity
      /\ h \in Nat /\ i \in Nat /\ i >= 1 /\ i <= Capacity /\ h < Capacity
  BY CapacityPositive DEF Slots
<1>2. (h + i - 1) % Capacity = IF h + i - 1 < Capacity THEN h + i - 1 ELSE h + i - 1 - Capacity
  BY <1>1, WrapsOnce, CapacityPositive
<1>3. QED
  BY <1>1, <1>2, CapacityPositive DEF Slots

(* One step further round the array. *)
LEMMA NextSlot ==
  ASSUME NEW h \in Slots
  PROVE  /\ (h + 1) % Capacity = IF h + 1 < Capacity THEN h + 1 ELSE 0
         /\ (h + 1) % Capacity \in Slots
<1>1. h \in Nat /\ h < Capacity /\ h + 1 \in Nat /\ h + 1 < 2 * Capacity
  BY CapacityPositive DEF Slots
<1>2. (h + 1) % Capacity = IF h + 1 < Capacity THEN h + 1 ELSE h + 1 - Capacity
  BY <1>1, WrapsOnce, CapacityPositive
<1>3. QED
  BY <1>1, <1>2, CapacityPositive DEF Slots

(* Where tail is. *)
LEMMA TailSlot ==
  ASSUME RingInv
  PROVE  tail = IF head + count < Capacity THEN head + count ELSE head + count - Capacity
<1>1. head + count \in Nat /\ head + count < 2 * Capacity
  BY CapacityPositive DEF RingInv, Slots
<1>2. QED
  BY <1>1, WrapsOnce, CapacityPositive DEF RingInv

(* What toArray returns is a sequence of count items. *)
LEMMA ArrayIsSeq ==
  ASSUME RingInv
  PROVE  /\ ToArray \in Seq(Values \cup {Undefined})
         /\ Len(ToArray) = count
         /\ \A i \in 1 .. count : ToArray[i] = buffer[(head + i - 1) % Capacity]
<1>1. \A i \in 1 .. count : buffer[(head + i - 1) % Capacity] \in Values \cup {Undefined}
  <2> TAKE i \in 1 .. count
  <2>1. head \in Slots /\ i \in 1 .. Capacity
    BY CapacityPositive DEF RingInv
  <2>2. (head + i - 1) % Capacity \in Slots
    BY <2>1, SlotOfItem
  <2>3. QED
    BY <2>2 DEF RingInv
<1>2. count \in Nat
  BY CapacityPositive DEF RingInv
<1>3. QED
  BY <1>1, <1>2 DEF ToArray

-----------------------------------------------------------------------------
(* A new buffer is empty. *)
LEMMA RingInitInv == RingInit => RingInv
<1>1. 0 % Capacity = 0
  BY WrapsOnce, CapacityPositive
<1>2. QED
  BY <1>1, CapacityPositive DEF RingInit, RingInv, Slots

(* push, pop and clear keep the invariant. *)
LEMMA RingNextInv == RingInv /\ [RingNext]_ringVars => RingInv'
<1> SUFFICES ASSUME RingInv, [RingNext]_ringVars
             PROVE  RingInv'
  OBVIOUS
<1>0. /\ head \in Nat /\ head < Capacity /\ tail \in Nat /\ tail < Capacity
      /\ count \in Nat /\ count <= Capacity /\ Capacity \in Nat \ {0}
      /\ tail = IF head + count < Capacity THEN head + count ELSE head + count - Capacity
  BY CapacityPositive, TailSlot DEF RingInv, Slots
<1>1. ASSUME NEW x \in Values, Push(x), count # Capacity
      PROVE  RingInv'
  <2>1. tail' = (tail + 1) % Capacity /\ count' = count + 1 /\ head' = head
    BY <1>1 DEF Push
  <2>2. buffer' \in [Slots -> Values \cup {Undefined}]
    BY <1>1 DEF Push, RingInv
  <2>3. head + (count + 1) \in Nat /\ head + (count + 1) < 2 * Capacity
    BY <1>0, <1>1
  <2>4. (head + (count + 1)) % Capacity
          = IF head + (count + 1) < Capacity THEN head + (count + 1) ELSE head + (count + 1) - Capacity
    BY <1>0, <2>3, WrapsOnce
  <2>5. tail' = (IF tail + 1 < Capacity THEN tail + 1 ELSE 0) /\ tail' \in Slots
    BY <2>1, NextSlot DEF RingInv
  <2>6. QED
    BY <1>0, <1>1, <2>1, <2>2, <2>4, <2>5 DEF RingInv
<1>2. CASE Pop
  <2>1. head' = (head + 1) % Capacity /\ count' = count - 1 /\ tail' = tail /\ count # 0
    BY <1>2 DEF Pop
  <2>2. buffer' \in [Slots -> Values \cup {Undefined}]
    BY <1>2 DEF Pop, RingInv
  <2>3. head' = (IF head + 1 < Capacity THEN head + 1 ELSE 0) /\ head' \in Slots
    BY <2>1, NextSlot DEF RingInv
  <2>4. PICK h \in Slots : h = head'
    BY <2>3
  <2>5. h \in Nat /\ h + (count - 1) \in Nat /\ h + (count - 1) < 2 * Capacity
    BY <1>0, <2>1, <2>4 DEF Slots
  <2>6. (h + (count - 1)) % Capacity
          = IF h + (count - 1) < Capacity THEN h + (count - 1) ELSE h + (count - 1) - Capacity
    BY <1>0, <2>5, WrapsOnce, SMTT(30)
  <2>7. tail = (h + (count - 1)) % Capacity
    BY <1>0, <2>1, <2>3, <2>4, <2>6
  <2>8. QED
    BY <1>0, <2>1, <2>2, <2>3, <2>4, <2>7 DEF RingInv
<1>3. CASE ClearBuffer
  <2>1. 0 % Capacity = 0
    BY WrapsOnce, CapacityPositive
  <2>2. QED
    BY <1>3, <2>1, CapacityPositive DEF ClearBuffer, RingInv, Slots
<1>4. CASE UNCHANGED ringVars
  BY <1>4 DEF ringVars, RingInv
<1>5. ASSUME NEW x \in Values, Push(x), count = Capacity
      PROVE  UNCHANGED ringVars
  BY <1>5 DEF Push
<1>6. QED
  BY <1>1, <1>2, <1>3, <1>4, <1>5 DEF RingNext

-----------------------------------------------------------------------------
(* push into a buffer that is not full puts the item at the end: no slot   *)
(* in use is overwritten.                                                  *)
LEMMA PushAppends ==
  ASSUME RingInv, RingInv', NEW x \in Values, Push(x), count # Capacity
  PROVE  ToArray' = Append(ToArray, x)
<1>0. /\ head \in Nat /\ head < Capacity /\ count \in Nat /\ count < Capacity /\ Capacity \in Nat \ {0}
      /\ tail = IF head + count < Capacity THEN head + count ELSE head + count - Capacity
  BY CapacityPositive, TailSlot DEF RingInv, Slots
<1>1. /\ buffer' = [buffer EXCEPT ![tail] = x]
      /\ count' = count + 1 /\ head' = head
  BY DEF Push
<1>2. ToArray' = [i \in 1 .. count + 1 |-> buffer'[(head + i - 1) % Capacity]]
  BY <1>1 DEF ToArray
<1>3. \A i \in 1 .. count :
        /\ buffer'[(head + i - 1) % Capacity] = ToArray[i]
  <2> TAKE i \in 1 .. count
  <2>1. i \in 1 .. Capacity /\ i \in Nat /\ i >= 1 /\ i <= count
    BY <1>0
  <2>2. /\ (head + i - 1) % Capacity
             = IF head + i - 1 < Capacity THEN head + i - 1 ELSE head + i - 1 - Capacity
        /\ (head + i - 1) % Capacity \in Slots
    BY <2>1, SlotOfItem DEF RingInv
  <2>3. (head + i - 1) % Capacity # tail
    BY <1>0, <2>1, <2>2
  <2>4. QED
    BY <1>1, <2>2, <2>3, ArrayIsSeq DEF RingInv
<1>4. buffer'[(head + (count + 1) - 1) % Capacity] = x
  <2>1. head + (count + 1) - 1 = head + count
    BY <1>0
  <2>2. (head + (count + 1) - 1) % Capacity = tail
    BY <2>1 DEF RingInv
  <2>3. QED
    BY <1>1, <2>2 DEF RingInv
<1>5. /\ ToArray \in Seq(Values \cup {Undefined}) /\ Len(ToArray) = count
      /\ \A i \in 1 .. count : ToArray[i] \in Values \cup {Undefined}
  BY ArrayIsSeq
<1>6. \A i \in 1 .. count + 1 : ToArray'[i] = IF i = count + 1 THEN x ELSE ToArray[i]
  <2> TAKE i \in 1 .. count + 1
  <2>1. ToArray'[i] = buffer'[(head + i - 1) % Capacity]
    BY <1>2
  <2>2. CASE i = count + 1
    BY <1>4, <2>1, <2>2
  <2>3. CASE i # count + 1
    <3>1. i \in 1 .. count
      BY <1>0, <2>3
    <3>2. QED
      BY <1>3, <2>1, <2>3, <3>1
  <2>4. QED
    BY <2>2, <2>3
<1>7. ToArray' \in Seq(Values \cup {Undefined}) /\ Len(ToArray') = count + 1
  <2>1. \A i \in 1 .. count + 1 : buffer'[(head + i - 1) % Capacity] \in Values \cup {Undefined}
    <3> TAKE i \in 1 .. count + 1
    <3>1. ToArray'[i] = buffer'[(head + i - 1) % Capacity]
      BY <1>2
    <3>2. i # count + 1 => i \in 1 .. count
      BY <1>0
    <3>3. QED
      BY <1>5, <1>6, <3>1, <3>2
  <2>2. QED
    BY <1>0, <1>2, <2>1
<1>8. /\ Append(ToArray, x) \in Seq(Values \cup {Undefined})
      /\ Len(Append(ToArray, x)) = count + 1
      /\ \A i \in 1 .. count + 1 : Append(ToArray, x)[i] = IF i = count + 1 THEN x ELSE ToArray[i]
  <2> DEFINE s == ToArray
  <2>1. /\ Append(s, x) \in Seq(Values \cup {Undefined})
        /\ Len(Append(s, x)) = Len(s) + 1
        /\ \A i \in 1 .. Len(s) : Append(s, x)[i] = s[i]
        /\ Append(s, x)[Len(s) + 1] = x
    <3> HIDE DEF s
    <3>1. s \in Seq(Values \cup {Undefined}) /\ x \in Values \cup {Undefined}
      BY <1>5 DEF s
    <3>2. QED
      BY <3>1, AppendProperties
  <2>2. QED
    BY <1>0, <1>5, <2>1
<1>9. QED
  BY <1>6, <1>7, <1>8, SeqEqual

(* pop takes the first item and moves no other. *)
LEMMA PopTakesFirst ==
  ASSUME RingInv, RingInv', Pop
  PROVE  ToArray # <<>> /\ ToArray' = Tail(ToArray)
<1>0. /\ head \in Nat /\ head < Capacity /\ count \in Nat /\ count <= Capacity /\ count # 0
      /\ Capacity \in Nat \ {0}
  BY CapacityPositive DEF RingInv, Slots, Pop
<1>1. /\ buffer' = [buffer EXCEPT ![head] = Undefined]
      /\ count' = count - 1
      /\ head' = IF head + 1 < Capacity THEN head + 1 ELSE 0
  BY NextSlot DEF Pop, RingInv
<1>2. ToArray' = [i \in 1 .. count - 1 |-> buffer'[(head' + i - 1) % Capacity]]
  BY <1>1 DEF ToArray
<1>3. \A i \in 1 .. count - 1 : buffer'[(head' + i - 1) % Capacity] = ToArray[i + 1]
  <2> TAKE i \in 1 .. count - 1
  <2>1. /\ i \in 1 .. Capacity /\ i + 1 \in 1 .. Capacity /\ i + 1 \in 1 .. count
        /\ i \in Nat /\ i >= 1 /\ i < Capacity
    BY <1>0
  <2>2. /\ (head' + i - 1) % Capacity
             = IF head' + i - 1 < Capacity THEN head' + i - 1 ELSE head' + i - 1 - Capacity
        /\ (head' + i - 1) % Capacity \in Slots
    BY <2>1, SlotOfItem DEF RingInv
  <2>3. (head + (i + 1) - 1) % Capacity
          = IF head + (i + 1) - 1 < Capacity THEN head + (i + 1) - 1 ELSE head + (i + 1) - 1 - Capacity
    BY <2>1, SlotOfItem DEF RingInv
  <2>4. (head' + i - 1) % Capacity = (head + (i + 1) - 1) % Capacity
    BY <1>0, <1>1, <2>1, <2>2, <2>3
  <2>5. (head' + i - 1) % Capacity # head
    BY <1>0, <1>1, <2>1, <2>2
  <2>6. buffer'[(head' + i - 1) % Capacity] = buffer[(head' + i - 1) % Capacity]
    BY <1>1, <2>2, <2>5 DEF RingInv
  <2>7. ToArray[i + 1] = buffer[(head + (i + 1) - 1) % Capacity]
    BY <2>1, ArrayIsSeq
  <2>8. QED
    BY <2>4, <2>6, <2>7
<1>4. /\ ToArray \in Seq(Values \cup {Undefined}) /\ Len(ToArray) = count
      /\ \A i \in 1 .. count : ToArray[i] \in Values \cup {Undefined}
  BY ArrayIsSeq
<1>5. ToArray # <<>>
  BY <1>0, <1>4
<1>6. \A i \in 1 .. count - 1 : ToArray'[i] = ToArray[i + 1]
  BY <1>2, <1>3
<1>7. ToArray' \in Seq(Values \cup {Undefined}) /\ Len(ToArray') = count - 1
  <2>1. \A i \in 1 .. count - 1 : buffer'[(head' + i - 1) % Capacity] \in Values \cup {Undefined}
    BY <1>0, <1>3, <1>4
  <2>2. QED
    BY <1>0, <1>2, <2>1
<1>8. /\ Tail(ToArray) \in Seq(Values \cup {Undefined})
      /\ Len(Tail(ToArray)) = count - 1
      /\ \A i \in 1 .. count - 1 : Tail(ToArray)[i] = ToArray[i + 1]
  BY <1>4, <1>5, HeadTailProperties
<1>9. QED
  BY <1>5, <1>6, <1>7, <1>8, SeqEqual

(* Every step of the buffer is one of the queue, or none. *)
LEMMA RingStepsAreQueueSteps ==
  RingInv /\ RingInv' /\ [RingNext]_ringVars => [Queue!QueueNext]_ToArray
<1> SUFFICES ASSUME RingInv, RingInv', [RingNext]_ringVars
             PROVE  [Queue!QueueNext]_ToArray
  OBVIOUS
<1>1. ASSUME NEW x \in Values, Push(x)
      PROVE  Queue!Offer(x) \/ UNCHANGED ToArray
  <2>1. CASE count # Capacity
    <3>1. Len(ToArray) < Capacity
      BY <2>1, ArrayIsSeq, CapacityPositive DEF RingInv
    <3>2. QED
      BY <1>1, <2>1, <3>1, PushAppends DEF Queue!Offer
  <2>2. CASE count = Capacity
    BY <1>1, <2>2 DEF Push, ringVars, ToArray
  <2>3. QED
    BY <2>1, <2>2
<1>2. CASE Pop
  BY <1>2, PopTakesFirst DEF Queue!QueueNext, Queue!Take
<1>3. CASE ClearBuffer
  <2>1. ToArray' = <<>>
    BY <1>3 DEF ClearBuffer, ToArray
  <2>2. QED
    BY <2>1 DEF Queue!QueueNext, Queue!Reset
<1>4. CASE UNCHANGED ringVars
  BY <1>4 DEF ringVars, ToArray
<1>5. QED
  BY <1>1, <1>2, <1>3, <1>4 DEF RingNext, Queue!QueueNext

(* RingBuffer implements the bounded queue of module BoundedQueue: what    *)
(* toArray returns changes only as push, pop and clear of a queue that     *)
(* refuses items beyond its capacity would change it.                      *)
THEOREM RingImplementsQueue == RingSpec => BufferIsQueue
<1>1. RingInit => Queue!QueueInit
  BY DEF RingInit, ToArray, Queue!QueueInit
<1>2. QED
  BY <1>1, RingInitInv, RingNextInv, RingStepsAreQueueSteps, PTL
     DEF RingSpec, BufferIsQueue, Queue!QueueSpec
-----------------------------------------------------------------------------
CallRecords == [sequence : Nat, set : Nat, at : {0} \cup Subscriptions]

BrokerTypes ==
  /\ sets \in Seq(SUBSET Subscriptions)
  /\ current \in {0} \cup DOMAIN sets
  /\ made \in 0 .. MaxSubscriptions
  /\ counter \in Nat
  /\ calls \in Seq(CallRecords)
  /\ inbox \in [Subscriptions -> Seq(Nat)]
  /\ audience \in Seq(SUBSET Subscriptions) /\ Len(audience) = Len(calls)
  /\ cancelled \subseteq 1 .. made /\ destroyed \in BOOLEAN

(* Until destroy, a Set that is not the channel's any more is empty, and   *)
(* no Set holds a subscription that was ended.                             *)
SetsKept ==
  /\ \A k \in DOMAIN sets : sets[k] \subseteq 1 .. made
  /\ ~destroyed => /\ counter = Len(calls)
                   /\ \A k \in DOMAIN sets : /\ k # current => sets[k] = {}
                                             /\ sets[k] \cap cancelled = {}

(* A publish call holds the Set with everybody of its audience that is     *)
(* still subscribed, and has begun with the first of them or after.        *)
CallKept(m) ==
  /\ calls[m].set \in {0} \cup DOMAIN sets
  /\ calls[m].at # 0 => calls[m].set # 0
  /\ \A s \in audience[m] \ cancelled : calls[m].set # 0 /\ s \in sets[calls[m].set]
  /\ calls[m].at # 0 => audience[m] # {} /\ First(audience[m]) <= calls[m].at
  /\ ~destroyed => calls[m].sequence = m

CallsKept == \A m \in Messages : CallKept(m)

(* What a handler was called with: nothing twice, nothing that the loop of *)
(* publish has not come to, and in order as far as it was the first.       *)
InboxKept ==
  \A s \in Subscriptions :
    /\ \A i \in DOMAIN inbox[s] :
         /\ inbox[s][i] \in Messages
         /\ calls[inbox[s][i]].at # 0 => s <= calls[inbox[s][i]].at
    /\ \A i, j \in DOMAIN inbox[s] : i # j => inbox[s][i] # inbox[s][j]
    /\ \A i, j \in DOMAIN inbox[s] :
         i < j /\ First(audience[inbox[s][i]]) = s /\ First(audience[inbox[s][j]]) = s
           => inbox[s][i] < inbox[s][j]

(* Those the loop has passed have got the message. *)
Delivered ==
  \A m \in Messages : \A s \in audience[m] \ cancelled :
    Accepts(s, m) /\ (calls[m].at = 0 \/ s <= calls[m].at) => m \in Received(s)

BrokerInv ==
  /\ BrokerTypes
  /\ SetsKept
  /\ CallsKept
  /\ InboxKept
  /\ Delivered

(* The first subscription of a set is its least. *)
LEMMA FirstFacts ==
  ASSUME NEW T \in SUBSET Subscriptions
  PROVE  /\ T = {} => First(T) = 0
         /\ T # {} => First(T) \in T /\ \A t \in T : First(T) <= t
<1>1. CASE T = {}
  BY <1>1 DEF First
<1>2. CASE T # {}
  <2>1. \E s \in T : \A t \in T : s <= t
    BY <1>2, LeastNat DEF Subscriptions
  <2> QED BY <1>2, <2>1 DEF First
<1>3. QED
  BY <1>1, <1>2

(* The loop of publish: nobody who accepts the message is skipped. *)
LEMMA NextCallFacts ==
  ASSUME NEW m, NEW k \in DOMAIN sets, NEW at \in {0} \cup Subscriptions,
         sets[k] \in SUBSET Subscriptions
  PROVE  LET n == NextCall(m, k, at)
         IN  /\ n # 0 => n \in sets[k] /\ n > at /\ Accepts(n, m)
             /\ n \in {0} \cup Subscriptions
             /\ \A t \in sets[k] : t > at /\ Accepts(t, m) => n # 0 /\ n <= t
<1> DEFINE T == {t \in sets[k] : t > at /\ Accepts(t, m)}
<1>1. T \in SUBSET Subscriptions
  OBVIOUS
<1>2. NextCall(m, k, at) = First(T)
  BY DEF NextCall
<1>3. \A t \in Subscriptions : t # 0
  BY DEF Subscriptions
<1>4. QED
  BY <1>1, <1>2, <1>3, FirstFacts

(* The handlers of S are called with m. *)
Delivers(S, m) ==
  inbox' = [s \in Subscriptions |-> IF s \in S THEN Append(inbox[s], m) ELSE inbox[s]]

(* One more call of a handler: who got it, and in which order. *)
LEMMA InboxGrows ==
  ASSUME BrokerTypes, NEW S, NEW m \in Nat, Delivers(S, m), NEW s \in Subscriptions
  PROVE  /\ inbox' \in [Subscriptions -> Seq(Nat)]
         /\ DOMAIN inbox[s] = 1 .. Len(inbox[s]) /\ Len(inbox[s]) \in Nat
         /\ \A i \in DOMAIN inbox[s] : inbox[s][i] \in Nat
         /\ s \notin S => inbox'[s] = inbox[s]
         /\ s \in S => /\ DOMAIN inbox'[s] = 1 .. Len(inbox[s]) + 1
                       /\ \A i \in DOMAIN inbox[s] : inbox'[s][i] = inbox[s][i]
                       /\ inbox'[s][Len(inbox[s]) + 1] = m
<1>1. \A t \in Subscriptions : inbox[t] \in Seq(Nat) /\ Append(inbox[t], m) \in Seq(Nat)
  BY AppendProperties DEF BrokerTypes
<1>2. inbox' \in [Subscriptions -> Seq(Nat)]
  BY <1>1 DEF Delivers
<1>3. PICK q \in Seq(Nat) : q = inbox[s]
  BY <1>1
<1>4. DOMAIN q = 1 .. Len(q) /\ Len(q) \in Nat /\ \A i \in DOMAIN q : q[i] \in Nat
  BY LenProperties, ElementOfSeq
<1>5. s \notin S => inbox'[s] = q
  BY <1>3 DEF Delivers
<1>6. ASSUME s \in S
      PROVE  /\ DOMAIN inbox'[s] = 1 .. Len(q) + 1
             /\ \A i \in DOMAIN q : inbox'[s][i] = q[i]
             /\ inbox'[s][Len(q) + 1] = m
  <2>1. inbox'[s] = Append(q, m)
    BY <1>3, <1>6 DEF Delivers
  <2>2. /\ Append(q, m) \in Seq(Nat) /\ Len(Append(q, m)) = Len(q) + 1
        /\ \A i \in 1 .. Len(q) : Append(q, m)[i] = q[i]
        /\ Append(q, m)[Len(q) + 1] = m
    BY AppendProperties
  <2>3. DOMAIN Append(q, m) = 1 .. Len(q) + 1
    BY <2>2, LenProperties
  <2> QED BY <1>4, <2>1, <2>2, <2>3
<1> QED BY <1>2, <1>3, <1>4, <1>5, <1>6

(* A handler has received what it had before, and m.                       *)
LEMMA ReceivedGrows ==
  ASSUME BrokerTypes, NEW S, NEW m \in Nat, Delivers(S, m), NEW s \in Subscriptions
  PROVE  Received(s)' = Received(s) \cup (IF s \in S THEN {m} ELSE {})
<1>1. Received(s)' = {inbox'[s][i] : i \in DOMAIN inbox'[s]}
  BY DEF Received
<1>2. CASE s \notin S
  BY <1>1, <1>2, InboxGrows DEF Received
<1>3. CASE s \in S
  <2>1. /\ DOMAIN inbox[s] = 1 .. Len(inbox[s]) /\ Len(inbox[s]) \in Nat
        /\ DOMAIN inbox'[s] = 1 .. Len(inbox[s]) + 1
        /\ \A i \in DOMAIN inbox[s] : inbox'[s][i] = inbox[s][i]
        /\ inbox'[s][Len(inbox[s]) + 1] = m
    BY <1>3, InboxGrows
  <2>2. PICK n \in Nat : n = Len(inbox[s])
    BY <2>1
  <2>3. DOMAIN inbox'[s] = DOMAIN inbox[s] \cup {n + 1}
    BY <2>1, <2>2
  <2> QED BY <1>1, <1>3, <2>1, <2>2, <2>3 DEF Received
<1> QED BY <1>2, <1>3

(* Calling the handlers of S with m keeps the order of the inboxes, if m   *)
(* is new to them and the loop has come as far as they are.                *)
LEMMA InboxStep ==
  ASSUME BrokerTypes, InboxKept, NEW S, NEW m \in Nat, Delivers(S, m),
         Messages \subseteq Messages', m \in Messages',
         \A k \in Messages : /\ audience'[k] = audience[k]
                             /\ k # m => calls'[k].at = calls[k].at,
         \A s \in Subscriptions : s \in S => m \notin Received(s),
         \A s \in Subscriptions :
           (s \in S \/ m \in Received(s)) /\ calls'[m].at # 0 => s <= calls'[m].at,
         \A s \in Subscriptions :
           s \in S /\ First(audience'[m]) = s => \A k \in Messages : k < m
  PROVE  InboxKept'
<1> DEFINE Kept(s) ==
      /\ \A i \in DOMAIN inbox'[s] :
           /\ inbox'[s][i] \in Messages'
           /\ calls'[inbox'[s][i]].at # 0 => s <= calls'[inbox'[s][i]].at
      /\ \A i, j \in DOMAIN inbox'[s] : i # j => inbox'[s][i] # inbox'[s][j]
      /\ \A i, j \in DOMAIN inbox'[s] :
           /\ i < j
           /\ First(audience'[inbox'[s][i]]) = s /\ First(audience'[inbox'[s][j]]) = s
           => inbox'[s][i] < inbox'[s][j]
<1>1. ASSUME NEW s \in Subscriptions
      PROVE  Kept(s)
  <2>1. PICK n \in Nat : n = Len(inbox[s])
    BY InboxGrows
  <2>2. DOMAIN inbox[s] = 1 .. n
    BY <2>1, InboxGrows
  <2>3. /\ \A i \in 1 .. n : /\ inbox[s][i] \in Messages /\ inbox[s][i] \in Received(s)
                             /\ inbox[s][i] \in Nat
                             /\ calls[inbox[s][i]].at # 0 => s <= calls[inbox[s][i]].at
        /\ \A i, j \in 1 .. n : i # j => inbox[s][i] # inbox[s][j]
        /\ \A i, j \in 1 .. n :
             i < j /\ First(audience[inbox[s][i]]) = s /\ First(audience[inbox[s][j]]) = s
               => inbox[s][i] < inbox[s][j]
    <3>1. \A i \in 1 .. n : inbox[s][i] \in Nat
      BY <2>2, InboxGrows
    <3>2. \A i \in 1 .. n : inbox[s][i] \in Received(s)
      BY <2>2 DEF Received
    <3> QED BY <2>2, <3>1, <3>2 DEF InboxKept
  <2>4. CASE s \notin S
    <3>1. inbox'[s] = inbox[s]
      BY <2>4, InboxGrows
    <3>2. \A i \in 1 .. n : calls'[inbox[s][i]].at # 0 => s <= calls'[inbox[s][i]].at
      BY <2>3
    <3>3. \A i \in 1 .. n : audience'[inbox[s][i]] = audience[inbox[s][i]]
      BY <2>3
    <3> QED BY <2>2, <2>3, <3>1, <3>2, <3>3
  <2>5. CASE s \in S
    <3>1. /\ DOMAIN inbox'[s] = 1 .. n + 1
          /\ \A i \in 1 .. n : inbox'[s][i] = inbox[s][i]
          /\ inbox'[s][n + 1] = m
      BY <2>1, <2>2, <2>5, InboxGrows
    <3>2. \A i \in 1 .. n : inbox[s][i] # m
      BY <2>3, <2>5
    <3>3. \A i \in 1 .. n + 1 : i \in 1 .. n \/ i = n + 1
      OBVIOUS
    <3>4. \A i \in DOMAIN inbox'[s] :
            /\ inbox'[s][i] \in Messages'
            /\ calls'[inbox'[s][i]].at # 0 => s <= calls'[inbox'[s][i]].at
      BY <2>3, <2>5, <3>1, <3>2, <3>3
    <3>5. \A i, j \in DOMAIN inbox'[s] : i # j => inbox'[s][i] # inbox'[s][j]
      BY <2>3, <3>1, <3>2, <3>3
    <3>6. ASSUME NEW i \in DOMAIN inbox'[s], NEW j \in DOMAIN inbox'[s], i < j,
                 First(audience'[inbox'[s][i]]) = s, First(audience'[inbox'[s][j]]) = s
          PROVE  inbox'[s][i] < inbox'[s][j]
      <4>1. i \in 1 .. n
        BY <3>1, <3>6
      <4>2. CASE j \in 1 .. n
        <5>1. /\ audience'[inbox[s][i]] = audience[inbox[s][i]]
              /\ audience'[inbox[s][j]] = audience[inbox[s][j]]
          BY <2>3, <4>1, <4>2
        <5> QED BY <2>3, <3>1, <3>6, <4>1, <4>2, <5>1
      <4>3. CASE j = n + 1
        BY <2>3, <2>5, <3>1, <3>6, <4>1, <4>3
      <4> QED BY <3>1, <3>3, <4>2, <4>3
    <3> QED BY <3>4, <3>5, <3>6
  <2> QED BY <2>4, <2>5
<1> QED BY <1>1 DEF InboxKept

-----------------------------------------------------------------------------
(* The types, element by element. *)
LEMMA BrokerFacts ==
  ASSUME BrokerTypes
  PROVE  /\ DOMAIN sets = 1 .. Len(sets) /\ Len(sets) \in Nat
         /\ \A k \in DOMAIN sets : sets[k] \in SUBSET Subscriptions
         /\ Messages = 1 .. Len(calls) /\ Len(calls) \in Nat /\ DOMAIN audience = Messages
         /\ \A m \in Messages : calls[m] \in CallRecords /\ audience[m] \in SUBSET Subscriptions
         /\ Subscriptions \subseteq Nat \ {0} /\ 1 .. made \subseteq Subscriptions
         /\ made \in Nat /\ cancelled \subseteq Subscriptions
<1>1. /\ DOMAIN sets = 1 .. Len(sets) /\ Len(sets) \in Nat
      /\ \A k \in DOMAIN sets : sets[k] \in SUBSET Subscriptions
  BY LenProperties, ElementOfSeq DEF BrokerTypes
<1>2. /\ DOMAIN calls = 1 .. Len(calls) /\ Len(calls) \in Nat
      /\ \A k \in DOMAIN calls : calls[k] \in CallRecords
  BY LenProperties, ElementOfSeq DEF BrokerTypes
<1>3. /\ DOMAIN audience = 1 .. Len(audience)
      /\ \A k \in DOMAIN audience : audience[k] \in SUBSET Subscriptions
  BY LenProperties, ElementOfSeq DEF BrokerTypes
<1>4. /\ Subscriptions \subseteq Nat \ {0} /\ 1 .. made \subseteq Subscriptions
      /\ made \in Nat /\ cancelled \subseteq Subscriptions
  BY BrokerAssumption DEF BrokerTypes, Subscriptions
<1> QED BY <1>1, <1>2, <1>3, <1>4 DEF Messages, BrokerTypes

(* Nobody subscribes at first. *)
LEMMA BrokerInitInv == BrokerInit => BrokerInv
<1> SUFFICES ASSUME BrokerInit PROVE BrokerInv
  OBVIOUS
<1>1. /\ sets = <<>> /\ current = 0 /\ made = 0 /\ counter = 0 /\ calls = <<>>
      /\ inbox = [s \in Subscriptions |-> <<>>]
      /\ audience = <<>> /\ cancelled = {} /\ destroyed = FALSE
  BY DEF BrokerInit
<1>2. BrokerTypes
  <2>1. <<>> \in Seq(SUBSET Subscriptions) /\ <<>> \in Seq(CallRecords) /\ <<>> \in Seq(Nat)
    BY EmptySeq
  <2>2. inbox \in [Subscriptions -> Seq(Nat)]
    BY <1>1, <2>1
  <2>3. /\ sets \in Seq(SUBSET Subscriptions) /\ calls \in Seq(CallRecords)
        /\ audience \in Seq(SUBSET Subscriptions) /\ Len(audience) = Len(calls)
    BY <1>1, <2>1
  <2>4. current \in {0} \cup DOMAIN sets /\ made \in 0 .. MaxSubscriptions /\ counter \in Nat
    BY <1>1, BrokerAssumption
  <2>5. cancelled \subseteq 1 .. made /\ destroyed \in BOOLEAN
    BY <1>1
  <2> QED BY <2>2, <2>3, <2>4, <2>5 DEF BrokerTypes
<1>3. SetsKept /\ CallsKept /\ Delivered
  BY <1>1, EmptySeq DEF SetsKept, CallsKept, Delivered, Messages
<1>4. InboxKept
  BY <1>1 DEF InboxKept
<1> QED BY <1>2, <1>3, <1>4 DEF BrokerInv

(* Subscriptions come and go: calls under way keep whoever stays. *)
LEMMA SetsChange ==
  ASSUME BrokerInv, UNCHANGED <<calls, inbox, audience, destroyed>>,
         BrokerTypes', SetsKept', cancelled \subseteq cancelled',
         DOMAIN sets \subseteq DOMAIN sets',
         \A k \in DOMAIN sets : sets[k] \ cancelled' \subseteq sets'[k]
  PROVE  BrokerInv'
<1>1. Messages' = Messages /\ \A s : Received(s)' = Received(s)
  BY DEF Messages, Received
<1>2. CallsKept'
  <2>1. ASSUME NEW m \in Messages PROVE CallKept(m)'
    BY <2>1 DEF BrokerInv, CallsKept, CallKept
  <2> QED BY <1>1, <2>1 DEF CallsKept
<1>3. InboxKept'
  BY <1>1 DEF BrokerInv, InboxKept
<1>4. Delivered'
  BY <1>1 DEF BrokerInv, Delivered
<1> QED BY <1>2, <1>3, <1>4 DEF BrokerInv

(* A new subscription comes last in its Set. *)
LEMMA SubscribeKeeps == ASSUME BrokerInv, Subscribe PROVE BrokerInv'
<1> USE DEF BrokerInv
<1>1. /\ UNCHANGED <<counter, calls, inbox, audience, cancelled, destroyed>>
      /\ made < MaxSubscriptions /\ made' = made + 1
  BY DEF Subscribe, brokerGhosts
<1>2. /\ made' \in Subscriptions /\ made' \notin cancelled /\ made' \in 0 .. MaxSubscriptions
      /\ 1 .. made' = 1 .. made \cup {made'} /\ made' \notin 1 .. made
  BY <1>1, BrokerFacts, BrokerAssumption DEF BrokerTypes, Subscriptions
<1>3. CASE current = 0
  <2>1. sets' = Append(sets, {made'}) /\ current' = Len(sets) + 1
    BY <1>1, <1>3 DEF Subscribe
  <2>2. PICK n \in Nat : n = Len(sets)
    BY BrokerFacts
  <2>3. /\ sets' \in Seq(SUBSET Subscriptions) /\ Len(sets') = n + 1
        /\ \A k \in 1 .. n : sets'[k] = sets[k]
        /\ sets'[n + 1] = {made'}
    BY <1>2, <2>1, <2>2, AppendProperties DEF BrokerTypes
  <2>4. DOMAIN sets = 1 .. n /\ DOMAIN sets' = 1 .. n + 1
    BY <2>2, <2>3, BrokerFacts, LenProperties
  <2>5. BrokerTypes'
    BY <1>1, <1>2, <2>1, <2>2, <2>3, <2>4 DEF BrokerTypes
  <2>6. SetsKept'
    BY <1>1, <1>2, <1>3, <2>1, <2>2, <2>3, <2>4 DEF SetsKept
  <2> QED BY <1>1, <2>3, <2>4, <2>5, <2>6, SetsChange
<1>4. CASE current # 0
  <2>1. sets' = [sets EXCEPT ![current] = @ \cup {made'}] /\ current' = current
    BY <1>1, <1>4 DEF Subscribe
  <2>2. current \in DOMAIN sets /\ sets[current] \cup {made'} \in SUBSET Subscriptions
    BY <1>2, <1>4, BrokerFacts DEF BrokerTypes
  <2>3. sets' \in Seq(SUBSET Subscriptions)
    BY <2>1, <2>2, ExceptSeq, BrokerFacts DEF BrokerTypes
  <2>4. /\ DOMAIN sets' = DOMAIN sets
        /\ \A k \in DOMAIN sets :
             sets'[k] = IF k = current THEN sets[k] \cup {made'} ELSE sets[k]
    BY <2>1, <2>2
  <2>5. BrokerTypes'
    BY <1>1, <1>2, <2>1, <2>3, <2>4 DEF BrokerTypes
  <2>6. SetsKept'
    BY <1>1, <1>2, <2>1, <2>2, <2>4 DEF SetsKept
  <2> QED BY <1>1, <2>4, <2>5, <2>6, SetsChange
<1> QED BY <1>3, <1>4

(* unsubscribe, with or without the Set that it empties. *)
LEMMA UnsubscribeKeeps ==
  ASSUME BrokerInv, NEW s \in Subscriptions, Unsubscribe(s)
  PROVE  BrokerInv'
<1> USE DEF BrokerInv
<1>1. /\ UNCHANGED <<made, counter, calls, inbox, audience, destroyed>>
      /\ cancelled' = cancelled \cup {s} /\ s \in 1 .. made
  BY DEF Unsubscribe
<1>2. CASE current = 0
  <2>1. UNCHANGED <<sets, current>>
    BY <1>2 DEF Unsubscribe
  <2>2. BrokerTypes'
    BY <1>1, <2>1 DEF BrokerTypes
  <2>3. SetsKept'
    BY <1>1, <1>2, <2>1, BrokerFacts DEF SetsKept
  <2> QED BY <1>1, <2>1, <2>2, <2>3, SetsChange
<1>3. CASE current # 0
  <2>1. /\ sets' = [sets EXCEPT ![current] = sets[current] \ {s}]
        /\ current' = IF sets[current] \ {s} = {} THEN 0 ELSE current
    BY <1>3 DEF Unsubscribe
  <2>2. current \in DOMAIN sets /\ sets[current] \ {s} \in SUBSET Subscriptions
    BY <1>3, BrokerFacts DEF BrokerTypes
  <2>3. sets' \in Seq(SUBSET Subscriptions)
    BY <2>1, <2>2, ExceptSeq, BrokerFacts DEF BrokerTypes
  <2>4. /\ DOMAIN sets' = DOMAIN sets
        /\ \A k \in DOMAIN sets :
             sets'[k] = IF k = current THEN sets[k] \ {s} ELSE sets[k]
    BY <2>1, <2>2
  <2>5. BrokerTypes'
    BY <1>1, <2>1, <2>2, <2>3, <2>4 DEF BrokerTypes
  <2>6. SetsKept'
    BY <1>1, <2>1, <2>2, <2>4, BrokerFacts DEF SetsKept
  <2> QED BY <1>1, <2>4, <2>5, <2>6, SetsChange
<1> QED BY <1>2, <1>3

(* destroy clears every Set. *)
LEMMA DestroyKeeps == ASSUME BrokerInv, Destroy PROVE BrokerInv'
<1> USE DEF BrokerInv
<1>1. /\ destroyed' = TRUE /\ current' = 0 /\ counter' = 0
      /\ UNCHANGED <<sets, made, calls, inbox, audience, cancelled>>
  BY DEF Destroy
<1>2. Messages' = Messages /\ \A s : Received(s)' = Received(s)
  BY <1>1 DEF Messages, Received
<1>3. BrokerTypes' /\ SetsKept'
  BY <1>1 DEF BrokerTypes, SetsKept
<1>4. CallsKept'
  <2>1. ASSUME NEW m \in Messages PROVE CallKept(m)'
    BY <1>1, <2>1 DEF CallsKept, CallKept
  <2> QED BY <1>2, <2>1 DEF CallsKept
<1>5. InboxKept'
  BY <1>1, <1>2 DEF InboxKept
<1>6. Delivered'
  BY <1>1, <1>2 DEF Delivered
<1> QED BY <1>3, <1>4, <1>5, <1>6

(* publish, publishSync: the handlers of S are called at once, the rest of *)
(* the audience later.                                                     *)
LEMMA NewMessageKeeps ==
  ASSUME BrokerInv, NEW m \in Nat, NewMessage(m), NEW S, NEW at \in {0} \cup Subscriptions,
         calls' = Append(calls, [sequence |-> counter', set |-> current, at |-> at]),
         Delivers(S, m), UNCHANGED <<sets, current, made, cancelled, destroyed>>,
         at # 0 => current # 0 /\ at \in sets[current],
         \A s \in Subscriptions : s \in S /\ at # 0 => s <= at,
         current # 0 => \A s \in sets[current] :
           Accepts(s, m) /\ (at = 0 \/ s <= at) => s \in S
  PROVE  BrokerInv'
<1> USE DEF BrokerInv
<1> DEFINE new == [sequence |-> counter', set |-> current, at |-> at]
           aud == IF current = 0 THEN {} ELSE sets[current]
<1>1. /\ m = Len(calls) + 1 /\ counter' = counter + 1 /\ calls' = Append(calls, new)
      /\ audience' = Append(audience, aud)
  BY DEF NewMessage
<1>2. new \in CallRecords /\ aud \in SUBSET Subscriptions
  BY <1>1, BrokerFacts DEF BrokerTypes, CallRecords
<1>3. PICK r \in CallRecords, A \in SUBSET Subscriptions : r = new /\ A = aud
  BY <1>2
<1>4. /\ r.set = current /\ r.at = at /\ r.sequence = counter'
  BY <1>3
<1> HIDE DEF new, aud
<1>5. /\ calls' \in Seq(CallRecords) /\ Len(calls') = m
      /\ \A k \in Messages : calls'[k] = calls[k]
      /\ calls'[m] = r
  BY <1>1, <1>3, AppendProperties, BrokerFacts, SMTT(30) DEF BrokerTypes
<1>6. /\ audience' \in Seq(SUBSET Subscriptions) /\ Len(audience') = m
      /\ \A k \in Messages : audience'[k] = audience[k]
      /\ audience'[m] = A
  BY <1>1, <1>3, AppendProperties, BrokerFacts DEF BrokerTypes
<1>7. /\ Messages' = Messages \cup {m} /\ m \notin Messages /\ \A k \in Messages : k < m
  <2>1. Messages' = 1 .. m
    BY <1>5, LenProperties DEF Messages
  <2> QED BY <1>1, <2>1, BrokerFacts
<1>8. inbox' \in [Subscriptions -> Seq(Nat)]
  <2>1. Subscriptions # {} => inbox' \in [Subscriptions -> Seq(Nat)]
    BY InboxGrows
  <2>2. \A s \in Subscriptions : Append(inbox[s], m) \in Seq(Nat) /\ inbox[s] \in Seq(Nat)
    BY AppendProperties DEF BrokerTypes
  <2> QED BY <2>2 DEF Delivers
<1>9. BrokerTypes'
  BY <1>1, <1>5, <1>6, <1>8 DEF BrokerTypes
<1>10. SetsKept'
  BY <1>1, <1>5 DEF SetsKept
<1>11. A = (IF current = 0 THEN {} ELSE sets[current])
  BY <1>3 DEF aud
<1>12. CallsKept'
  <2>1. ASSUME NEW k \in Messages PROVE CallKept(k)'
    BY <1>5, <1>6, <2>1 DEF CallsKept, CallKept
  <2>2. CallKept(m)'
    <3>1. at # 0 => A # {} /\ First(A) <= at
      BY <1>11, FirstFacts
    <3>2. ~destroyed => r.sequence = m
      <4>1. ~destroyed => counter = Len(calls)
        BY DEF SetsKept
      <4>2. Len(calls) \in Nat /\ DOMAIN calls = 1 .. Len(calls)
        BY BrokerFacts, LenProperties DEF BrokerTypes
      <4>3. r.sequence = counter + 1 /\ m = Len(calls) + 1
        BY <1>1, <1>4
      <4> QED BY <4>1, <4>2, <4>3
    <3> QED BY <1>4, <1>5, <1>6, <1>11, <3>1, <3>2 DEF CallKept, BrokerTypes
  <2> QED BY <1>7, <2>1, <2>2 DEF CallsKept
<1>13. \A s \in Subscriptions : m \notin Received(s)
  BY <1>7 DEF InboxKept, Received
<1>14. InboxKept'
  <2>1. \A k \in Messages : /\ audience'[k] = audience[k]
                            /\ k # m => calls'[k].at = calls[k].at
    BY <1>5, <1>6
  <2>2. \A s \in Subscriptions :
          (s \in S \/ m \in Received(s)) /\ calls'[m].at # 0 => s <= calls'[m].at
    BY <1>4, <1>5, <1>13
  <2>3. Messages \subseteq Messages' /\ m \in Messages'
    BY <1>7
  <2>4. \A s \in Subscriptions :
           s \in S /\ First(audience'[m]) = s => \A k \in Messages : k < m
    BY <1>7
  <2> QED BY <1>13, <2>1, <2>2, <2>3, <2>4, InboxStep
<1>15. Delivered'
  <2>1. \A s \in Subscriptions : Received(s)' = Received(s) \cup (IF s \in S THEN {m} ELSE {})
    BY ReceivedGrows
  <2>2. ASSUME NEW k \in Messages', NEW s \in audience'[k] \ cancelled, Accepts(s, k),
               calls'[k].at = 0 \/ s <= calls'[k].at
        PROVE  s \in Subscriptions /\ k \in Received(s)'
    <3>1. CASE k \in Messages
      BY <1>5, <1>6, <2>1, <2>2, <3>1, BrokerFacts DEF Delivered
    <3>2. CASE k = m
      BY <1>4, <1>5, <1>6, <1>11, <2>1, <2>2, <3>2
    <3> QED BY <1>7, <3>1, <3>2
  <2> QED BY <2>2 DEF Delivered, Accepts
<1> QED BY <1>9, <1>10, <1>12, <1>14, <1>15

(* publish takes a sequence number and starts its loop. *)
LEMMA PublishKeeps == ASSUME BrokerInv, NEW m \in Values, Publish(m) PROVE BrokerInv'
<1> USE DEF BrokerInv
<1>1. PICK f : f = FirstCall(m)
  OBVIOUS
<1>2. /\ f \in {0} \cup Subscriptions
      /\ f # 0 => current # 0 /\ f \in sets[current] /\ Accepts(f, m)
      /\ current # 0 => \A s \in sets[current] : Accepts(s, m) => f # 0 /\ f <= s
  <2>1. CASE current = 0
    BY <1>1, <2>1 DEF FirstCall
  <2>2. CASE current # 0
    <3>1. /\ current \in DOMAIN sets /\ sets[current] \in SUBSET Subscriptions
          /\ \A s \in Subscriptions : s > 0
      BY <2>2, BrokerFacts DEF BrokerTypes
    <3>2. f = NextCall(m, current, 0)
      BY <1>1, <2>2 DEF FirstCall
    <3> QED BY <2>2, <3>1, <3>2, NextCallFacts
  <2> QED BY <2>1, <2>2
<1>3. /\ NewMessage(m)
      /\ calls' = Append(calls, [sequence |-> counter', set |-> current, at |-> f])
      /\ Delivers({f}, m)
      /\ UNCHANGED <<sets, current, made, cancelled, destroyed>>
  BY <1>1 DEF Publish, Called, Delivers
<1>4. \A s \in Subscriptions : s \in {f} /\ f # 0 => s <= f
  BY BrokerFacts
<1>5. current # 0 => \A s \in sets[current] :
        Accepts(s, m) /\ (f = 0 \/ s <= f) => s \in {f}
  <2> SUFFICES ASSUME current # 0, NEW s \in sets[current], Accepts(s, m), f = 0 \/ s <= f
               PROVE  s = f
    OBVIOUS
  <2>1. s \in Nat
    BY BrokerFacts DEF BrokerTypes
  <2> QED BY <1>2, <2>1, BrokerFacts
<1>6. m \in Nat
  BY BrokerAssumption
<1> HIDE DEF BrokerInv
<1> QED BY <1>2, <1>3, <1>4, <1>5, <1>6, NewMessageKeeps

(* publishSync runs the whole loop at once. *)
LEMMA PublishSyncKeeps ==
  ASSUME BrokerInv, NEW m \in Values, PublishSync(m)
  PROVE  BrokerInv'
<1>1. PICK S : S = {s \in Subscriptions :
                      current # 0 /\ s \in sets[current] /\ Accepts(s, m)}
  OBVIOUS
<1>2. /\ NewMessage(m)
      /\ calls' = Append(calls, [sequence |-> counter', set |-> current, at |-> 0])
      /\ UNCHANGED <<sets, current, made, cancelled, destroyed>>
  BY DEF PublishSync
<1>3. m \in Nat
  BY BrokerAssumption
<1>4. audience'[m] = IF current = 0 THEN {} ELSE sets[current]
  <2>1. PICK A \in SUBSET Subscriptions : A = IF current = 0 THEN {} ELSE sets[current]
    BY BrokerFacts DEF BrokerInv, BrokerTypes
  <2>2. audience' = Append(audience, A) /\ m = Len(audience) + 1
    BY <1>2, <2>1 DEF NewMessage, BrokerInv, BrokerTypes
  <2> QED BY <2>1, <2>2, AppendProperties DEF BrokerInv, BrokerTypes
<1>5. Delivers(S, m)
  BY <1>1, <1>4 DEF PublishSync, Delivers
<1>6. current # 0 => \A s \in sets[current] : Accepts(s, m) => s \in S
  BY <1>1, BrokerFacts DEF BrokerInv, BrokerTypes
<1>7. 0 \in {0} \cup Subscriptions
  OBVIOUS
<1> QED BY <1>2, <1>3, <1>5, <1>6, <1>7, NewMessageKeeps

(* A handler returns or throws: the loop goes on to one it has not come to *)
(* yet, and passes nobody who is still subscribed.                         *)
LEMMA SettlesKeeps ==
  ASSUME BrokerInv, NEW m \in Messages, NEW threw \in BOOLEAN, HandlerSettles(m, threw)
  PROVE  BrokerInv'
<1> USE DEF BrokerInv
<1>1. PICK n : n = After(m, threw)
  OBVIOUS
<1>2. PICK at \in Subscriptions, k \in DOMAIN sets : at = calls[m].at /\ k = calls[m].set
  BY BrokerFacts DEF HandlerSettles, Awaiting, CallRecords, CallsKept, CallKept
<1>3. /\ m \in Nat /\ at \in Nat \ {0} /\ sets[k] \in SUBSET Subscriptions
      /\ Subscriptions \subseteq Nat \ {0}
  BY BrokerFacts
<1>4. /\ n # 0 => n \in sets[k] /\ n > at /\ Accepts(n, m)
      /\ n \in {0} \cup Subscriptions
      /\ \A t \in sets[k] : t > at /\ Accepts(t, m) => n # 0 /\ n <= t
      /\ n \in Nat
  <2>1. n = NextCall(m, k, at)
    BY <1>1, <1>2 DEF After
  <2>2. /\ n # 0 => n \in sets[k] /\ n > at /\ Accepts(n, m)
        /\ n \in {0} \cup Subscriptions
        /\ \A t \in sets[k] : t > at /\ Accepts(t, m) => n # 0 /\ n <= t
    BY <1>3, <2>1, NextCallFacts
  <2>3. n \in Nat
    <3>1. 0 \in Nat
      OBVIOUS
    <3> QED BY <1>3, <2>2, <3>1, Zenon
  <2> QED BY <2>2, <2>3, Zenon
<1>5. /\ calls' = [calls EXCEPT ![m].at = n] /\ Delivers({n}, m)
      /\ UNCHANGED <<sets, current, made, counter, audience, cancelled, destroyed>>
  BY <1>1 DEF HandlerSettles, Called, Delivers
<1>6. /\ calls' \in Seq(CallRecords) /\ Len(calls') = Len(calls) /\ Messages' = Messages
      /\ \A j \in Messages : /\ calls'[j].set = calls[j].set
                             /\ calls'[j].sequence = calls[j].sequence
                             /\ calls'[j].at = IF j = m THEN n ELSE calls[j].at
  <2>1. PICK r : r = [calls[m] EXCEPT !.at = n]
    OBVIOUS
  <2>2. r \in CallRecords /\ r.set = calls[m].set /\ r.sequence = calls[m].sequence /\ r.at = n
    BY <1>4, <2>1, BrokerFacts DEF CallRecords
  <2>3. calls' = [calls EXCEPT ![m] = r]
    BY <1>5, <2>1
  <2>4. calls' \in Seq(CallRecords) /\ Len(calls') = Len(calls)
    BY <2>2, <2>3, ExceptSeq, BrokerFacts DEF BrokerTypes
  <2>5. DOMAIN calls' = DOMAIN calls
    BY <2>3
  <2> QED BY <2>2, <2>3, <2>4, <2>5 DEF Messages
<1>7. inbox' \in [Subscriptions -> Seq(Nat)]
  <2>1. \A s \in Subscriptions : Append(inbox[s], m) \in Seq(Nat) /\ inbox[s] \in Seq(Nat)
    BY <1>3, AppendProperties DEF BrokerTypes
  <2> QED BY <1>5, <2>1 DEF Delivers
<1>8. BrokerTypes' /\ SetsKept'
  BY <1>5, <1>6, <1>7 DEF BrokerTypes, SetsKept
<1>9. CallsKept'
  <2>1. ASSUME NEW j \in Messages PROVE CallKept(j)'
    <3>1. CallKept(j)
      BY <2>1 DEF CallsKept
    <3>2. CASE j # m
      BY <1>5, <1>6, <2>1, <3>1, <3>2 DEF CallKept
    <3>3. CASE j = m
      <4>1. First(audience[m]) <= at /\ audience[m] # {} /\ First(audience[m]) \in Nat
        BY <1>2, <1>3, <3>1, <3>3, BrokerFacts, FirstFacts DEF CallKept
      <4>2. n # 0 => First(audience[m]) <= n
        BY <1>3, <1>4, <4>1
      <4>3. m \in Messages /\ calls'[m].at = n /\ calls'[m].set = calls[m].set
            /\ calls'[m].sequence = calls[m].sequence
        BY <1>6, <2>1, <3>3
      <4>4. /\ calls[m].set = k /\ k # 0
            /\ \A s \in audience[m] \ cancelled : s \in sets[k]
            /\ ~destroyed => calls[m].sequence = m
        BY <1>2, <3>1, <3>3, BrokerFacts DEF CallKept
      <4>5. CallKept(m)'
        BY <1>2, <1>5, <4>1, <4>2, <4>3, <4>4 DEF CallKept
      <4> QED BY <3>3, <4>5
    <3> QED BY <3>2, <3>3
  <2> QED BY <1>6, <2>1 DEF CallsKept
<1>10. \A s \in Subscriptions : m \in Received(s) => s <= at
  BY <1>2, <1>3 DEF InboxKept, Received
<1>11. InboxKept'
  <2>1. \A j \in Messages : /\ audience'[j] = audience[j]
                            /\ j # m => calls'[j].at = calls[j].at
    BY <1>5, <1>6
  <2>2. \A s \in Subscriptions : s \in {n} => m \notin Received(s)
    BY <1>3, <1>4, <1>10
  <2>3. \A s \in Subscriptions :
          (s \in {n} \/ m \in Received(s)) /\ calls'[m].at # 0 => s <= calls'[m].at
    <3>1. calls'[m].at = n
      BY <1>6
    <3>2. \A s \in Subscriptions : (s = n \/ s <= at) /\ n # 0 => s <= n
      BY <1>3, <1>4
    <3> QED BY <1>10, <3>1, <3>2
  <2>4. \A s \in Subscriptions :
          s \in {n} /\ First(audience'[m]) = s => \A j \in Messages : j < m
    <3>1. First(audience[m]) <= at /\ First(audience[m]) \in Nat
      BY <1>2, <1>3, BrokerFacts, FirstFacts DEF CallsKept, CallKept
    <3>2. n # 0 => First(audience'[m]) # n
      BY <1>3, <1>4, <1>5, <3>1
    <3> QED BY <1>3, <3>2
  <2>5. Messages \subseteq Messages' /\ m \in Messages'
    BY <1>6
  <2> QED BY <1>3, <1>5, <2>1, <2>2, <2>3, <2>4, <2>5, InboxStep
<1>12. Delivered'
  <2>1. \A s \in Subscriptions : Received(s)' = Received(s) \cup (IF s \in {n} THEN {m} ELSE {})
    BY <1>3, <1>5, ReceivedGrows
  <2>2. ASSUME NEW j \in Messages, NEW s \in audience[j] \ cancelled, Accepts(s, j),
               calls'[j].at = 0 \/ s <= calls'[j].at
        PROVE  s \in Subscriptions /\ j \in Received(s)'
    <3>1. s \in Subscriptions /\ s \in Nat
      BY <1>3, BrokerFacts
    <3>2. CASE calls[j].at = 0 \/ s <= calls[j].at
      BY <2>1, <2>2, <3>1, <3>2 DEF Delivered
    <3>3. CASE j = m /\ ~(s <= at)
      <4>1. s \in sets[k] /\ s > at
        BY <1>2, <1>3, <3>1, <3>3 DEF CallsKept, CallKept
      <4>2. n # 0 /\ n <= s
        BY <1>4, <2>2, <3>3, <4>1
      <4>3. s = n
        BY <1>3, <1>4, <1>6, <2>2, <3>1, <3>3, <4>2
      <4> QED BY <2>1, <3>1, <3>3, <4>3
    <3> QED BY <1>2, <1>6, <2>2, <3>2, <3>3
  <2> QED BY <1>5, <1>6, <2>2 DEF Delivered, Accepts
<1> QED BY <1>8, <1>9, <1>11, <1>12

(* Every step of publish, of the handlers, of subscribe and unsubscribe. *)
LEMMA BrokerNextInv == BrokerInv /\ [BrokerNext]_brokerVars => BrokerInv'
<1> SUFFICES ASSUME BrokerInv, [BrokerNext]_brokerVars PROVE BrokerInv'
  OBVIOUS
<1>1. CASE UNCHANGED brokerVars
  <2>1. UNCHANGED <<sets, current, made, counter, calls, inbox, audience, cancelled, destroyed>>
    BY <1>1 DEF brokerVars, brokerGhosts
  <2>2. BrokerTypes' /\ SetsKept'
    BY <2>1 DEF BrokerInv, BrokerTypes, SetsKept
  <2> QED BY <2>1, <2>2, SetsChange
<1>2. ASSUME NEW s \in Subscriptions, Unsubscribe(s) PROVE BrokerInv'
  BY <1>2, UnsubscribeKeeps
<1>3. ASSUME NEW m \in Values, Publish(m) \/ PublishSync(m) PROVE BrokerInv'
  BY <1>3, PublishKeeps, PublishSyncKeeps
<1>4. ASSUME NEW m \in Messages, NEW threw \in BOOLEAN, HandlerSettles(m, threw)
      PROVE  BrokerInv'
  BY <1>4, SettlesKeeps
<1> QED BY <1>1, <1>2, <1>3, <1>4, SubscribeKeeps, DestroyKeeps DEF BrokerNext

-----------------------------------------------------------------------------
(* Subscriptions, publish calls and inboxes keep the inductive invariant,  *)
(* however the calls of the handlers interleave.                           *)
THEOREM BrokerInvariance == BrokerSpec => []BrokerInv
<1> QED BY BrokerInitInv, BrokerNextInv, PTL DEF BrokerSpec

(* publish: whoever stays subscribed while a message is published gets it  *)
(* once, whichever handlers throw; nobody gets a message twice.            *)
THEOREM PublishReachesAll == BrokerSpec => []DeliveredToAll
<1>1. BrokerInv => DeliveredToAll
  <2> SUFFICES ASSUME BrokerInv PROVE DeliveredToAll
    OBVIOUS
  <2>1. ASSUME NEW s \in Subscriptions
        PROVE  Cardinality(Received(s)) = Len(inbox[s])
    <3>1. PICK q \in Seq(Nat) : q = inbox[s]
      BY DEF BrokerInv, BrokerTypes
    <3>2. PICK n \in Nat : n = Len(q)
      BY LenProperties
    <3>3. DOMAIN q = 1 .. n
      BY <3>2, LenProperties
    <3>4. q \in Bijection(1 .. n, Received(s))
      BY <3>1, <3>3, SMTT(30) DEF BrokerInv, InboxKept, Received, Bijection, Injection, Surjection,
                        IsInjective
    <3>5. Cardinality(Received(s)) = n
      BY <3>4, FS_CountingElements DEF ExistsBijection
    <3> QED BY <3>1, <3>2, <3>5
  <2>2. \A m \in Messages : audience[m] \subseteq Subscriptions
    BY BrokerFacts DEF BrokerInv
  <2> QED BY <2>1, <2>2 DEF DeliveredToAll, BrokerInv, Delivered
<1> QED BY <1>1, BrokerInvariance, PTL

(* publish: the first subscriber is called in the order of the sequence    *)
(* numbers.                                                                *)
THEOREM FirstSeesOrder == BrokerSpec => []FirstInOrder
<1>1. BrokerInv => FirstInOrder
  BY DEF BrokerInv, InboxKept, CallsKept, CallKept, FirstInOrder
<1> QED BY <1>1, BrokerInvariance, PTL

(* unsubscribe: the handler is not called any more, by publish calls that  *)
(* are under way either, unless destroy left their Sets behind.            *)
THEOREM UnsubscribedStaySilent == BrokerSpec => SilentAfterUnsubscribe
<1> DEFINE Silent == \A s \in cancelled : inbox'[s] # inbox[s] => destroyed
<1>1. BrokerInv /\ [BrokerNext]_brokerVars => [Silent]_brokerVars
  <2> SUFFICES ASSUME BrokerInv, BrokerNext, ~destroyed, NEW s \in cancelled
               PROVE  inbox'[s] = inbox[s]
    OBVIOUS
  <2>1. /\ s \in Subscriptions /\ s # 0
        /\ \A k \in DOMAIN sets : s \notin sets[k] /\ sets[k] \in SUBSET Subscriptions
        /\ current \in {0} \cup DOMAIN sets
    BY BrokerFacts DEF BrokerInv, SetsKept, BrokerTypes
  <2>2. CASE UNCHANGED inbox
    BY <2>2
  <2>3. ASSUME NEW m \in Values, Publish(m)
        PROVE  inbox'[s] = inbox[s]
    <3>1. FirstCall(m) # s
      <4>1. CASE current = 0
        BY <2>1, <4>1 DEF FirstCall
      <4>2. CASE current # 0
        BY <2>1, <4>2, NextCallFacts DEF FirstCall
      <4> QED BY <4>1, <4>2
    <3> QED BY <2>1, <2>3, <3>1 DEF Publish, Called
  <2>4. ASSUME NEW m \in Values, PublishSync(m)
        PROVE  inbox'[s] = inbox[s]
    <3>1. PICK A \in SUBSET Subscriptions : A = IF current = 0 THEN {} ELSE sets[current]
      BY <2>1
    <3>2. audience' = Append(audience, A) /\ m = Len(audience) + 1
      BY <2>4, <3>1 DEF PublishSync, NewMessage, BrokerInv, BrokerTypes
    <3>3. audience'[m] = A
      BY <3>1, <3>2, AppendProperties DEF BrokerInv, BrokerTypes
    <3> QED BY <2>1, <2>4, <3>1, <3>3 DEF PublishSync
  <2>5. ASSUME NEW m \in Messages, NEW threw \in BOOLEAN, HandlerSettles(m, threw)
        PROVE  inbox'[s] = inbox[s]
    <3>1. PICK at \in Subscriptions, k \in DOMAIN sets :
            at = calls[m].at /\ k = calls[m].set
      BY <2>5, BrokerFacts
         DEF HandlerSettles, Awaiting, CallRecords, BrokerInv, CallsKept, CallKept
    <3>2. After(m, threw) = NextCall(m, k, at)
      BY <3>1 DEF After
    <3>3. After(m, threw) # s
      BY <2>1, <3>2, NextCallFacts
    <3> QED BY <2>1, <2>5, <3>3 DEF HandlerSettles, Called
  <2> QED
    BY <2>2, <2>3, <2>4, <2>5
    DEF BrokerNext, Subscribe, Unsubscribe, Destroy, brokerGhosts
<1> QED BY <1>1, BrokerInvariance, PTL DEF BrokerSpec, SilentAfterUnsubscribe

(* The broker's message history is the bounded queue of module             *)
(* BoundedQueue: publish and destroy use RingBuffer only as it allows.     *)
THEOREM HistoryIsQueue == BrokerSpec => BufferIsQueue
<1>1. BrokerInit => RingInit
  BY DEF BrokerInit
<1>2. [BrokerNext]_brokerVars => [RingNext]_ringVars
  <2> SUFFICES ASSUME [BrokerNext]_brokerVars PROVE [RingNext]_ringVars
    OBVIOUS
  <2>1. CASE UNCHANGED brokerVars
    BY <2>1 DEF brokerVars
  <2> QED
    BY <2>1
    DEF BrokerNext, Subscribe, Unsubscribe, Publish, PublishSync, NewMessage,
        HandlerSettles, Destroy, RingNext
<1> QED BY <1>1, <1>2, RingImplementsQueue, PTL DEF BrokerSpec, RingSpec
=============================================================================
