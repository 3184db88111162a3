---------------------------- MODULE StateManager ----------------------------
(***************************************************************************)
(* StateManager: the versioned entity store of one node.                   *)
(*                                                                         *)
(* Every method runs to completion on the JavaScript thread, so each is    *)
(* one action.  Entity ids come from generateId and are never handed out   *)
(* twice; "used" records them.  "now" is Date.now(), assumed not to step   *)
(* backwards.  "saved" holds the serialised copies of snapshots that       *)
(* callers keep (files, messages): these are what loadSnapshot is given.   *)
(***************************************************************************)
EXTENDS EntityOps

CONSTANTS
  EntityIds,     \* the ids generateId may return
  InitialData,   \* the data objects clients create entities with
  OpLists,       \* the operation lists clients send
  MaxHistory,    \* maxHistoryPerEntity
  MaxVersion,    \* bound on the number of changes explored
  MaxTime,       \* bound on the clock
  MaxSaved       \* bound on the serialised snapshots kept

ASSUME MaxHistoryAssumption == MaxHistory \in Nat \ {0}
ASSUME BoundsAssumption == MaxVersion \in Nat /\ MaxTime \in Nat /\ MaxSaved \in Nat

VARIABLES
  entities,  \* the entities Map: id -> [data, version, lastModified]
  history,   \* the history Map: id -> sequence of deltas
  version,   \* the global version
  cache,     \* the LRU entry 'snapshot': a snapshot, or NoSnapshot
  now,       \* Date.now()
  used,      \* ids handed out so far
  saved      \* serialised snapshots

smVars == <<entities, history, version, cache, now, used, saved>>

NoSnapshot == [cached |-> FALSE]
Snapshot(v, ents) == [version |-> v, entities |-> ents]
Cached(s) == [cached |-> TRUE, snapshot |-> s]

(* Map.delete and Map.set. *)
MapRemove(m, id) == [x \in DOMAIN m \ {id} |-> m[x]]
MapPut(m, id, val) == [x \in DOMAIN m \cup {id} |-> IF x = id THEN val ELSE m[x]]

HistoryOf(id) == IF id \in DOMAIN history THEN history[id] ELSE <<>>

Delta(id, from, to, ops, time) ==
  [entityId |-> id, fromVersion |-> from, toVersion |-> to,
   operations |-> ops, timestamp |-> time]

Init ==
  /\ entities = [x \in {} |-> 0]
  /\ history = [x \in {} |-> <<>>]
  /\ version = 0
  /\ cache = NoSnapshot
  /\ now = 0
  /\ used = {}
  /\ saved = {}

CreateEntity(id, data) ==
  /\ id \notin used
  /\ version < MaxVersion
  /\ version' = version + 1
  /\ entities' = MapPut(entities, id, [data |-> data, version |-> 1, lastModified |-> now])
  /\ used' = used \cup {id}
  /\ cache' = NoSnapshot
  /\ UNCHANGED <<history, now, saved>>

(* Faulty: the newest delta is dropped instead of the oldest. *)
AddToHistoryDropsNewest(id, delta) ==
  LET pushed == Append(HistoryOf(id), delta)
  IN  history' = MapPut(history, id, IF Len(pushed) > MaxHistory THEN Front(pushed) ELSE pushed)

(* addToHistory: push, then shift when there is one too many. *)
AddToHistory(id, delta) ==
  LET pushed == Append(HistoryOf(id), delta)
  IN  history' = MapPut(history, id, IF Len(pushed) > MaxHistory THEN Tail(pushed) ELSE pushed)

(* The whole of updateEntity for an entity that exists, given the data it  *)
(* leaves behind.  For an id that is absent it returns null and does       *)
(* nothing.                                                                *)
Write(id, ops, data) ==
  /\ id \in DOMAIN entities
  /\ version < MaxVersion
  /\ LET from == entities[id].version
     IN  /\ entities' = [entities EXCEPT ![id] =
                           [data |-> data, version |-> from + 1, lastModified |-> now]]
         /\ AddToHistory(id, Delta(id, from, from + 1, ops, now))
  /\ version' = version + 1
  /\ cache' = NoSnapshot
  /\ UNCHANGED <<now, used, saved>>

UpdateEntity(id, ops) == Write(id, ops, ApplyAll(entities[id].data, ops))

(* Faulty: history.delete is missing. *)
DeleteEntityKeepsHistory(id) ==
  /\ id \in DOMAIN entities /\ version < MaxVersion
  /\ entities' = MapRemove(entities, id)
  /\ version' = version + 1 /\ cache' = NoSnapshot
  /\ UNCHANGED <<history, now, used, saved>>

DeleteEntity(id) ==
  /\ id \in DOMAIN entities
  /\ version < MaxVersion
  /\ entities' = MapRemove(entities, id)
  /\ history' = MapRemove(history, id)
  /\ version' = version + 1
  /\ cache' = NoSnapshot
  /\ UNCHANGED <<now, used, saved>>

(* createSnapshot hands out the cached snapshot when its version is the    *)
(* current one.                                                            *)
CurrentSnapshot ==
  IF cache # NoSnapshot /\ cache.snapshot.version = version
  THEN cache.snapshot
  ELSE Snapshot(version, entities)

CreateSnapshot ==
  /\ cache' = Cached(CurrentSnapshot)
  /\ UNCHANGED <<entities, history, version, now, used>>

(* Faulty: the version is not restored, or the cache is not invalidated. *)
LoadSnapshotKeepsVersion(s) ==
  /\ entities' = s.entities
  /\ history' = [x \in {} |-> <<>>] /\ cache' = NoSnapshot
  /\ UNCHANGED <<version, now, used, saved>>
LoadSnapshotKeepsCache(s) ==
  /\ entities' = s.entities /\ version' = s.version
  /\ history' = [x \in {} |-> <<>>]
  /\ UNCHANGED <<cache, now, used, saved>>

LoadSnapshot(s) ==
  /\ entities' = s.entities
  /\ version' = s.version
  /\ history' = [x \in {} |-> <<>>]
  /\ cache' = NoSnapshot
  /\ UNCHANGED <<now, used, saved>>

Clear ==
  /\ entities' = [x \in {} |-> 0]
  /\ history' = [x \in {} |-> <<>>]
  /\ version' = 0
  /\ cache' = NoSnapshot
  /\ UNCHANGED <<now, used, saved>>

Tick ==
  /\ now < MaxTime
  /\ now' = now + 1
  /\ UNCHANGED <<entities, history, version, cache, used, saved>>

(* A caller asks for a snapshot and serialises it at once. *)
TakeSnapshot ==
  /\ Cardinality(saved) < MaxSaved \/ CurrentSnapshot \in saved
  /\ CreateSnapshot
  /\ saved' = saved \cup {CurrentSnapshot}

Next ==
  \/ \E id \in EntityIds, data \in InitialData : CreateEntity(id, data)
  \/ \E id \in EntityIds, ops \in OpLists : UpdateEntity(id, ops)
  \/ \E id \in EntityIds : DeleteEntity(id)
  \/ TakeSnapshot
  \/ \E s \in saved : LoadSnapshot(s)
  \/ Clear
  \/ Tick

Spec == Init /\ [][Next]_smVars
-----------------------------------------------------------------------------
DeltasOver(Ops) ==
  [entityId : EntityIds, fromVersion : Nat, toVersion : Nat,
   operations : Ops, timestamp : Nat]

(* Of the data nothing is said: an operation may put any value anywhere. *)
TypeOK ==
  /\ DOMAIN entities \subseteq used
  /\ used \subseteq EntityIds
  /\ \A id \in DOMAIN entities : entities[id].version \in Nat \ {0}
  /\ DOMAIN history \subseteq DOMAIN entities
  /\ history \in [DOMAIN history -> Seq(DeltasOver(OpLists))]
  /\ version \in Nat
  /\ now \in Nat
  /\ cache = NoSnapshot \/ cache = Cached(cache.snapshot)

(* addToHistory, loadSnapshot and deleteEntity together: the retained      *)
(* deltas of an entity are an unbroken chain of single version steps that  *)
(* ends at the entity's present version, so handleRemoteDelta may take its *)
(* last element for the local change; and the shift keeps the list within  *)
(* maxHistoryPerEntity.                                                    *)
HistoryChain ==
  \A id \in DOMAIN history :
    LET h == history[id]
    IN  /\ Len(h) \in 1 .. MaxHistory
        /\ h[Len(h)].toVersion = entities[id].version
        /\ \A i \in 1 .. Len(h) : h[i].toVersion = h[i].fromVersion + 1
        /\ \A i \in 1 .. Len(h) - 1 : h[i + 1].fromVersion = h[i].toVersion

(* No entity is ever at a version beyond the global one, not even after a  *)
(* snapshot has put the global version back: recoverState and              *)
(* handleStateRequest compare the two numbers.                             *)
EntityVersionBounded ==
  \A id \in DOMAIN entities : entities[id].version <= version

(* What createSnapshot hands out is the state at that moment, although it  *)
(* may come from the cache, and although loadSnapshot and clear can bring  *)
(* back a version number that was cached before.                           *)
SnapshotIsCurrent == CurrentSnapshot = Snapshot(version, entities)

=============================================================================
