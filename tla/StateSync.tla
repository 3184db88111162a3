----------------------------- MODULE StateSync ------------------------------
(***************************************************************************)
(* StateSynchronizer on top of StateManager, with the conflict resolver    *)
(* and the in-process message broker.                                      *)
(*                                                                         *)
(* Every update queues a delta.  flushDeltas publishes a compressed batch  *)
(* on the channel this node itself subscribes to, and the broker calls the *)
(* subscriber synchronously: the batch is handled before any other code    *)
(* runs.  "inbox" holds what is left of the message being handled, and     *)
(* every other action waits until it is empty.                             *)
(*                                                                         *)
(* "intended", "overflowed" and "replayed" are history variables: the data *)
(* every client write applied exactly once would give, whether a flush     *)
(* ever left deltas behind, and whether a full sync ever replayed the      *)
(* retained deltas.                                                        *)
(***************************************************************************)
EXTENDS StateManager, DeltaCompressor

CONSTANTS
  BatchSize,     \* batchSize
  Strategies,    \* the default strategies setDefaultStrategy may select
  MaxPending     \* bound on pendingDeltas, which the code does not limit

ASSUME BatchSizeAssumption == BatchSize \in Nat \ {0}
ASSUME MaxPendingAssumption == MaxPending \in Nat
ASSUME StrategiesAssumption ==
  Strategies \subseteq {"last_write_wins", "first_write_wins", "merge"}

VARIABLES
  pending,     \* pendingDeltas
  inbox,       \* the deltas of the message being handled, still to come
  strategy,    \* defaultStrategy of the resolver
  intended,
  overflowed,
  replayed

ghosts   == <<intended, overflowed, replayed>>
syncVars == <<smVars, pending, inbox, strategy, ghosts>>

Idle == inbox = <<>>

SyncInit ==
  /\ Init
  /\ pending = <<>>
  /\ inbox = <<>>
  /\ strategy \in Strategies
  /\ intended = [x \in {} |-> 0]
  /\ overflowed = FALSE
  /\ replayed = FALSE

(* Faulty: unshift instead of push. *)
QueueDeltaInFront(id) == pending' = <<Last(history'[id])>> \o pending

(* The entity:updated listener: the delta just recorded is queued. *)
QueueDelta(id) == pending' = Append(pending, Last(history'[id]))

ClientCreate(id, data) ==
  /\ Idle
  /\ CreateEntity(id, data)
  /\ intended' = MapPut(intended, id, data)
  /\ UNCHANGED <<pending, inbox, strategy, overflowed, replayed>>

ClientUpdate(id, ops) ==
  /\ Idle
  /\ Len(pending) < MaxPending
  /\ UpdateEntity(id, ops)
  /\ QueueDelta(id)
  /\ intended' = [intended EXCEPT ![id] = ApplyAll(@, ops)]
  /\ UNCHANGED <<inbox, strategy, overflowed, replayed>>

ClientDelete(id) ==
  /\ Idle
  /\ DeleteEntity(id)
  /\ intended' = MapRemove(intended, id)
  /\ UNCHANGED <<pending, inbox, strategy, overflowed, replayed>>

(* A client's state_request is answered with createSnapshot. *)
ClientSnapshot ==
  /\ Idle
  /\ CreateSnapshot
  /\ UNCHANGED <<saved, pending, inbox, strategy, ghosts>>

PassTime ==
  /\ Idle
  /\ Tick
  /\ UNCHANGED <<pending, inbox, strategy, ghosts>>

(* pendingDeltas.splice(0, batchSize), compress, publish. *)
FlushDeltas ==
  /\ Idle
  /\ pending # <<>>
  /\ LET n == Min({BatchSize, Len(pending)})
     IN  /\ version + n <= MaxVersion
         /\ inbox' = Compress(SubSeq(pending, 1, n))
         /\ pending' = SubSeq(pending, n + 1, Len(pending))
         /\ overflowed' = (overflowed \/ n < Len(pending))
  /\ UNCHANGED <<smVars, strategy, intended, replayed>>

(* mergeOperations: one operation per path, the local ones first. *)
MergeOperations(localOps, remoteOps) ==
  LET ops == localOps \o remoteOps
      after[i \in 0 .. Len(ops)] ==
        IF i = 0 THEN <<>>
        ELSE IF i <= Len(localOps) \/ MapGet(after[i - 1], PathKey(ops[i])) = {}
             THEN MapSet(after[i - 1], PathKey(ops[i]), ops[i]) ELSE after[i - 1]
      m == after[Len(ops)]
  IN  [i \in DOMAIN m |-> m[i].op]

(* The operations handleRemoteDelta applies after resolve: only a merge    *)
(* returns mergedOperations; whichever side won, LWW and FWW fall back to  *)
(* the remote delta's.                                                     *)
ResolvedOps(localDelta, delta) ==
  IF strategy = "merge"
  THEN MergeOperations(localDelta.operations, delta.operations)
  ELSE delta.operations

(* One round of the loop of handleRemoteDelta. *)
IsConflict(delta) ==
  /\ delta.entityId \in DOMAIN entities
  /\ entities[delta.entityId].version > delta.fromVersion

IgnoreDelta(delta) ==
  /\ \/ delta.entityId \notin DOMAIN entities
     \/ IsConflict(delta) /\ HistoryOf(delta.entityId) = <<>>
  /\ UNCHANGED <<smVars, pending>>

ApplyDelta(delta) ==
  /\ delta.entityId \in DOMAIN entities
  /\ ~IsConflict(delta)
  /\ UpdateEntity(delta.entityId, delta.operations)
  /\ QueueDelta(delta.entityId)

ApplyResolved(delta) ==
  /\ IsConflict(delta)
  /\ HistoryOf(delta.entityId) # <<>>
  /\ LET id  == delta.entityId
         ops == ResolvedOps(Last(history[id]), delta)
     IN  /\ Write(id, ops, ApplyAll(PreApply(entities[id].data, delta.operations), ops))
         /\ QueueDelta(id)

HandleRemoteDelta ==
  /\ inbox # <<>>
  /\ LET delta == Head(inbox)
     IN  IgnoreDelta(delta) \/ ApplyDelta(delta) \/ ApplyResolved(delta)
  /\ inbox' = Tail(inbox)
  /\ UNCHANGED <<strategy, ghosts>>

(* getDeltasSince: fromVersion is an entity's version.  The order between  *)
(* entities at equal times is left open: it makes no difference.           *)
Since(deltas, v) ==
  LET since[i \in 0 .. Len(deltas)] ==
        IF i = 0 THEN <<>>
        ELSE IF deltas[i].fromVersion >= v THEN Append(since[i - 1], deltas[i]) ELSE since[i - 1]
  IN  since[Len(deltas)]
GetDeltasSince(v) ==
  LET ids == SetToSeq(DOMAIN history)
      all[i \in 0 .. Len(ids)] ==
        IF i = 0 THEN <<>> ELSE all[i - 1] \o Since(history[ids[i]], v)
  IN  SortByTimestamp(all[Len(ids)])

(* requestFullSync: this node answers its own state request, with every    *)
(* retained delta or, if there is none, with a snapshot that it loads.     *)
RequestFullSync ==
  /\ Idle
  /\ \/ /\ GetDeltasSince(0) # <<>>
        /\ version + Len(GetDeltasSince(0)) <= MaxVersion
        /\ Len(pending) + Len(GetDeltasSince(0)) <= MaxPending
        /\ inbox' = GetDeltasSince(0)
        /\ replayed' = TRUE
        /\ UNCHANGED smVars
     \/ /\ GetDeltasSince(0) = <<>>
        /\ LoadSnapshot(CurrentSnapshot)
        /\ UNCHANGED <<inbox, replayed>>
  /\ UNCHANGED <<pending, strategy, intended, overflowed>>

SyncNext ==
  \/ \E id \in EntityIds, data \in InitialData : ClientCreate(id, data)
  \/ \E id \in EntityIds, ops \in OpLists : ClientUpdate(id, ops)
  \/ \E id \in EntityIds : ClientDelete(id)
  \/ ClientSnapshot
  \/ PassTime
  \/ FlushDeltas
  \/ HandleRemoteDelta
  \/ RequestFullSync

SyncSpec == SyncInit /\ [][SyncNext]_syncVars
-----------------------------------------------------------------------------
(* The next delta for the same entity after place j of a list is at place  *)
(* k, and none comes after place k.                                        *)
NextAfter(p, j, k) ==
  /\ p[j].entityId = p[k].entityId
  /\ \A l \in j + 1 .. k - 1 : p[l].entityId # p[k].entityId
LastForEntity(p, k) == \A l \in k + 1 .. Len(p) : p[l].entityId # p[k].entityId

(* flushDeltas and the listener together: what waits in pendingDeltas for  *)
(* a live entity is an unbroken chain of its changes up to the present     *)
(* version, however flushes, deletions and re-applied batches interleave.  *)
(* Compress merges such a run into one delta and relies on it.             *)
PendingChain ==
  \A k \in DOMAIN pending :
    LET d == pending[k]
    IN  d.entityId \in DOMAIN entities =>
          /\ \A j \in 1 .. k - 1 :
               NextAfter(pending, j, k) => d.fromVersion = pending[j].toVersion
          /\ LastForEntity(pending, k) => d.toVersion = entities[d.entityId].version

(* Handling a batch neither brings back an entity deleted since the batch  *)
(* was published nor loses one.  With operations that only set and delete  *)
(* unnested paths, re-applying the node's own batches is harmless: between *)
(* messages every entity holds what its clients wrote last, as long as no  *)
(* flush found more than batchSize deltas and, under "merge", no full sync *)
(* replayed the retained deltas: mergeOperations lets the newest retained  *)
(* delta win over each of them, so the last one replayed may be an old     *)
(* value of a path that the newest does not touch.                         *)
LastWritesKept ==
  /\ DOMAIN entities = DOMAIN intended
  /\ (Idle /\ ~overflowed /\ (strategy = "merge" => ~replayed)) =>
       \A id \in DOMAIN entities : entities[id].data = intended[id]

(* What state-manager.test.ts expects of updateEntity, of the running      *)
(* node: between messages an entity holds the result of applying every     *)
(* client operation once.                                                  *)
UpdatesAppliedOnce ==
  Idle => \A id \in DOMAIN entities : entities[id].data = intended[id]
=============================================================================
