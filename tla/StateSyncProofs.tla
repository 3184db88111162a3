-------------------------- MODULE StateSyncProofs ---------------------------
(***************************************************************************)
(* The synchronizer's queue of deltas, and what re-applied batches leave   *)
(* of the store, for every set of ids, data objects, operation lists,      *)
(* strategies and bounds; then what compressing and re-applying a batch    *)
(* does to the data of an entity, for every batch.                         *)
(***************************************************************************)
EXTENDS StateSync, DeltaBatch, StateManagerProofs, FiniteSetTheorems

(* The store under this module: a merge of two deltas is no operation list *)
(* a client sent, so nothing is said of the operations of a delta.         *)
StoreTypes ==
  /\ DOMAIN entities \subseteq used
  /\ \A id \in DOMAIN entities : entities[id].version \in Nat
  /\ DOMAIN history \subseteq DOMAIN entities
  /\ \A id \in DOMAIN history : IsSeq(history[id])
  /\ version \in Nat

(* Only ids that were handed out wait in the queue. *)
PendingTypes ==
  /\ IsSeq(pending)
  /\ \A k \in DOMAIN pending : pending[k].entityId \in used

(* A batch neither brings back a deleted entity nor loses one. *)
LiveAsIntended == DOMAIN entities = DOMAIN intended

SyncInv ==
  /\ StoreTypes
  /\ HistoryChain
  /\ EntityVersionBounded
  /\ CacheCoherent
  /\ PendingTypes
  /\ PendingChain
  /\ LiveAsIntended

-----------------------------------------------------------------------------
(* The newest delta of a list the shift has been through is the one pushed. *)
LEMMA PushedIsLast ==
  ASSUME NEW h, IsSeq(h), NEW d
  PROVE  LET p == Append(h, d)
             q == IF Len(p) > MaxHistory THEN Tail(p) ELSE p
         IN  IsSeq(q) /\ (Len(q) >= 1 => q[Len(q)] = d)
<1> DEFINE p == Append(h, d)
<1>1. /\ IsSeq(p) /\ Len(p) = Len(h) + 1 /\ p[Len(h) + 1] = d
      /\ Len(h) \in Nat
  BY AppendIsSeq, SeqIsFunction
<1> HIDE DEF p
<1>2. CASE Len(p) > MaxHistory
  <2>1. p # <<>> /\ p \in Seq(ToSet(p))
    BY <1>1 DEF IsSeq
  <2>2. Len(Tail(p)) = Len(p) - 1 /\ \A i \in 1 .. Len(Tail(p)) : Tail(p)[i] = p[i + 1]
    BY <2>1, HeadTailProperties
  <2>3. IsSeq(Tail(p))
    BY <1>1, <2>1, TailIsSeq
  <2> QED BY <1>1, <1>2, <2>2, <2>3 DEF p
<1>3. CASE ~(Len(p) > MaxHistory)
  BY <1>1, <1>3 DEF p
<1> QED BY <1>2, <1>3 DEF p

(* What updateEntity does to the store, whatever data it leaves behind.    *)
LEMMA WriteKeepsStore ==
  ASSUME StoreTypes, HistoryChain, EntityVersionBounded,
         NEW id, NEW ops, NEW data, Write(id, ops, data)
  PROVE  /\ StoreTypes' /\ HistoryChain' /\ EntityVersionBounded' /\ CacheCoherent'
         /\ id \in DOMAIN entities /\ entities[id].version \in Nat
         /\ DOMAIN entities' = DOMAIN entities
         /\ entities'[id].version = entities[id].version + 1
         /\ \A x \in DOMAIN entities \ {id} : entities'[x] = entities[x]
         /\ Last(history'[id]).entityId = id
         /\ Last(history'[id]).fromVersion = entities[id].version
         /\ Last(history'[id]).toVersion = entities[id].version + 1
<1> DEFINE v == entities[id].version
           d == Delta(id, v, v + 1, ops, now)
           h == HistoryOf(id)
           p == Append(h, d)
           q == IF Len(p) > MaxHistory THEN Tail(p) ELSE p
<1>1. id \in DOMAIN entities /\ v \in Nat /\ version \in Nat
  BY DEF Write, StoreTypes
<1>2. /\ DOMAIN entities' = DOMAIN entities
      /\ entities'[id].version = v + 1
      /\ \A x \in DOMAIN entities \ {id} : entities'[x] = entities[x]
  BY <1>1 DEF Write
<1>3. d.entityId = id /\ d.fromVersion = v /\ d.toVersion = v + 1
  BY DEF Delta
<1>4. IsSeq(h) /\ (h = <<>> \/ ChainTo(h, v))
  <2>1. IsSeq(<<>>)
    BY DEF IsSeq, ToSet
  <2> QED BY <2>1 DEF HistoryOf, StoreTypes, HistoryChain, ChainTo
<1>5. IsSeq(q) /\ ChainTo(q, v + 1) /\ Last(q) = d
  <2> DEFINE S == ToSet(h) \cup {d}
  <2>1. h \in Seq(S)
    BY <1>4, SeqMonotonic DEF IsSeq
  <2> HIDE DEF v, d, h
  <2>2. d \in S
    OBVIOUS
  <2>3. ChainTo(q, v + 1)
    <3> HIDE DEF S
    <3> QED BY <1>1, <1>3, <1>4, <2>1, <2>2, PushKeepsChain
  <2>4. IsSeq(q) /\ (Len(q) >= 1 => q[Len(q)] = d)
    BY <1>4, PushedIsLast
  <2> HIDE DEF q
  <2>5. Len(q) >= 1
    BY <2>3, MaxHistoryAssumption DEF ChainTo
  <2> QED BY <2>3, <2>4, <2>5 DEF Last
<1>6. history' = MapPut(history, id, q)
  BY DEF Write, AddToHistory
<1> HIDE DEF q
<1>7. /\ DOMAIN history' = DOMAIN history \cup {id}
      /\ history'[id] = q
      /\ \A x \in DOMAIN history \ {id} : history'[x] = history[x]
  BY <1>6 DEF MapPut
<1>8. version' = version + 1 /\ cache' = NoSnapshot /\ UNCHANGED used
  BY DEF Write
<1>9. StoreTypes'
  <2>1. DOMAIN entities' \subseteq used' /\ DOMAIN history' \subseteq DOMAIN entities' /\ version' \in Nat
    BY <1>1, <1>2, <1>7, <1>8 DEF StoreTypes
  <2>2. \A x \in DOMAIN entities' : entities'[x].version \in Nat
    <3> HIDE DEF v
    <3> QED BY <1>1, <1>2 DEF StoreTypes
  <2>3. \A x \in DOMAIN history' : IsSeq(history'[x])
    BY <1>5, <1>7 DEF StoreTypes
  <2> QED BY <2>1, <2>2, <2>3 DEF StoreTypes
<1>10. HistoryChain'
  <2> SUFFICES ASSUME NEW x \in DOMAIN history' PROVE ChainTo(history'[x], entities'[x].version)
    BY DEF HistoryChain, ChainTo
  <2>1. CASE x = id
    BY <1>2, <1>5, <1>7, <2>1
  <2>2. CASE x # id
    <3>1. x \in DOMAIN history /\ x \in DOMAIN entities \ {id}
      BY <1>7, <2>2 DEF StoreTypes
    <3>2. history'[x] = history[x] /\ entities'[x] = entities[x]
      BY <1>2, <1>7, <2>2, <3>1
    <3>3. ChainTo(history[x], entities[x].version)
      BY <3>1 DEF HistoryChain, ChainTo
    <3> QED BY <3>2, <3>3
  <2> QED BY <2>1, <2>2
<1>11. EntityVersionBounded'
  <2> SUFFICES ASSUME NEW x \in DOMAIN entities' PROVE entities'[x].version <= version'
    BY DEF EntityVersionBounded
  <2>1. entities[x].version <= version /\ entities[x].version \in Nat
    BY <1>2 DEF EntityVersionBounded, StoreTypes
  <2> QED BY <1>1, <1>2, <1>8, <2>1
<1>12. CacheCoherent'
  BY <1>8 DEF CacheCoherent
<1> HIDE DEF d
<1> QED BY <1>1, <1>2, <1>3, <1>5, <1>7, <1>9, <1>10, <1>11, <1>12

-----------------------------------------------------------------------------
(* The listener: the delta of a change, pushed, is the next link of its    *)
(* entity's chain and leaves every other chain alone.                      *)
LEMMA QueueKeepsChain ==
  ASSUME PendingTypes, PendingChain, NEW id \in DOMAIN entities, id \in used,
         NEW d, pending' = Append(pending, d),
         UNCHANGED used, DOMAIN entities' = DOMAIN entities,
         d.entityId = id,
         d.fromVersion = entities[id].version,
         d.toVersion = entities'[id].version,
         \A x \in DOMAIN entities \ {id} : entities'[x] = entities[x]
  PROVE  PendingTypes' /\ PendingChain'
<1> PICK n : n = Len(pending)
  OBVIOUS
<1>1. n \in Nat /\ DOMAIN pending = 1 .. n
  BY SeqIsFunction DEF PendingTypes
<1>2. /\ IsSeq(pending') /\ Len(pending') = n + 1
      /\ \A i \in 1 .. n : pending'[i] = pending[i]
      /\ pending'[n + 1] = d
  BY AppendIsSeq DEF PendingTypes
<1>3. DOMAIN pending' = 1 .. n + 1
  BY <1>2, SeqIsFunction
<1>4. PendingTypes'
  BY <1>1, <1>2, <1>3 DEF PendingTypes
<1>5. ASSUME NEW k \in DOMAIN pending', pending'[k].entityId \in DOMAIN entities'
      PROVE  /\ \A j \in 1 .. k - 1 :
                  NextAfter(pending', j, k) => pending'[k].fromVersion = pending'[j].toVersion
             /\ LastForEntity(pending', k) =>
                  pending'[k].toVersion = entities'[pending'[k].entityId].version
  <2>1. CASE k = n + 1
    <3>1. pending'[k] = d
      BY <1>2, <2>1
    <3>2. ASSUME NEW j \in 1 .. k - 1, NextAfter(pending', j, k)
          PROVE  d.fromVersion = pending'[j].toVersion
      <4>1. j \in 1 .. n /\ j \in DOMAIN pending /\ pending'[j] = pending[j]
        BY <1>1, <1>2, <2>1
      <4>2. pending[j].entityId = id
        BY <3>1, <3>2, <4>1 DEF NextAfter
      <4>3. \A l \in j + 1 .. n : pending[l].entityId # id
        <5> SUFFICES ASSUME NEW l \in j + 1 .. n PROVE pending[l].entityId # id
          OBVIOUS
        <5>1. l \in 1 .. n /\ l \in j + 1 .. k - 1
          BY <1>1, <2>1, <4>1
        <5> QED BY <1>2, <3>1, <3>2, <5>1 DEF NextAfter
      <4>4. LastForEntity(pending, j)
        BY <4>2, <4>3 DEF LastForEntity
      <4> QED BY <4>1, <4>2, <4>4 DEF PendingChain
    <3> QED BY <3>1, <3>2
  <2>2. CASE k # n + 1
    <3>1. k \in 1 .. n /\ k \in DOMAIN pending /\ pending'[k] = pending[k]
      BY <1>1, <1>2, <1>3, <2>2
    <3>2. ASSUME NEW j \in 1 .. k - 1, NextAfter(pending', j, k)
          PROVE  pending'[k].fromVersion = pending'[j].toVersion
      <4>1. j \in 1 .. n /\ \A l \in j + 1 .. k - 1 : l \in 1 .. n
        BY <1>1, <3>1
      <4>2. NextAfter(pending, j, k)
        BY <1>2, <3>1, <3>2, <4>1 DEF NextAfter
      <4> QED BY <1>2, <1>5, <3>1, <4>1, <4>2 DEF PendingChain
    <3>3. ASSUME LastForEntity(pending', k)
          PROVE  pending'[k].toVersion = entities'[pending'[k].entityId].version
      <4>1. \A l \in k + 1 .. n + 1 : pending'[l].entityId # pending'[k].entityId
        BY <1>2, <3>3 DEF LastForEntity
      <4>2. n + 1 \in k + 1 .. n + 1
        BY <1>1, <3>1
      <4>3. pending[k].entityId # id
        BY <1>2, <3>1, <4>1, <4>2
      <4>4. \A l \in k + 1 .. n : l \in k + 1 .. n + 1 /\ l \in 1 .. n
        BY <1>1, <3>1
      <4>5. LastForEntity(pending, k)
        BY <1>2, <3>1, <4>1, <4>4 DEF LastForEntity
      <4>6. pending[k].entityId \in DOMAIN entities \ {id}
        BY <1>5, <3>1, <4>3
      <4> QED BY <3>1, <4>5, <4>6 DEF PendingChain
    <3> QED BY <3>2, <3>3
  <2> QED BY <2>1, <2>2
<1> QED BY <1>4, <1>5 DEF PendingChain

(* flushDeltas takes deltas from the front: what stays is still a chain.   *)
LEMMA SuffixKeepsChain ==
  ASSUME PendingTypes, PendingChain, NEW m \in Nat, m <= Len(pending),
         pending' = SubSeq(pending, m + 1, Len(pending)),
         UNCHANGED <<entities, used>>
  PROVE  PendingTypes' /\ PendingChain'
<1>0. Len(pending) \in Nat /\ DOMAIN pending = 1 .. Len(pending)
  BY SeqIsFunction DEF PendingTypes
<1> PICK n : n = Len(pending)
  BY <1>0
<1>1. n \in Nat /\ DOMAIN pending = 1 .. n
  BY <1>0
<1> DEFINE S == ToSet(pending)
<1>2. \A i \in m + 1 .. n : pending[i] \in S
  BY <1>1 DEF ToSet
<1> HIDE DEF S
<1>3. /\ pending' \in Seq(S)
      /\ Len(pending') = n - m
      /\ \A i \in 1 .. n - m : pending'[i] = pending[m + i]
  <2>1. /\ pending' \in Seq(S)
        /\ Len(pending') = IF m + 1 <= n THEN n - (m + 1) + 1 ELSE 0
        /\ \A i \in 1 .. n - (m + 1) + 1 : pending'[i] = pending[(m + 1) + i - 1]
    BY <1>1, <1>2, SubSeqProperties
  <2>2. \A i \in 1 .. n - m : (m + 1) + i - 1 = m + i /\ i \in 1 .. n - (m + 1) + 1
    BY <1>1
  <2>3. Len(pending') = n - m
    BY <1>1, <2>1
  <2>4. \A i \in 1 .. n - m : pending'[i] = pending[m + i]
    BY <2>1, <2>2
  <2> QED BY <2>1, <2>3, <2>4
<1>4. DOMAIN pending' = 1 .. n - m /\ n - m \in Nat
  BY <1>1, <1>3, LenProperties
<1>5. IsSeq(pending')
  <2>1. pending' = [i \in 1 .. n - m |-> pending'[i]]
    BY <1>3, <1>4, LenProperties
  <2> QED BY <1>4, <2>1, FunctionIsSeq
<1>6. \A i \in 1 .. n - m : m + i \in 1 .. n
  BY <1>1
<1>7. PendingTypes'
  BY <1>1, <1>3, <1>4, <1>5, <1>6 DEF PendingTypes
<1>8. ASSUME NEW k \in 1 .. n - m, pending'[k].entityId \in DOMAIN entities
      PROVE  /\ \A j \in 1 .. k - 1 :
                  NextAfter(pending', j, k) => pending'[k].fromVersion = pending'[j].toVersion
             /\ LastForEntity(pending', k) =>
                  pending'[k].toVersion = entities[pending'[k].entityId].version
  <2>1. m + k \in DOMAIN pending /\ pending'[k] = pending[m + k]
    BY <1>1, <1>3, <1>6
  <2>2. ASSUME NEW j \in 1 .. k - 1, NextAfter(pending', j, k)
        PROVE  pending'[k].fromVersion = pending'[j].toVersion
    <3>0. j \in Int /\ 1 <= j /\ j <= k - 1 /\ k \in Int /\ 1 <= k /\ k <= n - m
      OBVIOUS
    <3>1. j \in 1 .. n - m /\ m + j \in 1 .. (m + k) - 1 /\ pending'[j] = pending[m + j]
      <4>1. j \in 1 .. n - m /\ m + j \in 1 .. (m + k) - 1
        BY <1>1, <3>0
      <4> QED BY <1>3, <4>1
    <3>2. ASSUME NEW l \in (m + j) + 1 .. (m + k) - 1
          PROVE  pending[l].entityId # pending[m + k].entityId
      <4>1. l - m \in j + 1 .. k - 1 /\ l - m \in 1 .. n - m /\ m + (l - m) = l
        BY <1>1, <3>0
      <4>2. pending'[l - m] = pending[l]
        BY <1>3, <4>1
      <4> QED BY <2>1, <2>2, <4>1, <4>2 DEF NextAfter
    <3>3. NextAfter(pending, m + j, m + k)
      BY <2>1, <2>2, <3>1, <3>2 DEF NextAfter
    <3> QED BY <1>8, <2>1, <3>1, <3>3 DEF PendingChain
  <2>3. ASSUME LastForEntity(pending', k)
        PROVE  pending'[k].toVersion = entities[pending'[k].entityId].version
    <3>1. ASSUME NEW l \in (m + k) + 1 .. n
          PROVE  pending[l].entityId # pending[m + k].entityId
      <4>1. l - m \in k + 1 .. n - m /\ l - m \in 1 .. n - m /\ m + (l - m) = l
        BY <1>1, <1>4
      <4>2. pending'[l - m] = pending[l]
        BY <1>3, <4>1
      <4> QED BY <1>3, <2>1, <2>3, <4>1, <4>2 DEF LastForEntity
    <3>2. LastForEntity(pending, m + k)
      BY <3>1 DEF LastForEntity
    <3> QED BY <1>8, <2>1, <3>2 DEF PendingChain
  <2> QED BY <2>2, <2>3
<1> QED BY <1>4, <1>7, <1>8 DEF PendingChain

(* A creation takes an id that never waited in the queue, a deletion ends  *)
(* a chain: the queue itself is left alone.                                *)
LEMMA SameQueueKeepsChain ==
  ASSUME PendingTypes, PendingChain, UNCHANGED pending, used \subseteq used',
         \A x \in DOMAIN entities' :
           x \in used => x \in DOMAIN entities /\ entities'[x] = entities[x]
  PROVE  PendingTypes' /\ PendingChain'
BY DEF PendingTypes, PendingChain

-----------------------------------------------------------------------------
(* An update, by a client or by a batch: the store and the queue together. *)
LEMMA ChangeKeepsSync ==
  ASSUME SyncInv, NEW id, NEW ops, NEW data, Write(id, ops, data), QueueDelta(id),
         DOMAIN intended' = DOMAIN intended
  PROVE  SyncInv'
<1> USE DEF SyncInv
<1>1. /\ StoreTypes' /\ HistoryChain' /\ EntityVersionBounded' /\ CacheCoherent'
      /\ id \in DOMAIN entities
      /\ DOMAIN entities' = DOMAIN entities
      /\ entities'[id].version = entities[id].version + 1
      /\ \A x \in DOMAIN entities \ {id} : entities'[x] = entities[x]
      /\ Last(history'[id]).entityId = id
      /\ Last(history'[id]).fromVersion = entities[id].version
      /\ Last(history'[id]).toVersion = entities[id].version + 1
  <2> HIDE DEF SyncInv
  <2>1. StoreTypes /\ HistoryChain /\ EntityVersionBounded
    BY DEF SyncInv
  <2> QED BY <2>1, WriteKeepsStore
<1>2. PICK d : d = Last(history'[id])
  OBVIOUS
<1>3. pending' = Append(pending, d) /\ UNCHANGED used /\ id \in used
  BY <1>1, <1>2 DEF QueueDelta, Write, StoreTypes
<1>4. PendingTypes' /\ PendingChain'
  <2>1. PendingTypes /\ PendingChain
    OBVIOUS
  <2>2. /\ d.entityId = id
        /\ d.fromVersion = entities[id].version
        /\ d.toVersion = entities'[id].version
    BY <1>1, <1>2
  <2> HIDE DEF SyncInv
  <2> QED BY <1>1, <1>3, <2>1, <2>2, QueueKeepsChain
<1> QED BY <1>1, <1>4 DEF LiveAsIntended

(* Nothing is queued at first. *)
LEMMA SyncInitInv == SyncInit => SyncInv
<1> SUFFICES ASSUME SyncInit PROVE SyncInv
  OBVIOUS
<1> USE DEF SyncInit, Init
<1>1. StoreTypes /\ HistoryChain /\ EntityVersionBounded /\ CacheCoherent
  BY DEF StoreTypes, HistoryChain, EntityVersionBounded, CacheCoherent
<1>2. PendingTypes /\ PendingChain
  <2>1. IsSeq(<<>>) /\ DOMAIN <<>> = {}
    BY DEF IsSeq, ToSet
  <2> QED BY <2>1 DEF PendingTypes, PendingChain
<1> QED BY <1>1, <1>2 DEF SyncInv, LiveAsIntended

(* A creation takes an id that no delta carries. *)
LEMMA CreateKeepsSync ==
  ASSUME SyncInv, NEW id \in EntityIds, NEW data \in InitialData, ClientCreate(id, data)
  PROVE  SyncInv'
<1> USE DEF SyncInv
<1>1. /\ id \notin used /\ id \notin DOMAIN entities /\ used' = used \cup {id}
      /\ version' = version + 1 /\ cache' = NoSnapshot /\ UNCHANGED <<history, pending>>
  BY DEF ClientCreate, CreateEntity, StoreTypes
<1>2. /\ DOMAIN entities' = DOMAIN entities \cup {id}
      /\ entities'[id].version = 1
      /\ \A x \in DOMAIN entities : entities'[x] = entities[x]
  BY <1>1 DEF ClientCreate, CreateEntity, MapPut
<1>3. StoreTypes' /\ CacheCoherent'
  <2>1. \A x \in DOMAIN entities' : entities'[x].version \in Nat
    BY <1>2 DEF StoreTypes
  <2> QED BY <1>1, <1>2, <2>1 DEF StoreTypes, CacheCoherent
<1>4. HistoryChain'
  BY <1>1, <1>2 DEF HistoryChain, StoreTypes
<1>5. EntityVersionBounded'
  BY <1>1, <1>2 DEF EntityVersionBounded, StoreTypes
<1>6. PendingTypes' /\ PendingChain'
  <2>1. \A x \in DOMAIN entities' :
          x \in used => x \in DOMAIN entities /\ entities'[x] = entities[x]
    BY <1>1, <1>2
  <2> QED BY <1>1, <2>1, SameQueueKeepsChain
<1>7. LiveAsIntended'
  BY <1>2 DEF LiveAsIntended, ClientCreate, MapPut
<1> QED BY <1>3, <1>4, <1>5, <1>6, <1>7

(* A deletion leaves the deltas of the entity queued. *)
LEMMA DeleteKeepsSync ==
  ASSUME SyncInv, NEW id \in EntityIds, ClientDelete(id)
  PROVE  SyncInv'
<1> USE DEF SyncInv
<1>1. /\ version' = version + 1 /\ cache' = NoSnapshot /\ UNCHANGED <<used, pending>>
      /\ DOMAIN entities' = DOMAIN entities \ {id}
      /\ \A x \in DOMAIN entities' : entities'[x] = entities[x]
      /\ DOMAIN history' = DOMAIN history \ {id}
      /\ \A x \in DOMAIN history' : history'[x] = history[x]
  BY DEF ClientDelete, DeleteEntity, MapRemove
<1>2. StoreTypes' /\ CacheCoherent'
  BY <1>1 DEF StoreTypes, CacheCoherent
<1>3. HistoryChain'
  <2> SUFFICES ASSUME NEW x \in DOMAIN history' PROVE ChainTo(history'[x], entities'[x].version)
    BY DEF HistoryChain, ChainTo
  <2>1. /\ x \in DOMAIN history /\ x \in DOMAIN entities'
        /\ history'[x] = history[x] /\ entities'[x] = entities[x]
    BY <1>1 DEF StoreTypes
  <2>2. ChainTo(history[x], entities[x].version)
    BY <2>1 DEF HistoryChain, ChainTo
  <2> QED BY <2>1, <2>2
<1>4. EntityVersionBounded'
  BY <1>1 DEF EntityVersionBounded, StoreTypes
<1>5. PendingTypes' /\ PendingChain'
  BY <1>1, SameQueueKeepsChain
<1>6. LiveAsIntended'
  BY <1>1 DEF LiveAsIntended, ClientDelete, MapRemove
<1> QED BY <1>2, <1>3, <1>4, <1>5, <1>6

(* The smaller of two numbers. *)
LEMMA MinOfTwo ==
  ASSUME NEW a \in Nat, NEW b \in Nat
  PROVE  Min({a, b}) \in Nat /\ Min({a, b}) <= a /\ Min({a, b}) <= b
<1>1. \E x \in {a, b} : \A y \in {a, b} : x <= y
  OBVIOUS
<1>2. Min({a, b}) \in {a, b} /\ \A y \in {a, b} : Min({a, b}) <= y
  BY <1>1 DEF Min
<1> QED BY <1>2

(* flushDeltas takes at most batchSize deltas. *)
LEMMA FlushKeepsSync == ASSUME SyncInv, FlushDeltas PROVE SyncInv'
<1> USE DEF SyncInv
<1> DEFINE n == Min({BatchSize, Len(pending)})
<1>1. /\ UNCHANGED <<entities, history, version, cache, used, intended>>
      /\ pending' = SubSeq(pending, n + 1, Len(pending))
  BY DEF FlushDeltas, smVars
<1>2. Len(pending) \in Nat
  BY SeqIsFunction DEF PendingTypes
<1>3. n \in Nat /\ n <= Len(pending)
  <2>1. \A l \in Nat : Min({BatchSize, l}) \in Nat /\ Min({BatchSize, l}) <= l
    BY BatchSizeAssumption, MinOfTwo
  <2> QED BY <1>2, <2>1, Zenon
<1> HIDE DEF n
<1>4. PendingTypes' /\ PendingChain'
  BY <1>1, <1>3, SuffixKeepsChain
<1> QED BY <1>1, <1>4
     DEF StoreTypes, HistoryChain, EntityVersionBounded, CacheCoherent, LiveAsIntended

(* Steps that leave the entities and the queue alone. *)
LEMMA StillKeepsSync ==
  ASSUME SyncInv, UNCHANGED <<entities, version, used, pending, intended>>,
         UNCHANGED history \/ history' = [x \in {} |-> <<>>],
         UNCHANGED cache \/ cache' = NoSnapshot \/ cache' = Cached(CurrentSnapshot)
  PROVE  SyncInv'
<1> USE DEF SyncInv
<1>1. CurrentSnapshot = Snapshot(version, entities)
  BY DEF CurrentSnapshot, CacheCoherent
<1>2. CacheCoherent'
  BY <1>1 DEF CacheCoherent, Cached
<1>3. StoreTypes' /\ HistoryChain' /\ EntityVersionBounded'
  BY DEF StoreTypes, HistoryChain, EntityVersionBounded
<1>4. PendingTypes' /\ PendingChain' /\ LiveAsIntended'
  BY DEF PendingTypes, PendingChain, LiveAsIntended
<1> QED BY <1>2, <1>3, <1>4

(* One round of handleRemoteDelta: nothing, or an update like a client's.  *)
LEMMA HandleKeepsSync == ASSUME SyncInv, HandleRemoteDelta PROVE SyncInv'
<1> DEFINE delta == Head(inbox)
           id    == delta.entityId
<1>1. intended' = intended
  BY DEF HandleRemoteDelta, ghosts
<1>2. CASE IgnoreDelta(delta)
  BY <1>1, <1>2, StillKeepsSync DEF IgnoreDelta, smVars
<1>3. CASE ApplyDelta(delta)
  BY <1>1, <1>3, ChangeKeepsSync DEF ApplyDelta, UpdateEntity
<1>4. CASE ApplyResolved(delta)
  BY <1>1, <1>4, ChangeKeepsSync DEF ApplyResolved
<1> QED BY <1>2, <1>3, <1>4 DEF HandleRemoteDelta

(* requestFullSync: the snapshot it loads is the present state. *)
LEMMA FullSyncKeepsSync == ASSUME SyncInv, RequestFullSync PROVE SyncInv'
<1>1. UNCHANGED <<pending, intended>>
  BY DEF RequestFullSync, ghosts
<1>2. CASE UNCHANGED smVars
  BY <1>1, <1>2, StillKeepsSync DEF smVars
<1>3. CASE LoadSnapshot(CurrentSnapshot)
  <2>1. CurrentSnapshot = Snapshot(version, entities)
    BY DEF CurrentSnapshot, SyncInv, CacheCoherent
  <2>2. /\ UNCHANGED <<entities, version, used>>
        /\ history' = [x \in {} |-> <<>>] /\ cache' = NoSnapshot
    BY <1>3, <2>1 DEF LoadSnapshot, Snapshot
  <2> QED BY <1>1, <2>2, StillKeepsSync
<1> QED BY <1>2, <1>3 DEF RequestFullSync

(* Every step of the synchronizer keeps the invariant. *)
LEMMA SyncNextInv == SyncInv /\ [SyncNext]_syncVars => SyncInv'
<1> SUFFICES ASSUME SyncInv, [SyncNext]_syncVars PROVE SyncInv'
  OBVIOUS
<1>1. ASSUME NEW id \in EntityIds, NEW data \in InitialData, ClientCreate(id, data)
      PROVE  SyncInv'
  BY <1>1, CreateKeepsSync
<1>2. ASSUME NEW id \in EntityIds, NEW ops \in OpLists, ClientUpdate(id, ops)
      PROVE  SyncInv'
  <2>1. DOMAIN intended' = DOMAIN intended
    BY <1>2 DEF ClientUpdate
  <2> QED BY <1>2, <2>1, ChangeKeepsSync DEF ClientUpdate, UpdateEntity
<1>3. ASSUME NEW id \in EntityIds, ClientDelete(id) PROVE SyncInv'
  BY <1>3, DeleteKeepsSync
<1>4. ASSUME ClientSnapshot PROVE SyncInv'
  BY <1>4, StillKeepsSync DEF ClientSnapshot, CreateSnapshot, ghosts
<1>5. ASSUME PassTime PROVE SyncInv'
  BY <1>5, StillKeepsSync DEF PassTime, Tick, ghosts
<1>6. ASSUME FlushDeltas PROVE SyncInv'
  BY <1>6, FlushKeepsSync
<1>7. ASSUME HandleRemoteDelta PROVE SyncInv'
  BY <1>7, HandleKeepsSync
<1>8. ASSUME RequestFullSync PROVE SyncInv'
  BY <1>8, FullSyncKeepsSync
<1>9. ASSUME UNCHANGED syncVars PROVE SyncInv'
  BY <1>9, StillKeepsSync DEF syncVars, smVars, ghosts
<1> QED
  BY <1>1, <1>2, <1>3, <1>4, <1>5, <1>6, <1>7, <1>8, <1>9 DEF SyncNext

-----------------------------------------------------------------------------
(* The inductive invariant of the synchronizer holds in every reachable    *)
(* state.                                                                  *)
THEOREM SyncInvariance == SyncSpec => []SyncInv
  BY SyncInitInv, SyncNextInv, PTL DEF SyncSpec

(* However flushes, deletions, conflicts and re-applied batches            *)
(* interleave, the deltas that wait in pendingDeltas for a live entity are *)
(* an unbroken chain up to its present version.                            *)
THEOREM PendingIsChain == SyncSpec => []PendingChain
<1>1. SyncInv => PendingChain
  BY DEF SyncInv
<1> QED BY <1>1, SyncInvariance, PTL

(* handleRemoteDelta takes the last retained delta for the local change:   *)
(* with its own re-applied batches too, that delta ends at the entity's    *)
(* present version.                                                        *)
THEOREM HistoryChainsKept == SyncSpec => []HistoryChain
<1>1. SyncInv => HistoryChain
  BY DEF SyncInv
<1> QED BY <1>1, SyncInvariance, PTL

(* Handling a batch, late as it may be, brings back no entity a client has *)
(* deleted since and loses none that a client created.                     *)
THEOREM LiveEntitiesIntended == SyncSpec => [](DOMAIN entities = DOMAIN intended)
<1>1. SyncInv => DOMAIN entities = DOMAIN intended
  BY DEF SyncInv, LiveAsIntended
<1> QED BY <1>1, SyncInvariance, PTL
-----------------------------------------------------------------------------
(* What a batch does to the data of an entity, compressed or not.           *)
Joined(s, d) == s \o d.operations

(* Collecting the deltas of one entity, delta by delta; the collection exists
   and is the value of DeltasOf. *)
DeltasOfRun(deltas, e, n, f) ==
  /\ f[0] = <<>>
  /\ \A i \in 1 .. n : f[i] = IF deltas[i].entityId = e THEN Append(f[i - 1], deltas[i]) ELSE f[i - 1]

(* Such a collection exists, and any is the one DeltasOf defines.          *)
LEMMA DeltasOfRuns ==
  ASSUME NEW deltas, NEW e, NEW n \in Nat, n = Len(deltas)
  PROVE  /\ \E f : DeltasOfRun(deltas, e, n, f)
         /\ \A f : DeltasOfRun(deltas, e, n, f) => DeltasOf(deltas, e) = f[n]
<1> DEFINE T == {k \in 0 .. n : \E f : DeltasOfRun(deltas, e, k, f)}
<1>1. 0 \in T
  <2> DEFINE f == [i \in 0 .. 0 |-> <<>>]
  <2>1. f[0] = <<>>
    OBVIOUS
  <2> HIDE DEF f
  <2>2. DeltasOfRun(deltas, e, 0, f)
    BY <2>1 DEF DeltasOfRun
  <2> QED BY <2>2
<1>2. ASSUME NEW k \in 0 .. n - 1, k \in T PROVE k + 1 \in T
  <2>1. PICK f : DeltasOfRun(deltas, e, k, f)
    BY <1>2
  <2> DEFINE next == IF deltas[k + 1].entityId = e THEN Append(f[k], deltas[k + 1]) ELSE f[k]
             g == [i \in 0 .. k + 1 |-> IF i <= k THEN f[i] ELSE next]
  <2>2. /\ g[k + 1] = next /\ g[k] = f[k] /\ g[0] = f[0]
        /\ \A i \in 1 .. k : g[i] = f[i] /\ g[i - 1] = f[i - 1]
    OBVIOUS
  <2> HIDE DEF g
  <2>3. ASSUME NEW i \in 1 .. k + 1 PROVE g[i] = IF deltas[i].entityId = e THEN Append(g[i - 1], deltas[i]) ELSE g[i - 1]
    <3>1. CASE i = k + 1
      <4>1. i - 1 = k
        BY <3>1
      <4> QED BY <2>2, <3>1, <4>1
    <3>2. CASE i \in 1 .. k
      BY <2>1, <2>2, <3>2 DEF DeltasOfRun
    <3> QED BY <3>1, <3>2
  <2>4. DeltasOfRun(deltas, e, k + 1, g)
    BY <2>1, <2>2, <2>3 DEF DeltasOfRun
  <2> QED BY <2>4
<1> HIDE DEF T
<1>3. PICK f : DeltasOfRun(deltas, e, n, f)
  <2>1. n \in T
    BY <1>1, <1>2, Reached, Zenon
  <2> QED BY <2>1 DEF T
<1> DEFINE h == [i \in 0 .. n |-> f[i]]
           C == CHOOSE g : g = [i \in 0 .. n |-> IF i = 0 THEN <<>> ELSE IF deltas[i].entityId = e THEN Append(g[i - 1], deltas[i]) ELSE g[i - 1]]
<1>4. h = [i \in 0 .. n |-> IF i = 0 THEN <<>> ELSE IF deltas[i].entityId = e THEN Append(h[i - 1], deltas[i]) ELSE h[i - 1]]
  <2>1. \A i \in 0 .. n : h[i] = IF i = 0 THEN <<>> ELSE IF deltas[i].entityId = e THEN Append(h[i - 1], deltas[i]) ELSE h[i - 1]
    <3>1. h[0] = f[0] /\ \A i \in 1 .. n : h[i] = f[i] /\ h[i - 1] = f[i - 1]
      OBVIOUS
    <3> HIDE DEF h
    <3> QED BY <1>3, <3>1 DEF DeltasOfRun
  <2>2. h = [i \in 0 .. n |-> h[i]]
    OBVIOUS
  <2> HIDE DEF h
  <2> QED BY <2>1, <2>2
<1> HIDE DEF h
<1>5. C = [i \in 0 .. n |-> IF i = 0 THEN <<>> ELSE IF deltas[i].entityId = e THEN Append(C[i - 1], deltas[i]) ELSE C[i - 1]]
  BY <1>4, Zenon
<1>6. DeltasOf(deltas, e) = C[n]
  BY DEF DeltasOf
<1> HIDE DEF C
<1>7. DeltasOfRun(deltas, e, n, C)
  <2>1. \A i \in 0 .. n : C[i] = IF i = 0 THEN <<>> ELSE IF deltas[i].entityId = e THEN Append(C[i - 1], deltas[i]) ELSE C[i - 1]
    BY <1>5
  <2>2. C[0] = <<>> /\ \A i \in 1 .. n : C[i] = IF deltas[i].entityId = e THEN Append(C[i - 1], deltas[i]) ELSE C[i - 1]
    BY <2>1
  <2> QED BY <2>2 DEF DeltasOfRun
<1>8. ASSUME NEW g, DeltasOfRun(deltas, e, n, g) PROVE g[n] = C[n]
  <2> DEFINE U == {i \in 0 .. n : g[i] = C[i]}
  <2>1. 0 \in U
    BY <1>7, <1>8 DEF DeltasOfRun
  <2>2. ASSUME NEW i \in 0 .. n - 1, i \in U PROVE i + 1 \in U
    <3>1. i + 1 \in 1 .. n /\ (i + 1) - 1 = i /\ g[i] = C[i]
      BY <2>2
    <3> QED BY <1>7, <1>8, <3>1 DEF DeltasOfRun
  <2> HIDE DEF U
  <2>3. n \in U
    BY <2>1, <2>2, Reached, Zenon
  <2> QED BY <2>3 DEF U
<1> QED BY <1>3, <1>6, <1>8

(* Joining the operations of a list of deltas, delta by delta. *)
OperationsOfRun(deltas, n, f) ==
  /\ f[0] = <<>>
  /\ \A i \in 1 .. n : f[i] = Joined(f[i - 1], deltas[i])

(* Such a concatenation exists, and any is the one OperationsOf defines.   *)
LEMMA OperationsOfRuns ==
  ASSUME NEW deltas, NEW n \in Nat, n = Len(deltas)
  PROVE  /\ \E f : OperationsOfRun(deltas, n, f)
         /\ \A f : OperationsOfRun(deltas, n, f) => OperationsOf(deltas) = f[n]
<1> DEFINE T == {k \in 0 .. n : \E f : OperationsOfRun(deltas, k, f)}
<1>1. 0 \in T
  <2> DEFINE f == [i \in 0 .. 0 |-> <<>>]
  <2>1. f[0] = <<>>
    OBVIOUS
  <2> HIDE DEF f
  <2>2. OperationsOfRun(deltas, 0, f)
    BY <2>1 DEF OperationsOfRun
  <2> QED BY <2>2
<1>2. ASSUME NEW k \in 0 .. n - 1, k \in T PROVE k + 1 \in T
  <2>1. PICK f : OperationsOfRun(deltas, k, f)
    BY <1>2
  <2> DEFINE next == Joined(f[k], deltas[k + 1])
             g == [i \in 0 .. k + 1 |-> IF i <= k THEN f[i] ELSE next]
  <2>2. /\ g[k + 1] = next /\ g[k] = f[k] /\ g[0] = f[0]
        /\ \A i \in 1 .. k : g[i] = f[i] /\ g[i - 1] = f[i - 1]
    OBVIOUS
  <2> HIDE DEF g
  <2>3. ASSUME NEW i \in 1 .. k + 1 PROVE g[i] = Joined(g[i - 1], deltas[i])
    <3>1. CASE i = k + 1
      <4>1. i - 1 = k
        BY <3>1
      <4> QED BY <2>2, <3>1, <4>1
    <3>2. CASE i \in 1 .. k
      BY <2>1, <2>2, <3>2 DEF OperationsOfRun
    <3> QED BY <3>1, <3>2
  <2>4. OperationsOfRun(deltas, k + 1, g)
    BY <2>1, <2>2, <2>3 DEF OperationsOfRun
  <2> QED BY <2>4
<1> HIDE DEF T
<1>3. PICK f : OperationsOfRun(deltas, n, f)
  <2>1. n \in T
    BY <1>1, <1>2, Reached, Zenon
  <2> QED BY <2>1 DEF T
<1> DEFINE h == [i \in 0 .. n |-> f[i]]
           C == CHOOSE g : g = [i \in 0 .. n |-> IF i = 0 THEN <<>> ELSE Joined(g[i - 1], deltas[i])]
<1>4. h = [i \in 0 .. n |-> IF i = 0 THEN <<>> ELSE Joined(h[i - 1], deltas[i])]
  <2>1. \A i \in 0 .. n : h[i] = IF i = 0 THEN <<>> ELSE Joined(h[i - 1], deltas[i])
    <3>1. h[0] = f[0] /\ \A i \in 1 .. n : h[i] = f[i] /\ h[i - 1] = f[i - 1]
      OBVIOUS
    <3> HIDE DEF h
    <3> QED BY <1>3, <3>1 DEF OperationsOfRun
  <2>2. h = [i \in 0 .. n |-> h[i]]
    OBVIOUS
  <2> HIDE DEF h
  <2> QED BY <2>1, <2>2, Zenon
<1> HIDE DEF h
<1>5. C = [i \in 0 .. n |-> IF i = 0 THEN <<>> ELSE Joined(C[i - 1], deltas[i])]
  BY <1>4, Zenon
<1>6. OperationsOf(deltas) = C[n]
  BY DEF OperationsOf, Joined
<1> HIDE DEF C
<1>7. OperationsOfRun(deltas, n, C)
  <2>1. \A i \in 0 .. n : C[i] = IF i = 0 THEN <<>> ELSE Joined(C[i - 1], deltas[i])
    BY <1>5
  <2>2. C[0] = <<>> /\ \A i \in 1 .. n : C[i] = Joined(C[i - 1], deltas[i])
    BY <2>1
  <2> QED BY <2>2 DEF OperationsOfRun
<1>8. ASSUME NEW g, OperationsOfRun(deltas, n, g) PROVE g[n] = C[n]
  <2> DEFINE U == {i \in 0 .. n : g[i] = C[i]}
  <2>1. 0 \in U
    BY <1>7, <1>8 DEF OperationsOfRun
  <2>2. ASSUME NEW i \in 0 .. n - 1, i \in U PROVE i + 1 \in U
    <3>1. i + 1 \in 1 .. n /\ (i + 1) - 1 = i /\ g[i] = C[i]
      BY <2>2
    <3> QED BY <1>7, <1>8, <3>1 DEF OperationsOfRun
  <2> HIDE DEF U
  <2>3. n \in U
    BY <2>1, <2>2, Reached, Zenon
  <2> QED BY <2>3 DEF U
<1> QED BY <1>3, <1>6, <1>8

(* One delta more. *)
LEMMA DeltasOfAppend ==
  ASSUME NEW s, IsSeq(s), NEW d, NEW e
  PROVE  DeltasOf(Append(s, d), e) =
           IF d.entityId = e THEN Append(DeltasOf(s, e), d) ELSE DeltasOf(s, e)
<1> PICK n \in Nat : n = Len(s)
  BY SeqIsFunction
<1> PICK m \in Nat : m = n + 1
  OBVIOUS
<1> PICK more : more = Append(s, d)
  OBVIOUS
<1>1. /\ Len(more) = m /\ more[m] = d
      /\ \A i \in 1 .. n : more[i] = s[i]
  BY AppendIsSeq
<1>2. PICK f : DeltasOfRun(more, e, m, f)
  BY <1>1, DeltasOfRuns
<1>3. DeltasOfRun(s, e, n, f)
  BY <1>1, <1>2 DEF DeltasOfRun
<1>4. DeltasOf(more, e) = f[m] /\ DeltasOf(s, e) = f[n]
  <2>0. m = Len(more)
    BY <1>1
  <2>1. DeltasOf(more, e) = f[m]
    BY <2>0, <1>2, DeltasOfRuns, ZenonT(30)
  <2>2. DeltasOf(s, e) = f[n]
    BY <1>3, DeltasOfRuns, Zenon
  <2> QED BY <2>1, <2>2
<1>5. f[m] = IF d.entityId = e THEN Append(f[n], d) ELSE f[n]
  BY <1>1, <1>2 DEF DeltasOfRun
<1> QED BY <1>4, <1>5

(* The operations of one delta more. *)
LEMMA OperationsOfAppend ==
  ASSUME NEW s, IsSeq(s), NEW d
  PROVE  OperationsOf(Append(s, d)) = OperationsOf(s) \o d.operations
<1> PICK n \in Nat : n = Len(s)
  BY SeqIsFunction
<1> PICK m \in Nat : m = n + 1
  OBVIOUS
<1> PICK more : more = Append(s, d)
  OBVIOUS
<1>1. /\ Len(more) = m /\ more[m] = d
      /\ \A i \in 1 .. n : more[i] = s[i]
  BY AppendIsSeq
<1>2. PICK f : OperationsOfRun(more, m, f)
  BY <1>1, OperationsOfRuns
<1>3. OperationsOfRun(s, n, f)
  BY <1>1, <1>2 DEF OperationsOfRun
<1>4. OperationsOf(more) = f[m] /\ OperationsOf(s) = f[n]
  BY <1>1, <1>2, <1>3, OperationsOfRuns
<1>5. f[m] = Joined(f[n], d)
  BY <1>1, <1>2 DEF OperationsOfRun
<1> QED BY <1>4, <1>5 DEF Joined

(* No deltas. *)
LEMMA NoDeltas == ASSUME NEW e PROVE DeltasOf(<<>>, e) = <<>> /\ OperationsOf(<<>>) = <<>>
<1> PICK s : s = <<>>
  OBVIOUS
<1>0. Len(s) = 0
  OBVIOUS
<1>1. PICK f : DeltasOfRun(s, e, 0, f)
  BY <1>0, DeltasOfRuns
<1>2. DeltasOf(s, e) = f[0]
  BY <1>0, <1>1, DeltasOfRuns
<1>3. PICK g : OperationsOfRun(s, 0, g)
  BY <1>0, OperationsOfRuns
<1>4. OperationsOf(s) = g[0]
  BY <1>0, <1>3, OperationsOfRuns
<1> QED BY <1>1, <1>2, <1>3, <1>4 DEF DeltasOfRun, OperationsOfRun

(* The deltas of an entity are a sequence of deltas of the list, all its. *)
LEMMA DeltasOfAre ==
  ASSUME NEW s, IsSeq(s), NEW e
  PROVE  /\ IsSeq(DeltasOf(s, e))
         /\ ToSet(DeltasOf(s, e)) = {d \in ToSet(s) : d.entityId = e}
<1> PICK n \in Nat : n = Len(s)
  BY SeqIsFunction
<1>0. DOMAIN s = 1 .. n
  BY SeqIsFunction
<1>1. PICK f : DeltasOfRun(s, e, n, f)
  BY DeltasOfRuns
<1> DEFINE Seen(k) == {s[i] : i \in {j \in 1 .. k : s[j].entityId = e}}
           T == {k \in 0 .. n : IsSeq(f[k]) /\ ToSet(f[k]) = Seen(k)}
<1>2. 0 \in T
  <2>1. f[0] = <<>>
    BY <1>1 DEF DeltasOfRun
  <2>2. IsSeq(<<>>) /\ ToSet(<<>>) = {}
    BY DEF IsSeq, ToSet
  <2>3. Seen(0) = {}
    OBVIOUS
  <2> QED BY <2>1, <2>2, <2>3
<1>3. ASSUME NEW k \in 0 .. n - 1, k \in T PROVE k + 1 \in T
  <2>1. /\ f[k + 1] = IF s[k + 1].entityId = e THEN Append(f[k], s[k + 1]) ELSE f[k]
        /\ IsSeq(f[k]) /\ ToSet(f[k]) = Seen(k) /\ k + 1 \in 0 .. n
    BY <1>1, <1>3 DEF DeltasOfRun
  <2>2. CASE s[k + 1].entityId = e
    <3>1. IsSeq(Append(f[k], s[k + 1])) /\ ToSet(Append(f[k], s[k + 1])) = ToSet(f[k]) \cup {s[k + 1]}
      BY <2>1, AppendIsSeq
    <3>2. Seen(k + 1) = Seen(k) \cup {s[k + 1]}
      BY <2>2
    <3> QED BY <2>1, <2>2, <3>1, <3>2
  <2>3. CASE s[k + 1].entityId # e
    <3>1. Seen(k + 1) = Seen(k)
      BY <2>3
    <3> QED BY <2>1, <2>3, <3>1
  <2> QED BY <2>2, <2>3
<1>4. Seen(n) = {d \in ToSet(s) : d.entityId = e}
  BY <1>0 DEF ToSet
<1> HIDE DEF T
<1>5. n \in T
  BY <1>2, <1>3, Reached, Zenon
<1>6. DeltasOf(s, e) = f[n]
  BY <1>1, DeltasOfRuns, Zenon
<1> QED BY <1>4, <1>5, <1>6 DEF T

(* One operation more at the end of a list of operations. *)
LEMMA OneMoreOperation ==
  ASSUME NEW ops, IsSeq(ops), AreOperations(ops), NEW op, IsOperation(op)
  PROVE  IsSeq(ops \o <<op>>) /\ AreOperations(ops \o <<op>>)
         /\ ops \o <<op>> = Append(ops, op)
<1>1. ops \o <<op>> = Append(ops, op)
  OBVIOUS
<1>2. /\ IsSeq(Append(ops, op)) /\ Len(Append(ops, op)) = Len(ops) + 1
      /\ \A i \in 1 .. Len(ops) : Append(ops, op)[i] = ops[i]
      /\ Append(ops, op)[Len(ops) + 1] = op
  BY AppendIsSeq
<1>3. ASSUME NEW j \in 1 .. Len(ops) + 1 PROVE IsOperation(Append(ops, op)[j])
  <2>1. j \in 1 .. Len(ops) \/ j = Len(ops) + 1
    BY DEF AreOperations
  <2> QED BY <1>2, <2>1 DEF AreOperations
<1> PICK more : more = Append(ops, op)
  OBVIOUS
<1>4. IsSeq(more) /\ Len(more) = Len(ops) + 1 /\ \A j \in 1 .. Len(ops) + 1 : IsOperation(more[j])
  BY <1>2, <1>3
<1>5. AreOperations(more)
  BY <1>4 DEF AreOperations
<1> QED BY <1>1, <1>4, <1>5
-----------------------------------------------------------------------------
(* Collapsing a list of operations, one by one. *)
CollapseRun(ops, n, f) ==
  /\ f[0] = <<>>
  /\ \A i \in 1 .. n : f[i] = CollapseInto(f[i - 1], ops[i])

(* The operations of the entries, in order. *)
Flat(m) == [i \in DOMAIN m |-> m[i].op]

(* Such a run exists, and any ends in what CollapseOperations returns.     *)
LEMMA CollapseRuns ==
  ASSUME NEW ops, NEW n \in Nat, n = Len(ops)
  PROVE  /\ \E f : CollapseRun(ops, n, f)
         /\ \A f : CollapseRun(ops, n, f) => CollapseOperations(ops) = Flat(f[n])
<1> DEFINE T == {k \in 0 .. n : \E f : CollapseRun(ops, k, f)}
<1>1. 0 \in T
  <2> DEFINE f == [i \in 0 .. 0 |-> <<>>]
  <2>1. f[0] = <<>>
    OBVIOUS
  <2> HIDE DEF f
  <2>2. CollapseRun(ops, 0, f)
    BY <2>1 DEF CollapseRun
  <2> QED BY <2>2
<1>2. ASSUME NEW k \in 0 .. n - 1, k \in T PROVE k + 1 \in T
  <2>1. PICK f : CollapseRun(ops, k, f)
    BY <1>2
  <2> DEFINE next == CollapseInto(f[k], ops[k + 1])
             g == [i \in 0 .. k + 1 |-> IF i <= k THEN f[i] ELSE next]
  <2>2. /\ g[k + 1] = next /\ g[k] = f[k] /\ g[0] = f[0]
        /\ \A i \in 1 .. k : g[i] = f[i] /\ g[i - 1] = f[i - 1]
    OBVIOUS
  <2> HIDE DEF g
  <2>3. ASSUME NEW i \in 1 .. k + 1 PROVE g[i] = CollapseInto(g[i - 1], ops[i])
    <3>1. CASE i = k + 1
      <4>1. i - 1 = k
        BY <3>1
      <4> QED BY <2>2, <3>1, <4>1
    <3>2. CASE i \in 1 .. k
      BY <2>1, <2>2, <3>2 DEF CollapseRun
    <3> QED BY <3>1, <3>2
  <2>4. CollapseRun(ops, k + 1, g)
    BY <2>1, <2>2, <2>3 DEF CollapseRun
  <2> QED BY <2>4
<1> HIDE DEF T
<1>3. PICK f : CollapseRun(ops, n, f)
  <2>1. n \in T
    BY <1>1, <1>2, Reached, Zenon
  <2> QED BY <2>1 DEF T
<1> DEFINE h == [i \in 0 .. n |-> f[i]]
           C == CHOOSE g : g = [i \in 0 .. n |-> IF i = 0 THEN <<>> ELSE CollapseInto(g[i - 1], ops[i])]
<1>4. h = [i \in 0 .. n |-> IF i = 0 THEN <<>> ELSE CollapseInto(h[i - 1], ops[i])]
  <2>1. \A i \in 0 .. n : h[i] = IF i = 0 THEN <<>> ELSE CollapseInto(h[i - 1], ops[i])
    <3>1. h[0] = f[0] /\ \A i \in 1 .. n : h[i] = f[i] /\ h[i - 1] = f[i - 1]
      OBVIOUS
    <3> HIDE DEF h
    <3> QED BY <1>3, <3>1 DEF CollapseRun
  <2>2. h = [i \in 0 .. n |-> h[i]]
    OBVIOUS
  <2> HIDE DEF h
  <2> QED BY <2>1, <2>2
<1> HIDE DEF h
<1>5. C = [i \in 0 .. n |-> IF i = 0 THEN <<>> ELSE CollapseInto(C[i - 1], ops[i])]
  BY <1>4, Zenon
<1>6. CollapseOperations(ops) = Flat(C[n])
  BY DEF CollapseOperations, Flat
<1> HIDE DEF C
<1>7. CollapseRun(ops, n, C)
  <2>1. \A i \in 0 .. n : C[i] = IF i = 0 THEN <<>> ELSE CollapseInto(C[i - 1], ops[i])
    BY <1>5
  <2>2. C[0] = <<>> /\ \A i \in 1 .. n : C[i] = CollapseInto(C[i - 1], ops[i])
    BY <2>1
  <2> QED BY <2>2 DEF CollapseRun
<1>8. ASSUME NEW g, CollapseRun(ops, n, g) PROVE g[n] = C[n]
  <2> DEFINE U == {i \in 0 .. n : g[i] = C[i]}
  <2>1. 0 \in U
    BY <1>7, <1>8 DEF CollapseRun
  <2>2. ASSUME NEW i \in 0 .. n - 1, i \in U PROVE i + 1 \in U
    <3>1. i + 1 \in 1 .. n /\ (i + 1) - 1 = i /\ g[i] = C[i]
      BY <2>2
    <3> QED BY <1>7, <1>8, <3>1 DEF CollapseRun
  <2> HIDE DEF U
  <2>3. n \in U
    BY <2>1, <2>2, Reached, Zenon
  <2> QED BY <2>3 DEF U
<1> QED BY <1>3, <1>6, <1>8

(* Two paths of which neither is the other or below it. *)
Apart(p, s) == ~Under(p, s) /\ ~Under(s, p)

(* What two operations on paths apart leave does not depend on their order. *)
LEMMA LeavesCommute ==
  ASSUME NEW d, NEW p, NEW s, IsData(d), IsPath(p), IsPath(s), Apart(p, s),
         NEW y, NEW ky \in BOOLEAN, NEW z, NEW kz \in BOOLEAN,
         NEW r1, NEW r12, NEW r2, NEW r21,
         Leaves(d, p, y, ky, r1), Leaves(r1, s, z, kz, r12),
         Leaves(d, s, z, kz, r2), Leaves(r2, p, y, ky, r21)
  PROVE  r12 = r21
<1>1. IsData(r12) /\ IsData(r21)
  BY DEF Leaves
<1>2. /\ \A q \in Ancestors(p) : ~Under(p, q) /\ q # p /\ Under(q, p) /\ IsPath(q)
      /\ \A q \in Ancestors(s) : ~Under(s, q) /\ q # s /\ Under(q, s) /\ IsPath(q)
  BY AncestorIs DEF Under
<1>3. ASSUME NEW q, IsPath(q) PROVE At(r12, q) = At(r21, q)
  <2>1. Walked(Walked(At(d, q))) = Walked(At(d, q))
    BY WalkedIs
  <2>2. ~(Under(p, q) /\ Under(s, q))
    BY <1>3, OneLine DEF Apart
  <2>3. ~(q \in Ancestors(s) /\ Under(p, q)) /\ ~(q \in Ancestors(p) /\ Under(s, q))
    BY <1>2, <1>3, UnderUnder DEF Apart
  <2>4. Under(p, p) /\ Under(s, s)
    BY DEF Under
  <2>5. At(r1, q) = IF q \in Ancestors(p) THEN Walked(At(d, q))
                    ELSE IF q = p THEN y
                    ELSE IF Under(p, q) /\ ~ky THEN {} ELSE At(d, q)
    BY DEF Leaves
  <2>6. At(r2, q) = IF q \in Ancestors(s) THEN Walked(At(d, q))
                    ELSE IF q = s THEN z
                    ELSE IF Under(s, q) /\ ~kz THEN {} ELSE At(d, q)
    BY DEF Leaves
  <2>7. At(r12, q) = IF q \in Ancestors(s) THEN Walked(At(r1, q))
                     ELSE IF q = s THEN z
                     ELSE IF Under(s, q) /\ ~kz THEN {} ELSE At(r1, q)
    BY DEF Leaves
  <2>8. At(r21, q) = IF q \in Ancestors(p) THEN Walked(At(r2, q))
                     ELSE IF q = p THEN y
                     ELSE IF Under(p, q) /\ ~ky THEN {} ELSE At(r2, q)
    BY DEF Leaves
  <2>9. CASE Under(p, q)
    <3>1. ~Under(s, q) /\ q # s /\ q \notin Ancestors(s)
      BY <2>2, <2>3, <2>4, <2>9
    <3>2. q \notin Ancestors(p)
      BY <1>2, <2>9
    <3> QED BY <2>5, <2>6, <2>7, <2>8, <3>1, <3>2
  <2>10. CASE Under(s, q)
    <3>1. ~Under(p, q) /\ q # p /\ q \notin Ancestors(p)
      BY <2>2, <2>3, <2>4, <2>10
    <3>2. q \notin Ancestors(s)
      BY <1>2, <2>10
    <3> QED BY <2>5, <2>6, <2>7, <2>8, <3>1, <3>2
  <2>11. CASE ~Under(p, q) /\ ~Under(s, q)
    <3>1. q # p /\ q # s
      BY <2>4, <2>11
    <3> QED BY <2>1, <2>5, <2>6, <2>7, <2>8, <2>11, <3>1
  <2> QED BY <2>9, <2>10, <2>11
<1> QED BY <1>1, <1>3, SameData

(* Operations on paths apart may be applied in either order. *)
LEMMA OperationsCommute ==
  ASSUME NEW d, IsData(d), NEW a, NEW b, IsOperation(a), IsOperation(b), Apart(a.path, b.path)
  PROVE  ApplyOperation(ApplyOperation(d, a), b) = ApplyOperation(ApplyOperation(d, b), a)
<1> PICK p, s : p = a.path /\ s = b.path
  OBVIOUS
<1> PICK r1, r2 : r1 = ApplyOperation(d, a) /\ r2 = ApplyOperation(d, b)
  OBVIOUS
<1> PICK y, z : y = Effect(a, At(d, p)) /\ z = Effect(b, At(d, s))
  OBVIOUS
<1> PICK ky \in BOOLEAN, kz \in BOOLEAN : ky = Keeps(a, At(d, p)) /\ kz = Keeps(b, At(d, s))
  BY DEF Keeps
<1>1. IsPath(p) /\ IsPath(s)
  BY DEF IsOperation
<1>2. Leaves(d, p, y, ky, r1) /\ Leaves(d, s, z, kz, r2)
  BY OperationAt
<1>3. IsData(r1) /\ IsData(r2)
  BY <1>2 DEF Leaves
<1>4. At(r1, s) = At(d, s) /\ At(r2, p) = At(d, p)
  <2>1. /\ s \notin Ancestors(p) /\ s # p /\ ~Under(p, s)
        /\ p \notin Ancestors(s) /\ p # s /\ ~Under(s, p)
    BY <1>1, AncestorIs DEF Apart, Under
  <2> QED BY <1>2, <2>1 DEF Leaves
<1>5. Leaves(r1, s, z, kz, ApplyOperation(r1, b))
  BY <1>3, <1>4, OperationAt
<1>6. Leaves(r2, p, y, ky, ApplyOperation(r2, a))
  BY <1>3, <1>4, OperationAt
<1> QED BY <1>1, <1>2, <1>5, <1>6, LeavesCommute

(* What an operation leaves that keeps nothing below its path does not     *)
(* depend on an operation on the path before it.                           *)
LEMMA LeavesAbsorb ==
  ASSUME NEW d, NEW p, IsData(d), IsPath(p), NEW x, NEW kx \in BOOLEAN, NEW y,
         NEW ky \in BOOLEAN, NEW kz \in BOOLEAN, ~ky, ~kz, NEW r1, NEW r2, NEW r3,
         Leaves(d, p, x, kx, r1), Leaves(r1, p, y, ky, r2), Leaves(d, p, y, kz, r3)
  PROVE  r2 = r3
<1>1. IsData(r2) /\ IsData(r3)
  BY DEF Leaves
<1>2. ASSUME NEW q, IsPath(q) PROVE At(r2, q) = At(r3, q)
  <2>1. Walked(Walked(At(d, q))) = Walked(At(d, q))
    BY WalkedIs
  <2>2. At(r1, q) = IF q \in Ancestors(p) THEN Walked(At(d, q))
                    ELSE IF q = p THEN x
                    ELSE IF Under(p, q) /\ ~kx THEN {} ELSE At(d, q)
    BY DEF Leaves
  <2>3. At(r2, q) = IF q \in Ancestors(p) THEN Walked(At(r1, q))
                    ELSE IF q = p THEN y
                    ELSE IF Under(p, q) /\ ~ky THEN {} ELSE At(r1, q)
    BY DEF Leaves
  <2>4. At(r3, q) = IF q \in Ancestors(p) THEN Walked(At(d, q))
                    ELSE IF q = p THEN y
                    ELSE IF Under(p, q) /\ ~kz THEN {} ELSE At(d, q)
    BY DEF Leaves
  <2> QED BY <2>1, <2>2, <2>3, <2>4
<1> QED BY <1>1, <1>2, SameData

(* A set, delete or increment after an operation on the same path does     *)
(* what a third operation does alone that leaves the same there.           *)
LEMMA OperationsFold ==
  ASSUME NEW d, IsData(d), NEW a, NEW b, NEW c,
         IsOperation(a), IsOperation(b), IsOperation(c),
         a.path = b.path, c.path = b.path,
         b.op \notin {"append", "remove"}, c.op \notin {"append", "remove"},
         Effect(b, Effect(a, At(d, a.path))) = Effect(c, At(d, a.path))
  PROVE  ApplyOperation(ApplyOperation(d, a), b) = ApplyOperation(d, c)
<1> PICK p : p = a.path
  OBVIOUS
<1> PICK r1 : r1 = ApplyOperation(d, a)
  OBVIOUS
<1> PICK x, y : x = Effect(a, At(d, p)) /\ y = Effect(c, At(d, p))
  OBVIOUS
<1> PICK kx \in BOOLEAN : kx = Keeps(a, At(d, p))
  BY DEF Keeps
<1>1. IsPath(p)
  BY DEF IsOperation
<1>2. Leaves(d, p, x, kx, r1)
  BY OperationAt
<1>3. IsData(r1) /\ At(r1, p) = x
  <2>1. p \notin Ancestors(p)
    BY <1>1, AncestorIs DEF Under
  <2> QED BY <1>2, <2>1 DEF Leaves
<1> PICK ky \in BOOLEAN, kz \in BOOLEAN : ky = Keeps(b, x) /\ kz = Keeps(c, At(d, p))
  BY DEF Keeps
<1>4. ~ky /\ ~kz
  BY DEF Keeps
<1>5. Leaves(r1, p, y, ky, ApplyOperation(r1, b))
  BY <1>3, OperationAt
<1>6. Leaves(d, p, y, kz, ApplyOperation(d, c))
  BY OperationAt
<1> QED BY <1>1, <1>2, <1>4, <1>5, <1>6, LeavesAbsorb

(* What is left of the first k operations: one entry per key; the key is   *)
(* the path, or the whole of an append or remove that comes later.         *)
Spread(op) == op.op \in {"append", "remove"}
LastSpread(x, ops, k, j) ==
  /\ ops[j].path = x.path /\ ops[j].op = "delete"
  /\ \A l \in j + 1 .. k : ops[l].path = x.path => Spread(ops[l])
EntryFor(y, ops, k) ==
  LET x == y.op
  IN  /\ y = [key |-> y.key, op |-> x]
      /\ IsOperation(x)
      /\ \E j \in 1 .. k : ops[j].path = x.path
      /\ \/ y.key = PathKey(x)
         \/ y.key = ValueKey(x) /\ Spread(x)
      /\ Spread(x) => \E j \in 1 .. k : ops[j] = x
      /\ x.op = "increment" => x.value.n > 0
      /\ x.op = "delete" => \E j \in 1 .. k : LastSpread(x, ops, k, j)
Collapsed(m, ops, k) ==
  /\ IsSeq(m)
  /\ \A i \in DOMAIN m : EntryFor(m[i], ops, k)
  /\ \A i, j \in DOMAIN m : m[i].key = m[j].key => i = j

(* One round leaves a new entry, or folds the operation into the entry of  *)
(* its path, the only one on that path.                                    *)
PutAt(m, i, x, next) ==
  next = [j \in DOMAIN m |-> IF j = i THEN [key |-> m[j].key, op |-> x] ELSE m[j]]
FoldsInto(m, op, i, x, next) ==
  /\ PutAt(m, i, x, next)
  /\ m[i].op.path = op.path
  /\ m[i].key = PathKey(op)
  /\ \A j \in DOMAIN m \ {i} : m[j].op.path # op.path
  /\ IsOperation(x)
  /\ \A d : IsData(d) => ApplyOperation(ApplyOperation(d, m[i].op), op) = ApplyOperation(d, x)

Extends(m, op, next) == \E key : next = Append(m, [key |-> key, op |-> op])

(* The two kinds of key differ, and each tells what it is the key of.      *)
LEMMA KeysTell ==
  ASSUME NEW a, NEW b
  PROVE  /\ PathKey(a) # ValueKey(b)
         /\ PathKey(a) = PathKey(b) => a.path = b.path
         /\ ValueKey(a) = ValueKey(b) => a.path = b.path /\ a.op = b.op /\ a.value = b.value
<1>1. Len(PathKey(a)) = 2 /\ Len(ValueKey(b)) = 3
  BY DEF PathKey, ValueKey
<1>2. PathKey(a)[1] = a.path /\ PathKey(b)[1] = b.path
  BY DEF PathKey
<1>3. /\ ValueKey(a)[1] = a.path /\ ValueKey(a)[2] = a.op /\ ValueKey(a)[3] = a.value
      /\ ValueKey(b)[1] = b.path /\ ValueKey(b)[2] = b.op /\ ValueKey(b)[3] = b.value
  BY DEF ValueKey
<1> QED BY <1>1, <1>2, <1>3

(* Map.get finds the entry of a key, if there is one.                      *)
LEMMA MapGetIs ==
  ASSUME NEW m, IsSeq(m), NEW key,
         \A i, j \in DOMAIN m : m[i].key = m[j].key => i = j
  PROVE  /\ MapGet(m, key) = {} <=> \A i \in DOMAIN m : m[i].key # key
         /\ \A i \in DOMAIN m : m[i].key = key => MapGet(m, key) = {m[i].op}
BY DEF MapGet, ToSet

(* Map.set of a new key and of a known one.                                *)
LEMMA MapSetIs ==
  ASSUME NEW m, NEW key, NEW op,
         \A i, j \in DOMAIN m : m[i].key = m[j].key => i = j
  PROVE  /\ (\A i \in DOMAIN m : m[i].key # key) =>
              MapSet(m, key, op) = Append(m, [key |-> key, op |-> op])
         /\ \A i \in DOMAIN m : m[i].key = key =>
              MapSet(m, key, op) =
                [j \in DOMAIN m |-> IF j = i THEN [key |-> m[j].key, op |-> op] ELSE m[j]]
<1>1. ASSUME \A i \in DOMAIN m : m[i].key # key
      PROVE  MapSet(m, key, op) = Append(m, [key |-> key, op |-> op])
  BY <1>1 DEF MapSet
<1>2. ASSUME NEW i \in DOMAIN m, m[i].key = key
      PROVE  MapSet(m, key, op) =
                [j \in DOMAIN m |-> IF j = i THEN [key |-> m[j].key, op |-> op] ELSE m[j]]
  <2>1. MapSet(m, key, op) =
          [j \in DOMAIN m |-> IF m[j].key = key THEN [key |-> key, op |-> op] ELSE m[j]]
    BY <1>2 DEF MapSet
  <2>2. \A j \in DOMAIN m : m[j].key = key <=> j = i
    BY <1>2
  <2> QED BY <1>2, <2>1, <2>2
<1> QED BY <1>1, <1>2

(* A round leaves the entries as they are that its operation is no set,    *)
(* delete or increment on the path of.                                     *)
LEMMA EntryStays ==
  ASSUME NEW ops, NEW k \in Nat, NEW y, EntryFor(y, ops, k),
         y.op.op = "delete" /\ ops[k + 1].path = y.op.path => Spread(ops[k + 1])
  PROVE  EntryFor(y, ops, k + 1)
<1> PICK x : x = y.op
  OBVIOUS
<1> PICK h \in Nat : h = k + 1
  OBVIOUS
<1>1. \A j \in 1 .. k : j \in 1 .. h
  OBVIOUS
<1>2. ASSUME x.op = "delete" PROVE \E j \in 1 .. h : LastSpread(x, ops, h, j)
  <2>1. PICK j \in 1 .. k : LastSpread(x, ops, k, j)
    BY <1>2 DEF EntryFor
  <2>2. \A l \in j + 1 .. h : l \in j + 1 .. k \/ l = h
    OBVIOUS
  <2>3. LastSpread(x, ops, h, j)
    BY <1>2, <2>1, <2>2 DEF LastSpread
  <2> QED BY <1>1, <2>3
<1> QED BY <1>1, <1>2 DEF EntryFor

(* An operation enters the map under a new key. *)
LEMMA PutNew ==
  ASSUME NEW ops, NEW k \in Nat, NEW m, Collapsed(m, ops, k), NEW op, op = ops[k + 1],
         IsOperation(op), op.op = "increment" => op.value.n > 0,
         NEW key, \A i \in DOMAIN m : m[i].key # key,
         key = PathKey(op) \/ (key = ValueKey(op) /\ Spread(op))
  PROVE  Collapsed(Append(m, [key |-> key, op |-> op]), ops, k + 1)
<1> PICK y : y = [key |-> key, op |-> op]
  OBVIOUS
<1> PICK h \in Nat : h = k + 1
  OBVIOUS
<1> PICK more : more = Append(m, y)
  OBVIOUS
<1> PICK n \in Nat : n = Len(m)
  BY SeqIsFunction DEF Collapsed
<1>1. /\ IsSeq(more) /\ Len(more) = n + 1
      /\ \A i \in 1 .. n : more[i] = m[i]
      /\ more[n + 1] = y
  BY AppendIsSeq DEF Collapsed
<1>2. DOMAIN m = 1 .. n /\ DOMAIN more = 1 .. n + 1
  BY <1>1, SeqIsFunction DEF Collapsed
<1>3. y.key = key /\ y.op = op
  OBVIOUS
<1>4. EntryFor(y, ops, h)
  <2>1. h \in 1 .. h /\ \A l : l \notin h + 1 .. h
    OBVIOUS
  <2>2. LastSpread(op, ops, h, h) \/ op.op # "delete"
    BY <2>1 DEF LastSpread
  <2> QED BY <1>3, <2>1, <2>2 DEF EntryFor
<1>5. ASSUME NEW i \in 1 .. n PROVE EntryFor(m[i], ops, h)
  <2>1. EntryFor(m[i], ops, k) /\ m[i].key # key
    BY <1>2 DEF Collapsed
  <2>2. ASSUME m[i].op.op = "delete", ops[k + 1].path = m[i].op.path PROVE Spread(op)
    <3>1. m[i].key = PathKey(m[i].op)
      BY <2>1, <2>2 DEF EntryFor, Spread
    <3>2. PathKey(m[i].op) = PathKey(op)
      BY <2>2 DEF PathKey
    <3> QED BY <2>1, <3>1, <3>2
  <2> QED BY <2>1, <2>2, EntryStays
<1>6. \A i \in DOMAIN more : EntryFor(more[i], ops, h)
  <2>1. \A i \in 1 .. n + 1 : i \in 1 .. n \/ i = n + 1
    OBVIOUS
  <2> QED BY <1>1, <1>2, <1>4, <1>5, <2>1
<1>7. ASSUME NEW i \in DOMAIN more, NEW j \in DOMAIN more, more[i].key = more[j].key
      PROVE  i = j
  <2>1. (i \in 1 .. n \/ i = n + 1) /\ (j \in 1 .. n \/ j = n + 1)
    BY <1>2
  <2> QED BY <1>1, <1>2, <1>3, <1>7, <2>1 DEF Collapsed
<1> QED BY <1>1, <1>6, <1>7 DEF Collapsed

(* An entry is replaced by an operation on the same path. *)
Replaces(x, op) ==
  /\ IsOperation(x) /\ x.path = op.path /\ ~Spread(x)
  /\ x.op = "increment" => x.value.n > 0
  /\ x.op = "delete" => op.op = "delete"
(* Replacing the operation of the entry of a path keeps the Map well formed. *)
LEMMA PutOver ==
  ASSUME NEW ops, NEW k \in Nat, NEW m, Collapsed(m, ops, k), NEW op, op = ops[k + 1],
         ~Spread(op), \A j \in 1 .. k : ops[j].path = op.path => ~Spread(ops[j]),
         NEW i \in DOMAIN m, m[i].key = PathKey(op),
         NEW x, Replaces(x, op), NEW next, PutAt(m, i, x, next)
  PROVE  /\ Collapsed(next, ops, k + 1)
         /\ m[i].op.path = op.path /\ ~Spread(m[i].op)
         /\ \A j \in DOMAIN m \ {i} : m[j].op.path # op.path
<1> PICK h \in Nat : h = k + 1
  OBVIOUS
<1>1. ASSUME NEW j \in DOMAIN m, m[j].op.path = op.path
      PROVE  m[j].key = PathKey(op) /\ ~Spread(m[j].op)
  <2>1. EntryFor(m[j], ops, k)
    BY DEF Collapsed
  <2>2. ~Spread(m[j].op)
    BY <1>1, <2>1 DEF EntryFor
  <2> QED BY <1>1, <2>1, <2>2 DEF EntryFor, PathKey
<1>2. \A j \in DOMAIN m \ {i} : m[j].op.path # op.path
  BY <1>1 DEF Collapsed
<1>3. m[i].op.path = op.path
  <2>1. EntryFor(m[i], ops, k)
    BY DEF Collapsed
  <2> QED BY <2>1, KeysTell DEF EntryFor
<1>4. IsSeq(next) /\ DOMAIN next = DOMAIN m
  <2>1. DOMAIN m = 1 .. Len(m) /\ Len(m) \in Nat
    BY SeqIsFunction DEF Collapsed
  <2>2. next = [j \in 1 .. Len(m) |-> next[j]] /\ DOMAIN next = DOMAIN m
    BY <2>1 DEF PutAt
  <2> QED BY <2>1, <2>2, FunctionIsSeq
<1>5. /\ next[i] = [key |-> PathKey(op), op |-> x]
      /\ \A j \in DOMAIN m \ {i} : next[j] = m[j]
  BY DEF PutAt
<1>6. EntryFor(next[i], ops, h)
  <2> PICK y : y = next[i]
    OBVIOUS
  <2>1. y.key = PathKey(op) /\ y.op = x /\ y = [key |-> y.key, op |-> y.op]
    BY <1>5
  <2>2. h \in 1 .. h /\ \A l : l \notin h + 1 .. h
    OBVIOUS
  <2>3. LastSpread(x, ops, h, h) \/ x.op # "delete"
    BY <2>2 DEF LastSpread, Replaces
  <2>4. PathKey(op) = PathKey(x)
    BY DEF PathKey, Replaces
  <2> QED BY <2>1, <2>2, <2>3, <2>4 DEF EntryFor, Replaces
<1>7. ASSUME NEW j \in DOMAIN m \ {i} PROVE EntryFor(next[j], ops, h)
  BY <1>2, <1>5, EntryStays DEF Collapsed
<1>8. \A j \in DOMAIN next : next[j].key = m[j].key
  BY <1>4, <1>5
<1>9. \A j \in DOMAIN next : EntryFor(next[j], ops, h)
  BY <1>4, <1>6, <1>7
<1>10. Collapsed(next, ops, h)
  BY <1>4, <1>8, <1>9 DEF Collapsed
<1> QED BY <1>1, <1>2, <1>3, <1>10

(* The number that is read back from a number, and from an explicit        *)
(* positive increment.                                                     *)
LEMMA NumberOrIs ==
  /\ \A z \in Int : NumberOr(Num(z), 0) = z /\ (z # 0 => NumberOr(Num(z), 1) = z)
  /\ \A v, k : IsValue(v) /\ v.n > 0 => v.n \in Int /\ NumberOr(v, k) = v.n
<1>1. ASSUME NEW z \in Int
      PROVE  NumberOr(Num(z), 0) = z /\ (z # 0 => NumberOr(Num(z), 1) = z)
  <2>1. Num(z).t = "num" /\ Num(z).n = z
    BY DEF Num
  <2> QED BY <2>1 DEF NumberOr
<1>2. ASSUME NEW v, NEW k, IsValue(v), v.n > 0 PROVE v.n \in Int /\ NumberOr(v, k) = v.n
  <2>1. v.t = "num" /\ v.n \in Int
    BY <1>2 DEF IsValue
  <2> QED BY <1>2, <2>1 DEF NumberOr
<1> QED BY <1>1, <1>2

(* A set or delete takes the place of any operation on its path.           *)
LEMMA OverwriteFolds ==
  ASSUME NEW d, IsData(d), NEW a, NEW b, IsOperation(a), IsOperation(b), a.path = b.path,
         Overwrites(b)
  PROVE  ApplyOperation(ApplyOperation(d, a), b) = ApplyOperation(d, b)
<1>1. Effect(b, Effect(a, At(d, a.path))) = Effect(b, At(d, a.path))
  BY DEF Effect, Overwrites
<1>2. b.op \notin {"append", "remove"}
  BY DEF Overwrites
<1> QED BY <1>1, <1>2, OperationsFold

(* An increment folds into the set or the explicit positive increment      *)
(* before it, if it is one itself.                                         *)
Added(a, b) ==
  [a EXCEPT !.value = Num(NumberOr(a.value, 0) + NumberOr(b.value, 1))]
(* Applying the sum is applying the two operations after each other.       *)
LEMMA IncrementFolds ==
  ASSUME NEW a, NEW b, IsOperation(a), IsOperation(b), a.path = b.path,
         b.op = "increment", b.value.n > 0,
         a.op \in {"set", "increment"}, a.op = "increment" => a.value.n > 0
  PROVE  /\ IsOperation(Added(a, b)) /\ Added(a, b).op = a.op /\ Added(a, b).path = a.path
         /\ a.op = "increment" => Added(a, b).value.n > 0
         /\ \A d : IsData(d) => ApplyOperation(ApplyOperation(d, a), b) = ApplyOperation(d, Added(a, b))
<1> PICK v, w : v = a.value /\ w = b.value
  OBVIOUS
<1> PICK c : c = Added(a, b)
  OBVIOUS
<1>1. IsValue(v) /\ IsValue(w) /\ IsPath(a.path)
  BY DEF IsOperation
<1>2. w.n \in Int /\ NumberOr(w, 1) = w.n
  BY <1>1, NumberOrIs
<1> PICK s : s = NumberOr(v, 0) + w.n
  OBVIOUS
<1>3. s \in Int /\ IsValue(Num(s))
  BY <1>1, <1>2, NumberIsInt, NumIsValue
<1>4. c = Op(a.op, a.path, Num(s))
  <2>1. a = Op(a.op, a.path, v)
    BY DEF IsOperation
  <2>2. c = [a EXCEPT !.value = Num(s)]
    BY <1>2 DEF Added
  <2>3. \A o, p, u : [Op(o, p, u) EXCEPT !.value = Num(s)] = Op(o, p, Num(s))
    BY DEF Op
  <2> QED BY <2>1, <2>2, <2>3
<1>5. c.op = a.op /\ c.path = a.path /\ c.value = Num(s)
  BY <1>4 DEF Op
<1>6. IsOperation(c)
  BY <1>1, <1>3, <1>4, <1>5 DEF IsOperation
<1>7. a.op = "increment" => Num(s).n = s /\ v.n \in Int /\ s = v.n + w.n /\ s > 0
                           /\ NumberOr(v, 1) = v.n
  BY <1>1, <1>2, <1>3, NumberOrIs DEF Num
<1>8. ASSUME NEW d, IsData(d)
      PROVE  Effect(b, Effect(a, At(d, a.path))) = Effect(c, At(d, a.path))
  <2> PICK u : u = ValueIn(At(d, a.path))
    OBVIOUS
  <2>1. \A z : ValueIn({z}) = z
    BY DEF ValueIn
  <2>2. CASE a.op = "set"
    <3>1. Effect(a, At(d, a.path)) = {v} /\ Effect(c, At(d, a.path)) = {Num(s)}
      BY <1>5, <2>2 DEF Effect
    <3>2. Effect(b, {v}) = {Num(s)}
      BY <1>2, <2>1 DEF Effect
    <3> QED BY <3>1, <3>2
  <2>3. CASE a.op = "increment"
    <3>1. IsValue(u)
      <4>1. IsValue(Undefined)
        BY EmptySeq DEF IsValue, Undefined
      <4>2. u = ValueAt(d, a.path)
        BY ValueInAt
      <4> QED BY <1>8, <4>1, <4>2 DEF ValueAt, IsData
    <3> PICK t : t = NumberOr(u, 0)
      OBVIOUS
    <3>2. t \in Int
      BY <3>1, NumberIsInt
    <3>3. Effect(a, At(d, a.path)) = {Num(t + v.n)}
      BY <1>7, <2>3 DEF Effect
    <3>4. Effect(b, {Num(t + v.n)}) = {Num((t + v.n) + w.n)}
      <4>1. NumberOr(Num(t + v.n), 0) = t + v.n
        BY <1>7, <2>3, <3>2, NumberOrIs
      <4> QED BY <1>2, <2>1, <4>1 DEF Effect
    <3>5. Effect(c, At(d, a.path)) = {Num(t + s)}
      <4>1. NumberOr(Num(s), 1) = s
        BY <1>3, <1>7, <2>3, NumberOrIs
      <4> QED BY <1>5, <2>3, <4>1 DEF Effect
    <3>6. t + s = (t + v.n) + w.n
      BY <1>2, <1>7, <2>3, <3>2
    <3> QED BY <3>3, <3>4, <3>5, <3>6
  <2> QED BY <2>2, <2>3
<1>9. ASSUME NEW d, IsData(d)
      PROVE  ApplyOperation(ApplyOperation(d, a), b) = ApplyOperation(d, c)
  <2>1. b.op \notin {"append", "remove"} /\ c.op \notin {"append", "remove"} /\ c.path = b.path
    BY <1>5
  <2> QED BY <1>6, <1>8, <1>9, <2>1, OperationsFold
<1> QED BY <1>5, <1>6, <1>7, <1>9

(* The greatest of a set of numbers that has one.                         *)
LEMMA MaxIsGreatest ==
  ASSUME NEW S, NEW x \in S, \A y \in S : x >= y
  PROVE  Max(S) \in S /\ \A y \in S : Max(S) >= y
<1>1. \E z \in S : \A y \in S : z >= y
  OBVIOUS
<1>2. Max(S) = CHOOSE z \in S : \A y \in S : z >= y
  BY DEF Max
<1>3. (CHOOSE z \in S : \A y \in S : z >= y) \in S
  BY <1>1
<1>4. \A y \in S : (CHOOSE z \in S : \A w \in S : z >= w) >= y
  BY <1>1
<1> QED BY <1>2, <1>3, <1>4

(* The conditions under which nothing is lost, at one place.               *)
FollowsWell(ops, k, op) ==
  /\ IsOperation(op)
  /\ op.op = "increment" => op.value.n > 0
  /\ ~Spread(op) => \A j \in 1 .. k : ops[j].path = op.path => ~Spread(ops[j])
  /\ \A j \in 1 .. k : ops[j].path = op.path /\ Spread(ops[j]) => ops[j] # op
  /\ \A j \in 1 .. k :
       op.op = "increment" /\ ops[j].path = op.path /\ ops[j].op = "delete" =>
         \E l \in j + 1 .. k : ops[l].path = op.path
(* In a collapsible list every operation follows well on those before it.  *)
LEMMA CollapsibleAt ==
  ASSUME NEW ops, AreOperations(ops), DOMAIN ops = 1 .. Len(ops), Collapsible(ops),
         NEW k \in Nat, k + 1 \in 1 .. Len(ops), NEW op, op = ops[k + 1]
  PROVE  FollowsWell(ops, k, op)
<1> PICK h \in 1 .. Len(ops) : h = k + 1
  OBVIOUS
<1>1. /\ op.op = "increment" =>
           /\ op.value.n > 0
           /\ PreviousOnPath(ops, h) # {} => ops[Max(PreviousOnPath(ops, h))].op # "delete"
      /\ \A i \in PreviousOnPath(ops, h) :
           ops[i].op \in {"append", "remove"} => op.op \in {"append", "remove"} /\ ops[i] # op
  BY DEF Collapsible
<1>2. PreviousOnPath(ops, h) = {i \in 1 .. k : ops[i].path = op.path}
  BY DEF PreviousOnPath
<1>3. IsOperation(op)
  BY DEF AreOperations
<1>4. ASSUME NEW j \in 1 .. k, op.op = "increment", ops[j].path = op.path, ops[j].op = "delete",
             \A l \in j + 1 .. k : ops[l].path # op.path
      PROVE  FALSE
  <2> PICK P : P = PreviousOnPath(ops, h)
    OBVIOUS
  <2>1. j \in P /\ \A i \in P : i \in 1 .. k /\ i <= j /\ j >= i
    BY <1>2, <1>4
  <2>2. Max(P) = j
    <3> PICK g : g = Max(P)
      OBVIOUS
    <3>1. g \in P /\ \A i \in P : g >= i
      BY <2>1, MaxIsGreatest
    <3>2. g \in 1 .. k /\ g <= j /\ g >= j
      BY <2>1, <3>1
    <3> QED BY <3>2
  <2> QED BY <1>1, <1>4, <2>1, <2>2
<1> QED BY <1>1, <1>2, <1>3, <1>4 DEF Spread, FollowsWell

(* One round of collapseOperations.                                        *)
LEMMA CollapseRound ==
  ASSUME NEW ops, AreOperations(ops), DOMAIN ops = 1 .. Len(ops), Collapsible(ops),
         NEW k \in Nat, k + 1 \in 1 .. Len(ops), NEW op, op = ops[k + 1],
         NEW m, Collapsed(m, ops, k), NEW next, next = CollapseInto(m, op)
  PROVE  /\ Collapsed(next, ops, k + 1)
         /\ Extends(m, op, next) \/ \E i \in DOMAIN m : \E x : FoldsInto(m, op, i, x, next)
<1>1. /\ IsOperation(op)
      /\ op.op = "increment" => op.value.n > 0
      /\ ~Spread(op) => \A j \in 1 .. k : ops[j].path = op.path => ~Spread(ops[j])
      /\ \A j \in 1 .. k : ops[j].path = op.path /\ Spread(ops[j]) => ops[j] # op
      /\ \A j \in 1 .. k :
           op.op = "increment" /\ ops[j].path = op.path /\ ops[j].op = "delete" =>
             \E l \in j + 1 .. k : ops[l].path = op.path
  <2>1. FollowsWell(ops, k, op)
    BY CollapsibleAt
  <2> QED BY <2>1 DEF FollowsWell
<1>2. /\ IsSeq(m) /\ \A i \in DOMAIN m : EntryFor(m[i], ops, k)
      /\ \A i, j \in DOMAIN m : m[i].key = m[j].key => i = j
  BY DEF Collapsed
<1>3. ASSUME NEW key, next = MapSet(m, key, op), \A i \in DOMAIN m : m[i].key # key,
             key = PathKey(op) \/ (key = ValueKey(op) /\ Spread(op))
      PROVE  /\ Collapsed(next, ops, k + 1)
             /\ Extends(m, op, next)
  <2>1. next = Append(m, [key |-> key, op |-> op])
    BY <1>2, <1>3, MapSetIs
  <2>2. Extends(m, op, next)
    BY <2>1 DEF Extends
  <2> QED BY <1>1, <1>3, <2>1, <2>2, PutNew
<1>4. CASE MapGet(m, PathKey(op)) = {}
  <2>1. next = MapSet(m, PathKey(op), op)
    BY <1>4 DEF CollapseInto
  <2>2. \A i \in DOMAIN m : m[i].key # PathKey(op)
    BY <1>2, <1>4, MapGetIs
  <2> QED BY <1>3, <2>1, <2>2
<1>5. CASE MapGet(m, PathKey(op)) # {}
  <2>1. PICK i \in DOMAIN m : m[i].key = PathKey(op)
    BY <1>2, <1>5, MapGetIs
  <2> PICK a : a = m[i].op
    OBVIOUS
  <2>2. MapGet(m, PathKey(op)) = {a}
    BY <1>2, <2>1, MapGetIs
  <2>3. (CHOOSE x \in {a} : TRUE) = a
    OBVIOUS
  <2>4. EntryFor(m[i], ops, k) /\ IsOperation(a) /\ a.path = op.path
    BY <1>2, <2>1, KeysTell, SMTT(30) DEF EntryFor
  <2>5. CASE Spread(op)
    <3>1. next = MapSet(m, ValueKey(op), op)
      BY <1>5, <2>5 DEF CollapseInto, Spread
    <3>2. ASSUME NEW j \in DOMAIN m, m[j].key = ValueKey(op) PROVE FALSE
      <4> PICK y : y = m[j].op
        OBVIOUS
      <4>1. EntryFor(m[j], ops, k)
        BY <1>2
      <4>2. m[j].key = ValueKey(y) /\ Spread(y)
        BY <3>2, <4>1, KeysTell DEF EntryFor
      <4>3. y.path = op.path /\ y.op = op.op /\ y.value = op.value
        <5>1. ValueKey(y) = ValueKey(op)
          BY <3>2, <4>2
        <5> QED BY <5>1, KeysTell
      <4>4. y = op
        BY <1>1, <4>1, <4>3 DEF EntryFor, IsOperation
      <4>5. PICK l \in 1 .. k : ops[l] = y
        BY <4>1, <4>2 DEF EntryFor
      <4> QED BY <1>1, <2>5, <4>4, <4>5
    <3> QED BY <1>3, <2>5, <3>1, <3>2
  <2>6. ASSUME ~Spread(op), NEW x, next = MapSet(m, PathKey(op), x), Replaces(x, op),
               \A d : IsData(d) => ApplyOperation(ApplyOperation(d, a), op) = ApplyOperation(d, x)
        PROVE  Collapsed(next, ops, k + 1) /\ FoldsInto(m, op, i, x, next)
    <3>1. PutAt(m, i, x, next)
      BY <1>2, <2>1, <2>6, MapSetIs DEF PutAt
    <3>2. /\ Collapsed(next, ops, k + 1)
          /\ \A j \in DOMAIN m \ {i} : m[j].op.path # op.path
      <4>1. \A j \in 1 .. k : ops[j].path = op.path => ~Spread(ops[j])
        BY <1>1, <2>6
      <4> QED BY <2>1, <2>6, <3>1, <4>1, PutOver
    <3> QED BY <2>1, <2>4, <2>6, <3>1, <3>2 DEF FoldsInto, Replaces
  <2>7. CASE op.op \in {"set", "delete"}
    <3>1. next = MapSet(m, PathKey(op), op)
      BY <1>5, <2>7 DEF CollapseInto
    <3>2. ~Spread(op) /\ Overwrites(op) /\ op.op # "increment"
      BY <2>7 DEF Spread, Overwrites
    <3>3. \A d : IsData(d) => ApplyOperation(ApplyOperation(d, a), op) = ApplyOperation(d, op)
      BY <1>1, <2>4, <3>2, OverwriteFolds
    <3>4. Replaces(op, op)
      BY <1>1, <3>2 DEF Replaces
    <3> QED BY <2>6, <3>1, <3>2, <3>3, <3>4
  <2>8. CASE op.op = "increment"
    <3>1. ~Spread(op)
      BY <2>8 DEF Spread
    <3>2. ~Spread(a) /\ a.op # "delete"
      <4>1. ASSUME Spread(a) PROVE FALSE
        <5>1. PICK j \in 1 .. k : ops[j] = a
          BY <2>4, <4>1 DEF EntryFor
        <5> QED BY <1>1, <2>4, <3>1, <4>1, <5>1
      <4>2. ASSUME a.op = "delete" PROVE FALSE
        <5>1. PICK j \in 1 .. k : LastSpread(a, ops, k, j)
          BY <2>4, <4>2 DEF EntryFor
        <5>2. PICK l \in j + 1 .. k : ops[l].path = op.path
          BY <1>1, <2>4, <2>8, <5>1 DEF LastSpread
        <5>3. Spread(ops[l]) /\ l \in 1 .. k
          BY <2>4, <5>1, <5>2 DEF LastSpread
        <5> QED BY <1>1, <3>1, <5>2, <5>3
      <4> QED BY <4>1, <4>2
    <3>3. a.op \in {"increment", "set"}
      BY <2>4, <3>2 DEF IsOperation, Spread
    <3>4. next = MapSet(m, PathKey(op), Added(a, op))
      BY <1>5, <2>2, <2>3, <2>8, <3>3 DEF CollapseInto, Added
    <3>5. a.op = "increment" => a.value.n > 0
      BY <2>4 DEF EntryFor
    <3> PICK x : x = Added(a, op)
      OBVIOUS
    <3>6. /\ IsOperation(x) /\ x.op = a.op /\ x.path = op.path
          /\ x.op = "increment" => x.value.n > 0
          /\ \A d : IsData(d) => ApplyOperation(ApplyOperation(d, a), op) = ApplyOperation(d, x)
      <4>1. op.value.n > 0
        BY <1>1, <2>8
      <4>2. /\ IsOperation(x) /\ x.op = a.op /\ x.path = a.path
            /\ a.op = "increment" => x.value.n > 0
            /\ \A d : IsData(d) => ApplyOperation(ApplyOperation(d, a), op) = ApplyOperation(d, x)
        BY <1>1, <2>4, <2>8, <3>3, <3>5, <4>1, IncrementFolds
      <4> QED BY <2>4, <4>2
    <3>7. ~Spread(x) /\ x.op # "delete"
      BY <3>2, <3>6 DEF Spread
    <3>8. Replaces(x, op)
      BY <3>6, <3>7 DEF Replaces
    <3> QED BY <2>6, <3>1, <3>4, <3>6, <3>8
  <2> QED BY <1>1, <2>5, <2>7, <2>8 DEF IsOperation, Spread
<1> QED BY <1>4, <1>5

(* The operations of the entries are as many, in the same places.          *)
LEMMA FlatIs ==
  ASSUME NEW m, IsSeq(m)
  PROVE  IsSeq(Flat(m)) /\ Len(Flat(m)) = Len(m) /\ \A i \in 1 .. Len(m) : Flat(m)[i] = m[i].op
<1> PICK n \in Nat : n = Len(m)
  BY SeqIsFunction
<1> PICK s : s = Flat(m)
  OBVIOUS
<1>1. DOMAIN m = 1 .. n
  BY SeqIsFunction
<1>2. s = [i \in 1 .. n |-> s[i]] /\ \A i \in 1 .. n : s[i] = m[i].op
  BY <1>1 DEF Flat
<1> QED BY <1>2, FunctionIsSeq, Zenon

(* What stands where in a list of known length that one more is added to.  *)
LEMMA AppendAfter ==
  ASSUME NEW s, IsSeq(s), NEW n, Len(s) = n, NEW e
  PROVE  /\ IsSeq(Append(s, e)) /\ Len(Append(s, e)) = n + 1
         /\ Append(s, e)[n + 1] = e
         /\ \A i \in 1 .. n : Append(s, e)[i] = s[i]
<1>1. IsSeq(Append(s, e))
  BY AppendIsSeq
<1>2. s = [i \in 1 .. Len(s) |-> s[i]]
  BY SeqIsFunction
<1> QED BY <1>1, <1>2, AppendIsSeq

(* A new entry is applied after the others. *)
LEMMA NewEntryApplies ==
  ASSUME NEW m, IsSeq(m), NEW y, NEW d
  PROVE  ApplyAll(d, Flat(Append(m, y))) = ApplyOperation(ApplyAll(d, Flat(m)), y.op)
<1> PICK n \in Nat : n = Len(m)
  BY SeqIsFunction
<1> PICK s, more : s = Flat(m) /\ more = Append(m, y)
  OBVIOUS
<1>1. IsSeq(more) /\ Len(more) = n + 1 /\ more[n + 1] = y /\ \A i \in 1 .. n : more[i] = m[i]
  BY AppendIsSeq
<1>2. IsSeq(s) /\ Len(s) = n /\ \A i \in 1 .. n : s[i] = m[i].op
  BY FlatIs, Zenon
<1>3. /\ IsSeq(Flat(more)) /\ Len(Flat(more)) = n + 1
      /\ \A i \in 1 .. n + 1 : Flat(more)[i] = more[i].op
  BY <1>1, FlatIs
<1> DEFINE S == ToSet(s) \cup {y.op}
           all == Append(s, y.op)
<1>4. s \in Seq(S)
  BY <1>2, SeqMonotonic DEF IsSeq
<1>5. IsSeq(all) /\ Len(all) = n + 1 /\ all[n + 1] = y.op /\ \A i \in 1 .. n : all[i] = s[i]
  <2>1. s = [i \in 1 .. Len(s) |-> s[i]]
    BY <1>2, SeqIsFunction
  <2> QED BY <1>2, <2>1, AppendAfter
<1> PICK flat : flat = Flat(more)
  OBVIOUS
<1>6. flat = all
  <2> HIDE DEF all
  <2>1. \A i \in 1 .. n + 1 : flat[i] = all[i]
    <3>1. \A i \in 1 .. n + 1 : i \in 1 .. n \/ i = n + 1
      OBVIOUS
    <3> QED BY <1>1, <1>2, <1>3, <1>5, <3>1
  <2>2. flat = [i \in 1 .. n + 1 |-> flat[i]] /\ all = [i \in 1 .. n + 1 |-> all[i]]
    BY <1>3, <1>5, SeqIsFunction
  <2> QED BY <2>1, <2>2
<1>7. ApplyAll(d, all) = ApplyOperation(ApplyAll(d, s), y.op)
  <2>1. y.op \in S
    OBVIOUS
  <2> HIDE DEF S
  <2> QED BY <1>4, <2>1, ApplyAllAppend
<1> QED BY <1>6, <1>7

(* An operation folded into its entry has the effect it has after all      *)
(* entries: the entries that follow are on paths apart from its own.       *)
LEMMA FoldedEntryApplies ==
  ASSUME NEW m, IsSeq(m), NEW op, IsOperation(op), NEW i \in DOMAIN m, NEW x, NEW next,
         FoldsInto(m, op, i, x, next), \A j \in DOMAIN m : IsOperation(m[j].op),
         \A j \in DOMAIN m \ {i} : Apart(m[j].op.path, op.path), NEW d, IsData(d)
  PROVE  ApplyAll(d, Flat(next)) = ApplyOperation(ApplyAll(d, Flat(m)), op)
<1> PICK n \in Nat : n = Len(m)
  BY SeqIsFunction
<1>1. DOMAIN m = 1 .. n
  BY SeqIsFunction
<1>2. /\ IsSeq(next) /\ Len(next) = n
      /\ next[i].op = x /\ \A j \in 1 .. n : j # i => next[j].op = m[j].op
  <2>1. next = [j \in 1 .. n |-> IF j = i THEN [key |-> m[j].key, op |-> x] ELSE m[j]]
    BY <1>1 DEF FoldsInto, PutAt
  <2>2. next = [j \in 1 .. n |-> next[j]]
    BY <2>1
  <2> QED BY <1>1, <2>1, <2>2, FunctionIsSeq
<1> PICK s, t : s = Flat(m) /\ t = Flat(next)
  OBVIOUS
<1>3. /\ IsSeq(s) /\ Len(s) = n /\ \A j \in 1 .. n : s[j] = m[j].op
      /\ IsSeq(t) /\ Len(t) = n /\ \A j \in 1 .. n : t[j] = next[j].op
  BY <1>2, FlatIs, Zenon
<1>4. AreOperations(s)
  BY <1>1, <1>3 DEF AreOperations
<1>5. PICK f : Runs(d, s, f)
  BY <1>3, ApplyAllRuns
<1>6. PICK g : Runs(d, t, g)
  BY <1>3, ApplyAllRuns
<1>7. ApplyAll(d, s) = f[n] /\ ApplyAll(d, t) = g[n]
  <2>1. ApplyAll(d, s) = f[Len(s)]
    BY <1>3, <1>5, ApplyAllRuns, ZenonT(30)
  <2>2. ApplyAll(d, t) = g[Len(t)]
    BY <1>3, <1>6, ApplyAllRuns, ZenonT(30)
  <2> QED BY <1>3, <2>1, <2>2, Zenon
<1>8. \A j \in 0 .. n : IsData(f[j])
  BY <1>3, <1>4, <1>5, RunsAreData, Zenon
<1>9. /\ f[0] = d /\ g[0] = d
      /\ \A j \in 1 .. n : f[j] = ApplyOperation(f[j - 1], s[j])
      /\ \A j \in 1 .. n : g[j] = ApplyOperation(g[j - 1], t[j])
  BY <1>3, <1>5, <1>6 DEF Runs
<1> DEFINE T == {k \in 0 .. n : IF k < i THEN g[k] = f[k] ELSE g[k] = ApplyOperation(f[k], op)}
<1>10. 0 \in T
  BY <1>1, <1>9
<1>11. ASSUME NEW k \in 0 .. n - 1, k \in T PROVE k + 1 \in T
  <2> PICK h \in 1 .. n : h = k + 1 /\ h - 1 = k
    OBVIOUS
  <2>1. f[h] = ApplyOperation(f[k], m[h].op) /\ g[h] = ApplyOperation(g[k], next[h].op)
    BY <1>3, <1>9
  <2>2. IsData(f[k]) /\ IsOperation(m[h].op)
    BY <1>1, <1>8
  <2>3. CASE h < i
    BY <1>2, <1>11, <2>1, <2>3
  <2>4. CASE h = i
    <3>1. g[k] = f[k]
      BY <1>11, <2>4
    <3>2. ApplyOperation(ApplyOperation(f[k], m[i].op), op) = ApplyOperation(f[k], x)
      BY <2>2 DEF FoldsInto
    <3> QED BY <1>2, <2>1, <2>4, <3>1, <3>2
  <2>5. CASE h > i
    <3>1. g[k] = ApplyOperation(f[k], op)
      BY <1>1, <1>11, <2>5
    <3>2. next[h].op = m[h].op /\ Apart(m[h].op.path, op.path)
      BY <1>1, <1>2, <2>5
    <3>3. ApplyOperation(ApplyOperation(f[k], m[h].op), op)
            = ApplyOperation(ApplyOperation(f[k], op), m[h].op)
      BY <2>2, <3>2, OperationsCommute
    <3>4. g[h] = ApplyOperation(f[h], op)
      BY <2>1, <3>1, <3>2, <3>3
    <3> QED BY <1>1, <2>5, <3>4
  <2> QED BY <1>1, <2>3, <2>4, <2>5
<1> HIDE DEF T
<1>12. \A k \in 0 .. n : k \in T
  BY <1>10, <1>11, UpToN
<1> QED BY <1>1, <1>7, <1>12 DEF T

(* collapseOperations keeps what the operations do, under its conditions.  *)
LEMMA CollapseLossless ==
  ASSUME NEW ops, IsSeq(ops), AreOperations(ops), Collapsible(ops), NEW d, IsData(d)
  PROVE  ApplyAll(d, CollapseOperations(ops)) = ApplyAll(d, ops)
<1> PICK n \in Nat : n = Len(ops)
  BY SeqIsFunction
<1>1. DOMAIN ops = 1 .. n
  BY SeqIsFunction
<1>2. PICK f : CollapseRun(ops, n, f)
  BY CollapseRuns, Zenon
<1>3. CollapseOperations(ops) = Flat(f[n])
  BY <1>2, CollapseRuns, Zenon
<1>4. PICK g : Runs(d, ops, g)
  BY ApplyAllRuns
<1>5. ApplyAll(d, ops) = g[n]
  BY <1>4, ApplyAllRuns
<1> DEFINE T == {k \in 0 .. n : Collapsed(f[k], ops, k) /\ ApplyAll(d, Flat(f[k])) = g[k]}
<1>6. 0 \in T
  <2>1. f[0] = <<>> /\ g[0] = d
    BY <1>2, <1>4 DEF CollapseRun, Runs
  <2>2. IsSeq(<<>>) /\ DOMAIN <<>> = {} /\ Len(<<>>) = 0
    BY DEF IsSeq
  <2>3. Collapsed(<<>>, ops, 0)
    BY <2>2 DEF Collapsed
  <2>4. ApplyAll(d, Flat(<<>>)) = d
    BY <2>2, FlatIs, ApplyAllNone
  <2> QED BY <2>1, <2>3, <2>4
<1>7. ASSUME NEW k \in 0 .. n - 1, k \in T PROVE k + 1 \in T
  <2> PICK h \in 1 .. n : h = k + 1 /\ h - 1 = k
    OBVIOUS
  <2> PICK m, op, next : m = f[k] /\ op = ops[h] /\ next = f[h]
    OBVIOUS
  <2>1. Collapsed(m, ops, k) /\ ApplyAll(d, Flat(m)) = g[k]
    BY <1>7
  <2>2. next = CollapseInto(m, op) /\ g[h] = ApplyOperation(g[k], op)
    BY <1>2, <1>4 DEF CollapseRun, Runs
  <2>3. /\ Collapsed(next, ops, k + 1)
        /\ Extends(m, op, next) \/ \E i \in DOMAIN m : \E x : FoldsInto(m, op, i, x, next)
    BY <1>1, <2>1, <2>2, CollapseRound
  <2>4. IsSeq(m) /\ IsOperation(op)
    BY <2>1 DEF Collapsed, AreOperations
  <2>5. ASSUME Extends(m, op, next)
        PROVE  ApplyAll(d, Flat(next)) = ApplyOperation(ApplyAll(d, Flat(m)), op)
    <3>1. PICK y : y.op = op /\ next = Append(m, y)
      BY <2>5 DEF Extends
    <3> QED BY <2>4, <3>1, NewEntryApplies
  <2>6. ASSUME NEW i \in DOMAIN m, NEW x, FoldsInto(m, op, i, x, next)
        PROVE  ApplyAll(d, Flat(next)) = ApplyOperation(ApplyAll(d, Flat(m)), op)
    <3>1. ASSUME NEW j \in DOMAIN m
          PROVE  IsOperation(m[j].op) /\ (j # i => Apart(m[j].op.path, op.path))
      <4>1. EntryFor(m[j], ops, k)
        BY <2>1 DEF Collapsed
      <4>2. PICK l \in 1 .. k : ops[l].path = m[j].op.path
        BY <4>1 DEF EntryFor
      <4>3. l \in DOMAIN ops /\ h \in DOMAIN ops
        BY <1>1
      <4>4. ~IsStrictPrefix(ops[l].path, ops[h].path) /\ ~IsStrictPrefix(ops[h].path, ops[l].path)
        BY <4>3 DEF Collapsible
      <4>5. j # i => m[j].op.path # op.path
        BY <2>6 DEF FoldsInto
      <4> QED BY <4>1, <4>2, <4>4, <4>5 DEF EntryFor, Apart, Under
    <3> QED BY <2>4, <2>6, <3>1, FoldedEntryApplies
  <2>7. ApplyAll(d, Flat(next)) = g[h]
    BY <2>1, <2>2, <2>3, <2>5, <2>6
  <2> QED BY <2>3, <2>7
<1> HIDE DEF T
<1>8. n \in T
  BY <1>6, <1>7, Reached, Zenon
<1> QED BY <1>3, <1>5, <1>8 DEF T
-----------------------------------------------------------------------------
(* The entities of a list of deltas, delta by delta. *)
EntityOrderRun(deltas, n, f) ==
  /\ f[0] = <<>>
  /\ \A i \in 1 .. n : f[i] = IF deltas[i].entityId \in ToSet(f[i - 1]) THEN f[i - 1] ELSE Append(f[i - 1], deltas[i].entityId)

(* Such a run exists, and any ends in what EntityOrder returns.            *)
LEMMA EntityOrderRuns ==
  ASSUME NEW deltas, NEW n \in Nat, n = Len(deltas)
  PROVE  /\ \E f : EntityOrderRun(deltas, n, f)
         /\ \A f : EntityOrderRun(deltas, n, f) => EntityOrder(deltas) = f[n]
<1> DEFINE T == {k \in 0 .. n : \E f : EntityOrderRun(deltas, k, f)}
<1>1. 0 \in T
  <2> DEFINE f == [i \in 0 .. 0 |-> <<>>]
  <2>1. f[0] = <<>>
    OBVIOUS
  <2> HIDE DEF f
  <2>2. EntityOrderRun(deltas, 0, f)
    BY <2>1 DEF EntityOrderRun
  <2> QED BY <2>2
<1>2. ASSUME NEW k \in 0 .. n - 1, k \in T PROVE k + 1 \in T
  <2>1. PICK f : EntityOrderRun(deltas, k, f)
    BY <1>2
  <2> DEFINE next == IF deltas[k + 1].entityId \in ToSet(f[k]) THEN f[k] ELSE Append(f[k], deltas[k + 1].entityId)
             g == [i \in 0 .. k + 1 |-> IF i <= k THEN f[i] ELSE next]
  <2>2. /\ g[k + 1] = next /\ g[k] = f[k] /\ g[0] = f[0]
        /\ \A i \in 1 .. k : g[i] = f[i] /\ g[i - 1] = f[i - 1]
    OBVIOUS
  <2> HIDE DEF g
  <2>3. ASSUME NEW i \in 1 .. k + 1 PROVE g[i] = IF deltas[i].entityId \in ToSet(g[i - 1]) THEN g[i - 1] ELSE Append(g[i - 1], deltas[i].entityId)
    <3>1. CASE i = k + 1
      <4>1. i - 1 = k
        BY <3>1
      <4> QED BY <2>2, <3>1, <4>1
    <3>2. CASE i \in 1 .. k
      BY <2>1, <2>2, <3>2 DEF EntityOrderRun
    <3> QED BY <3>1, <3>2
  <2>4. EntityOrderRun(deltas, k + 1, g)
    BY <2>1, <2>2, <2>3 DEF EntityOrderRun
  <2> QED BY <2>4
<1> HIDE DEF T
<1>3. PICK f : EntityOrderRun(deltas, n, f)
  <2>1. n \in T
    BY <1>1, <1>2, Reached, Zenon
  <2> QED BY <2>1 DEF T
<1> DEFINE h == [i \in 0 .. n |-> f[i]]
           C == CHOOSE g : g = [i \in 0 .. n |-> IF i = 0 THEN <<>> ELSE IF deltas[i].entityId \in ToSet(g[i - 1]) THEN g[i - 1] ELSE Append(g[i - 1], deltas[i].entityId)]
<1>4. h = [i \in 0 .. n |-> IF i = 0 THEN <<>> ELSE IF deltas[i].entityId \in ToSet(h[i - 1]) THEN h[i - 1] ELSE Append(h[i - 1], deltas[i].entityId)]
  <2>1. \A i \in 0 .. n : h[i] = IF i = 0 THEN <<>> ELSE IF deltas[i].entityId \in ToSet(h[i - 1]) THEN h[i - 1] ELSE Append(h[i - 1], deltas[i].entityId)
    <3>1. h[0] = f[0] /\ \A i \in 1 .. n : h[i] = f[i] /\ h[i - 1] = f[i - 1]
      OBVIOUS
    <3> HIDE DEF h
    <3> QED BY <1>3, <3>1 DEF EntityOrderRun
  <2>2. h = [i \in 0 .. n |-> h[i]]
    OBVIOUS
  <2> HIDE DEF h
  <2> QED BY <2>1, <2>2, Zenon
<1> HIDE DEF h
<1>5. C = [i \in 0 .. n |-> IF i = 0 THEN <<>> ELSE IF deltas[i].entityId \in ToSet(C[i - 1]) THEN C[i - 1] ELSE Append(C[i - 1], deltas[i].entityId)]
  BY <1>4, Zenon
<1>6. EntityOrder(deltas) = C[n]
  BY DEF EntityOrder
<1> HIDE DEF C
<1>7. EntityOrderRun(deltas, n, C)
  <2>1. \A i \in 0 .. n : C[i] = IF i = 0 THEN <<>> ELSE IF deltas[i].entityId \in ToSet(C[i - 1]) THEN C[i - 1] ELSE Append(C[i - 1], deltas[i].entityId)
    BY <1>5
  <2>2. C[0] = <<>> /\ \A i \in 1 .. n : C[i] = IF deltas[i].entityId \in ToSet(C[i - 1]) THEN C[i - 1] ELSE Append(C[i - 1], deltas[i].entityId)
    BY <2>1
  <2> QED BY <2>2 DEF EntityOrderRun
<1>8. ASSUME NEW g, EntityOrderRun(deltas, n, g) PROVE g[n] = C[n]
  <2> DEFINE U == {i \in 0 .. n : g[i] = C[i]}
  <2>1. 0 \in U
    BY <1>7, <1>8 DEF EntityOrderRun
  <2>2. ASSUME NEW i \in 0 .. n - 1, i \in U PROVE i + 1 \in U
    <3>1. i + 1 \in 1 .. n /\ (i + 1) - 1 = i /\ g[i] = C[i]
      BY <2>2
    <3> QED BY <1>7, <1>8, <3>1 DEF EntityOrderRun
  <2> HIDE DEF U
  <2>3. n \in U
    BY <2>1, <2>2, Reached, Zenon
  <2> QED BY <2>3 DEF U
<1> QED BY <1>3, <1>6, <1>8

(* The entities of a list of deltas: each once, and all of them.           *)
LEMMA EntityOrderIs ==
  ASSUME NEW s, IsSeq(s)
  PROVE  LET ids == EntityOrder(s)
         IN  /\ IsSeq(ids)
             /\ \A i, j \in DOMAIN ids : ids[i] = ids[j] => i = j
             /\ ToSet(ids) = {s[i].entityId : i \in DOMAIN s}
<1> PICK n \in Nat : n = Len(s)
  BY SeqIsFunction
<1>0. DOMAIN s = 1 .. n
  BY SeqIsFunction
<1>1. PICK f : EntityOrderRun(s, n, f)
  BY EntityOrderRuns, Zenon
<1>2. EntityOrder(s) = f[n]
  BY <1>1, EntityOrderRuns, Zenon
<1> DEFINE Seen(k) == {s[i].entityId : i \in 1 .. k}
           Once(ids) == \A i, j \in DOMAIN ids : ids[i] = ids[j] => i = j
           T == {k \in 0 .. n : IsSeq(f[k]) /\ Once(f[k]) /\ ToSet(f[k]) = Seen(k)}
<1>3. 0 \in T
  <2>1. f[0] = <<>>
    BY <1>1 DEF EntityOrderRun
  <2>2. IsSeq(<<>>) /\ ToSet(<<>>) = {} /\ DOMAIN <<>> = {}
    BY DEF IsSeq, ToSet
  <2> QED BY <2>1, <2>2
<1>4. ASSUME NEW k \in 0 .. n - 1, k \in T PROVE k + 1 \in T
  <2> PICK id, ids : id = s[k + 1].entityId /\ ids = f[k]
    OBVIOUS
  <2>1. /\ f[k + 1] = IF id \in ToSet(ids) THEN ids ELSE Append(ids, id)
        /\ IsSeq(ids) /\ Once(ids) /\ ToSet(ids) = Seen(k) /\ k + 1 \in 0 .. n
    <3>1. k + 1 \in 1 .. n /\ k + 1 \in 0 .. n /\ (k + 1) - 1 = k
      OBVIOUS
    <3>2. f[k + 1] = IF id \in ToSet(ids) THEN ids ELSE Append(ids, id)
      BY <1>1, <3>1 DEF EntityOrderRun
    <3> QED BY <1>4, <3>1, <3>2
  <2>2. Seen(k + 1) = Seen(k) \cup {id}
    <3>1. \A i : i \in 1 .. k + 1 <=> i \in 1 .. k \/ i = k + 1
      OBVIOUS
    <3> QED BY <3>1
  <2>3. CASE id \in ToSet(ids)
    BY <2>1, <2>2, <2>3
  <2>4. CASE id \notin ToSet(ids)
    <3> PICK more : more = Append(ids, id)
      OBVIOUS
    <3> PICK m \in Nat : m = Len(ids)
      BY <2>1, SeqIsFunction
    <3>1. /\ IsSeq(more) /\ ToSet(more) = ToSet(ids) \cup {id}
          /\ Len(more) = m + 1 /\ more[m + 1] = id /\ \A i \in 1 .. m : more[i] = ids[i]
      BY <2>1, AppendIsSeq
    <3>2. DOMAIN more = 1 .. m + 1 /\ DOMAIN ids = 1 .. m
      BY <2>1, <3>1, SeqIsFunction
    <3>3. \A i \in 1 .. m : ids[i] # id
      BY <2>4, <3>2 DEF ToSet
    <3>4. Once(more)
      <4>1. \A i \in 1 .. m + 1 : i \in 1 .. m \/ i = m + 1
        OBVIOUS
      <4> QED BY <2>1, <3>1, <3>2, <3>3, <4>1
    <3> QED BY <2>1, <2>2, <2>4, <3>1, <3>4
  <2> QED BY <2>3, <2>4
<1> HIDE DEF T
<1>5. \A k \in 0 .. n : k \in T
  BY <1>3, <1>4, UpToN
<1> QED BY <1>0, <1>2, <1>5 DEF T

(* The only delta of an entity. *)
LEMMA OnlyDelta ==
  ASSUME NEW s, IsSeq(s), NEW i \in DOMAIN s, NEW e, s[i].entityId = e,
         \A j \in DOMAIN s : s[j].entityId = e => j = i
  PROVE  DeltasOf(s, e) = <<s[i]>>
<1> PICK n \in Nat : n = Len(s)
  BY SeqIsFunction
<1>0. DOMAIN s = 1 .. n
  BY SeqIsFunction
<1>1. PICK f : DeltasOfRun(s, e, n, f)
  BY DeltasOfRuns
<1> DEFINE T == {k \in 0 .. n : f[k] = IF k < i THEN <<>> ELSE <<s[i]>>}
<1>2. 0 \in T
  BY <1>0, <1>1 DEF DeltasOfRun
<1>3. ASSUME NEW k \in 0 .. n - 1, k \in T PROVE k + 1 \in T
  <2> PICK h \in 1 .. n : h = k + 1 /\ h - 1 = k
    OBVIOUS
  <2>1. f[h] = IF s[h].entityId = e THEN Append(f[k], s[h]) ELSE f[k]
    BY <1>1 DEF DeltasOfRun
  <2>2. s[h].entityId = e <=> h = i
    BY <1>0
  <2>3. Append(<<>>, s[i]) = <<s[i]>>
    OBVIOUS
  <2>4. f[k] = IF k < i THEN <<>> ELSE <<s[i]>>
    BY <1>3
  <2>5. CASE h = i
    <3>1. f[k] = <<>>
      BY <1>0, <2>4, <2>5
    <3>2. f[h] = <<s[i]>>
      BY <2>1, <2>2, <2>3, <2>5, <3>1
    <3> QED BY <1>0, <2>5, <3>2
  <2>6. CASE h # i
    <3>1. f[h] = f[k] /\ (h < i <=> k < i)
      BY <1>0, <2>1, <2>2, <2>6
    <3> QED BY <2>4, <3>1
  <2> QED BY <2>5, <2>6
<1> HIDE DEF T
<1>4. \A k \in 0 .. n : k \in T
  BY <1>2, <1>3, UpToN
<1>5. DeltasOf(s, e) = f[n] /\ ~(n < i)
  BY <1>0, <1>1, DeltasOfRuns
<1> QED BY <1>4, <1>5 DEF T

(* The operations of a single delta. *)
LEMMA OnlyOperations ==
  ASSUME NEW d, IsSeq(d.operations)
  PROVE  OperationsOf(<<d>>) = d.operations
<1> PICK s : s = <<>>
  OBVIOUS
<1>1. IsSeq(s) /\ OperationsOf(s) = <<>>
  BY NoDeltas DEF IsSeq
<1>2. OperationsOf(Append(s, d)) = OperationsOf(s) \o d.operations
  BY <1>1, OperationsOfAppend
<1>3. Append(s, d) = <<d>>
  OBVIOUS
<1>4. <<>> \o d.operations = d.operations
  BY ConcatEmptySeq DEF IsSeq
<1> QED BY <1>1, <1>2, <1>3, <1>4

(* Deltas in the order of their timestamps, none later than c. *)
IsDelta(d) ==
  /\ d = [entityId |-> d.entityId, fromVersion |-> d.fromVersion, toVersion |-> d.toVersion,
          operations |-> d.operations, timestamp |-> d.timestamp]
  /\ d.timestamp \in Int /\ IsSeq(d.operations)
Ordered(s, c) ==
  /\ \A i \in DOMAIN s : IsDelta(s[i]) /\ s[i].timestamp <= c
  /\ \A i, j \in DOMAIN s : i <= j => s[i].timestamp <= s[j].timestamp

(* What holds of the empty list and passes to every list that is one longer *)
(* holds of all lists.                                                     *)
LEMMA ByAppending ==
  ASSUME NEW S, NEW T, <<>> \in T,
         \A s \in Seq(S), x \in S : s \in T => Append(s, x) \in T
  PROVE  Seq(S) \subseteq T
<1> DEFINE L(k) == {s \in Seq(S) : Len(s) = k}
           N == {k \in Nat : L(k) \subseteq T}
<1>1. 0 \in N
  <2>1. ASSUME NEW s \in Seq(S), Len(s) = 0 PROVE s \in T
    <3>1. s = <<>>
      BY <2>1, EmptySeq
    <3> QED BY <3>1
  <2> QED BY <2>1
<1>2. ASSUME NEW k \in Nat, k \in N PROVE k + 1 \in N
  <2>1. ASSUME NEW s \in Seq(S), Len(s) = k + 1 PROVE s \in T
    <3>1. s # <<>>
      BY <2>1, EmptySeq
    <3>2. PICK t \in Seq(S), x \in S : s = Append(t, x)
      BY <3>1, SequenceEmptyOrAppend
    <3>3. Len(t) \in Nat /\ Len(s) = Len(t) + 1
      BY <3>2, AppendProperties, LenProperties
    <3>4. t \in L(k)
      BY <2>1, <3>3
    <3> QED BY <1>2, <3>2, <3>4
  <2> QED BY <2>1
<1> HIDE DEF N
<1>3. ASSUME NEW s \in Seq(S) PROVE s \in T
  <2> PICK n \in Nat : n = Len(s)
    BY LenProperties
  <2>1. \A i \in 0 .. n - 1 : i \in N => i + 1 \in N
    BY <1>2
  <2>2. \A i \in 0 .. n : i \in N
    BY <1>1, <2>1, UpToN
  <2>3. n \in N
    BY <2>2
  <2> QED BY <2>3 DEF N
<1> QED BY <1>3

(* Sorting deltas, delta by delta. *)
SortRun(deltas, n, f) ==
  /\ f[0] = <<>>
  /\ \A i \in 1 .. n : f[i] = Inserted(f[i - 1], deltas[i])

(* Such a sorting exists, and any is the one SortByTimestamp defines.      *)
LEMMA SortRuns ==
  ASSUME NEW deltas, NEW n \in Nat, n = Len(deltas)
  PROVE  /\ \E f : SortRun(deltas, n, f)
         /\ \A f : SortRun(deltas, n, f) => SortByTimestamp(deltas) = f[n]
<1> DEFINE T == {k \in 0 .. n : \E f : SortRun(deltas, k, f)}
<1>1. 0 \in T
  <2> DEFINE f == [i \in 0 .. 0 |-> <<>>]
  <2>1. f[0] = <<>>
    OBVIOUS
  <2> HIDE DEF f
  <2>2. SortRun(deltas, 0, f)
    BY <2>1 DEF SortRun
  <2> QED BY <2>2
<1>2. ASSUME NEW k \in 0 .. n - 1, k \in T PROVE k + 1 \in T
  <2>1. PICK f : SortRun(deltas, k, f)
    BY <1>2
  <2> DEFINE next == Inserted(f[k], deltas[k + 1])
             g == [i \in 0 .. k + 1 |-> IF i <= k THEN f[i] ELSE next]
  <2>2. /\ g[k + 1] = next /\ g[k] = f[k] /\ g[0] = f[0]
        /\ \A i \in 1 .. k : g[i] = f[i] /\ g[i - 1] = f[i - 1]
    OBVIOUS
  <2> HIDE DEF g
  <2>3. ASSUME NEW i \in 1 .. k + 1 PROVE g[i] = Inserted(g[i - 1], deltas[i])
    <3>1. CASE i = k + 1
      <4>1. i - 1 = k
        BY <3>1
      <4> QED BY <2>2, <3>1, <4>1
    <3>2. CASE i \in 1 .. k
      BY <2>1, <2>2, <3>2 DEF SortRun
    <3> QED BY <3>1, <3>2
  <2>4. SortRun(deltas, k + 1, g)
    BY <2>1, <2>2, <2>3 DEF SortRun
  <2> QED BY <2>4
<1> HIDE DEF T
<1>3. PICK f : SortRun(deltas, n, f)
  <2>1. n \in T
    BY <1>1, <1>2, Reached, Zenon
  <2> QED BY <2>1 DEF T
<1> DEFINE h == [i \in 0 .. n |-> f[i]]
           C == CHOOSE g : g = [i \in 0 .. n |-> IF i = 0 THEN <<>> ELSE Inserted(g[i - 1], deltas[i])]
<1>4. h = [i \in 0 .. n |-> IF i = 0 THEN <<>> ELSE Inserted(h[i - 1], deltas[i])]
  <2>1. \A i \in 0 .. n : h[i] = IF i = 0 THEN <<>> ELSE Inserted(h[i - 1], deltas[i])
    <3>1. h[0] = f[0] /\ \A i \in 1 .. n : h[i] = f[i] /\ h[i - 1] = f[i - 1]
      OBVIOUS
    <3> HIDE DEF h
    <3> QED BY <1>3, <3>1 DEF SortRun
  <2>2. h = [i \in 0 .. n |-> h[i]]
    OBVIOUS
  <2> HIDE DEF h
  <2> QED BY <2>1, <2>2
<1> HIDE DEF h
<1>5. C = [i \in 0 .. n |-> IF i = 0 THEN <<>> ELSE Inserted(C[i - 1], deltas[i])]
  BY <1>4, Zenon
<1>6. SortByTimestamp(deltas) = C[n]
  BY DEF SortByTimestamp
<1> HIDE DEF C
<1>7. SortRun(deltas, n, C)
  <2>1. \A i \in 0 .. n : C[i] = IF i = 0 THEN <<>> ELSE Inserted(C[i - 1], deltas[i])
    BY <1>5
  <2>2. C[0] = <<>> /\ \A i \in 1 .. n : C[i] = Inserted(C[i - 1], deltas[i])
    BY <2>1
  <2> QED BY <2>2 DEF SortRun
<1>8. ASSUME NEW g, SortRun(deltas, n, g) PROVE g[n] = C[n]
  <2> DEFINE U == {i \in 0 .. n : g[i] = C[i]}
  <2>1. 0 \in U
    BY <1>7, <1>8 DEF SortRun
  <2>2. ASSUME NEW i \in 0 .. n - 1, i \in U PROVE i + 1 \in U
    <3>1. i + 1 \in 1 .. n /\ (i + 1) - 1 = i /\ g[i] = C[i]
      BY <2>2
    <3> QED BY <1>7, <1>8, <3>1 DEF SortRun
  <2> HIDE DEF U
  <2>3. n \in U
    BY <2>1, <2>2, Reached, Zenon
  <2> QED BY <2>3 DEF U
<1> QED BY <1>3, <1>6, <1>8

(* Sorting no deltas, and one more.                                        *)
LEMMA SortNone == SortByTimestamp(<<>>) = <<>>
<1> PICK s : s = <<>>
  OBVIOUS
<1>0. Len(s) = 0
  OBVIOUS
<1>1. PICK f : SortRun(s, 0, f)
  BY <1>0, SortRuns
<1>2. SortByTimestamp(s) = f[0]
  BY <1>0, <1>1, SortRuns
<1> QED BY <1>1, <1>2 DEF SortRun

(* Sorting one more delta inserts it among those sorted before.            *)
LEMMA SortAppend ==
  ASSUME NEW s, IsSeq(s), NEW d
  PROVE  SortByTimestamp(Append(s, d)) = Inserted(SortByTimestamp(s), d)
<1> PICK n \in Nat : n = Len(s)
  BY SeqIsFunction
<1> PICK m \in Nat : m = n + 1
  OBVIOUS
<1> PICK more : more = Append(s, d)
  OBVIOUS
<1>1. Len(more) = m /\ more[m] = d /\ \A i \in 1 .. n : more[i] = s[i]
  BY AppendIsSeq
<1>2. PICK f : SortRun(more, m, f)
  BY <1>1, SortRuns
<1>3. SortRun(s, n, f)
  BY <1>1, <1>2 DEF SortRun
<1>4. SortByTimestamp(more) = f[m] /\ SortByTimestamp(s) = f[n]
  <2>0. m = Len(more)
    BY <1>1
  <2>1. SortByTimestamp(more) = f[m]
    BY <2>0, <1>2, SortRuns
  <2>2. SortByTimestamp(s) = f[n]
    BY <1>3, SortRuns, Zenon
  <2> QED BY <2>1, <2>2
<1>5. f[m] = Inserted(f[n], d)
  BY <1>1, <1>2 DEF SortRun
<1> QED BY <1>4, <1>5

(* Where sort puts a delta: behind all that are not later.                 *)
Slot(s, d) == Max({0} \cup {i \in DOMAIN s : s[i].timestamp <= d.timestamp})

(* The place where sort puts a delta is at most one past the end.          *)
LEMMA SlotIs ==
  ASSUME NEW s, NEW n \in Nat, DOMAIN s = 1 .. n, NEW d
  PROVE  /\ Slot(s, d) \in 0 .. n
         /\ \A i \in 1 .. n : s[i].timestamp <= d.timestamp => i <= Slot(s, d)
<1> PICK S : S = {0} \cup {i \in DOMAIN s : s[i].timestamp <= d.timestamp}
  OBVIOUS
<1>1. S \subseteq 0 .. n /\ 0 \in S /\ \A i \in 1 .. n : s[i].timestamp <= d.timestamp => i \in S
  OBVIOUS
<1>2. PICK x \in S : \A y \in S : x >= y
  <2> DEFINE T == {n - i : i \in S}
  <2>1. T \in SUBSET Nat /\ T # {}
    BY <1>1
  <2>2. PICK t \in T : \A u \in T : t <= u
    BY <2>1, LeastNat
  <2>3. PICK x \in S : t = n - x
    OBVIOUS
  <2>4. \A y \in S : n - x <= n - y
    BY <2>2, <2>3
  <2>5. \A y \in S : x >= y
    BY <1>1, <2>4
  <2> QED BY <2>5
<1>3. Max(S) \in S /\ \A y \in S : Max(S) >= y
  BY <1>2, MaxIsGreatest
<1>4. Slot(s, d) = Max(S)
  BY DEF Slot
<1> QED BY <1>1, <1>3, <1>4

(* A delta that is not earlier than any before it goes to the end.         *)
LEMMA InsertLatest ==
  ASSUME NEW s, IsSeq(s), NEW d, \A i \in DOMAIN s : s[i].timestamp <= d.timestamp
  PROVE  Inserted(s, d) = Append(s, d)
<1> PICK n \in Nat : n = Len(s)
  BY SeqIsFunction
<1> DEFINE S == ToSet(s) \cup {d}
<1>1. DOMAIN s = 1 .. n /\ s \in Seq(S) /\ d \in S
  <2>1. s \in Seq(ToSet(s))
    BY DEF IsSeq
  <2> QED BY <2>1, SeqIsFunction, SeqMonotonic
<1> HIDE DEF S
<1>2. Slot(s, d) = n
  <2> PICK k : k = Slot(s, d)
    OBVIOUS
  <2>1. k \in 0 .. n /\ \A i \in 1 .. n : i <= k
    BY <1>1, SlotIs
  <2>2. n # 0 => n <= k
    <3>1. n # 0 => n \in 1 .. n
      OBVIOUS
    <3> QED BY <2>1, <3>1, Zenon
  <2>3. k \in Int /\ k >= 0 /\ k <= n
    BY <2>1
  <2>4. CASE n = 0
    BY <2>3, <2>4
  <2>5. CASE n # 0
    <3>1. \A a, b \in Int : a <= b /\ b <= a => a = b
      OBVIOUS
    <3>2. n \in Int
      OBVIOUS
    <3> QED BY <2>2, <2>3, <2>5, <3>1, <3>2, Zenon
  <2> QED BY <2>4, <2>5, Zenon
<1>3. Inserted(s, d) = SubSeq(s, 1, (n + 1) - 1) \o <<d>> \o SubSeq(s, n + 1, n)
  BY <1>2 DEF Inserted, InsertAt, Slot
<1>4. SubSeq(s, 1, n) = s /\ SubSeq(s, n + 1, n) = <<>> /\ (n + 1) - 1 = n
  <2>1. SubSeq(s, 1, n) = s
    BY <1>1, SubSeqFull
  <2>2. n + 1 \in Int /\ n \in Int /\ n < n + 1
    OBVIOUS
  <2>3. SubSeq(s, n + 1, n) = <<>>
    BY <2>2, SubSeqEmpty
  <2> QED BY <2>1, <2>3
<1>5. s \o <<d>> = Append(s, d) /\ Append(s, d) \in Seq(S)
  BY <1>1, AppendIsConcat, AppendProperties
<1>6. Append(s, d) \o <<>> = Append(s, d)
  BY <1>5, ConcatEmptySeq
<1> QED BY <1>3, <1>4, <1>5, <1>6

(* Sorting deltas that are in the order of their timestamps leaves them    *)
(* where they are.                                                         *)
LEMMA SortKeepsOrder ==
  ASSUME NEW s, IsSeq(s), NEW c, Ordered(s, c)
  PROVE  SortByTimestamp(s) = s
<1> DEFINE S == ToSet(s)
           T == {t \in Seq(S) : Ordered(t, c) => SortByTimestamp(t) = t}
<1>1. <<>> \in T
  BY SortNone, EmptySeq
<1>2. ASSUME NEW t \in Seq(S), NEW d \in S, t \in T PROVE Append(t, d) \in T
  <2> PICK n \in Nat : n = Len(t)
    BY LenProperties
  <2> PICK more : more = Append(t, d)
    OBVIOUS
  <2>1. /\ more \in Seq(S) /\ DOMAIN t = 1 .. n /\ DOMAIN more = 1 .. n + 1
        /\ more[n + 1] = d /\ \A i \in 1 .. n : more[i] = t[i]
    <3>1. Len(more) = n + 1 /\ more \in Seq(S)
      BY AppendProperties
    <3> QED BY <3>1, AppendProperties, LenProperties
  <2>2. ASSUME Ordered(more, c) PROVE SortByTimestamp(more) = more
    <3>1. /\ \A i \in 1 .. n + 1 : IsDelta(more[i]) /\ more[i].timestamp <= c
          /\ \A i, j \in 1 .. n + 1 : i <= j => more[i].timestamp <= more[j].timestamp
      BY <2>1, <2>2 DEF Ordered
    <3>2. /\ \A i \in 1 .. n : i \in 1 .. n + 1 /\ i <= n + 1
          /\ n + 1 \in 1 .. n + 1
      OBVIOUS
    <3>3. Ordered(t, c)
      BY <2>1, <3>1, <3>2 DEF Ordered
    <3>4. \A i \in DOMAIN t : t[i].timestamp <= d.timestamp
      BY <2>1, <3>1, <3>2
    <3>5. SortByTimestamp(t) = t
      BY <1>2, <3>3
    <3>6. IsSeq(t)
      BY TypedIsSeq
    <3>7. SortByTimestamp(more) = Inserted(t, d)
      BY <3>5, <3>6, SortAppend
    <3> QED BY <3>4, <3>6, <3>7, InsertLatest
  <2> QED BY <2>1, <2>2
<1> HIDE DEF T
<1>3. s \in Seq(S)
  BY DEF IsSeq
<1>4. s \in T
  BY <1>1, <1>2, <1>3, ByAppending
<1> QED BY <1>4 DEF T

(* A later delta at the end. *)
LEMMA OrderedAppend ==
  ASSUME NEW s, IsSeq(s), NEW c \in Int, Ordered(s, c), NEW d, IsDelta(d), c <= d.timestamp
  PROVE  Ordered(Append(s, d), d.timestamp)
<1> PICK n \in Nat : n = Len(s)
  BY SeqIsFunction
<1> PICK more : more = Append(s, d)
  OBVIOUS
<1>1. /\ IsSeq(more) /\ Len(more) = n + 1 /\ more[n + 1] = d /\ \A i \in 1 .. n : more[i] = s[i]
  BY AppendIsSeq
<1>2. DOMAIN s = 1 .. n /\ DOMAIN more = 1 .. n + 1
  BY <1>1, SeqIsFunction
<1>3. d.timestamp \in Int /\ \A i \in 1 .. n : s[i].timestamp \in Int /\ s[i].timestamp <= d.timestamp
  <2>1. \A i \in 1 .. n : IsDelta(s[i]) /\ s[i].timestamp <= c
    BY <1>2 DEF Ordered
  <2>2. d.timestamp \in Int /\ \A i \in 1 .. n : s[i].timestamp \in Int
    BY <2>1 DEF IsDelta
  <2> QED BY <2>1, <2>2
<1>4. \A i \in 1 .. n + 1 : i \in 1 .. n \/ i = n + 1
  OBVIOUS
<1>5. ASSUME NEW i \in 1 .. n + 1 PROVE IsDelta(more[i]) /\ more[i].timestamp <= d.timestamp
  BY <1>1, <1>2, <1>3, <1>4 DEF Ordered
<1>6. ASSUME NEW i \in 1 .. n + 1, NEW j \in 1 .. n + 1, i <= j
      PROVE  more[i].timestamp <= more[j].timestamp
  <2>1. CASE j = n + 1
    BY <1>1, <1>5, <2>1
  <2>2. CASE j \in 1 .. n
    <3>1. i \in 1 .. n
      BY <1>6, <2>2
    <3> QED BY <1>1, <1>2, <1>6, <2>2, <3>1 DEF Ordered
  <2> QED BY <1>4, <2>1, <2>2
<1> QED BY <1>2, <1>5, <1>6 DEF Ordered

(* Collapsing leaves a sequence. *)
LEMMA CollapseIsSeq ==
  ASSUME NEW ops, AreOperations(ops)
  PROVE  IsSeq(CollapseOperations(ops))
<1> PICK n \in Nat : n = Len(ops)
  BY SeqIsFunction DEF AreOperations
<1>1. PICK f : CollapseRun(ops, n, f)
  BY CollapseRuns, Zenon
<1>2. ASSUME NEW m, IsSeq(m), NEW key, NEW x PROVE IsSeq(MapSet(m, key, x))
  <2>1. CASE \E i \in DOMAIN m : m[i].key = key
    <3> PICK r : r = MapSet(m, key, x)
      OBVIOUS
    <3>1. Len(m) \in Nat /\ DOMAIN m = 1 .. Len(m)
      BY <1>2, SeqIsFunction
    <3>2. r = [i \in DOMAIN m |-> IF m[i].key = key THEN [key |-> key, op |-> x] ELSE m[i]]
      BY <2>1 DEF MapSet
    <3>3. r = [i \in 1 .. Len(m) |-> r[i]]
      BY <3>1, <3>2
    <3> QED BY <3>1, <3>3, FunctionIsSeq
  <2>2. CASE ~\E i \in DOMAIN m : m[i].key = key
    <3>1. MapSet(m, key, x) = Append(m, [key |-> key, op |-> x])
      BY <2>2 DEF MapSet
    <3> QED BY <1>2, <3>1, AppendIsSeq
  <2> QED BY <2>1, <2>2
<1> DEFINE T == {k \in 0 .. n : IsSeq(f[k])}
<1>3. 0 \in T
  <2>1. f[0] = <<>>
    BY <1>1 DEF CollapseRun
  <2>2. IsSeq(<<>>)
    BY DEF IsSeq
  <2> QED BY <2>1, <2>2
<1>4. ASSUME NEW k \in 0 .. n - 1, k \in T PROVE k + 1 \in T
  <2> PICK m, op : m = f[k] /\ op = ops[k + 1]
    OBVIOUS
  <2>1. f[k + 1] = CollapseInto(m, op) /\ IsSeq(m) /\ k + 1 \in 1 .. n /\ k + 1 \in 0 .. n
    BY <1>1, <1>4 DEF CollapseRun
  <2>2. op.op \in {"set", "delete", "increment", "append", "remove"}
    BY <2>1 DEF AreOperations, IsOperation
  <2>3. \E key, x : CollapseInto(m, op) = MapSet(m, key, x)
    <3>1. CASE MapGet(m, PathKey(op)) = {}
      BY <3>1 DEF CollapseInto
    <3>2. CASE MapGet(m, PathKey(op)) # {}
      <4> PICK a : a = CHOOSE x \in MapGet(m, PathKey(op)) : TRUE
        OBVIOUS
      <4>1. CASE op.op \in {"set", "delete"}
        BY <3>2, <4>1 DEF CollapseInto
      <4>2. CASE op.op = "increment" /\ a.op \in {"increment", "set"}
        BY <3>2, <4>2 DEF CollapseInto
      <4>3. CASE op.op = "increment" /\ a.op \notin {"increment", "set"}
        BY <3>2, <4>3 DEF CollapseInto
      <4>4. CASE op.op \in {"append", "remove"}
        BY <3>2, <4>4 DEF CollapseInto
      <4> QED BY <2>2, <4>1, <4>2, <4>3, <4>4
    <3> QED BY <3>1, <3>2
  <2> QED BY <1>2, <2>1, <2>3
<1> HIDE DEF T
<1>5. \A k \in 0 .. n : k \in T
  BY <1>3, <1>4, UpToN
<1>6. IsSeq(f[n])
  BY <1>5 DEF T
<1>7. CollapseOperations(ops) = Flat(f[n])
  BY <1>1, CollapseRuns, Zenon
<1> QED BY <1>6, <1>7, FlatIs

(* The one delta that several deltas of an entity are merged into. *)
LEMMA MergedIs ==
  ASSUME NEW D, IsSeq(D), Len(D) \in Nat \ {0}, NEW c, Ordered(D, c)
  PROVE  /\ MergeEntityDeltas(D).entityId = D[Len(D)].entityId
         /\ MergeEntityDeltas(D).operations = CollapseOperations(OperationsOf(D))
<1> PICK last, ops, v : /\ last = D[Len(D)] /\ ops = CollapseOperations(OperationsOf(D))
                        /\ v = Head(D).fromVersion
  OBVIOUS
<1>1. SortByTimestamp(D) = D
  BY SortKeepsOrder
<1>2. MergeEntityDeltas(D) = [last EXCEPT !.fromVersion = v, !.operations = ops]
  BY <1>1 DEF MergeEntityDeltas, Last
<1>3. IsDelta(last)
  <2>1. Len(D) \in DOMAIN D
    BY SeqIsFunction
  <2> QED BY <2>1 DEF Ordered
<1>4. /\ [last EXCEPT !.fromVersion = v, !.operations = ops].entityId = last.entityId
      /\ [last EXCEPT !.fromVersion = v, !.operations = ops].operations = ops
  BY <1>3 DEF IsDelta
<1> QED BY <1>2, <1>4

(* What the compressed batch holds of an entity: its operations, or what   *)
(* collapseOperations makes of them.                                       *)
LEMMA CompressedOps ==
  ASSUME NEW s, IsSeq(s), NEW c, \A e : Ordered(DeltasOf(s, e), c), NEW e, AreOperations(OpsOf(s, e)),
         \A i \in DOMAIN s : IsDelta(s[i])
  PROVE  \/ OpsOf(Compress(s), e) = OpsOf(s, e)
         \/ OpsOf(Compress(s), e) = CollapseOperations(OpsOf(s, e))
<1> PICK D : D = DeltasOf(s, e)
  OBVIOUS
<1>1. IsSeq(D) /\ ToSet(D) = {d \in ToSet(s) : d.entityId = e}
  BY DeltasOfAre
<1>2. CASE Len(s) <= 1
  BY <1>2 DEF Compress
<1>3. CASE ~(Len(s) <= 1)
  <2> PICK ids, C : ids = EntityOrder(s) /\ C = Compress(s)
    OBVIOUS
  <2> DEFINE Group == [i \in DOMAIN ids |-> DeltasOf(s, ids[i])]
             Made(i) == IF Len(Group[i]) = 1 THEN Group[i][1] ELSE MergeEntityDeltas(Group[i])
  <2>1. C = [i \in DOMAIN ids |-> Made(i)]
    BY <1>3 DEF Compress
  <2>2. /\ IsSeq(ids) /\ \A i, j \in DOMAIN ids : ids[i] = ids[j] => i = j
        /\ ToSet(ids) = {s[i].entityId : i \in DOMAIN s}
    BY EntityOrderIs
  <2>3. IsSeq(C) /\ DOMAIN C = DOMAIN ids
    <3>1. DOMAIN ids = 1 .. Len(ids) /\ Len(ids) \in Nat
      BY <2>2, SeqIsFunction
    <3> HIDE DEF Made
    <3>2. C = [i \in 1 .. Len(ids) |-> C[i]]
      BY <2>1, <3>1
    <3> QED BY <2>1, <3>1, <3>2, FunctionIsSeq
  <2>4. ASSUME NEW i \in DOMAIN ids
        PROVE  LET G == DeltasOf(s, ids[i])
               IN  /\ C[i].entityId = ids[i]
                   /\ IF Len(G) = 1 THEN C[i] = G[1] ELSE C[i] = MergeEntityDeltas(G)
                   /\ IsSeq(G) /\ Len(G) \in Nat \ {0} /\ Ordered(G, c)
    <3> PICK id, G : id = ids[i] /\ G = DeltasOf(s, id)
      OBVIOUS
    <3>1. IsSeq(G) /\ ToSet(G) = {d \in ToSet(s) : d.entityId = id} /\ Ordered(G, c)
      BY DeltasOfAre
    <3>2. DOMAIN G = 1 .. Len(G) /\ Len(G) \in Nat
      BY <3>1, SeqIsFunction
    <3>3. Len(G) # 0
      <4>1. id \in ToSet(ids)
        BY DEF ToSet
      <4>2. PICK j \in DOMAIN s : s[j].entityId = id
        BY <2>2, <4>1
      <4>3. s[j] \in ToSet(G)
        BY <3>1, <4>2 DEF ToSet
      <4> QED BY <3>2, <4>3 DEF ToSet
    <3>4. \A j \in 1 .. Len(G) : G[j].entityId = id
      BY <3>1, <3>2 DEF ToSet
    <3>5. IF Len(G) = 1 THEN C[i] = G[1] ELSE C[i] = MergeEntityDeltas(G)
      BY <2>1
    <3>6. C[i].entityId = id
      BY <3>1, <3>2, <3>3, <3>4, <3>5, MergedIs
    <3> QED BY <3>1, <3>2, <3>3, <3>5, <3>6
  <2> HIDE DEF Group, Made
  <2>5. CASE e \notin ToSet(ids)
    <3>1. ToSet(D) = {}
      <4>1. \A d \in ToSet(s) : d.entityId \in ToSet(ids)
        BY <2>2 DEF ToSet
      <4> QED BY <1>1, <2>5, <4>1
    <3>2. IsSeq(DeltasOf(C, e)) /\ ToSet(DeltasOf(C, e)) = {}
      <4>1. \A d \in ToSet(C) : d.entityId # e
        BY <2>3, <2>4, <2>5 DEF ToSet
      <4> QED BY <2>3, <4>1, DeltasOfAre
    <3>3. \A x : IsSeq(x) /\ ToSet(x) = {} => x = <<>>
      BY DEF IsSeq
    <3> QED BY <1>1, <3>1, <3>2, <3>3 DEF OpsOf
  <2>6. CASE e \in ToSet(ids)
    <3>1. PICK i \in DOMAIN ids : ids[i] = e
      BY <2>6 DEF ToSet
    <3>2. DeltasOf(C, e) = <<C[i]>>
      <4>1. C[i].entityId = e /\ \A j \in DOMAIN C : C[j].entityId = e => j = i
        BY <2>2, <2>3, <2>4, <3>1
      <4> QED BY <2>3, <3>1, <4>1, OnlyDelta
    <3>3. /\ IF Len(D) = 1 THEN C[i] = D[1] ELSE C[i] = MergeEntityDeltas(D)
          /\ Len(D) \in Nat \ {0} /\ Ordered(D, c)
      BY <2>4, <3>1
    <3>4. CASE Len(D) = 1
      <4>1. D = <<D[1]>>
        <5>1. D = [j \in 1 .. 1 |-> D[j]]
          BY <1>1, <3>4, SeqIsFunction
        <5> QED BY <5>1
      <4> QED BY <3>2, <3>3, <3>4, <4>1 DEF OpsOf
    <3>5. CASE Len(D) # 1
      <4>1. C[i].operations = CollapseOperations(OpsOf(s, e))
        BY <1>1, <3>3, <3>5, MergedIs DEF OpsOf
      <4>2. IsSeq(C[i].operations)
        BY <4>1, CollapseIsSeq
      <4> QED BY <3>2, <4>1, <4>2, OnlyOperations DEF OpsOf
    <3> QED BY <3>4, <3>5
  <2> QED BY <2>5, <2>6
<1> QED BY <1>2, <1>3

-----------------------------------------------------------------------------
(* What a batch is: for every entity its deltas are in the order of their  *)
(* timestamps, and their operations are operations as the data objects     *)
(* know them.                                                              *)
BatchInv ==
  /\ IsSeq(batch) /\ \A i \in DOMAIN batch : IsDelta(batch[i])
  /\ base \in BaseData /\ clock \in Int
  /\ \A e : /\ Ordered(DeltasOf(batch, e), clock)
             /\ IsSeq(OpsOf(batch, e)) /\ AreOperations(OpsOf(batch, e))

(* It is so before the first delta. *)
LEMMA NothingYet ==
  ASSUME NEW c
  PROVE  IsSeq(<<>>) /\ DOMAIN <<>> = {} /\ AreOperations(<<>>) /\ Ordered(<<>>, c)
BY DEF IsSeq, AreOperations, Ordered

(* Every step of the batch keeps it so. *)
LEMMA BatchStep ==
  ASSUME BatchInv, [BatchNext]_batchVars
  PROVE  BatchInv'
<1>1. ASSUME NEW e \in BatchIds, NEW op \in Operations, NEW later \in {0, 1}, Receive(e, op, later)
      PROVE  BatchInv'
  <2> PICK d : d = [entityId |-> e, fromVersion |-> VersionOf(e), toVersion |-> VersionOf(e) + 1,
                    operations |-> <<op>>, timestamp |-> clock']
    OBVIOUS
  <2>1. batch' = Append(batch, d) /\ base' = base /\ clock' = clock + later
    BY <1>1 DEF Receive
  <2>2. /\ d.entityId = e /\ d.operations = <<op>> /\ d.timestamp = clock'
        /\ clock' \in Int /\ clock <= clock' /\ clock \in Int
    BY <2>1 DEF BatchInv
  <2>0. IsDelta(d)
    <3>1. IsSeq(<<op>>)
      BY DEF IsSeq, ToSet
    <3> QED BY <2>2, <3>1 DEF IsDelta
  <2>3. IsSeq(batch') /\ \A i \in DOMAIN batch' : IsDelta(batch'[i])
    <3>1. IsSeq(batch') /\ ToSet(batch') = ToSet(batch) \cup {d}
      BY <2>1, AppendIsSeq DEF BatchInv
    <3> QED BY <2>0, <3>1 DEF BatchInv, ToSet
  <2>4. ASSUME NEW x
        PROVE  /\ Ordered(DeltasOf(batch', x), clock')
               /\ IsSeq(OpsOf(batch', x)) /\ AreOperations(OpsOf(batch', x))
    <3>1. CASE x = e
      <4>1. DeltasOf(batch', x) = Append(DeltasOf(batch, x), d)
        BY <2>1, <2>2, <3>1, DeltasOfAppend DEF BatchInv
      <4>2. IsSeq(DeltasOf(batch, x))
        BY DeltasOfAre DEF BatchInv
      <4>3. OpsOf(batch', x) = OpsOf(batch, x) \o <<op>>
        BY <2>2, <4>1, <4>2, OperationsOfAppend DEF OpsOf
      <4>4. IsOperation(op)
        BY OperationsAssumption
      <4>5. Ordered(DeltasOf(batch', x), clock')
        BY <2>0, <2>2, <4>1, <4>2, OrderedAppend DEF BatchInv
      <4> QED BY <4>3, <4>4, <4>5, OneMoreOperation DEF BatchInv
    <3>2. CASE x # e
      <4>1. DeltasOf(batch', x) = DeltasOf(batch, x)
        BY <2>1, <2>2, <3>2, DeltasOfAppend DEF BatchInv
      <4>2. Ordered(DeltasOf(batch, x), clock')
        <5> PICK D : D = DeltasOf(batch, x)
          OBVIOUS
        <5>1. Ordered(D, clock)
          BY DEF BatchInv
        <5>2. \A i \in DOMAIN D : D[i].timestamp \in Int
          BY <5>1 DEF Ordered, IsDelta
        <5> QED BY <2>2, <5>1, <5>2 DEF Ordered
      <4> QED BY <4>1, <4>2 DEF OpsOf, BatchInv
    <3> QED BY <3>1, <3>2
  <2>5. base' \in BaseData
    BY <2>1 DEF BatchInv
  <2>6. \A x : OpsOf(batch, x)' = OpsOf(batch', x)
    BY DEF OpsOf
  <2> QED BY <2>2, <2>3, <2>4, <2>5, <2>6 DEF BatchInv
<1>2. ASSUME batch' = <<>>, base' \in BaseData, clock' = 0 PROVE BatchInv'
  <2>1. ASSUME NEW x
        PROVE  /\ Ordered(DeltasOf(batch', x), clock')
               /\ IsSeq(OpsOf(batch', x)) /\ AreOperations(OpsOf(batch', x))
    <3>1. OpsOf(batch', x) = <<>> /\ DeltasOf(batch', x) = <<>>
      BY <1>2, NoDeltas DEF OpsOf
    <3> QED BY <3>1, NothingYet
  <2>2. \A x : OpsOf(batch, x)' = OpsOf(batch', x)
    BY DEF OpsOf
  <2>3. IsSeq(batch') /\ DOMAIN batch' = {}
    BY <1>2, NothingYet
  <2> QED BY <1>2, <2>1, <2>2, <2>3 DEF BatchInv
<1>3. ASSUME UNCHANGED batchVars PROVE BatchInv'
  BY <1>3 DEF BatchInv, batchVars, OpsOf
<1> QED BY <1>1, <1>2, <1>3 DEF BatchNext, Flush

(* What the batch keeps while clients fill it and flushes empty it.        *)
THEOREM BatchInvariance == BatchSpec => []BatchInv
<1>1. BatchInit => BatchInv
  <2> SUFFICES ASSUME BatchInit PROVE BatchInv
    OBVIOUS
  <2>1. ASSUME NEW x PROVE OpsOf(batch, x) = <<>> /\ DeltasOf(batch, x) = <<>>
    BY NoDeltas DEF OpsOf, BatchInit
  <2>2. batch = <<>> /\ base \in BaseData /\ clock = 0
    BY DEF BatchInit
  <2> QED BY <2>1, <2>2, NothingYet DEF BatchInv
<1>2. BatchInv /\ [BatchNext]_batchVars => BatchInv'
  BY BatchStep
<1> QED BY <1>1, <1>2, PTL DEF BatchSpec

(* The early application of a batch's set and delete operations leaves no  *)
(* trace once updateEntity has applied them all.                           *)
THEOREM PreApplyIsAbsorbed == BatchSpec => []PreApplyAbsorbed
<1>1. BatchInv => PreApplyAbsorbed
  <2> SUFFICES ASSUME BatchInv, NEW e \in BatchIds
               PROVE  ApplyAll(PreApply(base, OpsOf(batch, e)), OpsOf(batch, e))
                        = ApplyAll(base, OpsOf(batch, e))
    BY DEF PreApplyAbsorbed
  <2> QED BY EarlyAbsorbed, BaseDataAssumption DEF BatchInv
<1> QED BY <1>1, BatchInvariance, PTL

(* Compressing a batch whose operations meet the conditions loses none of  *)
(* them: applied to the data the batch started from, what is left of it    *)
(* does what its deltas did one by one.                                    *)
THEOREM CompressionIsLossless == BatchSpec => []CompressionLossless
<1>1. BatchInv => CompressionLossless
  <2> SUFFICES ASSUME BatchInv, NEW e \in BatchIds, Collapsible(OpsOf(batch, e))
               PROVE  ApplyAll(base, OpsOf(Compress(batch), e)) = ApplyAll(base, OpsOf(batch, e))
    BY DEF CompressionLossless
  <2>1. IsData(base)
    BY BaseDataAssumption DEF BatchInv
  <2>2. ApplyAll(base, CollapseOperations(OpsOf(batch, e))) = ApplyAll(base, OpsOf(batch, e))
    BY <2>1, CollapseLossless DEF BatchInv
  <2>3. \/ OpsOf(Compress(batch), e) = OpsOf(batch, e)
        \/ OpsOf(Compress(batch), e) = CollapseOperations(OpsOf(batch, e))
    BY CompressedOps DEF BatchInv
  <2> QED BY <2>2, <2>3
<1> QED BY <1>1, BatchInvariance, PTL
=============================================================================
