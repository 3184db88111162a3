------------------------- MODULE StateManagerProofs -------------------------
(***************************************************************************)
(* The safety of StateManager for every set of ids, data objects,          *)
(* operation lists and bounds.                                             *)
(***************************************************************************)
EXTENDS StateManager, SequenceTheorems, NaturalsInduction, WellFoundedInduction, TLAPS

(* A serialised snapshot holds only ids that were handed out, at versions  *)
(* that its own version bounds.                                            *)
SavedSound ==
  \A s \in saved :
    /\ s = Snapshot(s.version, s.entities)
    /\ s.version \in Nat
    /\ DOMAIN s.entities \subseteq used
    /\ \A id \in DOMAIN s.entities :
         s.entities[id].version \in Nat \ {0} /\ s.entities[id].version <= s.version

(* The cache entry is either gone or describes the present state. *)
CacheCoherent == cache # NoSnapshot => cache.snapshot = Snapshot(version, entities)

IInv ==
  /\ TypeOK
  /\ HistoryChain
  /\ EntityVersionBounded
  /\ SavedSound
  /\ CacheCoherent

-----------------------------------------------------------------------------
(* The chain property of one history list that ends at version v. *)
ChainTo(h, v) ==
  /\ Len(h) \in 1 .. MaxHistory
  /\ h[Len(h)].toVersion = v
  /\ \A i \in 1 .. Len(h) : h[i].toVersion = h[i].fromVersion + 1
  /\ \A i \in 1 .. Len(h) - 1 : h[i + 1].fromVersion = h[i].toVersion

(* addToHistory extends a chain by one link and keeps it within the limit: *)
(* the shift removes the oldest link only.                                 *)
LEMMA PushKeepsChain ==
  ASSUME NEW S, NEW h \in Seq(S), NEW d \in S, NEW v \in Nat,
         h = <<>> \/ ChainTo(h, v),
         d.fromVersion = v, d.toVersion = v + 1
  PROVE  LET p == Append(h, d)
             q == IF Len(p) > MaxHistory THEN Tail(p) ELSE p
         IN  q \in Seq(S) /\ ChainTo(q, v + 1)
<1> DEFINE p == Append(h, d)
           q == IF Len(p) > MaxHistory THEN Tail(p) ELSE p
<1>1. /\ p \in Seq(S)
      /\ Len(p) = Len(h) + 1
      /\ \A i \in 1 .. Len(h) : p[i] = h[i]
      /\ p[Len(h) + 1] = d
      /\ Len(h) \in Nat
  BY AppendProperties, LenProperties
<1>2. Len(h) <= MaxHistory
  BY MaxHistoryAssumption, <1>1 DEF ChainTo
<1>3. /\ \A i \in 1 .. Len(p) : p[i].toVersion = p[i].fromVersion + 1
      /\ \A i \in 1 .. Len(p) - 1 : p[i + 1].fromVersion = p[i].toVersion
  <2>1. CASE h = <<>>
    BY <1>1, <2>1
  <2>2. CASE ChainTo(h, v)
    BY <1>1, <2>2 DEF ChainTo
  <2> QED BY <2>1, <2>2
<1>4. CASE Len(p) > MaxHistory
  <2>1. /\ Tail(p) \in Seq(S)
        /\ Len(Tail(p)) = Len(h)
        /\ \A i \in 1 .. Len(h) : Tail(p)[i] = p[i + 1]
    BY <1>1, HeadTailProperties
  <2>2. Len(h) = MaxHistory
    BY <1>1, <1>2, <1>4, MaxHistoryAssumption
  <2>3. ChainTo(Tail(p), v + 1)
    BY <1>1, <1>3, <2>1, <2>2, MaxHistoryAssumption, SMTT(30) DEF ChainTo
  <2> QED BY <1>4, <2>1, <2>3
<1>5. CASE ~(Len(p) > MaxHistory)
  BY <1>1, <1>3, <1>5, MaxHistoryAssumption DEF ChainTo
<1> QED BY <1>4, <1>5

-----------------------------------------------------------------------------
(* The store starts empty. *)
LEMMA InitEstablishes == Init => IInv
  BY MaxHistoryAssumption
     DEF Init, IInv, TypeOK, HistoryChain, EntityVersionBounded, SavedSound, CacheCoherent

(* createEntity. *)
LEMMA CreateKeeps ==
  ASSUME IInv, NEW id \in EntityIds, NEW data \in InitialData, CreateEntity(id, data)
  PROVE  IInv'
<1> DEFINE e == [data |-> data, version |-> 1, lastModified |-> now]
<1> USE DEF IInv
<1>1. /\ DOMAIN entities' = DOMAIN entities \cup {id}
      /\ entities'[id] = e
      /\ \A x \in DOMAIN entities \ {id} : entities'[x] = entities[x]
  BY DEF CreateEntity, MapPut
<1>2. id \notin DOMAIN entities /\ id \notin DOMAIN history
  BY DEF CreateEntity, TypeOK
<1>3. TypeOK'
  <2>1. \A x \in DOMAIN entities' : entities'[x].version \in Nat \ {0}
    BY <1>1 DEF TypeOK
  <2>2. DOMAIN entities' \subseteq used' /\ used' \subseteq EntityIds
    BY <1>1 DEF TypeOK, CreateEntity
  <2> QED BY <1>1, <2>1, <2>2 DEF CreateEntity, TypeOK
<1>4. HistoryChain'
  BY <1>1, <1>2 DEF CreateEntity, HistoryChain, TypeOK
<1>5. EntityVersionBounded'
  BY <1>1 DEF CreateEntity, EntityVersionBounded, TypeOK
<1>6. SavedSound' /\ CacheCoherent'
  BY DEF CreateEntity, SavedSound, CacheCoherent
<1> QED BY <1>3, <1>4, <1>5, <1>6

(* updateEntity: the history gains a link. *)
LEMMA UpdateKeeps ==
  ASSUME IInv, NEW id \in EntityIds, NEW ops \in OpLists, UpdateEntity(id, ops)
  PROVE  IInv'
<1> DEFINE from == entities[id].version
           d    == Delta(id, from, from + 1, ops, now)
           h    == HistoryOf(id)
           p    == Append(h, d)
           q    == IF Len(p) > MaxHistory THEN Tail(p) ELSE p
<1> USE DEF IInv
<1>1. id \in DOMAIN entities /\ from \in Nat \ {0} /\ now \in Nat
  BY DEF UpdateEntity, Write, TypeOK
<1>2. /\ DOMAIN entities' = DOMAIN entities
      /\ entities'[id].version = from + 1
      /\ \A x \in DOMAIN entities \ {id} : entities'[x] = entities[x]
  BY <1>1 DEF UpdateEntity, Write
<1>3. d \in DeltasOver(OpLists) /\ d.fromVersion = from /\ d.toVersion = from + 1
  BY <1>1 DEF Delta, DeltasOver
<1>4. h \in Seq(DeltasOver(OpLists)) /\ (h = <<>> \/ ChainTo(h, from))
  BY DEF HistoryOf, TypeOK, HistoryChain, ChainTo
<1>5. q \in Seq(DeltasOver(OpLists)) /\ ChainTo(q, from + 1)
  <2> HIDE DEF from, d, h
  <2> QED BY <1>1, <1>3, <1>4, PushKeepsChain
<1>6. history' = MapPut(history, id, q)
  BY DEF UpdateEntity, Write, AddToHistory
<1>7. /\ DOMAIN history' = DOMAIN history \cup {id}
      /\ history'[id] = q
      /\ \A x \in DOMAIN history \ {id} : history'[x] = history[x]
  <2> HIDE DEF q
  <2> QED BY <1>6 DEF MapPut
<1>8. TypeOK'
  <2>1. history' \in [DOMAIN history' -> Seq(DeltasOver(OpLists))]
    <3> HIDE DEF q
    <3>1. history' = [x \in DOMAIN history \cup {id} |-> IF x = id THEN q ELSE history[x]]
      BY <1>6 DEF MapPut
    <3>2. \A x \in DOMAIN history : history[x] \in Seq(DeltasOver(OpLists))
      BY DEF TypeOK
    <3> QED BY <1>5, <1>7, <3>1, <3>2
  <2>2. \A x \in DOMAIN entities' : entities'[x].version \in Nat \ {0}
    BY <1>1, <1>2 DEF TypeOK
  <2>3. DOMAIN history' \subseteq DOMAIN entities'
    BY <1>1, <1>2, <1>7 DEF TypeOK
  <2> QED BY <1>2, <2>1, <2>2, <2>3 DEF UpdateEntity, Write, TypeOK
<1>9. HistoryChain'
  <2> SUFFICES ASSUME NEW x \in DOMAIN history'
               PROVE  ChainTo(history'[x], entities'[x].version)
    BY DEF HistoryChain, ChainTo
  <2>1. CASE x = id
    BY <1>2, <1>5, <1>7, <2>1
  <2>2. CASE x # id
    BY <1>2, <1>7, <2>2 DEF HistoryChain, ChainTo, TypeOK
  <2> QED BY <2>1, <2>2
<1>10. EntityVersionBounded'
  BY <1>1, <1>2 DEF UpdateEntity, Write, EntityVersionBounded, TypeOK
<1>11. SavedSound' /\ CacheCoherent'
  BY DEF UpdateEntity, Write, SavedSound, CacheCoherent
<1> QED BY <1>8, <1>9, <1>10, <1>11

(* deleteEntity drops the history too. *)
LEMMA DeleteKeeps ==
  ASSUME IInv, NEW id \in EntityIds, DeleteEntity(id)
  PROVE  IInv'
<1> USE DEF IInv
<1>1. /\ DOMAIN entities' = DOMAIN entities \ {id}
      /\ \A x \in DOMAIN entities \ {id} : entities'[x] = entities[x]
      /\ DOMAIN history' = DOMAIN history \ {id}
      /\ \A x \in DOMAIN history \ {id} : history'[x] = history[x]
      /\ history' = [x \in DOMAIN history \ {id} |-> history[x]]
  BY DEF DeleteEntity, MapRemove
<1>2. TypeOK'
  BY <1>1 DEF DeleteEntity, TypeOK
<1>3. HistoryChain'
  BY <1>1 DEF HistoryChain, TypeOK
<1>4. EntityVersionBounded'
  BY <1>1 DEF DeleteEntity, EntityVersionBounded, TypeOK
<1>5. SavedSound' /\ CacheCoherent'
  BY DEF DeleteEntity, SavedSound, CacheCoherent
<1> QED BY <1>2, <1>3, <1>4, <1>5

(* A snapshot that is handed out is the present state. *)
LEMMA SnapshotKeeps == ASSUME IInv, TakeSnapshot PROVE IInv'
<1> USE DEF IInv
<1>1. CurrentSnapshot = Snapshot(version, entities)
  BY DEF CurrentSnapshot, CacheCoherent
<1>2. TypeOK' /\ HistoryChain' /\ EntityVersionBounded'
  BY DEF TakeSnapshot, CreateSnapshot, TypeOK, HistoryChain, EntityVersionBounded, Cached, NoSnapshot
<1>3. SavedSound'
  BY <1>1 DEF TakeSnapshot, CreateSnapshot, SavedSound, Snapshot, TypeOK, EntityVersionBounded
<1>4. CacheCoherent'
  BY <1>1 DEF TakeSnapshot, CreateSnapshot, CacheCoherent, Cached, Snapshot
<1> QED BY <1>2, <1>3, <1>4

(* loadSnapshot puts the version back and drops every history. *)
LEMMA LoadKeeps == ASSUME IInv, NEW s \in saved, LoadSnapshot(s) PROVE IInv'
<1> USE DEF IInv
<1>1. /\ entities' = s.entities
      /\ version' = s.version
      /\ DOMAIN history' = {}
      /\ history' = [x \in {} |-> <<>>]
      /\ cache' = NoSnapshot
      /\ UNCHANGED <<now, used, saved>>
  BY DEF LoadSnapshot
<1>2. TypeOK'
  BY <1>1 DEF TypeOK, SavedSound
<1>3. HistoryChain' /\ EntityVersionBounded'
  BY <1>1 DEF HistoryChain, EntityVersionBounded, SavedSound
<1>4. SavedSound' /\ CacheCoherent'
  BY <1>1 DEF SavedSound, CacheCoherent
<1> QED BY <1>2, <1>3, <1>4

(* clear. *)
LEMMA ClearKeeps == ASSUME IInv, Clear PROVE IInv'
  BY DEF IInv, Clear, TypeOK, HistoryChain, EntityVersionBounded, SavedSound, CacheCoherent

(* Steps that change no map. *)
LEMMA UnchangedKeeps ==
  ASSUME IInv, UNCHANGED <<entities, history, version, cache, used, saved>>, now' \in Nat
  PROVE  IInv'
  BY DEF IInv, TypeOK, HistoryChain, EntityVersionBounded, SavedSound, CacheCoherent

(* The invariant is inductive: every method of StateManager keeps it. *)
THEOREM NextKeeps == IInv /\ [Next]_smVars => IInv'
<1> SUFFICES ASSUME IInv, [Next]_smVars PROVE IInv'
  OBVIOUS
<1>1. ASSUME NEW id \in EntityIds, NEW data \in InitialData, CreateEntity(id, data)
      PROVE IInv'
  BY <1>1, CreateKeeps
<1>2. ASSUME NEW id \in EntityIds, NEW ops \in OpLists, UpdateEntity(id, ops) PROVE IInv'
  BY <1>2, UpdateKeeps
<1>3. ASSUME NEW id \in EntityIds, DeleteEntity(id) PROVE IInv'
  BY <1>3, DeleteKeeps
<1>4. ASSUME TakeSnapshot PROVE IInv'
  BY <1>4, SnapshotKeeps
<1>5. ASSUME NEW s \in saved, LoadSnapshot(s) PROVE IInv'
  BY <1>5, LoadKeeps
<1>6. ASSUME Clear PROVE IInv'
  BY <1>6, ClearKeeps
<1>7. ASSUME Tick PROVE IInv'
  BY <1>7, UnchangedKeeps DEF Tick, IInv, TypeOK
<1>8. ASSUME UNCHANGED smVars PROVE IInv'
  BY <1>8, UnchangedKeeps DEF smVars, IInv, TypeOK
<1> QED BY <1>1, <1>2, <1>3, <1>4, <1>5, <1>6, <1>7, <1>8 DEF Next

(* The inductive invariant holds in every reachable state of the store. *)
THEOREM Invariance == Spec => []IInv
  BY InitEstablishes, NextKeeps, PTL DEF Spec

(* Types: entity versions are positive, only handed-out ids are stored,    *)
(* and history is kept for stored entities only.                           *)
THEOREM TypeCorrect == Spec => []TypeOK
<1>1. IInv => TypeOK
  BY DEF IInv
<1> QED BY <1>1, Invariance, PTL

(* The retained deltas of every entity are an unbroken chain up to its     *)
(* present version, whatever maxHistoryPerEntity is.                       *)
THEOREM HistoryIsChain == Spec => []HistoryChain
<1>1. IInv => HistoryChain
  BY DEF IInv
<1> QED BY <1>1, Invariance, PTL

(* Entity versions never overtake the global version, even across          *)
(* loadSnapshot.                                                           *)
THEOREM VersionsBounded == Spec => []EntityVersionBounded
<1>1. IInv => EntityVersionBounded
  BY DEF IInv
<1> QED BY <1>1, Invariance, PTL

(* createSnapshot never hands out a stale cached snapshot. *)
THEOREM SnapshotsCurrent == Spec => []SnapshotIsCurrent
<1>1. IInv => SnapshotIsCurrent
  BY DEF IInv, CacheCoherent, SnapshotIsCurrent, CurrentSnapshot
<1> QED BY <1>1, Invariance, PTL
-----------------------------------------------------------------------------
(* For the modules that compose the store with other parts and leave the   *)
(* elements untyped: a sequence is one over its own elements.              *)
IsSeq(s) == s \in Seq(ToSet(s))

(* A function over 1 .. n is a sequence. *)
LEMMA FunctionIsSeq ==
  ASSUME NEW n \in Nat, NEW f, f = [i \in 1 .. n |-> f[i]]
  PROVE  IsSeq(f) /\ Len(f) = n
<1>1. f \in [1 .. n -> ToSet(f)]
  BY DEF ToSet
<1>2. f \in Seq(ToSet(f))
  BY <1>1, SeqDef
<1> QED BY <1>2, LenProperties DEF IsSeq

(* A sequence is a function over 1 .. Len. *)
LEMMA SeqIsFunction ==
  ASSUME NEW s, IsSeq(s)
  PROVE  /\ Len(s) \in Nat /\ DOMAIN s = 1 .. Len(s)
         /\ s = [i \in 1 .. Len(s) |-> s[i]]
BY LenProperties DEF IsSeq

(* The sequences of a set are sequences.                                   *)
LEMMA TypedIsSeq == ASSUME NEW S, NEW s \in Seq(S) PROVE IsSeq(s) /\ ToSet(s) \subseteq S
<1> PICK n \in Nat : n = Len(s)
  BY LenProperties
<1>1. DOMAIN s = 1 .. n /\ s = [i \in 1 .. n |-> s[i]] /\ \A i \in 1 .. n : s[i] \in S
  BY LenProperties
<1>2. IsSeq(s)
  BY <1>1, FunctionIsSeq
<1> QED BY <1>1, <1>2 DEF ToSet

(* Pushing, joining and shifting keep sequences, and add no other elements. *)
LEMMA AppendIsSeq ==
  ASSUME NEW s, IsSeq(s), NEW e
  PROVE  /\ IsSeq(Append(s, e))
         /\ Len(Append(s, e)) = Len(s) + 1
         /\ \A i \in 1 .. Len(s) : Append(s, e)[i] = s[i]
         /\ Append(s, e)[Len(s) + 1] = e
         /\ ToSet(Append(s, e)) = ToSet(s) \cup {e}
<1> DEFINE S == ToSet(s) \cup {e}
           a == Append(s, e)
<1>1. s \in Seq(S)
  BY SeqMonotonic DEF IsSeq
<1>2. /\ a \in Seq(S)
      /\ Len(a) = Len(s) + 1
      /\ \A i \in 1 .. Len(s) : a[i] = s[i]
      /\ a[Len(s) + 1] = e
  <2> HIDE DEF S
  <2>1. e \in S
    BY DEF S
  <2> QED BY <1>1, <2>1, AppendProperties
<1>3. Len(s) \in Nat /\ DOMAIN s = 1 .. Len(s)
  BY SeqIsFunction
<1>4. DOMAIN a = 1 .. Len(s) + 1 /\ a = [i \in 1 .. Len(s) + 1 |-> a[i]]
  BY <1>2, LenProperties
<1>5. IsSeq(a)
  <2> HIDE DEF a
  <2> QED BY <1>3, <1>4, FunctionIsSeq
<1>6. ToSet(a) = ToSet(s) \cup {e}
  <2> HIDE DEF a
  <2> QED BY <1>2, <1>3, <1>4, SMTT(30) DEF ToSet
<1> QED BY <1>2, <1>5, <1>6

(* Joining two sequences. *)
LEMMA ConcatIsSeq ==
  ASSUME NEW s, NEW t, IsSeq(s), IsSeq(t)
  PROVE  IsSeq(s \o t) /\ ToSet(s \o t) = ToSet(s) \cup ToSet(t)
<1> DEFINE S == ToSet(s) \cup ToSet(t)
           c == s \o t
<1>1. s \in Seq(S) /\ t \in Seq(S)
  BY SeqMonotonic DEF IsSeq
<1>2. /\ c \in Seq(S)
      /\ Len(c) = Len(s) + Len(t)
      /\ \A i \in 1 .. Len(s) + Len(t) : c[i] = IF i <= Len(s) THEN s[i] ELSE t[i - Len(s)]
  <2> HIDE DEF S
  <2> QED BY <1>1, ConcatProperties
<1>3. /\ Len(s) \in Nat /\ DOMAIN s = 1 .. Len(s)
      /\ Len(t) \in Nat /\ DOMAIN t = 1 .. Len(t)
  BY SeqIsFunction
<1>4. DOMAIN c = 1 .. Len(s) + Len(t) /\ c = [i \in 1 .. Len(s) + Len(t) |-> c[i]]
  BY <1>2, LenProperties
<1> HIDE DEF c
<1>5. IsSeq(c)
  BY <1>3, <1>4, FunctionIsSeq
<1>6. ToSet(c) \subseteq ToSet(s) \cup ToSet(t)
  BY <1>2, <1>3, <1>4 DEF ToSet
<1>7. ToSet(s) \subseteq ToSet(c)
  BY <1>2, <1>3, <1>4 DEF ToSet
<1>8. ToSet(t) \subseteq ToSet(c)
  <2> SUFFICES ASSUME NEW i \in 1 .. Len(t) PROVE t[i] \in ToSet(c)
    BY <1>3 DEF ToSet
  <2>1. Len(s) + i \in 1 .. Len(s) + Len(t) /\ c[Len(s) + i] = t[i]
    BY <1>2, <1>3
  <2> QED BY <1>4, <2>1 DEF ToSet
<1> QED BY <1>5, <1>6, <1>7, <1>8 DEF c

(* Shifting a sequence. *)
LEMMA TailIsSeq ==
  ASSUME NEW s, IsSeq(s), s # <<>>
  PROVE  /\ IsSeq(Tail(s))
         /\ ToSet(Tail(s)) \subseteq ToSet(s)
         /\ Head(s) \in ToSet(s)
<1> DEFINE S == ToSet(s)
           t == Tail(s)
<1>0. s \in Seq(S)
  BY DEF IsSeq
<1>1. /\ Head(s) = s[1] /\ t \in Seq(S) /\ Len(t) = Len(s) - 1 /\ Len(s) # 0
      /\ \A i \in 1 .. Len(t) : t[i] = s[i + 1]
  <2> HIDE DEF S
  <2> QED BY <1>0, HeadTailProperties, EmptySeq
<1>2. Len(s) \in Nat /\ DOMAIN s = 1 .. Len(s)
  BY SeqIsFunction
<1>3. DOMAIN t = 1 .. Len(s) - 1 /\ t = [i \in 1 .. Len(s) - 1 |-> t[i]]
  BY <1>1, LenProperties
<1> HIDE DEF t
<1>4. IsSeq(t)
  <2>1. Len(s) - 1 \in Nat
    BY <1>1, <1>2
  <2> QED BY <1>3, <2>1, FunctionIsSeq
<1>5. ToSet(t) \subseteq ToSet(s)
  BY <1>1, <1>2, <1>3 DEF ToSet
<1>6. Head(s) \in ToSet(s)
  BY <1>1, <1>2 DEF ToSet
<1> QED BY <1>4, <1>5, <1>6 DEF t

-----------------------------------------------------------------------------
(* A non-empty set of naturals has a least element. *)
LEMMA LeastNat ==
  ASSUME NEW T \in SUBSET Nat, T # {}
  PROVE  \E x \in T : \A y \in T : x <= y
<1>1. PICK x \in T : \A y \in T : ~(<<y, x>> \in OpToRel(<, Nat))
  BY NatLessThanWellFounded, WFMin
<1>2. \A y \in T : ~(y < x)
  BY <1>1 DEF OpToRel
<1>3. QED
  BY <1>2

(* What holds of 0 and passes from each number to the next holds up to n. *)
LEMMA UpToN ==
  ASSUME NEW n \in Nat, NEW T, 0 \in T,
         \A i \in 0 .. n - 1 : i \in T => i + 1 \in T
  PROVE  \A i \in 0 .. n : i \in T
<1> DEFINE F == {i \in 0 .. n : i \notin T}
<1> SUFFICES ASSUME F # {} PROVE FALSE
  OBVIOUS
<1>1. PICK i \in F : \A j \in F : i <= j
  <2> F \in SUBSET Nat
    OBVIOUS
  <2> QED BY LeastNat
<1>2. i \in 0 .. n /\ i \notin T /\ i # 0
  BY <1>1
<1>3. i - 1 \in 0 .. n - 1 /\ i - 1 \notin F
  BY <1>1, <1>2
<1> QED BY <1>2, <1>3

(* And so it holds of n.                                                   *)
LEMMA Reached ==
  ASSUME NEW n \in Nat, NEW T, 0 \in T,
         \A i \in 0 .. n - 1 : i \in T => i + 1 \in T
  PROVE  n \in T
<1>1. \A i \in 0 .. n : i \in T
  BY UpToN
<1>2. n \in 0 .. n
  OBVIOUS
<1> QED BY <1>1, <1>2

(* Applying a list of operations: nothing for the empty list, then one     *)
(* operation after the other.                                              *)
Partial(data, ops, k, f) ==
  f = [i \in 0 .. k |-> IF i = 0 THEN data ELSE ApplyOperation(f[i - 1], ops[i])]

(* There are such intermediate results, for every list.                    *)
LEMMA PartialExists ==
  ASSUME NEW data, NEW ops, NEW n \in Nat
  PROVE  \E f : Partial(data, ops, n, f)
<1> DEFINE T == {k \in 0 .. n : \E f : Partial(data, ops, k, f)}
<1>1. 0 \in T
  <2>1. Partial(data, ops, 0, [i \in 0 .. 0 |-> data])
    BY DEF Partial
  <2> QED BY <2>1
<1>2. ASSUME NEW k \in 0 .. n - 1, k \in T PROVE k + 1 \in T
  <2>1. PICK f : Partial(data, ops, k, f)
    BY <1>2
  <2> DEFINE next == ApplyOperation(f[k], ops[k + 1])
             g == [i \in 0 .. k + 1 |-> IF i <= k THEN f[i] ELSE next]
  <2>2. \A i \in 0 .. k : f[i] = IF i = 0 THEN data ELSE ApplyOperation(f[i - 1], ops[i])
    BY <2>1 DEF Partial
  <2>3. ASSUME NEW i \in 0 .. k + 1
        PROVE  g[i] = IF i = 0 THEN data ELSE ApplyOperation(g[i - 1], ops[i])
    <3>1. CASE i <= k
      BY <2>2, <3>1
    <3>2. CASE i = k + 1
      <4>1. g[i] = next /\ g[i - 1] = f[k] /\ i # 0
        BY <3>2
      <4> HIDE DEF g
      <4> QED BY <3>2, <4>1
    <3> QED BY <3>1, <3>2
  <2>4. g = [i \in 0 .. k + 1 |-> g[i]]
    OBVIOUS
  <2> HIDE DEF g
  <2>5. Partial(data, ops, k + 1, g)
    BY <2>3, <2>4 DEF Partial
  <2> QED BY <2>5
<1> HIDE DEF T
<1>3. n \in T
  BY <1>1, <1>2, Reached, Zenon
<1> QED BY <1>3 DEF T

(* The intermediate results of applying a list of operations.              *)
Runs(data, ops, f) ==
  /\ f[0] = data
  /\ \A i \in 1 .. Len(ops) : f[i] = ApplyOperation(f[i - 1], ops[i])

(* There are such results, and whichever they are, the last is ApplyAll's. *)
LEMMA ApplyAllRuns ==
  ASSUME NEW data, NEW ops, IsSeq(ops)
  PROVE  /\ \E f : Runs(data, ops, f)
         /\ \A f : Runs(data, ops, f) => ApplyAll(data, ops) = f[Len(ops)]
<1> PICK n \in Nat : n = Len(ops)
  BY SeqIsFunction
<1> DEFINE A == CHOOSE f : f = [i \in 0 .. n |->
                                 IF i = 0 THEN data ELSE ApplyOperation(f[i - 1], ops[i])]
<1>1. Partial(data, ops, n, A)
  <2>1. \E f : f = [i \in 0 .. n |-> IF i = 0 THEN data ELSE ApplyOperation(f[i - 1], ops[i])]
    <3>1. PICK f : Partial(data, ops, n, f)
      BY PartialExists
    <3>2. f = [i \in 0 .. n |-> IF i = 0 THEN data ELSE ApplyOperation(f[i - 1], ops[i])]
      BY <3>1 DEF Partial
    <3> QED BY <3>2, Zenon
  <2>2. A = [i \in 0 .. n |-> IF i = 0 THEN data ELSE ApplyOperation(A[i - 1], ops[i])]
    BY <2>1, Zenon
  <2> QED BY <2>2 DEF Partial
<1>2. ApplyAll(data, ops) = A[n]
  BY DEF ApplyAll
<1> HIDE DEF A
<1>3. Runs(data, ops, A)
  BY <1>1 DEF Partial, Runs
<1>4. ASSUME NEW f, Runs(data, ops, f) PROVE f[n] = A[n]
  <2> DEFINE T == {i \in 0 .. n : f[i] = A[i]}
  <2>1. 0 \in T
    BY <1>3, <1>4 DEF Runs
  <2>2. ASSUME NEW i \in 0 .. n - 1, i \in T PROVE i + 1 \in T
    <3>1. i + 1 \in 1 .. Len(ops) /\ (i + 1) - 1 = i /\ f[i] = A[i]
      BY <2>2
    <3> QED BY <1>3, <1>4, <3>1 DEF Runs
  <2> HIDE DEF T
  <2>3. n \in T
    BY <2>1, <2>2, Reached, Zenon
  <2> QED BY <2>3 DEF T
<1> QED BY <1>2, <1>3, <1>4

(* No operations, and one more.                                            *)
LEMMA ApplyAllNone ==
  ASSUME NEW data, NEW ops, IsSeq(ops), Len(ops) = 0
  PROVE  ApplyAll(data, ops) = data
<1>1. PICK f : Runs(data, ops, f)
  BY ApplyAllRuns
<1>2. ApplyAll(data, ops) = f[Len(ops)]
  BY <1>1, ApplyAllRuns, Zenon
<1>3. ApplyAll(data, ops) = f[0]
  BY <1>2, Zenon
<1> QED BY <1>1, <1>3 DEF Runs

(* One more operation is applied to what the others left.                  *)
LEMMA ApplyAllAppend ==
  ASSUME NEW data, NEW S, NEW ops \in Seq(S), NEW op \in S
  PROVE  ApplyAll(data, Append(ops, op)) = ApplyOperation(ApplyAll(data, ops), op)
<1> PICK n \in Nat : n = Len(ops)
  OBVIOUS
<1> PICK more : more = Append(ops, op)
  OBVIOUS
<1>1. /\ Len(more) = n + 1 /\ more[n + 1] = op
      /\ \A i \in 1 .. n : more[i] = ops[i]
  BY AppendProperties
<1>0. IsSeq(more) /\ IsSeq(ops)
  <2>1. IsSeq(ops)
    BY TypedIsSeq
  <2> QED BY <2>1, AppendIsSeq
<1>2. PICK f : Runs(data, more, f)
  BY <1>0, ApplyAllRuns, Zenon
<1>3. Runs(data, ops, f)
  BY <1>1, <1>2 DEF Runs
<1>4. ApplyAll(data, more) = f[n + 1] /\ ApplyAll(data, ops) = f[n]
  <2>1. ApplyAll(data, more) = f[Len(more)] /\ ApplyAll(data, ops) = f[Len(ops)]
    BY <1>0, <1>2, <1>3, ApplyAllRuns, Zenon
  <2> QED BY <1>1, <2>1
<1>5. f[n + 1] = ApplyOperation(f[n], more[n + 1])
  BY <1>1, <1>2 DEF Runs
<1> QED BY <1>1, <1>4, <1>5

-----------------------------------------------------------------------------
(* p is q or a prefix of it. *)
Under(p, q) == p = q \/ IsStrictPrefix(p, q)

(* A prefix, place by place. *)
LEMMA PrefixIs ==
  ASSUME NEW s, NEW t, IsSeq(s), IsSeq(t)
  PROVE  /\ IsStrictPrefix(s, t) => Len(s) < Len(t) /\ \A i \in 1 .. Len(s) : s[i] = t[i]
         /\ Len(s) < Len(t) /\ (\A i \in 1 .. Len(s) : s[i] = t[i]) => IsStrictPrefix(s, t)
<1>1. /\ Len(s) \in Nat /\ s = [i \in 1 .. Len(s) |-> s[i]] /\ DOMAIN s = 1 .. Len(s)
      /\ Len(t) \in Nat /\ t = [i \in 1 .. Len(t) |-> t[i]] /\ DOMAIN t = 1 .. Len(t)
  BY SeqIsFunction
<1> PICK m \in Nat : m = Len(s)
  BY <1>1
<1> DEFINE S == ToSet(s) \cup ToSet(t)
           a == SubSeq(s, 1, m)
           b == SubSeq(t, 1, m)
<1>2. /\ a \in Seq(S) /\ Len(a) = m /\ \A i \in 1 .. m : a[i] = s[i]
  <2>1. \A i \in 1 .. m : s[i] \in S
    BY <1>1 DEF ToSet
  <2> HIDE DEF S
  <2>2. /\ a \in Seq(S) /\ Len(a) = IF 1 <= m THEN m - 1 + 1 ELSE 0
        /\ \A i \in 1 .. m - 1 + 1 : a[i] = s[1 + i - 1]
    BY <2>1, SubSeqProperties
  <2> HIDE DEF a
  <2> QED BY <2>2
<1>3. CASE m <= Len(t)
  <2>1. /\ b \in Seq(S) /\ Len(b) = m /\ \A i \in 1 .. m : b[i] = t[i]
    <3>1. \A i \in 1 .. m : t[i] \in S
      BY <1>1, <1>3 DEF ToSet
    <3> HIDE DEF S
    <3>2. /\ b \in Seq(S) /\ Len(b) = IF 1 <= m THEN m - 1 + 1 ELSE 0
          /\ \A i \in 1 .. m - 1 + 1 : b[i] = t[1 + i - 1]
      BY <3>1, SubSeqProperties
    <3> HIDE DEF b
    <3> QED BY <3>2
  <2> HIDE DEF a, b, S
  <2>2. a = b <=> \A i \in 1 .. m : s[i] = t[i]
    <3>1. (\A i \in 1 .. m : s[i] = t[i]) => a = b
      BY <1>2, <2>1, SeqEqual, Zenon
    <3> QED BY <1>2, <2>1, <3>1
  <2>3. m = Len(t) /\ (\A i \in 1 .. m : s[i] = t[i]) => s = t
    BY <1>1
  <2>4. s = t => Len(s) = Len(t)
    OBVIOUS
  <2>5. IsStrictPrefix(s, t) <=> a = b /\ s # t
    BY <1>3 DEF IsStrictPrefix, IsPrefix, a, b
  <2> QED BY <1>1, <1>3, <2>2, <2>3, <2>4, <2>5
<1>4. CASE ~(m <= Len(t))
  BY <1>1, <1>4 DEF IsStrictPrefix, IsPrefix
<1> QED BY <1>3, <1>4

(* The ancestors of a path are the strict prefixes but the empty one: they *)
(* are paths, and the path is not above them.                              *)
LEMMA AncestorIs ==
  ASSUME NEW p, IsPath(p)
  PROVE  /\ \A q \in Ancestors(p) : IsPath(q) /\ ~Under(p, q) /\ IsStrictPrefix(q, p)
         /\ \A q : IsPath(q) /\ IsStrictPrefix(q, p) => q \in Ancestors(p)
<1>1. IsSeq(p) /\ Len(p) \in Nat /\ DOMAIN p = 1 .. Len(p)
  BY SeqIsFunction DEF IsPath, IsSeq
<1> PICK n \in Nat : n = Len(p)
  BY <1>1
<1>2. ASSUME NEW i \in 1 .. n - 1
      PROVE  LET q == SubSeq(p, 1, i)
             IN  IsPath(q) /\ Len(q) = i /\ \A j \in 1 .. i : q[j] = p[j]
  <2> DEFINE q == SubSeq(p, 1, i)
  <2>1. \A j \in 1 .. i : p[j] \in ToSet(p)
    BY <1>1 DEF ToSet
  <2> PICK S : S = ToSet(p)
    OBVIOUS
  <2>2. /\ q \in Seq(S) /\ Len(q) = IF 1 <= i THEN i - 1 + 1 ELSE 0
        /\ \A j \in 1 .. i - 1 + 1 : q[j] = p[1 + j - 1]
    BY <2>1, SubSeqProperties
  <2> HIDE DEF q
  <2>3. Len(q) = i /\ \A j \in 1 .. i : q[j] = p[j]
    BY <2>2
  <2>4. q = [j \in 1 .. i |-> q[j]]
    BY <2>2, <2>3, LenProperties
  <2>5. IsSeq(q)
    BY <2>4, FunctionIsSeq
  <2>6. q # <<>>
    BY <2>3
  <2> QED BY <2>3, <2>5, <2>6 DEF q, IsPath, IsSeq
<1>3. ASSUME NEW q \in Ancestors(p)
      PROVE  IsPath(q) /\ ~Under(p, q) /\ IsStrictPrefix(q, p)
  <2>1. PICK i \in 1 .. n - 1 : q = SubSeq(p, 1, i)
    BY DEF Ancestors
  <2>2. IsPath(q) /\ Len(q) = i /\ \A j \in 1 .. i : q[j] = p[j]
    BY <1>2, <2>1
  <2>3. IsSeq(q)
    BY <2>2 DEF IsPath, IsSeq
  <2>a. Len(q) < Len(p) /\ ~(Len(p) < Len(q)) /\ \A j \in 1 .. Len(q) : q[j] = p[j]
    BY <1>1, <2>2
  <2>4. IsStrictPrefix(q, p) /\ ~IsStrictPrefix(p, q)
    BY <1>1, <2>a, <2>3, PrefixIs, Zenon
  <2>b. p # q
    BY <1>1, <2>a
  <2>5. ~Under(p, q)
    BY <2>4, <2>b, Zenon DEF Under
  <2> QED BY <2>2, <2>4, <2>5
<1>4. ASSUME NEW q, IsPath(q), IsStrictPrefix(q, p) PROVE q \in Ancestors(p)
  <2>1. IsSeq(q) /\ q # <<>>
    BY <1>4 DEF IsPath, IsSeq
  <2>2. /\ Len(q) \in Nat /\ q = [i \in 1 .. Len(q) |-> q[i]]
        /\ Len(q) < n /\ \A i \in 1 .. Len(q) : q[i] = p[i]
    BY <1>1, <1>4, <2>1, SeqIsFunction, PrefixIs
  <2>3. Len(q) # 0
    BY <2>1, EmptySeq DEF IsSeq
  <2> PICK i \in 1 .. n - 1 : i = Len(q)
    BY <2>2, <2>3
  <2> DEFINE r == SubSeq(p, 1, i)
  <2>4. IsPath(r) /\ Len(r) = i /\ \A j \in 1 .. i : r[j] = p[j]
    BY <1>2
  <2>5. r = [j \in 1 .. i |-> r[j]]
    <3> HIDE DEF r
    <3> QED BY <2>4, SeqIsFunction, Zenon DEF IsPath, IsSeq
  <2>6. q = r
    <3> HIDE DEF r
    <3> QED BY <2>2, <2>4, <2>5
  <2> QED BY <2>6, Zenon DEF Ancestors
<1> QED BY <1>3, <1>4

(* What is under a path that is under another is under the other.          *)
LEMMA UnderUnder ==
  ASSUME NEW s, NEW p, NEW q, IsPath(s), IsPath(p), IsPath(q), Under(s, p), Under(p, q)
  PROVE  Under(s, q)
<1>1. /\ IsSeq(s) /\ IsSeq(p) /\ IsSeq(q)
      /\ Len(s) \in Nat /\ Len(p) \in Nat /\ Len(q) \in Nat
  BY SeqIsFunction DEF IsPath, IsSeq
<1> SUFFICES ASSUME IsStrictPrefix(s, p), IsStrictPrefix(p, q) PROVE IsStrictPrefix(s, q)
  BY DEF Under
<1> QED BY <1>1, PrefixIs

(* Two paths above a third are on one line.                                *)
LEMMA OneLine ==
  ASSUME NEW s, NEW p, NEW q, IsPath(s), IsPath(p), IsPath(q), Under(s, q), Under(p, q)
  PROVE  Under(s, p) \/ Under(p, s)
<1>1. /\ IsSeq(s) /\ IsSeq(p) /\ IsSeq(q)
      /\ Len(s) \in Nat /\ Len(p) \in Nat /\ Len(q) \in Nat
  BY SeqIsFunction DEF IsPath, IsSeq
<1> SUFFICES ASSUME IsStrictPrefix(s, q), IsStrictPrefix(p, q)
             PROVE  Under(s, p) \/ Under(p, s)
  BY DEF Under
<1>2. /\ Len(s) < Len(q) /\ \A i \in 1 .. Len(s) : s[i] = q[i]
      /\ Len(p) < Len(q) /\ \A i \in 1 .. Len(p) : p[i] = q[i]
  BY <1>1, PrefixIs
<1>3. CASE Len(s) < Len(p)
  BY <1>1, <1>2, <1>3, PrefixIs DEF Under
<1>4. CASE Len(p) < Len(s)
  BY <1>1, <1>2, <1>4, PrefixIs DEF Under
<1>5. CASE Len(s) = Len(p)
  <2>1. s = p
    <3>1. s = [i \in 1 .. Len(s) |-> s[i]] /\ p = [i \in 1 .. Len(s) |-> p[i]]
      BY <1>1, <1>5, SeqIsFunction
    <3> QED BY <1>1, <1>2, <1>5, <3>1
  <2> QED BY <2>1 DEF Under
<1>6. Len(s) < Len(p) \/ Len(p) < Len(s) \/ Len(s) = Len(p)
  <2>1. \A a, b \in Nat : a < b \/ b < a \/ a = b
    OBVIOUS
  <2> QED BY <1>1, <2>1, Zenon
<1> QED BY <1>3, <1>4, <1>5, <1>6, Zenon

-----------------------------------------------------------------------------
(* What a data object holds at a path: a value, or nothing.                *)
At(d, q) == IF q \in DOMAIN d THEN {d[q]} ELSE {}
ValueIn(x) == IF x = {} THEN Undefined ELSE CHOOSE v \in x : TRUE

(* What walking past a place leaves there, what an operation leaves at its *)
(* own path, and whether it keeps what lies below.                         *)
Walked(x) == IF IsContainer(ValueIn(x)) THEN x ELSE {Obj}
Effect(op, x) ==
  CASE op.op = "set"       -> {op.value}
    [] op.op = "delete"    -> {}
    [] op.op = "increment" -> {Num(NumberOr(ValueIn(x), 0) + NumberOr(op.value, 1))}
    [] op.op = "append"    -> {Arr(IF ValueIn(x).t = "arr" THEN Append(ValueIn(x).elems, op.value.n)
                                                        ELSE <<op.value.n>>)}
    [] op.op = "remove"    -> IF ValueIn(x).t = "arr"
                              THEN {Arr(Filter(ValueIn(x).elems, op.value.n))} ELSE x
Keeps(op, x) ==
  \/ op.op = "append" /\ ValueIn(x).t = "arr"
  \/ op.op = "remove" /\ ValueIn(x).t # "arr"

(* ValueAt by At. *)
LEMMA ValueInAt == ASSUME NEW d, NEW q PROVE ValueIn(At(d, q)) = ValueAt(d, q)
<1>1. ASSUME NEW v PROVE ValueIn({v}) = v
  BY DEF ValueIn
<1> QED BY <1>1 DEF ValueIn, At, ValueAt

(* Objects that hold the same at every path are equal. *)
LEMMA SameData ==
  ASSUME NEW d, NEW e, IsData(d), IsData(e),
         \A q : IsPath(q) => At(d, q) = At(e, q)
  PROVE  d = e
<1>1. /\ d = [p \in DOMAIN d |-> d[p]] /\ e = [p \in DOMAIN e |-> e[p]]
      /\ \A p \in DOMAIN d : IsPath(p)
      /\ \A p \in DOMAIN e : IsPath(p)
  BY DEF IsData
<1>2. \A p \in DOMAIN d : p \in DOMAIN e /\ e[p] = d[p]
  BY <1>1 DEF At
<1>3. \A p \in DOMAIN e : p \in DOMAIN d /\ e[p] = d[p]
  BY <1>1 DEF At
<1> QED BY <1>1, <1>2, <1>3

(* Walking to a path leaves an object, and changes only what is above it.  *)
LEMMA WalkAt ==
  ASSUME NEW d, NEW p, IsData(d), IsPath(p)
  PROVE  /\ IsData(WalkTo(d, p))
         /\ \A q : At(WalkTo(d, p), q) = IF q \in Ancestors(p) THEN Walked(At(d, q)) ELSE At(d, q)
<1> DEFINE w == WalkTo(d, p)
           W(q) == IF q \in Ancestors(p) /\ ~IsContainer(ValueAt(d, q)) THEN Obj ELSE d[q]
<1>1. w = [q \in DOMAIN d \cup Ancestors(p) |-> W(q)]
  BY DEF WalkTo
<1>2. /\ DOMAIN w = DOMAIN d \cup Ancestors(p)
      /\ \A q \in DOMAIN w : w[q] = W(q)
      /\ w = [q \in DOMAIN w |-> w[q]]
  <2> HIDE DEF W, w
  <2> QED BY <1>1
<1>3. IsValue(Obj) /\ ~IsContainer(Undefined)
  BY DEF IsValue, Obj, IsContainer, Undefined
<1> HIDE DEF w
<1>4. IsData(w)
  <2> SUFFICES ASSUME NEW q \in DOMAIN w PROVE IsPath(q) /\ IsValue(w[q])
    BY <1>2 DEF IsData
  <2>1. CASE q \in Ancestors(p) /\ ~IsContainer(ValueAt(d, q))
    BY <1>2, <1>3, <2>1, AncestorIs
  <2>2. CASE ~(q \in Ancestors(p) /\ ~IsContainer(ValueAt(d, q)))
    <3>1. q \in DOMAIN d
      BY <1>2, <1>3, <2>2 DEF ValueAt
    <3> QED BY <1>2, <2>2, <3>1 DEF IsData
  <2> QED BY <2>1, <2>2
<1>5. ASSUME NEW q
      PROVE  At(w, q) = IF q \in Ancestors(p) THEN Walked(At(d, q)) ELSE At(d, q)
  <2>1. CASE q \notin Ancestors(p)
    BY <1>2, <2>1 DEF At
  <2>2. CASE q \in Ancestors(p) /\ ~IsContainer(ValueAt(d, q))
    <3>1. At(w, q) = {Obj}
      BY <1>2, <2>2 DEF At
    <3>2. Walked(At(d, q)) = {Obj}
      BY <2>2, ValueInAt DEF Walked
    <3> QED BY <2>2, <3>1, <3>2
  <2>3. CASE q \in Ancestors(p) /\ IsContainer(ValueAt(d, q))
    <3>1. q \in DOMAIN d /\ Walked(At(d, q)) = At(d, q)
      BY <1>3, <2>3, ValueInAt DEF Walked, ValueAt
    <3>2. At(w, q) = At(d, q)
      BY <1>2, <2>3, <3>1 DEF At
    <3> QED BY <2>3, <3>1, <3>2
  <2> QED BY <2>1, <2>2, <2>3
<1> QED BY <1>4, <1>5 DEF w

(* Deleting a path takes what is below it too; assigning one replaces it.  *)
LEMMA WithoutAt ==
  ASSUME NEW d, NEW p, IsData(d)
  PROVE  /\ IsData(Without(d, p))
         /\ \A q : At(Without(d, p), q) = IF Under(p, q) THEN {} ELSE At(d, q)
<1>1. /\ DOMAIN Without(d, p) = DOMAIN d \ ({p} \cup Below(d, p))
      /\ \A q \in DOMAIN Without(d, p) : Without(d, p)[q] = d[q]
      /\ Without(d, p) = [q \in DOMAIN Without(d, p) |-> Without(d, p)[q]]
  BY DEF Without
<1>2. \A q \in DOMAIN d : q \in {p} \cup Below(d, p) <=> Under(p, q)
  BY DEF Below, Under
<1> QED BY <1>1, <1>2 DEF IsData, At

(* Assigning a path empties what is below it and leaves the rest alone.    *)
LEMMA AssignAt ==
  ASSUME NEW d, NEW p, NEW v, IsData(d), IsPath(p), IsValue(v)
  PROVE  /\ IsData(Assign(d, p, v))
         /\ \A q : At(Assign(d, p, v), q) =
                     IF q = p THEN {v} ELSE IF Under(p, q) THEN {} ELSE At(d, q)
<1>1. PICK w : w = Without(d, p)
  OBVIOUS
<1>2. IsData(w) /\ \A q : At(w, q) = IF Under(p, q) THEN {} ELSE At(d, q)
  BY <1>1, WithoutAt
<1>3. p \notin DOMAIN w
  BY <1>2 DEF At, Under
<1> DEFINE a == Assign(d, p, v)
<1>4. a = [q \in DOMAIN w \cup {p} |-> IF q = p THEN v ELSE d[q]]
  BY <1>1 DEF Assign
<1>5. \A q \in DOMAIN w : w[q] = d[q]
  BY <1>1 DEF Without
<1> HIDE DEF a
<1>6. IsData(a)
  BY <1>2, <1>4, <1>5 DEF IsData
<1>7. \A q : At(a, q) = IF q = p THEN {v} ELSE At(w, q)
  BY <1>3, <1>4, <1>5 DEF At
<1> QED BY <1>2, <1>6, <1>7 DEF a


(* Filtering: intermediate results up to every place exist, and sequences  *)
(* of numbers stay such.                                                   *)
Filtered(s, x, k, f) ==
  f = [i \in 0 .. k |-> IF i = 0 THEN <<>>
                        ELSE IF s[i] = x THEN f[i - 1] ELSE Append(f[i - 1], s[i])]

(* Filtering has such intermediate results.                                *)
LEMMA FilterExists == ASSUME NEW s, NEW x, NEW n \in Nat PROVE \E f : Filtered(s, x, n, f)
<1> DEFINE T == {k \in 0 .. n : \E f : Filtered(s, x, k, f)}
<1>1. 0 \in T
  <2>1. Filtered(s, x, 0, [i \in 0 .. 0 |-> <<>>])
    BY DEF Filtered
  <2> QED BY <2>1
<1>2. ASSUME NEW k \in 0 .. n - 1, k \in T PROVE k + 1 \in T
  <2>1. PICK f : Filtered(s, x, k, f)
    BY <1>2
  <2> DEFINE next == IF s[k + 1] = x THEN f[k] ELSE Append(f[k], s[k + 1])
             g == [i \in 0 .. k + 1 |-> IF i <= k THEN f[i] ELSE next]
  <2>2. \A i \in 0 .. k : f[i] = IF i = 0 THEN <<>>
                                 ELSE IF s[i] = x THEN f[i - 1] ELSE Append(f[i - 1], s[i])
    BY <2>1 DEF Filtered
  <2>3. ASSUME NEW i \in 0 .. k + 1
        PROVE  g[i] = IF i = 0 THEN <<>>
                      ELSE IF s[i] = x THEN g[i - 1] ELSE Append(g[i - 1], s[i])
    <3>1. CASE i <= k
      <4>1. g[i] = f[i] /\ (i # 0 => g[i - 1] = f[i - 1])
        BY <3>1
      <4> HIDE DEF g
      <4> QED BY <2>2, <3>1, <4>1
    <3>2. CASE i = k + 1
      <4>1. g[i] = next /\ g[i - 1] = f[k] /\ i # 0
        BY <3>2
      <4> HIDE DEF g
      <4> QED BY <3>2, <4>1
    <3> QED BY <3>1, <3>2
  <2>4. g = [i \in 0 .. k + 1 |-> g[i]]
    OBVIOUS
  <2> HIDE DEF g
  <2>5. Filtered(s, x, k + 1, g)
    BY <2>3, <2>4 DEF Filtered
  <2> QED BY <2>5
<1> HIDE DEF T
<1>3. n \in T
  BY <1>1, <1>2, Reached, Zenon
<1> QED BY <1>3 DEF T

(* Filtering an array of numbers gives an array of numbers.                *)
LEMMA FilterIsSeq == ASSUME NEW s \in Seq(Int), NEW x PROVE Filter(s, x) \in Seq(Int)
<1> PICK n \in Nat : n = Len(s)
  OBVIOUS
<1> DEFINE A == CHOOSE f : f = [i \in 0 .. n |-> IF i = 0 THEN <<>>
                      ELSE IF s[i] = x THEN f[i - 1] ELSE Append(f[i - 1], s[i])]
<1>1. PICK f : Filtered(s, x, n, f)
  BY FilterExists
<1>2. f = [i \in 0 .. n |-> IF i = 0 THEN <<>>
                      ELSE IF s[i] = x THEN f[i - 1] ELSE Append(f[i - 1], s[i])]
  BY <1>1 DEF Filtered
<1>3. A = [i \in 0 .. n |-> IF i = 0 THEN <<>>
                      ELSE IF s[i] = x THEN A[i - 1] ELSE Append(A[i - 1], s[i])]
  BY <1>2, Zenon
<1>4. Filter(s, x) = A[n]
  BY DEF Filter
<1> HIDE DEF A
<1>5. \A i \in 0 .. n : A[i] = IF i = 0 THEN <<>>
                      ELSE IF s[i] = x THEN A[i - 1] ELSE Append(A[i - 1], s[i])
  BY <1>3
<1> DEFINE T == {i \in 0 .. n : A[i] \in Seq(Int)}
<1>6. 0 \in T
  <2>1. A[0] = <<>>
    BY <1>5
  <2>2. <<>> \in Seq(Int)
    BY EmptySeq
  <2>3. A[0] \in Seq(Int)
    BY <2>1, <2>2, Zenon
  <2> QED BY <2>3
<1>7. ASSUME NEW i \in 0 .. n - 1, i \in T PROVE i + 1 \in T
  <2>1. A[i] \in Seq(Int) /\ s[i + 1] \in Int /\ i + 1 \in 0 .. n /\ i + 1 # 0 /\ (i + 1) - 1 = i
    BY <1>7, LenProperties
  <2>2. A[i + 1] = IF s[i + 1] = x THEN A[i] ELSE Append(A[i], s[i + 1])
    BY <1>5, <2>1
  <2>3. Append(A[i], s[i + 1]) \in Seq(Int)
    BY <2>1, AppendProperties
  <2>4. A[i + 1] \in Seq(Int)
    BY <2>1, <2>2, <2>3
  <2> QED BY <2>1, <2>4
<1> HIDE DEF T
<1>8. n \in T
  <2>1. \A i \in 0 .. n : i \in T
    BY <1>6, <1>7, UpToN
  <2> QED BY <2>1
<1>9. A[n] \in Seq(Int)
  BY <1>8 DEF T
<1> QED BY <1>4, <1>9

(* The number an increment adds or adds to.                                *)
LEMMA NumberIsInt ==
  ASSUME NEW v, IsValue(v), NEW k \in Int
  PROVE  NumberOr(v, k) \in Int
<1>1. v.n \in Int /\ v.elems \in Seq(Int)
  BY DEF IsValue
<1>2. Len(v.elems) = 1 => v.elems[1] \in Int
  BY <1>1, ElementOfSeq
<1> QED BY <1>1, <1>2 DEF NumberOr

(* An operation walks to its path, leaves y there, and removes what lies   *)
(* below unless it keeps it.                                               *)
Leaves(d, p, y, keeps, r) ==
  /\ IsData(r)
  /\ \A q : At(r, q) = IF q \in Ancestors(p) THEN Walked(At(d, q))
                       ELSE IF q = p THEN y
                       ELSE IF Under(p, q) /\ ~keeps THEN {} ELSE At(d, q)

(* Walking to a path leaves what is there.                                 *)
LEMMA WalkLeaves ==
  ASSUME NEW d, NEW p, IsData(d), IsPath(p)
  PROVE  Leaves(d, p, At(d, p), TRUE, WalkTo(d, p))
BY WalkAt DEF Leaves

(* Assigning a path leaves the assigned value there.                       *)
LEMMA AssignLeaves ==
  ASSUME NEW d, NEW p, NEW v, IsData(d), IsPath(p), IsValue(v)
  PROVE  Leaves(d, p, {v}, FALSE, Assign(WalkTo(d, p), p, v))
<1> PICK w : w = WalkTo(d, p)
  OBVIOUS
<1>1. /\ IsData(w)
      /\ \A q : At(w, q) = IF q \in Ancestors(p) THEN Walked(At(d, q)) ELSE At(d, q)
  BY WalkAt
<1>2. /\ IsData(Assign(w, p, v))
      /\ \A q : At(Assign(w, p, v), q) =
                  IF q = p THEN {v} ELSE IF Under(p, q) THEN {} ELSE At(w, q)
  BY <1>1, AssignAt
<1>3. \A q \in Ancestors(p) : ~Under(p, q) /\ q # p
  BY AncestorIs DEF Under
<1> QED BY <1>1, <1>2, <1>3 DEF Leaves

(* Deleting a path leaves nothing there.                                   *)
LEMMA WithoutLeaves ==
  ASSUME NEW d, NEW p, IsData(d), IsPath(p)
  PROVE  Leaves(d, p, {}, FALSE, Without(WalkTo(d, p), p))
<1> PICK w : w = WalkTo(d, p)
  OBVIOUS
<1>1. /\ IsData(w)
      /\ \A q : At(w, q) = IF q \in Ancestors(p) THEN Walked(At(d, q)) ELSE At(d, q)
  BY WalkAt
<1>2. /\ IsData(Without(w, p))
      /\ \A q : At(Without(w, p), q) = IF Under(p, q) THEN {} ELSE At(w, q)
  BY <1>1, WithoutAt
<1>3. \A q \in Ancestors(p) : ~Under(p, q) /\ q # p
  BY AncestorIs DEF Under
<1>4. Under(p, p)
  BY DEF Under
<1> QED BY <1>1, <1>2, <1>3, <1>4 DEF Leaves

(* An array, extended in place: the rest is left alone.                    *)
LEMMA ExtendLeaves ==
  ASSUME NEW d, NEW p, NEW v, IsData(d), IsPath(p), IsValue(v), p \in DOMAIN d
  PROVE  Leaves(d, p, {v}, TRUE, [WalkTo(d, p) EXCEPT ![p] = v])
<1> PICK w : w = WalkTo(d, p)
  OBVIOUS
<1>1. /\ IsData(w)
      /\ \A q : At(w, q) = IF q \in Ancestors(p) THEN Walked(At(d, q)) ELSE At(d, q)
  BY WalkAt
<1>2. p \in DOMAIN w /\ p \notin Ancestors(p)
  <2>1. p \notin Ancestors(p)
    BY AncestorIs DEF Under
  <2> QED BY <1>1, <2>1 DEF At
<1>3. [w EXCEPT ![p] = v] = [q \in DOMAIN w |-> IF q = p THEN v ELSE w[q]]
  BY <1>1 DEF IsData
<1>4. \A q : At([w EXCEPT ![p] = v], q) = IF q = p THEN {v} ELSE At(w, q)
  BY <1>2, <1>3 DEF At
<1>5. IsData([w EXCEPT ![p] = v])
  BY <1>1, <1>2, <1>3 DEF IsData
<1> QED BY <1>1, <1>2, <1>4, <1>5 DEF Leaves

(* An array of numbers is a value.                                         *)
LEMMA ArrIsValue == ASSUME NEW s \in Seq(Int) PROVE IsValue(Arr(s))
  BY DEF IsValue, Arr

(* A number is a value.                                                    *)
LEMMA NumIsValue == ASSUME NEW n \in Int PROVE IsValue(Num(n))
<1>1. <<>> \in Seq(Int)
  BY EmptySeq
<1> QED BY <1>1 DEF IsValue, Num

(* An operation changes its own path by its effect, and nothing apart.     *)
LEMMA OperationAt ==
  ASSUME NEW d, NEW op, IsData(d), IsOperation(op)
  PROVE  LET x == At(d, op.path)
         IN  Leaves(d, op.path, Effect(op, x), Keeps(op, x), ApplyOperation(d, op))
<1> PICK p : p = op.path
  OBVIOUS
<1> PICK w : w = WalkTo(d, p)
  OBVIOUS
<1> PICK x : x = At(d, p)
  OBVIOUS
<1> PICK h : h = ValueIn(x)
  OBVIOUS
<1>1. /\ IsPath(p) /\ IsValue(op.value) /\ op.value.n \in Int
      /\ op.op \in {"set", "delete", "increment", "append", "remove"}
  BY DEF IsOperation, IsValue
<1>2. ValueAt(w, p) = h
  <2>1. p \notin Ancestors(p)
    BY <1>1, AncestorIs DEF Under
  <2>2. At(w, p) = x
    BY <1>1, <2>1, WalkAt
  <2> QED BY <2>2, ValueInAt
<1>3. IsValue(h) /\ (h.t = "arr" => p \in DOMAIN d /\ p \in DOMAIN w /\ w[p] = h)
  <2>1. IsValue(Undefined) /\ Undefined.t # "arr"
    <3>1. <<>> \in Seq(Int)
      BY EmptySeq
    <3> QED BY <3>1 DEF IsValue, Undefined
  <2>2. h = ValueAt(d, p)
    BY ValueInAt
  <2> QED BY <1>2, <2>1, <2>2 DEF ValueAt, IsData
<1>4. h.elems \in Seq(Int)
  BY <1>3 DEF IsValue
<1> SUFFICES Leaves(d, p, Effect(op, x), Keeps(op, x), ApplyOperation(d, op))
  OBVIOUS
<1>5. CASE op.op = "set"
  <2>1. /\ ApplyOperation(d, op) = Assign(w, p, op.value)
        /\ Effect(op, x) = {op.value} /\ Keeps(op, x) = FALSE
    BY <1>5 DEF ApplyOperation, Effect, Keeps
  <2> QED BY <1>1, <2>1, AssignLeaves
<1>6. CASE op.op = "delete"
  <2>1. /\ ApplyOperation(d, op) = Without(w, p)
        /\ Effect(op, x) = {} /\ Keeps(op, x) = FALSE
    BY <1>6 DEF ApplyOperation, Effect, Keeps
  <2> QED BY <1>1, <2>1, WithoutLeaves
<1>7. CASE op.op = "increment"
  <2> PICK v : v = Num(NumberOr(h, 0) + NumberOr(op.value, 1))
    OBVIOUS
  <2>1. /\ ApplyOperation(d, op) = Assign(w, p, v)
        /\ Effect(op, x) = {v} /\ Keeps(op, x) = FALSE
    BY <1>2, <1>7 DEF ApplyOperation, Effect, Keeps
  <2>2. IsValue(v)
    BY <1>1, <1>3, NumberIsInt, NumIsValue
  <2> QED BY <1>1, <2>1, <2>2, AssignLeaves
<1>8. CASE op.op = "append"
  <2>0. ApplyOperation(d, op) = Push(w, p, op.value)
    BY <1>8 DEF ApplyOperation
  <2>1. CASE h.t = "arr"
    <3> PICK v : v = Arr(Append(h.elems, op.value.n))
      OBVIOUS
    <3>1. Push(w, p, op.value) = [w EXCEPT ![p] = v]
      BY <1>2, <1>3, <2>1 DEF Push
    <3>2. Effect(op, x) = {v} /\ Keeps(op, x) = TRUE
      BY <1>8, <2>1 DEF Effect, Keeps
    <3>3. IsValue(v)
      <4>1. Append(h.elems, op.value.n) \in Seq(Int)
        BY <1>1, <1>4, AppendProperties
      <4> QED BY <4>1, ArrIsValue
    <3>4. Leaves(d, p, {v}, TRUE, [w EXCEPT ![p] = v])
      BY <1>1, <1>3, <2>1, <3>3, ExtendLeaves
    <3> QED BY <2>0, <3>1, <3>2, <3>4, Zenon
  <2>2. CASE h.t # "arr"
    <3> PICK v : v = Arr(<<op.value.n>>)
      OBVIOUS
    <3>1. Push(w, p, op.value) = Assign(w, p, v)
      BY <1>2, <2>2 DEF Push
    <3>2. Effect(op, x) = {v} /\ Keeps(op, x) = FALSE
      BY <1>8, <2>2 DEF Effect, Keeps
    <3>3. IsValue(v)
      <4>1. <<op.value.n>> \in Seq(Int)
        BY <1>1
      <4> QED BY <4>1, ArrIsValue
    <3> QED BY <1>1, <2>0, <3>1, <3>2, <3>3, AssignLeaves
  <2> QED BY <2>1, <2>2
<1>9. CASE op.op = "remove"
  <2>1. CASE h.t = "arr"
    <3> PICK v : v = Arr(Filter(h.elems, op.value.n))
      OBVIOUS
    <3>1. ApplyOperation(d, op) = Assign(w, p, v)
      BY <1>2, <1>3, <1>9, <2>1 DEF ApplyOperation
    <3>2. Effect(op, x) = {v} /\ Keeps(op, x) = FALSE
      BY <1>9, <2>1 DEF Effect, Keeps
    <3>3. IsValue(v)
      BY <1>4, FilterIsSeq, ArrIsValue
    <3> QED BY <1>1, <3>1, <3>2, <3>3, AssignLeaves
  <2>2. CASE h.t # "arr"
    <3>1. ApplyOperation(d, op) = w
      BY <1>2, <1>9, <2>2 DEF ApplyOperation
    <3>2. Effect(op, x) = x /\ Keeps(op, x) = TRUE
      BY <1>9, <2>2 DEF Effect, Keeps
    <3> QED BY <1>1, <3>1, <3>2, WalkLeaves
  <2> QED BY <2>1, <2>2
<1> QED BY <1>1, <1>5, <1>6, <1>7, <1>8, <1>9

-----------------------------------------------------------------------------
(* The early application performs set and delete and walks for the rest.   *)
Overwrites(op) == op.op \in {"set", "delete"}
(* What the early application of one operation leaves.                     *)
LEMMA OperationToDataAt ==
  ASSUME NEW d, NEW op, IsData(d), IsOperation(op)
  PROVE  LET x == At(d, op.path)
         IN  Leaves(d, op.path, IF Overwrites(op) THEN Effect(op, x) ELSE x, ~Overwrites(op),
                    ApplyOperationToData(d, op))
<1> PICK p : p = op.path
  OBVIOUS
<1> PICK x : x = At(d, p)
  OBVIOUS
<1>1. CASE Overwrites(op)
  <2>1. Leaves(d, p, Effect(op, x), Keeps(op, x), ApplyOperation(d, op))
    BY OperationAt
  <2>2. /\ Keeps(op, x) = FALSE /\ (~Overwrites(op)) = FALSE
        /\ ApplyOperationToData(d, op) = ApplyOperation(d, op)
    BY <1>1 DEF Overwrites, Keeps, ApplyOperationToData
  <2>3. (IF Overwrites(op) THEN Effect(op, x) ELSE x) = Effect(op, x)
    BY <1>1
  <2> QED BY <2>1, <2>2, <2>3
<1>2. CASE ~Overwrites(op)
  <2>1. Leaves(d, p, x, TRUE, WalkTo(d, p))
    BY WalkLeaves DEF IsOperation
  <2>2. (~Overwrites(op)) = TRUE /\ ApplyOperationToData(d, op) = WalkTo(d, p)
    BY <1>2 DEF Overwrites, ApplyOperationToData
  <2>3. (IF Overwrites(op) THEN Effect(op, x) ELSE x) = x
    BY <1>2
  <2> QED BY <2>1, <2>2, <2>3
<1> QED BY <1>1, <1>2

(* What walking past two places leaves is the same: then both are the same *)
(* array or neither is one.                                                *)
LEMMA WalkedIs ==
  ASSUME NEW d, NEW e, NEW p, NEW q
  PROVE  LET x == At(d, p)
             y == At(e, q)
         IN  /\ Walked(Walked(x)) = Walked(x)
             /\ Walked(x) = Walked(y) =>
                  /\ ValueIn(x).t = "arr" <=> ValueIn(y).t = "arr"
                  /\ ValueIn(x).t = "arr" => x = y
<1> PICK x : x = At(d, p)
  OBVIOUS
<1> PICK y : y = At(e, q)
  OBVIOUS
<1>1. \A v : ValueIn({v}) = v
  BY DEF ValueIn
<1>2. Undefined.t # "arr" /\ Obj.t = "obj" /\ IsContainer(Obj) /\ ~IsContainer(Undefined)
  BY DEF Undefined, Obj, IsContainer
<1>3. /\ x = {} => ValueIn(x) = Undefined
      /\ x # {} => x = {ValueIn(x)}
      /\ y = {} => ValueIn(y) = Undefined
      /\ y # {} => y = {ValueIn(y)}
  BY <1>1 DEF At, ValueIn
<1>4. Walked(Walked(x)) = Walked(x)
  BY <1>1, <1>2 DEF Walked
<1>5. ASSUME NEW v, v.t = "arr" PROVE IsContainer(v) /\ v # Obj
  BY <1>2, <1>5 DEF IsContainer
<1>6. ASSUME ValueIn(x).t = "arr", Walked(x) = Walked(y) PROVE x = y
  <2>1. Walked(x) = x /\ x = {ValueIn(x)} /\ ValueIn(x) # Obj
    BY <1>2, <1>3, <1>5, <1>6 DEF Walked
  <2> QED BY <1>6, <2>1 DEF Walked
<1>7. ASSUME ValueIn(y).t = "arr", Walked(x) = Walked(y) PROVE x = y
  <2>1. Walked(y) = y /\ y = {ValueIn(y)} /\ ValueIn(y) # Obj
    BY <1>2, <1>3, <1>5, <1>7 DEF Walked
  <2> QED BY <1>7, <2>1 DEF Walked
<1> QED BY <1>4, <1>6, <1>7

(* Two objects agree up to what the operations after place k overwrite     *)
(* (Erased) or walk past (WalkedPast).                                         *)
Erased(ops, k, q) == \E j \in k + 1 .. Len(ops) : Overwrites(ops[j]) /\ Under(ops[j].path, q)
WalkedPast(ops, k, q) == \E j \in k + 1 .. Len(ops) : q \in Ancestors(ops[j].path)
Agree(d, e, ops, k) ==
  \A q : IsPath(q) =>
    \/ Erased(ops, k, q)
    \/ /\ Walked(At(d, q)) = Walked(At(e, q))
       /\ WalkedPast(ops, k, q) \/ At(d, q) = At(e, q)

(* Applying any of the operations early keeps the agreement.               *)
LEMMA EarlyAgrees ==
  ASSUME NEW d, NEW e, NEW ops, NEW j \in 1 .. Len(ops), Len(ops) \in Nat,
         IsData(d), IsOperation(ops[j]), Agree(d, e, ops, 0)
  PROVE  Agree(ApplyOperationToData(d, ops[j]), e, ops, 0)
<1> PICK op : op = ops[j]
  OBVIOUS
<1> PICK p : p = op.path
  OBVIOUS
<1> PICK r : r = ApplyOperationToData(d, op)
  OBVIOUS
<1>1. /\ \A q : At(r, q) = IF q \in Ancestors(p) THEN Walked(At(d, q))
                       ELSE IF q = p THEN IF Overwrites(op) THEN Effect(op, At(d, p)) ELSE At(d, p)
                       ELSE IF Under(p, q) /\ Overwrites(op) THEN {} ELSE At(d, q)
  <2>1. Leaves(d, p, IF Overwrites(op) THEN Effect(op, At(d, p)) ELSE At(d, p), ~Overwrites(op), r)
    BY OperationToDataAt
  <2> QED BY <2>1 DEF Leaves
<1> SUFFICES ASSUME NEW q, IsPath(q), ~Erased(ops, 0, q)
             PROVE  /\ Walked(At(r, q)) = Walked(At(e, q))
                    /\ WalkedPast(ops, 0, q) \/ At(r, q) = At(e, q)
  BY DEF Agree
<1>2. /\ Walked(At(d, q)) = Walked(At(e, q))
      /\ WalkedPast(ops, 0, q) \/ At(d, q) = At(e, q)
  BY DEF Agree
<1>3. ~(Overwrites(op) /\ Under(p, q))
  BY DEF Erased
<1>4. CASE q \in Ancestors(p)
  <2>1. WalkedPast(ops, 0, q)
    BY <1>4 DEF WalkedPast
  <2>2. Walked(At(r, q)) = Walked(At(d, q))
    BY <1>1, <1>4, WalkedIs
  <2> QED BY <1>2, <2>1, <2>2
<1>5. CASE q \notin Ancestors(p)
  <2>1. At(r, q) = At(d, q)
    BY <1>1, <1>3, <1>5 DEF Under
  <2> QED BY <1>2, <2>1
<1> QED BY <1>4, <1>5

(* Applying the next operation to both keeps it too.                       *)
LEMMA NextAgrees ==
  ASSUME NEW d, NEW e, NEW ops, IsSeq(ops), NEW k \in 0 .. Len(ops) - 1,
         IsData(d), IsData(e), \A j \in 1 .. Len(ops) : IsOperation(ops[j]),
         Agree(d, e, ops, k)
  PROVE  Agree(ApplyOperation(d, ops[k + 1]), ApplyOperation(e, ops[k + 1]), ops, k + 1)
<1> PICK n \in Nat : n = Len(ops)
  BY SeqIsFunction
<1> PICK op : op = ops[k + 1]
  OBVIOUS
<1> PICK p : p = op.path
  OBVIOUS
<1> PICK x : x = At(d, p)
  OBVIOUS
<1> PICK y : y = At(e, p)
  OBVIOUS
<1> PICK r : r = ApplyOperation(d, op)
  OBVIOUS
<1> PICK s : s = ApplyOperation(e, op)
  OBVIOUS
<1>1. IsOperation(op) /\ IsPath(p)
  <2>1. k + 1 \in 1 .. n
    OBVIOUS
  <2> QED BY <2>1 DEF IsOperation
<1>2. /\ \A q : At(r, q) = IF q \in Ancestors(p) THEN Walked(At(d, q))
                           ELSE IF q = p THEN Effect(op, x)
                           ELSE IF Under(p, q) /\ ~Keeps(op, x) THEN {} ELSE At(d, q)
      /\ \A q : At(s, q) = IF q \in Ancestors(p) THEN Walked(At(e, q))
                           ELSE IF q = p THEN Effect(op, y)
                           ELSE IF Under(p, q) /\ ~Keeps(op, y) THEN {} ELSE At(e, q)
  <2>1. Leaves(d, p, Effect(op, x), Keeps(op, x), r)
    BY <1>1, OperationAt
  <2>2. Leaves(e, p, Effect(op, y), Keeps(op, y), s)
    BY <1>1, OperationAt
  <2> QED BY <2>1, <2>2 DEF Leaves
<1> SUFFICES ASSUME NEW q, IsPath(q), ~Erased(ops, k + 1, q)
             PROVE  /\ Walked(At(r, q)) = Walked(At(s, q))
                    /\ WalkedPast(ops, k + 1, q) \/ At(r, q) = At(s, q)
  BY DEF Agree
<1>3. /\ \A z : Erased(ops, k, z) <=> Erased(ops, k + 1, z) \/ (Overwrites(op) /\ Under(p, z))
      /\ \A z : WalkedPast(ops, k, z) <=> WalkedPast(ops, k + 1, z) \/ z \in Ancestors(p)
  <2>1. \A j : j \in k + 1 .. n <=> j = k + 1 \/ j \in (k + 1) + 1 .. n
    OBVIOUS
  <2> QED BY <2>1 DEF Erased, WalkedPast
<1>4. \A z : IsPath(z) /\ ~Erased(ops, k, z) =>
               /\ Walked(At(d, z)) = Walked(At(e, z))
               /\ WalkedPast(ops, k, z) \/ At(d, z) = At(e, z)
  BY DEF Agree
<1>5. CASE q \in Ancestors(p)
  <2>1. ~Under(p, q)
    BY <1>1, <1>5, AncestorIs
  <2>2. Walked(At(d, q)) = Walked(At(e, q))
    BY <1>3, <1>4, <2>1
  <2> QED BY <1>2, <1>5, <2>2
<1>6. CASE q \notin Ancestors(p) /\ ~Under(p, q)
  <2>1. At(r, q) = At(d, q) /\ At(s, q) = At(e, q)
    BY <1>2, <1>6 DEF Under
  <2> QED BY <1>3, <1>4, <1>6, <2>1
<1>7. CASE Under(p, q) /\ Overwrites(op)
  <2>1. /\ Effect(op, x) = Effect(op, y)
        /\ ~Keeps(op, x) /\ ~Keeps(op, y)
    BY <1>7 DEF Overwrites, Effect, Keeps
  <2>2. q \notin Ancestors(p)
    BY <1>1, <1>7, AncestorIs
  <2> QED BY <1>2, <1>7, <2>1, <2>2
<1>8. CASE Under(p, q) /\ ~Overwrites(op)
  <2>1. q \notin Ancestors(p) /\ p \notin Ancestors(p)
    BY <1>1, <1>8, AncestorIs DEF Under
  <2>2. ~Erased(ops, k, p)
    <3> SUFFICES ASSUME NEW j \in k + 1 .. n, Overwrites(ops[j]), Under(ops[j].path, p)
                 PROVE  FALSE
      BY DEF Erased
    <3>1. IsPath(ops[j].path)
      <4>1. j \in 1 .. n
        OBVIOUS
      <4> QED BY <4>1 DEF IsOperation
    <3>2. Under(ops[j].path, q)
      BY <1>1, <1>8, <3>1, UnderUnder
    <3>3. Erased(ops, k, q)
      BY <3>2 DEF Erased
    <3> QED BY <1>3, <1>8, <3>3
  <2>3. /\ Walked(x) = Walked(y)
        /\ WalkedPast(ops, k + 1, p) \/ x = y
    BY <1>1, <1>3, <1>4, <2>1, <2>2
  <2>4. /\ ValueIn(x).t = "arr" <=> ValueIn(y).t = "arr"
        /\ ValueIn(x).t = "arr" => x = y
    BY <2>3, WalkedIs
  <2>5. CASE q = p
    <3>1. Walked(Effect(op, x)) = Walked(Effect(op, y))
      <4>1. CASE op.op = "increment"
        <5>1. \A v : ValueIn({v}) = v
          BY DEF ValueIn
        <5>2. \A m : ~IsContainer(Num(m))
          BY DEF IsContainer, Num
        <5>3. \A m : Walked({Num(m)}) = {Obj}
          BY <5>1, <5>2 DEF Walked
        <5> QED BY <4>1, <5>3 DEF Effect
      <4>2. CASE op.op = "append"
        BY <2>4, <4>2 DEF Effect
      <4>3. CASE op.op = "remove"
        BY <2>3, <2>4, <4>3 DEF Effect
      <4> QED BY <1>1, <1>8, <4>1, <4>2, <4>3 DEF IsOperation, Overwrites
    <3> QED BY <1>2, <2>1, <2>3, <2>5, <3>1
  <2>6. CASE q # p
    <3>1. Keeps(op, x) <=> Keeps(op, y)
      BY <2>4 DEF Keeps
    <3>2. CASE Keeps(op, x)
      <4>1. At(r, q) = At(d, q) /\ At(s, q) = At(e, q)
        BY <1>2, <2>1, <2>6, <3>1, <3>2
      <4> QED BY <1>3, <1>4, <1>8, <2>1, <4>1
    <3>3. CASE ~Keeps(op, x)
      <4>1. At(r, q) = {} /\ At(s, q) = {}
        BY <1>2, <1>8, <2>1, <2>6, <3>1, <3>3
      <4> QED BY <4>1
    <3> QED BY <3>2, <3>3
  <2> QED BY <2>5, <2>6
<1> QED BY <1>5, <1>6, <1>7, <1>8


(* The early application of a list: there are intermediate results.        *)
EarlyPartial(data, ops, k, f) ==
  f = [i \in 0 .. k |-> IF i = 0 THEN data ELSE ApplyOperationToData(f[i - 1], ops[i])]

(* There are such intermediate results, for every list.                    *)
LEMMA EarlyExists ==
  ASSUME NEW data, NEW ops, NEW n \in Nat
  PROVE  \E f : EarlyPartial(data, ops, n, f)
<1> DEFINE T == {k \in 0 .. n : \E f : EarlyPartial(data, ops, k, f)}
<1>1. 0 \in T
  <2>1. EarlyPartial(data, ops, 0, [i \in 0 .. 0 |-> data])
    BY DEF EarlyPartial
  <2> QED BY <2>1
<1>2. ASSUME NEW k \in 0 .. n - 1, k \in T PROVE k + 1 \in T
  <2>1. PICK f : EarlyPartial(data, ops, k, f)
    BY <1>2
  <2> DEFINE next == ApplyOperationToData(f[k], ops[k + 1])
             g == [i \in 0 .. k + 1 |-> IF i <= k THEN f[i] ELSE next]
  <2>2. \A i \in 0 .. k : f[i] = IF i = 0 THEN data ELSE ApplyOperationToData(f[i - 1], ops[i])
    BY <2>1 DEF EarlyPartial
  <2>3. ASSUME NEW i \in 0 .. k + 1
        PROVE  g[i] = IF i = 0 THEN data ELSE ApplyOperationToData(g[i - 1], ops[i])
    <3>1. CASE i <= k
      BY <2>2, <3>1
    <3>2. CASE i = k + 1
      <4>1. g[i] = next /\ g[i - 1] = f[k] /\ i # 0
        BY <3>2
      <4> HIDE DEF g
      <4> QED BY <3>2, <4>1
    <3> QED BY <3>1, <3>2
  <2>4. g = [i \in 0 .. k + 1 |-> g[i]]
    OBVIOUS
  <2> HIDE DEF g
  <2>5. EarlyPartial(data, ops, k + 1, g)
    BY <2>3, <2>4 DEF EarlyPartial
  <2> QED BY <2>5
<1> HIDE DEF T
<1>3. n \in T
  BY <1>1, <1>2, Reached, Zenon
<1> QED BY <1>3 DEF T

(* A list of operations. *)
AreOperations(ops) == IsSeq(ops) /\ \A j \in 1 .. Len(ops) : IsOperation(ops[j])

(* The early application as a whole leaves a data object that agrees with  *)
(* the one it started from.                                                *)
LEMMA PreApplyAgrees ==
  ASSUME NEW data, NEW ops, IsData(data), AreOperations(ops)
  PROVE  IsData(PreApply(data, ops)) /\ Agree(PreApply(data, ops), data, ops, 0)
<1> PICK n \in Nat : n = Len(ops)
  BY SeqIsFunction DEF AreOperations
<1> DEFINE A == CHOOSE f : f = [i \in 0 .. n |->
                      IF i = 0 THEN data ELSE ApplyOperationToData(f[i - 1], ops[i])]
<1>1. PICK f : EarlyPartial(data, ops, n, f)
  BY EarlyExists, Zenon
<1>2. f = [i \in 0 .. n |-> IF i = 0 THEN data ELSE ApplyOperationToData(f[i - 1], ops[i])]
  BY <1>1 DEF EarlyPartial
<1>3. A = [i \in 0 .. n |-> IF i = 0 THEN data ELSE ApplyOperationToData(A[i - 1], ops[i])]
  BY <1>2, Zenon
<1>4. PreApply(data, ops) = A[n]
  BY DEF PreApply
<1> HIDE DEF A
<1>5. \A i \in 0 .. n : A[i] = IF i = 0 THEN data ELSE ApplyOperationToData(A[i - 1], ops[i])
  BY <1>3
<1> DEFINE T == {i \in 0 .. n : IsData(A[i]) /\ Agree(A[i], data, ops, 0)}
<1>6. 0 \in T
  <2>1. A[0] = data
    BY <1>5
  <2>2. Agree(data, data, ops, 0)
    BY DEF Agree
  <2> QED BY <2>1, <2>2
<1>7. ASSUME NEW i \in 0 .. n - 1, i \in T PROVE i + 1 \in T
  <2> PICK d : d = A[i]
    OBVIOUS
  <2>1. /\ A[i + 1] = ApplyOperationToData(d, ops[i + 1])
        /\ IsData(d) /\ Agree(d, data, ops, 0) /\ i + 1 \in 1 .. n
    BY <1>5, <1>7
  <2>2. IsOperation(ops[i + 1])
    BY <2>1 DEF AreOperations
  <2>3. Agree(ApplyOperationToData(d, ops[i + 1]), data, ops, 0)
    BY <2>1, <2>2, EarlyAgrees
  <2>4. IsData(ApplyOperationToData(d, ops[i + 1]))
    BY <2>1, <2>2, OperationToDataAt DEF Leaves
  <2> QED BY <2>1, <2>3, <2>4
<1> HIDE DEF T
<1>8. n \in T
  BY <1>6, <1>7, Reached, Zenon
<1> QED BY <1>4, <1>8 DEF T

(* Every list of operations leaves a data object. *)
LEMMA RunsAreData ==
  ASSUME NEW data, NEW ops, IsData(data), AreOperations(ops), NEW f, Runs(data, ops, f)
  PROVE  \A i \in 0 .. Len(ops) : IsData(f[i])
<1> PICK n \in Nat : n = Len(ops)
  BY SeqIsFunction DEF AreOperations
<1> DEFINE T == {i \in 0 .. n : IsData(f[i])}
<1>1. 0 \in T
  BY DEF Runs
<1>2. ASSUME NEW i \in 0 .. n - 1, i \in T PROVE i + 1 \in T
  <2>1. i + 1 \in 1 .. n /\ f[i + 1] = ApplyOperation(f[i], ops[i + 1]) /\ IsData(f[i])
    BY <1>2 DEF Runs
  <2>2. IsOperation(ops[i + 1])
    BY <2>1 DEF AreOperations
  <2>3. IsData(f[i + 1])
    BY <2>1, <2>2, OperationAt DEF Leaves
  <2> QED BY <2>1, <2>3
<1> HIDE DEF T
<1>3. \A i \in 0 .. n : i \in T
  BY <1>1, <1>2, UpToN
<1> QED BY <1>3 DEF T

(* Applying operations to a data object gives a data object.               *)
LEMMA ApplyAllIsData ==
  ASSUME NEW data, NEW ops, IsData(data), AreOperations(ops)
  PROVE  IsData(ApplyAll(data, ops))
<1>1. IsSeq(ops) /\ Len(ops) \in 0 .. Len(ops)
  BY SeqIsFunction DEF AreOperations
<1>2. PICK f : Runs(data, ops, f)
  BY <1>1, ApplyAllRuns
<1>3. ApplyAll(data, ops) = f[Len(ops)]
  BY <1>1, <1>2, ApplyAllRuns
<1> QED BY <1>1, <1>2, <1>3, RunsAreData

(* The early application of a list of operations leaves no trace once they *)
(* are all applied.                                                        *)
LEMMA EarlyAbsorbed ==
  ASSUME NEW data, NEW ops, IsData(data), AreOperations(ops)
  PROVE  ApplyAll(PreApply(data, ops), ops) = ApplyAll(data, ops)
<1>0. IsSeq(ops)
  BY DEF AreOperations
<1> PICK n \in Nat : n = Len(ops)
  BY <1>0, SeqIsFunction
<1> PICK early : early = PreApply(data, ops)
  OBVIOUS
<1>1. IsData(early) /\ Agree(early, data, ops, 0)
  BY PreApplyAgrees
<1>2. PICK f : Runs(early, ops, f)
  BY <1>0, ApplyAllRuns
<1>3. PICK g : Runs(data, ops, g)
  BY <1>0, ApplyAllRuns
<1>4. ApplyAll(early, ops) = f[n] /\ ApplyAll(data, ops) = g[n]
  BY <1>0, <1>2, <1>3, ApplyAllRuns
<1>5. \A i \in 0 .. n : IsData(f[i]) /\ IsData(g[i])
  BY <1>1, <1>2, <1>3, RunsAreData
<1> DEFINE T == {i \in 0 .. n : Agree(f[i], g[i], ops, i)}
<1>6. 0 \in T
  BY <1>1, <1>2, <1>3 DEF Runs
<1>7. ASSUME NEW i \in 0 .. n - 1, i \in T PROVE i + 1 \in T
  <2>1. /\ i + 1 \in 1 .. n
        /\ f[i + 1] = ApplyOperation(f[i], ops[i + 1])
        /\ g[i + 1] = ApplyOperation(g[i], ops[i + 1])
    BY <1>2, <1>3 DEF Runs
  <2>2. Agree(f[i], g[i], ops, i) /\ IsData(f[i]) /\ IsData(g[i])
    BY <1>5, <1>7
  <2>3. Agree(ApplyOperation(f[i], ops[i + 1]), ApplyOperation(g[i], ops[i + 1]), ops, i + 1)
    BY <1>0, <2>2, NextAgrees DEF AreOperations
  <2> QED BY <2>1, <2>3
<1> HIDE DEF T
<1>8. \A i \in 0 .. n : i \in T
  BY <1>6, <1>7, UpToN
<1>9. Agree(f[n], g[n], ops, n)
  BY <1>8 DEF T
<1>10. ASSUME NEW q, IsPath(q) PROVE At(f[n], q) = At(g[n], q)
  <2>1. ~Erased(ops, n, q) /\ ~WalkedPast(ops, n, q)
    <3>1. \A j : ~(j \in n + 1 .. n)
      OBVIOUS
    <3> QED BY <3>1 DEF Erased, WalkedPast
  <2> QED BY <1>9, <1>10, <2>1 DEF Agree
<1>11. f[n] = g[n]
  <2>1. IsData(f[n]) /\ IsData(g[n])
    BY <1>5
  <2> QED BY <1>10, <2>1, SameData
<1> QED BY <1>4, <1>11
=============================================================================
