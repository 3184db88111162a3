------------------------- MODULE LastWritesProofs --------------------------
(***************************************************************************)
(* LastWritesKept, for every value of the constants: between messages an   *)
(* entity holds what its clients wrote last.  The operations are any set U *)
(* of "set"s and "delete"s no two of whose paths are one within the other. *)
(* On such a list only the last write of each path counts, so the proof    *)
(* follows that one through the queue, the merge of a batch, the retained  *)
(* deltas and their replay.                                                *)
(***************************************************************************)
EXTENDS StateSyncProofs

-----------------------------------------------------------------------------
(* Writes: operations that set or delete, on paths none of which is nested *)
(* in another.                                                             *)
Plain(U) ==
  \A a, b \in U : IsOperation(a) /\ Overwrites(a) /\ ~IsStrictPrefix(a.path, b.path)

(* A list has an operation on a path; an operation is the last on its path. *)
On(p, L) == \E i \in DOMAIN L : L[i].path = p
LastIn(o, L) ==
  \E i \in DOMAIN L : L[i] = o /\ \A j \in DOMAIN L : j > i => L[j].path # o.path

(* The data that the last operation on every path of a list has no effect  *)
(* on: those paths hold what the list leaves there.                        *)
Settled(W, L) == \A o : LastIn(o, L) => ApplyOperation(W, o) = W

(* No operations, and one more.                                            *)
LEMMA OnNone == (\A p : ~On(p, <<>>)) /\ (\A o : ~LastIn(o, <<>>)) /\ \A W : Settled(W, <<>>)
  BY DEF On, LastIn, Settled

(* What is last when one more operation follows.                           *)
LEMMA OneMore ==
  ASSUME NEW S, NEW L \in Seq(S), NEW x \in S
  PROVE  /\ \A p : On(p, Append(L, x)) <=> On(p, L) \/ x.path = p
         /\ \A o : LastIn(o, Append(L, x)) <=> o = x \/ (LastIn(o, L) /\ o.path # x.path)
<1> PICK n \in Nat : n = Len(L)
  BY LenProperties
<1> PICK m \in Nat : m = n + 1
  OBVIOUS
<1> PICK M : M = Append(L, x)
  OBVIOUS
<1>1. DOMAIN L = 1 .. n /\ DOMAIN M = 1 .. m /\ M[m] = x /\ \A i \in 1 .. n : M[i] = L[i]
  BY AppendProperties, LenProperties
<1>2. \A i : i \in 1 .. m <=> i \in 1 .. n \/ i = m
  OBVIOUS
<1>3. \A i \in 1 .. n : m > i
  OBVIOUS
<1>4. \A p : On(p, M) <=> On(p, L) \/ x.path = p
  BY <1>1, <1>2 DEF On
<1>5. ASSUME NEW o, LastIn(o, M) PROVE o = x \/ (LastIn(o, L) /\ o.path # x.path)
  <2>1. PICK i \in 1 .. m : M[i] = o /\ \A j \in 1 .. m : j > i => M[j].path # o.path
    BY <1>1, <1>5 DEF LastIn
  <2>2. CASE i = m
    BY <1>1, <2>1, <2>2
  <2>3. CASE i \in 1 .. n
    <3>1. o.path # x.path
      BY <1>1, <1>2, <1>3, <2>1, <2>3
    <3>2. LastIn(o, L)
      BY <1>1, <1>2, <2>1, <2>3 DEF LastIn
    <3> QED BY <3>1, <3>2
  <2> QED BY <1>2, <2>2, <2>3
<1>6. LastIn(x, M)
  <2>1. m \in 1 .. m /\ \A j \in 1 .. m : ~(j > m)
    OBVIOUS
  <2> QED BY <1>1, <2>1 DEF LastIn
<1>7. ASSUME NEW o, LastIn(o, L), o.path # x.path PROVE LastIn(o, M)
  <2>1. PICK i \in 1 .. n : L[i] = o /\ \A j \in 1 .. n : j > i => L[j].path # o.path
    BY <1>1, <1>7 DEF LastIn
  <2> QED BY <1>1, <1>2, <1>7, <2>1 DEF LastIn
<1> QED BY <1>4, <1>5, <1>6, <1>7

(* Two lists one after the other.                                          *)
LEMMA OneAfterOther ==
  ASSUME NEW S, NEW L \in Seq(S), NEW M \in Seq(S)
  PROVE  /\ \A p : On(p, L \o M) <=> On(p, L) \/ On(p, M)
         /\ \A o : LastIn(o, L \o M) <=> LastIn(o, M) \/ (LastIn(o, L) /\ ~On(o.path, M))
<1> DEFINE T == {t \in Seq(S) :
                   /\ \A p : On(p, L \o t) <=> On(p, L) \/ On(p, t)
                   /\ \A o : LastIn(o, L \o t) <=> LastIn(o, t) \/ (LastIn(o, L) /\ ~On(o.path, t))}
<1>1. <<>> \in T
  BY OnNone, EmptySeq, ConcatEmptySeq
<1>2. ASSUME NEW t \in Seq(S), NEW x \in S, t \in T PROVE Append(t, x) \in T
  <2>1. L \o Append(t, x) = Append(L \o t, x) /\ L \o t \in Seq(S) /\ Append(t, x) \in Seq(S)
    <3>1. <<x>> \in Seq(S) /\ L \o t \in Seq(S) /\ Append(t, x) \in Seq(S)
      BY ConcatProperties, AppendProperties
    <3>2. Append(t, x) = t \o <<x>> /\ Append(L \o t, x) = (L \o t) \o <<x>>
      BY <3>1, AppendIsConcat
    <3> QED BY <3>1, <3>2, ConcatAssociative
  <2>2. /\ \A p : On(p, Append(L \o t, x)) <=> On(p, L \o t) \/ x.path = p
        /\ \A o : LastIn(o, Append(L \o t, x)) <=> o = x \/ (LastIn(o, L \o t) /\ o.path # x.path)
    BY <2>1, OneMore
  <2>3. /\ \A p : On(p, Append(t, x)) <=> On(p, t) \/ x.path = p
        /\ \A o : LastIn(o, Append(t, x)) <=> o = x \/ (LastIn(o, t) /\ o.path # x.path)
    BY OneMore
  <2>4. /\ \A p : On(p, L \o t) <=> On(p, L) \/ On(p, t)
        /\ \A o : LastIn(o, L \o t) <=> LastIn(o, t) \/ (LastIn(o, L) /\ ~On(o.path, t))
    BY <1>2
  <2> QED BY <2>1, <2>2, <2>3, <2>4
<1> HIDE DEF T
<1>3. M \in T
  BY <1>1, <1>2, ByAppending
<1> QED BY <1>3 DEF T

(* A path of a list has a last operation, and only one; it is in the list. *)
LEMMA HasLast ==
  ASSUME NEW S, NEW L \in Seq(S)
  PROVE  /\ \A p : On(p, L) => \E o : LastIn(o, L) /\ o.path = p
         /\ \A o : LastIn(o, L) => o \in S /\ On(o.path, L)
         /\ \A a, b : LastIn(a, L) /\ LastIn(b, L) /\ a.path = b.path => a = b
<1> DEFINE T == {t \in Seq(S) :
                   /\ \A p : On(p, t) => \E o : LastIn(o, t) /\ o.path = p
                   /\ \A o : LastIn(o, t) => o \in S /\ On(o.path, t)
                   /\ \A a, b : LastIn(a, t) /\ LastIn(b, t) /\ a.path = b.path => a = b}
<1>1. <<>> \in T
  BY OnNone, EmptySeq
<1>2. ASSUME NEW t \in Seq(S), NEW x \in S, t \in T PROVE Append(t, x) \in T
  <2>1. /\ \A p : On(p, Append(t, x)) <=> On(p, t) \/ x.path = p
        /\ \A o : LastIn(o, Append(t, x)) <=> o = x \/ (LastIn(o, t) /\ o.path # x.path)
    BY OneMore
  <2>2. Append(t, x) \in Seq(S)
    BY AppendProperties
  <2> QED BY <1>2, <2>1, <2>2
<1> HIDE DEF T
<1>3. L \in T
  BY <1>1, <1>2, ByAppending
<1> QED BY <1>3 DEF T

(* Writes on different paths commute, the later of two on one path wins.   *)
LEMMA WritesCommute ==
  ASSUME NEW U, Plain(U), NEW a \in U, NEW b \in U, NEW d, IsData(d)
  PROVE  /\ IsData(ApplyOperation(d, a))
         /\ a.path # b.path =>
              ApplyOperation(ApplyOperation(d, a), b) = ApplyOperation(ApplyOperation(d, b), a)
         /\ a.path = b.path => ApplyOperation(ApplyOperation(d, a), b) = ApplyOperation(d, b)
<1>1. IsOperation(a) /\ IsOperation(b) /\ Overwrites(b)
  BY DEF Plain
<1>2. a.path # b.path => Apart(a.path, b.path)
  BY DEF Plain, Apart, Under
<1>3. IsData(ApplyOperation(d, a))
  BY <1>1, OperationAt DEF Leaves
<1> QED BY <1>1, <1>2, <1>3, OperationsCommute, OverwriteFolds

(* Applying a list of writes.                                              *)
LEMMA ApplyWrites ==
  ASSUME NEW U, Plain(U), NEW d, IsData(d), NEW L \in Seq(U)
  PROVE  /\ ApplyAll(d, <<>>) = d
         /\ IsData(ApplyAll(d, L))
         /\ \A x \in U : ApplyAll(d, Append(L, x)) = ApplyOperation(ApplyAll(d, L), x)
<1>1. Len(L) \in Nat /\ \A j \in 1 .. Len(L) : L[j] \in U
  BY LenProperties, ElementOfSeq
<1>2. AreOperations(L)
  BY <1>1, TypedIsSeq DEF AreOperations, Plain
<1>3. ApplyAll(d, <<>>) = d
  <2> PICK none : none = <<>>
    OBVIOUS
  <2>1. none \in Seq(U) /\ Len(none) = 0
    BY EmptySeq
  <2>2. IsSeq(none)
    BY <2>1, TypedIsSeq
  <2> QED BY <2>1, <2>2, ApplyAllNone
<1> QED BY <1>2, <1>3, ApplyAllIsData, ApplyAllAppend

(* One more write.                                                         *)
LEMMA WriteOneMore ==
  ASSUME NEW U, Plain(U), NEW d, IsData(d), NEW L \in Seq(U), NEW x \in U
  PROVE  ApplyAll(d, Append(L, x)) = ApplyOperation(ApplyAll(d, L), x)
  BY ApplyWrites

(* One list after another.                                                 *)
LEMMA ApplyJoined ==
  ASSUME NEW U, Plain(U), NEW d, IsData(d), NEW L \in Seq(U), NEW M \in Seq(U)
  PROVE  ApplyAll(d, L \o M) = ApplyAll(ApplyAll(d, L), M)
<1> PICK c : c = ApplyAll(d, L)
  OBVIOUS
<1>0. IsData(c)
  BY ApplyWrites
<1> DEFINE T == {t \in Seq(U) : ApplyAll(d, L \o t) = ApplyAll(c, t)}
<1>1. <<>> \in T
  BY <1>0, ApplyWrites, EmptySeq, ConcatEmptySeq
<1>2. ASSUME NEW t \in Seq(U), NEW x \in U, t \in T PROVE Append(t, x) \in T
  <2>1. L \o Append(t, x) = Append(L \o t, x) /\ L \o t \in Seq(U) /\ Append(t, x) \in Seq(U)
    <3>1. <<x>> \in Seq(U) /\ L \o t \in Seq(U) /\ Append(t, x) \in Seq(U)
      BY ConcatProperties, AppendProperties
    <3>2. Append(t, x) = t \o <<x>> /\ Append(L \o t, x) = (L \o t) \o <<x>>
      BY <3>1, AppendIsConcat
    <3> QED BY <3>1, <3>2, ConcatAssociative
  <2>2. ApplyAll(d, Append(L \o t, x)) = ApplyOperation(ApplyAll(d, L \o t), x)
    <3>1. \A u \in Seq(U) : ApplyAll(d, Append(u, x)) = ApplyOperation(ApplyAll(d, u), x)
      BY WriteOneMore
    <3> QED BY <2>1, <3>1, Zenon
  <2>3. ApplyAll(c, Append(t, x)) = ApplyOperation(ApplyAll(c, t), x)
    BY <1>0, ApplyWrites
  <2> QED BY <1>2, <2>1, <2>2, <2>3
<1> HIDE DEF T
<1>3. M \in T
  BY <1>1, <1>2, ByAppending
<1> QED BY <1>3 DEF T

(* A write before a list is lost if the list writes its path, and passes   *)
(* through the list otherwise.                                             *)
LEMMA PassesThrough ==
  ASSUME NEW U, Plain(U), NEW d, IsData(d), NEW y \in U, NEW L \in Seq(U)
  PROVE  ApplyAll(ApplyOperation(d, y), L) =
           IF On(y.path, L) THEN ApplyAll(d, L) ELSE ApplyOperation(ApplyAll(d, L), y)
<1> PICK c : c = ApplyOperation(d, y)
  OBVIOUS
<1>0. IsData(c)
  BY WritesCommute
<1> DEFINE T == {t \in Seq(U) : ApplyAll(c, t) =
                   IF On(y.path, t) THEN ApplyAll(d, t) ELSE ApplyOperation(ApplyAll(d, t), y)}
<1>1. <<>> \in T
  BY <1>0, ApplyWrites, EmptySeq, OnNone
<1>2. ASSUME NEW t \in Seq(U), NEW x \in U, t \in T PROVE Append(t, x) \in T
  <2> PICK r : r = ApplyAll(d, t)
    OBVIOUS
  <2>1. On(y.path, Append(t, x)) <=> On(y.path, t) \/ x.path = y.path
    BY OneMore
  <2>2. /\ ApplyAll(c, Append(t, x)) = ApplyOperation(ApplyAll(c, t), x)
        /\ ApplyAll(d, Append(t, x)) = ApplyOperation(r, x)
        /\ IsData(r)
    BY <1>0, ApplyWrites
  <2>3. ApplyAll(c, t) = IF On(y.path, t) THEN r ELSE ApplyOperation(r, y)
    BY <1>2
  <2>4. /\ y.path # x.path =>
             ApplyOperation(ApplyOperation(r, y), x) = ApplyOperation(ApplyOperation(r, x), y)
        /\ y.path = x.path => ApplyOperation(ApplyOperation(r, y), x) = ApplyOperation(r, x)
    BY <2>2, WritesCommute
  <2>5. Append(t, x) \in Seq(U)
    BY AppendProperties
  <2> QED BY <2>1, <2>2, <2>3, <2>4, <2>5
<1> HIDE DEF T
<1>3. L \in T
  BY <1>1, <1>2, ByAppending
<1> QED BY <1>3 DEF T

(* Repeating the last write on a path changes nothing.                     *)
LEMMA LastHolds ==
  ASSUME NEW U, Plain(U), NEW d, IsData(d), NEW L \in Seq(U), NEW o, LastIn(o, L)
  PROVE  ApplyOperation(ApplyAll(d, L), o) = ApplyAll(d, L)
<1> DEFINE T == {t \in Seq(U) : LastIn(o, t) => ApplyOperation(ApplyAll(d, t), o) = ApplyAll(d, t)}
<1>0. o \in U
  BY HasLast
<1>1. <<>> \in T
  BY EmptySeq, OnNone
<1>2. ASSUME NEW t \in Seq(U), NEW x \in U, t \in T PROVE Append(t, x) \in T
  <2> PICK r : r = ApplyAll(d, t)
    OBVIOUS
  <2>1. LastIn(o, Append(t, x)) <=> o = x \/ (LastIn(o, t) /\ o.path # x.path)
    BY OneMore
  <2>2. IsData(r) /\ ApplyAll(d, Append(t, x)) = ApplyOperation(r, x)
    BY ApplyWrites
  <2>3. /\ o.path # x.path =>
             ApplyOperation(ApplyOperation(r, x), o) = ApplyOperation(ApplyOperation(r, o), x)
        /\ o.path = x.path => ApplyOperation(ApplyOperation(r, x), o) = ApplyOperation(r, o)
    BY <1>0, <2>2, WritesCommute
  <2>4. LastIn(o, t) => ApplyOperation(r, o) = r
    BY <1>2
  <2>5. Append(t, x) \in Seq(U)
    BY AppendProperties
  <2> QED BY <2>1, <2>2, <2>3, <2>4, <2>5
<1> HIDE DEF T
<1>3. L \in T
  BY <1>1, <1>2, ByAppending
<1> QED BY <1>3 DEF T

(* A list changes nothing that its last writes do not change.              *)
LEMMA SettledStays ==
  ASSUME NEW U, Plain(U), NEW W, IsData(W), NEW L \in Seq(U), Settled(W, L)
  PROVE  ApplyAll(W, L) = W
<1> DEFINE T == {t \in Seq(U) : \A w : IsData(w) /\ Settled(w, t) => ApplyAll(w, t) = w}
<1>1. <<>> \in T
  BY ApplyWrites, EmptySeq
<1>2. ASSUME NEW t \in Seq(U), NEW x \in U, t \in T PROVE Append(t, x) \in T
  <2>1. Append(t, x) \in Seq(U)
    BY AppendProperties
  <2>2. ASSUME NEW w, IsData(w), Settled(w, Append(t, x)) PROVE ApplyAll(w, Append(t, x)) = w
    <3>1. /\ \A o : LastIn(o, Append(t, x)) <=> o = x \/ (LastIn(o, t) /\ o.path # x.path)
          /\ ApplyAll(w, Append(t, x)) = ApplyOperation(ApplyAll(w, t), x)
      BY <2>2, OneMore, ApplyWrites
    <3>2. /\ ApplyOperation(w, x) = w
          /\ \A o : LastIn(o, t) /\ o.path # x.path => ApplyOperation(w, o) = w
      BY <2>2, <3>1 DEF Settled
    <3>3. CASE ~On(x.path, t)
      <4>1. \A o : LastIn(o, t) => o.path # x.path
        BY <3>3, HasLast
      <4>2. Settled(w, t)
        BY <3>2, <4>1 DEF Settled
      <4>3. ApplyAll(w, t) = w
        BY <1>2, <2>2, <4>2
      <4> QED BY <3>1, <3>2, <4>3
    <3>4. CASE On(x.path, t)
      <4>1. PICK y : LastIn(y, t) /\ y.path = x.path
        BY <3>4, HasLast
      <4>2. y \in U /\ \A o : LastIn(o, t) => o \in U /\ (o.path = x.path => o = y)
        BY <4>1, HasLast
      <4> PICK v : v = ApplyOperation(w, y)
        OBVIOUS
      <4>3. IsData(v)
        BY <2>2, <4>2, WritesCommute
      <4>4. ASSUME NEW o, LastIn(o, t) PROVE ApplyOperation(v, o) = v
        <5>1. o \in U
          BY <4>2, <4>4
        <5>2. CASE o.path = x.path
          BY <2>2, <4>2, <4>4, <5>2, WritesCommute
        <5>3. CASE o.path # x.path
          BY <2>2, <3>2, <4>1, <4>2, <4>4, <5>1, <5>3, WritesCommute
        <5> QED BY <5>2, <5>3
      <4>5. ApplyAll(v, t) = v
        <5>1. Settled(v, t)
          BY <4>4 DEF Settled
        <5> QED BY <1>2, <4>3, <5>1
      <4>6. ApplyAll(v, t) = ApplyAll(w, t)
        BY <2>2, <3>4, <4>1, <4>2, PassesThrough
      <4>7. ApplyOperation(v, x) = ApplyOperation(w, x)
        BY <2>2, <4>1, <4>2, WritesCommute
      <4> QED BY <3>1, <3>2, <4>5, <4>6, <4>7
    <3> QED BY <3>3, <3>4
  <2> QED BY <2>1, <2>2
<1> HIDE DEF T
<1>3. L \in T
  BY <1>1, <1>2, ByAppending
<1> QED BY <1>3 DEF T

(* What is settled for two lists is for the two in a row; what is for two  *)
(* in a row is for the second; and writing more settles more.              *)
LEMMA SettledJoined ==
  ASSUME NEW S, NEW L \in Seq(S), NEW M \in Seq(S), NEW W
  PROVE  /\ Settled(W, L) /\ Settled(W, M) => Settled(W, L \o M)
         /\ Settled(W, L \o M) => Settled(W, M)
  BY OneAfterOther DEF Settled

(* Applying more operations leaves all that was settled before, and settles *)
(* what they write themselves.                                             *)
LEMMA SettledMore ==
  ASSUME NEW U, Plain(U), NEW W, IsData(W), NEW L \in Seq(U), NEW M \in Seq(U), Settled(W, L)
  PROVE  Settled(ApplyAll(W, M), L \o M)
<1> SUFFICES ASSUME NEW o, LastIn(o, L \o M)
             PROVE  ApplyOperation(ApplyAll(W, M), o) = ApplyAll(W, M)
  BY DEF Settled
<1>1. CASE LastIn(o, M)
  BY <1>1, LastHolds
<1>2. CASE LastIn(o, L) /\ ~On(o.path, M)
  <2>1. o \in U /\ ApplyOperation(W, o) = W
    BY <1>2, HasLast DEF Settled
  <2>2. ApplyAll(ApplyOperation(W, o), M) = ApplyOperation(ApplyAll(W, M), o)
    BY <1>2, <2>1, PassesThrough
  <2> QED BY <2>1, <2>2
<1> QED BY <1>1, <1>2, OneAfterOther

(* Joining a list that is one longer.                                      *)
LEMMA JoinOneMore ==
  ASSUME NEW S, NEW s \in Seq(S), NEW t \in Seq(S), NEW x \in S
  PROVE  /\ s \o Append(t, x) = Append(s \o t, x)
         /\ s \o t \in Seq(S) /\ Append(t, x) \in Seq(S) /\ <<x>> \in Seq(S)
         /\ Append(<<>>, x) = <<x>>
<1>1. <<x>> \in Seq(S) /\ s \o t \in Seq(S) /\ Append(t, x) \in Seq(S)
  BY ConcatProperties, AppendProperties
<1>2. Append(t, x) = t \o <<x>> /\ Append(s \o t, x) = (s \o t) \o <<x>>
  BY <1>1, AppendIsConcat
<1>3. Append(<<>>, x) = <<>> \o <<x>> /\ <<>> \o <<x>> = <<x>>
  BY <1>1, EmptySeq, AppendIsConcat, ConcatEmptySeq
<1> QED BY <1>1, <1>2, <1>3, ConcatAssociative

(* Deltas that carry operations of a given set.                            *)
Carry(S, U) == \A d \in S : d.operations \in Seq(U)

(* The deltas of an entity, and the operations of deltas, are such.        *)
LEMMA PartsTyped ==
  ASSUME NEW S, NEW U, Carry(S, U), NEW s \in Seq(S), NEW e
  PROVE  DeltasOf(s, e) \in Seq(S) /\ OperationsOf(s) \in Seq(U)
<1>1. DeltasOf(s, e) \in Seq(S)
  <2>1. IsSeq(DeltasOf(s, e)) /\ ToSet(DeltasOf(s, e)) \subseteq S
    BY TypedIsSeq, DeltasOfAre
  <2> QED BY <2>1, SeqMonotonic DEF IsSeq
<1> DEFINE T == {t \in Seq(S) : OperationsOf(t) \in Seq(U)}
<1>2. <<>> \in T
  BY EmptySeq, NoDeltas
<1>3. ASSUME NEW t \in Seq(S), NEW d \in S, t \in T PROVE Append(t, d) \in T
  <2>1. OperationsOf(Append(t, d)) = OperationsOf(t) \o d.operations
    BY TypedIsSeq, OperationsOfAppend
  <2>2. OperationsOf(t) \in Seq(U) /\ d.operations \in Seq(U)
    BY <1>3 DEF Carry
  <2>3. OperationsOf(t) \o d.operations \in Seq(U)
    BY <2>2, ConcatProperties
  <2> QED BY <2>1, <2>3, AppendProperties
<1> HIDE DEF T
<1>4. s \in T
  BY <1>2, <1>3, ByAppending
<1> QED BY <1>1, <1>4 DEF T

(* The operations of two lists of deltas in a row.                         *)
LEMMA OperationsJoined ==
  ASSUME NEW S, NEW U, Carry(S, U), NEW s \in Seq(S), NEW t \in Seq(S)
  PROVE  OperationsOf(s \o t) = OperationsOf(s) \o OperationsOf(t)
<1> PICK a \in Seq(U) : a = OperationsOf(s)
  BY PartsTyped
<1> DEFINE T == {u \in Seq(S) : OperationsOf(s \o u) = a \o OperationsOf(u)}
<1>1. <<>> \in T
  BY EmptySeq, NoDeltas, ConcatEmptySeq
<1>2. ASSUME NEW u \in Seq(S), NEW d \in S, u \in T PROVE Append(u, d) \in T
  <2>1. s \o Append(u, d) = Append(s \o u, d) /\ s \o u \in Seq(S) /\ Append(u, d) \in Seq(S)
    BY JoinOneMore
  <2>2. /\ OperationsOf(Append(s \o u, d)) = OperationsOf(s \o u) \o d.operations
        /\ OperationsOf(Append(u, d)) = OperationsOf(u) \o d.operations
    BY <2>1, TypedIsSeq, OperationsOfAppend
  <2>3. OperationsOf(u) \in Seq(U) /\ d.operations \in Seq(U)
    BY PartsTyped DEF Carry
  <2>4. (a \o OperationsOf(u)) \o d.operations = a \o (OperationsOf(u) \o d.operations)
    <3>1. \A w, v \in Seq(U) : (a \o w) \o v = a \o (w \o v)
      BY ConcatAssociative, SMTT(30)
    <3> QED BY <2>3, <3>1, Zenon
  <2>5. OperationsOf(s \o u) = a \o OperationsOf(u)
    BY <1>2
  <2> QED BY <2>1, <2>2, <2>4, <2>5
<1> HIDE DEF T
<1>3. t \in T
  BY <1>1, <1>2, ByAppending
<1> QED BY <1>3 DEF T

(* The deltas of an entity in two lists in a row.                          *)
LEMMA DeltasJoined ==
  ASSUME NEW S, NEW U, Carry(S, U), NEW s \in Seq(S), NEW t \in Seq(S), NEW e
  PROVE  DeltasOf(s \o t, e) = DeltasOf(s, e) \o DeltasOf(t, e)
<1> PICK a \in Seq(S) : a = DeltasOf(s, e)
  BY PartsTyped
<1> DEFINE T == {u \in Seq(S) : DeltasOf(s \o u, e) = a \o DeltasOf(u, e)}
<1>1. <<>> \in T
  BY EmptySeq, NoDeltas, ConcatEmptySeq
<1>2. ASSUME NEW u \in Seq(S), NEW d \in S, u \in T PROVE Append(u, d) \in T
  <2>1. s \o Append(u, d) = Append(s \o u, d) /\ s \o u \in Seq(S) /\ Append(u, d) \in Seq(S)
    BY JoinOneMore
  <2> PICK w \in Seq(S) : w = DeltasOf(u, e)
    BY PartsTyped
  <2>2. DeltasOf(s \o u, e) = a \o w
    BY <1>2
  <2>3. /\ DeltasOf(Append(s \o u, d), e) = IF d.entityId = e THEN Append(a \o w, d) ELSE a \o w
        /\ DeltasOf(Append(u, d), e) = IF d.entityId = e THEN Append(w, d) ELSE w
    <3>1. IsSeq(s \o u) /\ IsSeq(u)
      BY <2>1, TypedIsSeq
    <3>2. DeltasOf(Append(s \o u, d), e) =
            IF d.entityId = e THEN Append(DeltasOf(s \o u, e), d) ELSE DeltasOf(s \o u, e)
      <4>1. \A v : IsSeq(v) => DeltasOf(Append(v, d), e) =
                                 IF d.entityId = e THEN Append(DeltasOf(v, e), d) ELSE DeltasOf(v, e)
        BY DeltasOfAppend
      <4> QED BY <3>1, <4>1
    <3>3. DeltasOf(Append(u, d), e) = IF d.entityId = e THEN Append(w, d) ELSE w
      BY <3>1, DeltasOfAppend
    <3> QED BY <2>2, <3>2, <3>3
  <2>4. a \o Append(w, d) = Append(a \o w, d)
    BY JoinOneMore
  <2> QED BY <2>1, <2>3, <2>4
<1> HIDE DEF T
<1>3. t \in T
  BY <1>1, <1>2, ByAppending
<1> QED BY <1>3 DEF T

(* The operations of an entity: those of two lists in a row, of one delta  *)
(* more, and of the first delta and the rest.                              *)
LEMMA OpsJoined ==
  ASSUME NEW S, NEW U, Carry(S, U), NEW s \in Seq(S), NEW t \in Seq(S), NEW e
  PROVE  /\ OpsOf(s \o t, e) = OpsOf(s, e) \o OpsOf(t, e)
         /\ OpsOf(s, e) \in Seq(U) /\ OpsOf(<<>>, e) = <<>>
<1>1. DeltasOf(s \o t, e) = DeltasOf(s, e) \o DeltasOf(t, e)
  BY DeltasJoined
<1>2. DeltasOf(s, e) \in Seq(S) /\ DeltasOf(t, e) \in Seq(S)
  BY PartsTyped
<1>3. \A a, b \in Seq(S) : OperationsOf(a \o b) = OperationsOf(a) \o OperationsOf(b)
  BY OperationsJoined
<1>4. \A a \in Seq(S) : OperationsOf(a) \in Seq(U)
  BY PartsTyped
<1>5. OpsOf(<<>>, e) = <<>>
  BY NoDeltas DEF OpsOf
<1>6. OperationsOf(DeltasOf(s, e) \o DeltasOf(t, e)) =
        OperationsOf(DeltasOf(s, e)) \o OperationsOf(DeltasOf(t, e))
  BY <1>2, <1>3, Zenon
<1>7. OpsOf(s \o t, e) = OpsOf(s, e) \o OpsOf(t, e)
  BY <1>1, <1>6 DEF OpsOf
<1> QED BY <1>2, <1>4, <1>5, <1>7 DEF OpsOf

(* The operations on an entity, when a delta follows them.                 *)
LEMMA OpsAppended ==
  ASSUME NEW S, NEW U, Carry(S, U), NEW s \in Seq(S), NEW d \in S, NEW e
  PROVE  OpsOf(Append(s, d), e) =
           IF d.entityId = e THEN OpsOf(s, e) \o d.operations ELSE OpsOf(s, e)
<1>1. DeltasOf(Append(s, d), e) = IF d.entityId = e THEN Append(DeltasOf(s, e), d) ELSE DeltasOf(s, e)
  BY TypedIsSeq, DeltasOfAppend
<1>2. DeltasOf(s, e) \in Seq(S)
  BY PartsTyped
<1> QED BY <1>1, <1>2, TypedIsSeq, OperationsOfAppend DEF OpsOf

(* The operations on an entity: those of the first delta, then the rest.   *)
LEMMA OpsOfFirst ==
  ASSUME NEW S, NEW U, Carry(S, U), NEW s \in Seq(S), s # <<>>, NEW e
  PROVE  /\ OpsOf(s, e) = IF Head(s).entityId = e THEN Head(s).operations \o OpsOf(Tail(s), e)
                                                   ELSE OpsOf(Tail(s), e)
         /\ Head(s) \in S /\ Tail(s) \in Seq(S)
<1>0. ASSUME NEW x \in S, NEW r \in Seq(S)
      PROVE  OpsOf(<<x>> \o r, e) = IF x.entityId = e THEN x.operations \o OpsOf(r, e)
                                                      ELSE OpsOf(r, e)
  <2>1. <<x>> \in Seq(S) /\ <<x>> = Append(<<>>, x) /\ <<>> \in Seq(S)
    BY JoinOneMore, EmptySeq
  <2>2. \A u \in Seq(S) : OpsOf(u \o r, e) = OpsOf(u, e) \o OpsOf(r, e)
    BY OpsJoined
  <2>3. \A u \in Seq(S) : OpsOf(Append(u, x), e) =
                             IF x.entityId = e THEN OpsOf(u, e) \o x.operations ELSE OpsOf(u, e)
    BY OpsAppended
  <2>4. OpsOf(<<x>>, e) = IF x.entityId = e THEN OpsOf(<<>>, e) \o x.operations ELSE OpsOf(<<>>, e)
    BY <2>1, <2>3, Zenon
  <2>5. OpsOf(<<>>, e) = <<>> /\ x.operations \in Seq(U) /\ OpsOf(r, e) \in Seq(U)
    BY OpsJoined DEF Carry
  <2>6. <<>> \o x.operations = x.operations /\ <<>> \o OpsOf(r, e) = OpsOf(r, e)
    BY <2>5, ConcatEmptySeq
  <2>7. OpsOf(<<x>> \o r, e) = OpsOf(<<x>>, e) \o OpsOf(r, e)
    BY <2>1, <2>2, Zenon
  <2> QED BY <2>4, <2>5, <2>6, <2>7
<1>1. Head(s) \in S /\ Tail(s) \in Seq(S)
  BY HeadTailProperties
<1>2. s = <<Head(s)>> \o Tail(s)
  <2> PICK n \in Nat : n = Len(s)
    BY LenProperties
  <2>1. n # 0
    BY EmptySeq
  <2>2. 1 \in 1 .. n /\ n \in 1 .. n
    BY <2>1
  <2>3. SubSeq(s, 1, n) = <<s[1]>> \o SubSeq(s, 1 + 1, n)
    BY <2>2, SubSeqRecursiveFirst
  <2>4. SubSeq(s, 1, n) = s /\ SubSeq(s, 2, n) = Tail(s) /\ 1 + 1 = 2
    BY SubSeqFull, TailIsSubSeq
  <2>5. s[1] = Head(s)
    OBVIOUS
  <2> QED BY <2>3, <2>4, <2>5
<1> QED BY <1>0, <1>1, <1>2

(* What is collected of deltas that all start late enough is all of them.  *)
(* Collecting late deltas, delta by delta. *)
SinceRun(deltas, v, n, f) ==
  /\ f[0] = <<>>
  /\ \A i \in 1 .. n : f[i] = IF deltas[i].fromVersion >= v THEN Append(f[i - 1], deltas[i]) ELSE f[i - 1]

(* Such a collection exists, and any is the one Since defines.             *)
LEMMA SinceRuns ==
  ASSUME NEW deltas, NEW v, NEW n \in Nat, n = Len(deltas)
  PROVE  /\ \E f : SinceRun(deltas, v, n, f)
         /\ \A f : SinceRun(deltas, v, n, f) => Since(deltas, v) = f[n]
<1> DEFINE T == {k \in 0 .. n : \E f : SinceRun(deltas, v, k, f)}
<1>1. 0 \in T
  <2> DEFINE f == [i \in 0 .. 0 |-> <<>>]
  <2>1. f[0] = <<>>
    OBVIOUS
  <2> HIDE DEF f
  <2>2. SinceRun(deltas, v, 0, f)
    BY <2>1 DEF SinceRun
  <2> QED BY <2>2
<1>2. ASSUME NEW k \in 0 .. n - 1, k \in T PROVE k + 1 \in T
  <2>1. PICK f : SinceRun(deltas, v, k, f)
    BY <1>2
  <2> DEFINE next == IF deltas[k + 1].fromVersion >= v THEN Append(f[k], deltas[k + 1]) ELSE f[k]
             g == [i \in 0 .. k + 1 |-> IF i <= k THEN f[i] ELSE next]
  <2>2. /\ g[k + 1] = next /\ g[k] = f[k] /\ g[0] = f[0]
        /\ \A i \in 1 .. k : g[i] = f[i] /\ g[i - 1] = f[i - 1]
    OBVIOUS
  <2> HIDE DEF g
  <2>3. ASSUME NEW i \in 1 .. k + 1 PROVE g[i] = IF deltas[i].fromVersion >= v THEN Append(g[i - 1], deltas[i]) ELSE g[i - 1]
    <3>1. CASE i = k + 1
      <4>1. i - 1 = k
        BY <3>1
      <4> QED BY <2>2, <3>1, <4>1
    <3>2. CASE i \in 1 .. k
      BY <2>1, <2>2, <3>2 DEF SinceRun
    <3> QED BY <3>1, <3>2
  <2>4. SinceRun(deltas, v, k + 1, g)
    BY <2>1, <2>2, <2>3 DEF SinceRun
  <2> QED BY <2>4
<1> HIDE DEF T
<1>3. PICK f : SinceRun(deltas, v, n, f)
  <2>1. n \in T
    BY <1>1, <1>2, Reached, Zenon
  <2> QED BY <2>1 DEF T
<1> DEFINE h == [i \in 0 .. n |-> f[i]]
           C == CHOOSE g : g = [i \in 0 .. n |-> IF i = 0 THEN <<>> ELSE IF deltas[i].fromVersion >= v THEN Append(g[i - 1], deltas[i]) ELSE g[i - 1]]
<1>4. h = [i \in 0 .. n |-> IF i = 0 THEN <<>> ELSE IF deltas[i].fromVersion >= v THEN Append(h[i - 1], deltas[i]) ELSE h[i - 1]]
  <2>1. \A i \in 0 .. n : h[i] = IF i = 0 THEN <<>> ELSE IF deltas[i].fromVersion >= v THEN Append(h[i - 1], deltas[i]) ELSE h[i - 1]
    <3>1. h[0] = f[0] /\ \A i \in 1 .. n : h[i] = f[i] /\ h[i - 1] = f[i - 1]
      OBVIOUS
    <3> HIDE DEF h
    <3> QED BY <1>3, <3>1 DEF SinceRun
  <2>2. h = [i \in 0 .. n |-> h[i]]
    OBVIOUS
  <2> HIDE DEF h
  <2> QED BY <2>1, <2>2
<1> HIDE DEF h
<1>5. C = [i \in 0 .. n |-> IF i = 0 THEN <<>> ELSE IF deltas[i].fromVersion >= v THEN Append(C[i - 1], deltas[i]) ELSE C[i - 1]]
  BY <1>4, Zenon
<1>6. Since(deltas, v) = C[n]
  BY DEF Since
<1> HIDE DEF C
<1>7. SinceRun(deltas, v, n, C)
  <2>1. \A i \in 0 .. n : C[i] = IF i = 0 THEN <<>> ELSE IF deltas[i].fromVersion >= v THEN Append(C[i - 1], deltas[i]) ELSE C[i - 1]
    BY <1>5
  <2>2. C[0] = <<>> /\ \A i \in 1 .. n : C[i] = IF deltas[i].fromVersion >= v THEN Append(C[i - 1], deltas[i]) ELSE C[i - 1]
    BY <2>1
  <2> QED BY <2>2 DEF SinceRun
<1>8. ASSUME NEW g, SinceRun(deltas, v, n, g) PROVE g[n] = C[n]
  <2> DEFINE U == {i \in 0 .. n : g[i] = C[i]}
  <2>1. 0 \in U
    BY <1>7, <1>8 DEF SinceRun
  <2>2. ASSUME NEW i \in 0 .. n - 1, i \in U PROVE i + 1 \in U
    <3>1. i + 1 \in 1 .. n /\ (i + 1) - 1 = i /\ g[i] = C[i]
      BY <2>2
    <3> QED BY <1>7, <1>8, <3>1 DEF SinceRun
  <2> HIDE DEF U
  <2>3. n \in U
    BY <2>1, <2>2, Reached, Zenon
  <2> QED BY <2>3 DEF U
<1> QED BY <1>3, <1>6, <1>8

(* No delta is left out when all are from v on.                            *)
LEMMA SinceAll ==
  ASSUME NEW s, IsSeq(s), NEW v, \A i \in DOMAIN s : s[i].fromVersion >= v
  PROVE  Since(s, v) = s
<1> DEFINE S == ToSet(s)
           T == {t \in Seq(S) : Since(t, v) = t}
<1>0. \A d \in S : d.fromVersion >= v
  BY DEF ToSet
<1> HIDE DEF S
<1>1. <<>> \in T
  <2> PICK t : t = <<>>
    OBVIOUS
  <2>1. Len(t) = 0
    OBVIOUS
  <2>2. PICK f : SinceRun(t, v, 0, f)
    BY <2>1, SinceRuns
  <2>3. Since(t, v) = f[0]
    BY <2>1, <2>2, SinceRuns
  <2>4. Since(t, v) = t
    BY <2>2, <2>3 DEF SinceRun
  <2> QED BY <2>4, EmptySeq
<1>2. ASSUME NEW t \in Seq(S), NEW d \in S, t \in T PROVE Append(t, d) \in T
  <2> PICK n \in Nat : n = Len(t)
    BY LenProperties
  <2> PICK m \in Nat : m = n + 1
    OBVIOUS
  <2> PICK more : more = Append(t, d)
    OBVIOUS
  <2>1. /\ more \in Seq(S) /\ Len(more) = m /\ more[m] = d
        /\ \A i \in 1 .. n : more[i] = t[i]
    BY AppendProperties
  <2>2. PICK f : SinceRun(more, v, m, f)
    BY <2>1, SinceRuns
  <2>3. SinceRun(t, v, n, f)
    BY <2>1, <2>2 DEF SinceRun
  <2>4. Since(more, v) = f[m]
    <3>1. m = Len(more)
      BY <2>1
    <3> QED BY <2>2, <3>1, SinceRuns, ZenonT(30)
  <2>5. Since(t, v) = f[n]
    BY <2>3, SinceRuns
  <2>6. f[m] = IF d.fromVersion >= v THEN Append(f[n], d) ELSE f[n]
    BY <2>1, <2>2 DEF SinceRun
  <2> QED BY <1>0, <1>2, <2>1, <2>4, <2>5, <2>6
<1> HIDE DEF T
<1>3. s \in Seq(S)
  BY DEF IsSeq, S
<1>4. s \in T
  BY <1>1, <1>2, <1>3, ByAppending
<1> QED BY <1>4 DEF T

(* The members of a finite set in some order, each once.                   *)
LEMMA SetToSeqLists ==
  ASSUME NEW S, IsFiniteSet(S)
  PROVE  /\ Cardinality(S) \in Nat
         /\ SetToSeq(S) \in [1 .. Cardinality(S) -> S]
         /\ \A i, j \in 1 .. Cardinality(S) : SetToSeq(S)[i] = SetToSeq(S)[j] => i = j
         /\ \A x \in S : \E i \in 1 .. Cardinality(S) : SetToSeq(S)[i] = x
<1> PICK n : n = Cardinality(S)
  OBVIOUS
<1>1. n \in Nat /\ ExistsBijection(1 .. n, S)
  BY FS_CardinalityType
<1>2. PICK b : b \in Bijection(1 .. n, S)
  BY <1>1 DEF ExistsBijection
<1>3. b \in [1 .. n -> S] /\ IsInjective(b)
  BY <1>2 DEF Bijection, Injection
<1> PICK f : f = SetToSeq(S)
  OBVIOUS
<1>4. f = CHOOSE g \in [1 .. n -> S] : IsInjective(g)
  BY DEF SetToSeq
<1>5. f \in [1 .. n -> S] /\ IsInjective(f)
  BY <1>3, <1>4, Zenon
<1>6. f \in Injection(1 .. n, S)
  BY <1>5 DEF Injection
<1>7. IsFiniteSet(1 .. n) /\ Cardinality(1 .. n) = n
  BY <1>1, FS_Interval
<1>8. f \in Surjection(1 .. n, S)
  BY <1>6, <1>7, FS_Injection
<1>9. \A x \in S : \E i \in 1 .. n : f[i] = x
  BY <1>8 DEF Surjection
<1> QED BY <1>1, <1>5, <1>9 DEF IsInjective

(* Fewer deltas are in order if more are, and none is later than the next. *)
LEMMA OrderedShorter ==
  ASSUME NEW s, IsSeq(s), NEW d, NEW c, Ordered(Append(s, d), c)
  PROVE  Ordered(s, c) /\ \A i \in DOMAIN s : s[i].timestamp <= d.timestamp
<1> PICK n \in Nat : n = Len(s)
  BY SeqIsFunction
<1> PICK m \in Nat : m = n + 1
  OBVIOUS
<1> PICK more : more = Append(s, d)
  OBVIOUS
<1>1. /\ IsSeq(more) /\ Len(more) = m /\ DOMAIN s = 1 .. n
      /\ more[m] = d /\ \A i \in 1 .. n : more[i] = s[i]
  BY AppendIsSeq, SeqIsFunction
<1>2. DOMAIN more = 1 .. m
  BY <1>1, SeqIsFunction
<1>3. /\ \A i \in 1 .. m : IsDelta(more[i]) /\ more[i].timestamp <= c
      /\ \A i, j \in 1 .. m : i <= j => more[i].timestamp <= more[j].timestamp
  BY <1>2 DEF Ordered
<1>4. /\ \A i \in 1 .. n : i \in 1 .. m /\ i <= m
      /\ m \in 1 .. m
  OBVIOUS
<1> QED BY <1>1, <1>3, <1>4 DEF Ordered

(* A delta between two lists, the second without deltas of its entity.     *)
LEMMA SplicedParts ==
  ASSUME NEW S, NEW U, Carry(S, U), NEW a \in Seq(S), NEW b \in Seq(S), NEW d \in S,
         \A i \in DOMAIN b : b[i].entityId # d.entityId
  PROVE  /\ Append(a, d) \o b \in Seq(S)
         /\ \A e : DeltasOf(Append(a, d) \o b, e) =
                     IF d.entityId = e THEN Append(DeltasOf(a \o b, e), d) ELSE DeltasOf(a \o b, e)
<1>1. Append(a, d) \in Seq(S)
  BY AppendProperties
<1>2. Append(a, d) \o b \in Seq(S)
  BY <1>1, ConcatProperties
<1>3. ASSUME NEW e
      PROVE  DeltasOf(Append(a, d) \o b, e) =
               IF d.entityId = e THEN Append(DeltasOf(a \o b, e), d) ELSE DeltasOf(a \o b, e)
  <2>0. DeltasOf(a, e) \in Seq(S) /\ DeltasOf(b, e) \in Seq(S)
    BY PartsTyped
  <2>1. DeltasOf(a \o b, e) = DeltasOf(a, e) \o DeltasOf(b, e)
    BY DeltasJoined
  <2>2. DeltasOf(Append(a, d) \o b, e) = DeltasOf(Append(a, d), e) \o DeltasOf(b, e)
    <3>1. \A u \in Seq(S) : DeltasOf(u \o b, e) = DeltasOf(u, e) \o DeltasOf(b, e)
      BY DeltasJoined
    <3> QED BY <1>1, <3>1, Zenon
  <2>3. DeltasOf(Append(a, d), e) = IF d.entityId = e THEN Append(DeltasOf(a, e), d) ELSE DeltasOf(a, e)
    BY TypedIsSeq, DeltasOfAppend
  <2>4. d.entityId = e => DeltasOf(b, e) = <<>>
    <3>1. IsSeq(b)
      BY TypedIsSeq
    <3>2. d.entityId = e => IsSeq(DeltasOf(b, e)) /\ ToSet(DeltasOf(b, e)) = {}
      <4>1. \A x \in ToSet(b) : x.entityId # d.entityId
        BY DEF ToSet
      <4> QED BY <3>1, <4>1, DeltasOfAre
    <3>3. \A x : IsSeq(x) /\ ToSet(x) = {} => x = <<>>
      BY DEF IsSeq
    <3> QED BY <3>2, <3>3
  <2>5. \A u \in Seq(S) : u \o <<>> = u
    BY ConcatEmptySeq
  <2>6. d.entityId = e => Append(DeltasOf(a, e), d) \in Seq(S)
    BY <2>0, AppendProperties
  <2>7. CASE d.entityId = e
    <3>1. DeltasOf(a \o b, e) = DeltasOf(a, e)
      BY <2>0, <2>1, <2>4, <2>5, <2>7
    <3>2. DeltasOf(Append(a, d) \o b, e) = Append(DeltasOf(a, e), d)
      BY <2>2, <2>3, <2>4, <2>5, <2>6, <2>7
    <3> QED BY <2>7, <3>1, <3>2
  <2>8. CASE d.entityId # e
    BY <2>1, <2>2, <2>3, <2>8
  <2> QED BY <2>7, <2>8
<1> QED BY <1>2, <1>3

(* Inserting a delta that is not earlier than those of its entity puts it  *)
(* behind all of them.                                                     *)
LEMMA InsertedParts ==
  ASSUME NEW S, NEW U, Carry(S, U), \A x \in S : x.timestamp \in Int,
         NEW s \in Seq(S), NEW d \in S,
         \A i \in DOMAIN s : s[i].entityId = d.entityId => s[i].timestamp <= d.timestamp
  PROVE  /\ Inserted(s, d) \in Seq(S)
         /\ \A e : DeltasOf(Inserted(s, d), e) =
                     IF d.entityId = e THEN Append(DeltasOf(s, e), d) ELSE DeltasOf(s, e)
<1> PICK n \in Nat : n = Len(s)
  BY LenProperties
<1> PICK p : p = Slot(s, d)
  OBVIOUS
<1>1. DOMAIN s = 1 .. n /\ \A i \in 1 .. n : s[i] \in S
  BY LenProperties
<1>2. p \in 0 .. n /\ \A i \in 1 .. n : s[i].timestamp <= d.timestamp => i <= p
  BY <1>1, SlotIs
<1>3. SubSeq(s, 1, p) \in Seq(S)
  BY <1>1, <1>2, SubSeqProperties
<1>4. /\ SubSeq(s, p + 1, n) \in Seq(S)
      /\ \A i \in DOMAIN SubSeq(s, p + 1, n) : SubSeq(s, p + 1, n)[i].entityId # d.entityId
  <2> PICK b : b = SubSeq(s, p + 1, n)
    OBVIOUS
  <2>2. /\ b \in Seq(S) /\ Len(b) = IF p + 1 <= n THEN n - (p + 1) + 1 ELSE 0
        /\ \A i \in 1 .. n - (p + 1) + 1 : b[i] = s[(p + 1) + i - 1]
    BY <1>1, <1>2, SubSeqProperties
  <2>3. DOMAIN b = 1 .. Len(b)
    BY <2>2, LenProperties
  <2>4. ASSUME NEW i \in DOMAIN b PROVE b[i].entityId # d.entityId
    <3>1. i \in 1 .. n - (p + 1) + 1
      BY <1>2, <2>2, <2>3
    <3> PICK j : j = (p + 1) + i - 1
      OBVIOUS
    <3>2. j \in 1 .. n /\ ~(j <= p)
      BY <1>2, <3>1
    <3>3. ~(s[j].timestamp <= d.timestamp)
      BY <1>2, <3>2
    <3>4. b[i] = s[j]
      BY <2>2, <3>1
    <3> QED BY <1>1, <3>2, <3>3, <3>4
  <2> QED BY <2>2, <2>4
<1>5. s = SubSeq(s, 1, p) \o SubSeq(s, p + 1, n)
  <2>1. SubSeq(s, 1, p) \o SubSeq(s, p + 1, n) = SubSeq(s, 1, n)
    <3>1. 1 \in 1 .. n + 1 /\ p \in 1 - 1 .. n /\ n \in p .. n
      BY <1>2
    <3> QED BY <3>1, ConcatAdjacentSubSeq
  <2>2. SubSeq(s, 1, n) = s
    BY SubSeqFull
  <2> QED BY <2>1, <2>2
<1>6. Inserted(s, d) = Append(SubSeq(s, 1, p), d) \o SubSeq(s, p + 1, n)
  <2>1. (p + 1) - 1 = p
    BY <1>2
  <2>2. Inserted(s, d) = SubSeq(s, 1, (p + 1) - 1) \o <<d>> \o SubSeq(s, p + 1, Len(s))
    BY DEF Inserted, InsertAt, Slot
  <2>3. SubSeq(s, 1, p) \o <<d>> = Append(SubSeq(s, 1, p), d)
    BY <1>3, AppendIsConcat
  <2> QED BY <2>1, <2>2, <2>3
<1>7. \A a, b \in Seq(S) : (\A i \in DOMAIN b : b[i].entityId # d.entityId) =>
        /\ Append(a, d) \o b \in Seq(S)
        /\ \A e : DeltasOf(Append(a, d) \o b, e) =
                    IF d.entityId = e THEN Append(DeltasOf(a \o b, e), d) ELSE DeltasOf(a \o b, e)
  BY SplicedParts
<1> PICK a, b : a = SubSeq(s, 1, p) /\ b = SubSeq(s, p + 1, n)
  OBVIOUS
<1>8. a \in Seq(S) /\ b \in Seq(S) /\ (\A i \in DOMAIN b : b[i].entityId # d.entityId)
      /\ s = a \o b /\ Inserted(s, d) = Append(a, d) \o b
  BY <1>3, <1>4, <1>5, <1>6
<1>9. /\ Append(a, d) \o b \in Seq(S)
      /\ \A e : DeltasOf(Append(a, d) \o b, e) =
                  IF d.entityId = e THEN Append(DeltasOf(a \o b, e), d) ELSE DeltasOf(a \o b, e)
  BY <1>7, <1>8, Zenon
<1> QED BY <1>8, <1>9, Zenon

(* Sorting keeps the deltas of every entity in their order.                *)
LEMMA SortedParts ==
  ASSUME NEW S, NEW U, Carry(S, U), \A x \in S : x.timestamp \in Int,
         NEW c, NEW s \in Seq(S), \A e : Ordered(DeltasOf(s, e), c)
  PROVE  SortByTimestamp(s) \in Seq(S) /\ \A e : DeltasOf(SortByTimestamp(s), e) = DeltasOf(s, e)
<1> DEFINE T == {t \in Seq(S) : (\A e : Ordered(DeltasOf(t, e), c)) =>
                   SortByTimestamp(t) \in Seq(S) /\ \A e : DeltasOf(SortByTimestamp(t), e) = DeltasOf(t, e)}
<1>1. <<>> \in T
  BY SortNone, EmptySeq
<1>2. ASSUME NEW t \in Seq(S), NEW d \in S, t \in T PROVE Append(t, d) \in T
  <2> PICK more : more = Append(t, d)
    OBVIOUS
  <2>1. more \in Seq(S) /\ IsSeq(t) /\ \A e : IsSeq(DeltasOf(t, e))
    BY AppendProperties, TypedIsSeq, DeltasOfAre
  <2>2. ASSUME \A e : Ordered(DeltasOf(more, e), c)
        PROVE  /\ SortByTimestamp(more) \in Seq(S)
               /\ \A e : DeltasOf(SortByTimestamp(more), e) = DeltasOf(more, e)
    <3>1. \A e : DeltasOf(more, e) = IF d.entityId = e THEN Append(DeltasOf(t, e), d) ELSE DeltasOf(t, e)
      BY <2>1, DeltasOfAppend
    <3>2. /\ \A e : Ordered(DeltasOf(t, e), c)
          /\ \A i \in DOMAIN DeltasOf(t, d.entityId) :
               DeltasOf(t, d.entityId)[i].timestamp <= d.timestamp
      <4>1. ASSUME NEW e PROVE Ordered(DeltasOf(t, e), c)
        <5>1. CASE d.entityId = e
          <6>1. Ordered(Append(DeltasOf(t, e), d), c)
            BY <2>2, <3>1, <5>1
          <6> QED BY <2>1, <6>1, OrderedShorter
        <5>2. CASE d.entityId # e
          <6>1. DeltasOf(more, e) = DeltasOf(t, e)
            BY <3>1, <5>2
          <6> QED BY <2>2, <6>1
        <5> QED BY <5>1, <5>2
      <4>2. Ordered(Append(DeltasOf(t, d.entityId), d), c)
        <5>1. DeltasOf(more, d.entityId) = Append(DeltasOf(t, d.entityId), d)
          BY <3>1
        <5> QED BY <2>2, <5>1
      <4> QED BY <2>1, <4>1, <4>2, OrderedShorter
    <3> PICK u : u = SortByTimestamp(t)
      OBVIOUS
    <3>3. u \in Seq(S) /\ \A e : DeltasOf(u, e) = DeltasOf(t, e)
      BY <1>2, <3>2
    <3>4. \A i \in DOMAIN u : u[i].entityId = d.entityId => u[i].timestamp <= d.timestamp
      <4>1. IsSeq(u)
        BY <3>3, TypedIsSeq
      <4>2. ToSet(DeltasOf(u, d.entityId)) = {x \in ToSet(u) : x.entityId = d.entityId}
        BY <4>1, DeltasOfAre
      <4>3. \A x \in ToSet(DeltasOf(u, d.entityId)) : x.timestamp <= d.timestamp
        BY <3>2, <3>3 DEF ToSet
      <4> QED BY <4>2, <4>3 DEF ToSet
    <3>5. SortByTimestamp(more) = Inserted(u, d)
      BY <2>1, SortAppend
    <3>6. /\ Inserted(u, d) \in Seq(S)
          /\ \A e : DeltasOf(Inserted(u, d), e) =
                      IF d.entityId = e THEN Append(DeltasOf(u, e), d) ELSE DeltasOf(u, e)
      <4>1. \A w \in Seq(S) : (\A i \in DOMAIN w : w[i].entityId = d.entityId => w[i].timestamp <= d.timestamp) =>
              /\ Inserted(w, d) \in Seq(S)
              /\ \A e : DeltasOf(Inserted(w, d), e) =
                          IF d.entityId = e THEN Append(DeltasOf(w, e), d) ELSE DeltasOf(w, e)
        BY InsertedParts
      <4> QED BY <3>3, <3>4, <4>1
    <3> QED BY <3>1, <3>3, <3>5, <3>6
  <2> QED BY <2>1, <2>2
<1> HIDE DEF T
<1>3. s \in T
  BY <1>1, <1>2, ByAppending
<1> QED BY <1>3 DEF T

(* Deltas that are all of one entity.                                      *)
LEMMA OwnDeltas ==
  ASSUME NEW s, IsSeq(s), NEW y, \A i \in DOMAIN s : s[i].entityId = y
  PROVE  DeltasOf(s, y) = s /\ \A x : x # y => DeltasOf(s, x) = <<>>
<1> DEFINE S == ToSet(s)
           T == {t \in Seq(S) : DeltasOf(t, y) = t /\ \A x : x # y => DeltasOf(t, x) = <<>>}
<1>0. \A d \in S : d.entityId = y
  BY DEF ToSet
<1> HIDE DEF S
<1>1. <<>> \in T
  BY NoDeltas, EmptySeq
<1>2. ASSUME NEW t \in Seq(S), NEW d \in S, t \in T PROVE Append(t, d) \in T
  <2>1. Append(t, d) \in Seq(S) /\ IsSeq(t)
    BY AppendProperties, TypedIsSeq
  <2>2. \A x : DeltasOf(Append(t, d), x) = IF d.entityId = x THEN Append(DeltasOf(t, x), d) ELSE DeltasOf(t, x)
    BY <2>1, DeltasOfAppend
  <2> QED BY <1>0, <1>2, <2>1, <2>2
<1> HIDE DEF T
<1>3. s \in Seq(S)
  BY DEF IsSeq, S
<1>4. s \in T
  BY <1>1, <1>2, <1>3, ByAppending
<1> QED BY <1>4 DEF T

(* What a full sync collects: of every entity, its retained deltas.        *)
Collected(s, y, v) == s \o Since(history[y], v)
(* Collecting the histories, entity by entity. *)
HistoriesRun(v, n, f) ==
  /\ f[0] = <<>>
  /\ \A i \in 1 .. n : f[i] = Collected(f[i - 1], SetToSeq(DOMAIN history)[i], v)

(* Such a collection exists, and any is the one GetDeltasSince sorts.      *)
LEMMA HistoriesRuns ==
  ASSUME NEW v, NEW n \in Nat, n = Len(SetToSeq(DOMAIN history))
  PROVE  /\ \E f : HistoriesRun(v, n, f)
         /\ \A f : HistoriesRun(v, n, f) => GetDeltasSince(v) = SortByTimestamp(f[n])
<1> DEFINE T == {k \in 0 .. n : \E f : HistoriesRun(v, k, f)}
<1>1. 0 \in T
  <2> DEFINE f == [i \in 0 .. 0 |-> <<>>]
  <2>1. f[0] = <<>>
    OBVIOUS
  <2> HIDE DEF f
  <2>2. HistoriesRun(v, 0, f)
    BY <2>1 DEF HistoriesRun
  <2> QED BY <2>2
<1>2. ASSUME NEW k \in 0 .. n - 1, k \in T PROVE k + 1 \in T
  <2>1. PICK f : HistoriesRun(v, k, f)
    BY <1>2
  <2> DEFINE next == Collected(f[k], SetToSeq(DOMAIN history)[k + 1], v)
             g == [i \in 0 .. k + 1 |-> IF i <= k THEN f[i] ELSE next]
  <2>2. /\ g[k + 1] = next /\ g[k] = f[k] /\ g[0] = f[0]
        /\ \A i \in 1 .. k : g[i] = f[i] /\ g[i - 1] = f[i - 1]
    OBVIOUS
  <2> HIDE DEF g
  <2>3. ASSUME NEW i \in 1 .. k + 1 PROVE g[i] = Collected(g[i - 1], SetToSeq(DOMAIN history)[i], v)
    <3>1. CASE i = k + 1
      <4>1. i - 1 = k
        BY <3>1
      <4> QED BY <2>2, <3>1, <4>1
    <3>2. CASE i \in 1 .. k
      BY <2>1, <2>2, <3>2 DEF HistoriesRun
    <3> QED BY <3>1, <3>2
  <2>4. HistoriesRun(v, k + 1, g)
    BY <2>1, <2>2, <2>3 DEF HistoriesRun
  <2> QED BY <2>4
<1> HIDE DEF T
<1>3. PICK f : HistoriesRun(v, n, f)
  <2>1. n \in T
    BY <1>1, <1>2, Reached, Zenon
  <2> QED BY <2>1 DEF T
<1> DEFINE h == [i \in 0 .. n |-> f[i]]
           C == CHOOSE g : g = [i \in 0 .. n |-> IF i = 0 THEN <<>> ELSE Collected(g[i - 1], SetToSeq(DOMAIN history)[i], v)]
<1>4. h = [i \in 0 .. n |-> IF i = 0 THEN <<>> ELSE Collected(h[i - 1], SetToSeq(DOMAIN history)[i], v)]
  <2>1. \A i \in 0 .. n : h[i] = IF i = 0 THEN <<>> ELSE Collected(h[i - 1], SetToSeq(DOMAIN history)[i], v)
    <3>1. h[0] = f[0] /\ \A i \in 1 .. n : h[i] = f[i] /\ h[i - 1] = f[i - 1]
      OBVIOUS
    <3> HIDE DEF h
    <3> QED BY <1>3, <3>1 DEF HistoriesRun
  <2>2. h = [i \in 0 .. n |-> h[i]]
    OBVIOUS
  <2> HIDE DEF h
  <2> QED BY <2>1, <2>2, Zenon
<1> HIDE DEF h
<1>5. C = [i \in 0 .. n |-> IF i = 0 THEN <<>> ELSE Collected(C[i - 1], SetToSeq(DOMAIN history)[i], v)]
  BY <1>4, Zenon
<1>6. GetDeltasSince(v) = SortByTimestamp(C[n])
  BY DEF GetDeltasSince, Collected
<1> HIDE DEF C
<1>7. HistoriesRun(v, n, C)
  <2>1. \A i \in 0 .. n : C[i] = IF i = 0 THEN <<>> ELSE Collected(C[i - 1], SetToSeq(DOMAIN history)[i], v)
    BY <1>5
  <2>2. C[0] = <<>> /\ \A i \in 1 .. n : C[i] = Collected(C[i - 1], SetToSeq(DOMAIN history)[i], v)
    BY <2>1
  <2> QED BY <2>2 DEF HistoriesRun
<1>8. ASSUME NEW g, HistoriesRun(v, n, g) PROVE g[n] = C[n]
  <2> DEFINE U == {i \in 0 .. n : g[i] = C[i]}
  <2>1. 0 \in U
    BY <1>7, <1>8 DEF HistoriesRun
  <2>2. ASSUME NEW i \in 0 .. n - 1, i \in U PROVE i + 1 \in U
    <3>1. i + 1 \in 1 .. n /\ (i + 1) - 1 = i /\ g[i] = C[i]
      BY <2>2
    <3> QED BY <1>7, <1>8, <3>1 DEF HistoriesRun
  <2> HIDE DEF U
  <2>3. n \in U
    BY <2>1, <2>2, Reached, Zenon
  <2> QED BY <2>3 DEF U
<1> QED BY <1>3, <1>6, <1>8

(* getDeltasSince(0) returns every retained delta, those of each entity in *)
(* the order the history keeps them.                                       *)
LEMMA RetainedCollected ==
  ASSUME NEW S, NEW U, Carry(S, U), \A x \in S : x.timestamp \in Int /\ x.fromVersion \in Nat,
         NEW c, IsFiniteSet(DOMAIN history),
         \A x \in DOMAIN history : /\ history[x] \in Seq(S) /\ Ordered(history[x], c)
                                   /\ \A i \in DOMAIN history[x] : history[x][i].entityId = x
  PROVE  GetDeltasSince(0) \in Seq(S) /\ \A x : DeltasOf(GetDeltasSince(0), x) = HistoryOf(x)
<1> PICK ids, n : ids = SetToSeq(DOMAIN history) /\ n = Cardinality(DOMAIN history)
  OBVIOUS
<1>1. /\ n \in Nat /\ ids \in [1 .. n -> DOMAIN history]
      /\ \A i, j \in 1 .. n : ids[i] = ids[j] => i = j
      /\ \A x \in DOMAIN history : \E i \in 1 .. n : ids[i] = x
  BY SetToSeqLists
<1>2. Len(ids) = n
  <2>1. ids = [i \in 1 .. n |-> ids[i]]
    BY <1>1
  <2> QED BY <1>1, <2>1, FunctionIsSeq
<1>3. PICK f : HistoriesRun(0, n, f)
  BY <1>1, <1>2, HistoriesRuns
<1>4. GetDeltasSince(0) = SortByTimestamp(f[n])
  BY <1>1, <1>2, <1>3, HistoriesRuns
<1>5. f[0] = <<>> /\ \A i \in 1 .. n : f[i] = Collected(f[i - 1], ids[i], 0)
  BY <1>3 DEF HistoriesRun
<1>6. ASSUME NEW i \in 1 .. n
      PROVE  /\ history[ids[i]] \in Seq(S) /\ Since(history[ids[i]], 0) = history[ids[i]]
             /\ DeltasOf(history[ids[i]], ids[i]) = history[ids[i]]
             /\ \A x : x # ids[i] => DeltasOf(history[ids[i]], x) = <<>>
  <2> PICK y \in DOMAIN history : y = ids[i]
    BY <1>1
  <2> PICK h : h = history[y]
    OBVIOUS
  <2>1. h \in Seq(S) /\ \A k \in DOMAIN h : h[k].entityId = y
    OBVIOUS
  <2>2. IsSeq(h) /\ ToSet(h) \subseteq S
    BY <2>1, TypedIsSeq
  <2>3. \A k \in DOMAIN h : h[k].fromVersion >= 0
    <3>1. \A k \in DOMAIN h : h[k] \in S
      BY <2>2 DEF ToSet
    <3> QED BY <3>1
  <2>4. Since(h, 0) = h
    BY <2>2, <2>3, SinceAll
  <2>5. DeltasOf(h, y) = h /\ \A x : x # y => DeltasOf(h, x) = <<>>
    BY <2>1, <2>2, OwnDeltas
  <2> QED BY <2>1, <2>4, <2>5
<1> DEFINE T == {k \in 0 .. n :
                   /\ f[k] \in Seq(S)
                   /\ \A x : DeltasOf(f[k], x) =
                        IF \E i \in 1 .. k : ids[i] = x THEN history[x] ELSE <<>>}
<1>7. 0 \in T
  <2>1. f[0] = <<>> /\ f[0] \in Seq(S) /\ 0 \in 0 .. n
    BY <1>1, <1>5, EmptySeq
  <2>2. \A x : DeltasOf(<<>>, x) = <<>>
    BY NoDeltas
  <2>3. ~\E i \in 1 .. 0 : TRUE
    OBVIOUS
  <2> QED BY <2>1, <2>2, <2>3
<1>8. ASSUME NEW k \in 0 .. n - 1, k \in T PROVE k + 1 \in T
  <2> PICK m \in Nat : m = k + 1
    OBVIOUS
  <2> PICK y, h, g : y = ids[m] /\ h = history[y] /\ g = f[k]
    OBVIOUS
  <2>1. m \in 1 .. n /\ m \in 0 .. n /\ m - 1 = k
    BY <1>1
  <2>2. f[m] = g \o h /\ h \in Seq(S) /\ DeltasOf(h, y) = h /\ \A x : x # y => DeltasOf(h, x) = <<>>
    BY <1>5, <1>6, <2>1 DEF Collected
  <2>3. g \in Seq(S) /\ \A x : DeltasOf(g, x) = IF \E i \in 1 .. k : ids[i] = x THEN history[x] ELSE <<>>
    BY <1>8
  <2>4. g \o h \in Seq(S) /\ \A x : DeltasOf(g \o h, x) = DeltasOf(g, x) \o DeltasOf(h, x)
    <3>1. \A a, b \in Seq(S) : a \o b \in Seq(S) /\ \A x : DeltasOf(a \o b, x) = DeltasOf(a, x) \o DeltasOf(b, x)
      BY ConcatProperties, DeltasJoined
    <3> QED BY <2>2, <2>3, <3>1, Zenon
  <2>5. \A i : i \in 1 .. m <=> i \in 1 .. k \/ i = m
    OBVIOUS
  <2>6. \A i \in 1 .. k : i \in 1 .. n /\ i # m
    BY <1>1, <2>1
  <2>7. \A q \in Seq(S) : q \o <<>> = q /\ <<>> \o q = q
    BY ConcatEmptySeq
  <2>8. \A x : DeltasOf(g, x) \in Seq(S)
    BY <2>3, PartsTyped
  <2>9. ASSUME NEW x
        PROVE  DeltasOf(g \o h, x) = IF \E i \in 1 .. m : ids[i] = x THEN history[x] ELSE <<>>
    <3>1. CASE x = y
      <4>1. ~\E i \in 1 .. k : ids[i] = x
        BY <1>1, <2>1, <2>6, <3>1
      <4>2. DeltasOf(g, x) = <<>> /\ DeltasOf(h, x) = h
        BY <2>2, <2>3, <3>1, <4>1
      <4>3. \E i \in 1 .. m : ids[i] = x
        BY <2>5, <3>1
      <4>4. DeltasOf(g \o h, x) = <<>> \o h
        BY <2>4, <4>2, Zenon
      <4>5. <<>> \o h = h
        BY <2>2, <2>7
      <4> QED BY <3>1, <4>3, <4>4, <4>5
    <3>2. CASE x # y
      <4>1. (\E i \in 1 .. m : ids[i] = x) <=> (\E i \in 1 .. k : ids[i] = x)
        BY <2>5, <3>2
      <4>2. DeltasOf(g \o h, x) = DeltasOf(g, x)
        <5>1. DeltasOf(g \o h, x) = DeltasOf(g, x) \o DeltasOf(h, x)
          BY <2>4, Zenon
        <5>2. DeltasOf(h, x) = <<>>
          BY <2>2, <3>2
        <5>3. DeltasOf(g, x) \o <<>> = DeltasOf(g, x)
          BY <2>7, <2>8
        <5> QED BY <5>1, <5>2, <5>3, Zenon
      <4> QED BY <2>3, <4>1, <4>2
    <3> QED BY <3>1, <3>2
  <2>10. m \in T
    BY <2>1, <2>2, <2>4, <2>9, ZenonT(30)
  <2> QED BY <2>10
<1> HIDE DEF T
<1>9. n \in T
  <2>1. \A k \in 0 .. n : k \in T
    BY <1>1, <1>7, <1>8, UpToN, Zenon
  <2> QED BY <1>1, <2>1
<1>10. f[n] \in Seq(S) /\ \A x : DeltasOf(f[n], x) = HistoryOf(x)
  BY <1>1, <1>9 DEF T, HistoryOf
<1>11. \A x : Ordered(DeltasOf(f[n], x), c)
  <2>1. Ordered(<<>>, c)
    BY DEF Ordered
  <2> QED BY <1>10, <2>1 DEF HistoryOf
<1> QED BY <1>4, <1>10, <1>11, SortedParts

(* A Map with an entry per path, under the key of the path.                *)
OneEach(m, U) ==
  /\ IsSeq(m)
  /\ \A i \in DOMAIN m : m[i].op \in U /\ m[i].key = PathKey(m[i].op)
  /\ \A i, j \in DOMAIN m : m[i].op.path = m[j].op.path => i = j
Holds(m, o) == \E i \in DOMAIN m : m[i].op = o
OnePerPath(L) == \A i, j \in DOMAIN L : L[i].path = L[j].path => i = j

(* Map.set of an operation under its path replaces the one on that path.   *)
LEMMA PutEntry ==
  ASSUME NEW U, NEW m, OneEach(m, U), NEW x \in U
  PROVE  /\ OneEach(MapSet(m, PathKey(x), x), U)
         /\ \A o : Holds(MapSet(m, PathKey(x), x), o) <=> o = x \/ (Holds(m, o) /\ o.path # x.path)
<1> PICK n \in Nat : n = Len(m)
  BY SeqIsFunction DEF OneEach
<1> PICK y : y = [key |-> PathKey(x), op |-> x]
  OBVIOUS
<1> PICK next : next = MapSet(m, PathKey(x), x)
  OBVIOUS
<1>1. /\ DOMAIN m = 1 .. n /\ \A i \in 1 .. n : m[i].op \in U /\ m[i].key = PathKey(m[i].op)
      /\ \A i, j \in 1 .. n : m[i].op.path = m[j].op.path => i = j
  BY SeqIsFunction DEF OneEach
<1>2. \A i \in 1 .. n : m[i].key = PathKey(x) <=> m[i].op.path = x.path
  <2>1. \A a, b : PathKey(a) = PathKey(b) <=> a.path = b.path
    BY DEF PathKey
  <2> QED BY <1>1, <2>1
<1>3. y.op = x /\ y.key = PathKey(y.op)
  OBVIOUS
<1>4. CASE \E i \in DOMAIN m : m[i].key = PathKey(x)
  <2>1. next = [i \in DOMAIN m |-> IF m[i].key = PathKey(x) THEN y ELSE m[i]]
    BY <1>4 DEF MapSet
  <2>2. PICK i \in 1 .. n : m[i].op.path = x.path
    BY <1>1, <1>2, <1>4
  <2>3. /\ next = [j \in 1 .. n |-> next[j]] /\ next[i] = y
        /\ \A j \in 1 .. n : j # i => next[j] = m[j]
    BY <1>1, <1>2, <2>1, <2>2
  <2>4. IsSeq(next) /\ DOMAIN next = 1 .. n
    BY <2>3, FunctionIsSeq
  <2>5. /\ \A j \in 1 .. n : next[j].op \in U /\ next[j].key = PathKey(next[j].op)
        /\ \A j \in 1 .. n : next[j].op.path = m[j].op.path
    BY <1>1, <1>3, <2>2, <2>3
  <2>6. OneEach(next, U)
    BY <1>1, <2>4, <2>5 DEF OneEach
  <2>7. \A o : Holds(next, o) <=> o = x \/ (Holds(m, o) /\ o.path # x.path)
    <3>1. Holds(next, x)
      BY <1>3, <2>2, <2>3, <2>4 DEF Holds
    <3>2. ASSUME NEW o, Holds(next, o) PROVE o = x \/ (Holds(m, o) /\ o.path # x.path)
      <4>1. PICK j \in 1 .. n : next[j].op = o
        BY <2>4, <3>2 DEF Holds
      <4>2. CASE j = i
        BY <1>3, <2>3, <4>1, <4>2
      <4>3. CASE j # i
        <5>1. next[j] = m[j] /\ m[j].op.path # x.path
          BY <1>1, <2>2, <2>3, <4>3
        <5> QED BY <1>1, <4>1, <5>1 DEF Holds
      <4> QED BY <4>2, <4>3
    <3>3. ASSUME NEW o, Holds(m, o), o.path # x.path PROVE Holds(next, o)
      <4>1. PICK j \in 1 .. n : m[j].op = o
        BY <1>1, <3>3 DEF Holds
      <4>2. next[j] = m[j]
        BY <2>2, <2>3, <3>3, <4>1
      <4> QED BY <2>4, <4>1, <4>2 DEF Holds
    <3> QED BY <3>1, <3>2, <3>3
  <2> QED BY <2>6, <2>7
<1>5. CASE ~\E i \in DOMAIN m : m[i].key = PathKey(x)
  <2>1. next = Append(m, y)
    BY <1>5 DEF MapSet
  <2> PICK k \in Nat : k = n + 1
    OBVIOUS
  <2>2. IsSeq(next) /\ Len(next) = k /\ next[k] = y /\ \A i \in 1 .. n : next[i] = m[i]
    BY <2>1, AppendIsSeq DEF OneEach
  <2>3. DOMAIN next = 1 .. k /\ \A i : i \in 1 .. k <=> i \in 1 .. n \/ i = k
    BY <2>2, SeqIsFunction
  <2>4. \A i \in 1 .. n : m[i].op.path # x.path
    BY <1>1, <1>2, <1>5
  <2>5. OneEach(next, U)
    <3>1. \A i \in 1 .. k : next[i].op \in U /\ next[i].key = PathKey(next[i].op)
      BY <1>1, <1>3, <2>2, <2>3
    <3>2. \A i, j \in 1 .. k : next[i].op.path = next[j].op.path => i = j
      BY <1>1, <1>3, <2>2, <2>3, <2>4
    <3> QED BY <2>2, <2>3, <3>1, <3>2 DEF OneEach
  <2>6. \A o : Holds(next, o) <=> o = x \/ (Holds(m, o) /\ o.path # x.path)
    BY <1>1, <1>3, <2>2, <2>3, <2>4 DEF Holds
  <2> QED BY <2>5, <2>6
<1> QED BY <1>4, <1>5

(* Of a Map with an entry per path, the operations in order.               *)
LEMMA FlatWrites ==
  ASSUME NEW U, NEW m, OneEach(m, U)
  PROVE  Flat(m) \in Seq(U) /\ OnePerPath(Flat(m)) /\ \A o : LastIn(o, Flat(m)) => Holds(m, o)
<1> PICK s : s = Flat(m)
  OBVIOUS
<1>1. IsSeq(s) /\ DOMAIN s = DOMAIN m /\ \A i \in DOMAIN m : s[i] = m[i].op
  BY FlatIs, SeqIsFunction DEF OneEach
<1>2. ToSet(s) \subseteq U
  BY <1>1 DEF ToSet, OneEach
<1>3. s \in Seq(U)
  BY <1>1, <1>2, SeqMonotonic DEF IsSeq
<1> QED BY <1>1, <1>3 DEF OneEach, OnePerPath, LastIn, Holds

(* collapseOperations puts every write under its path.                     *)
LEMMA WriteCollapses ==
  ASSUME NEW U, Plain(U), NEW x \in U, NEW m
  PROVE  CollapseInto(m, x) = MapSet(m, PathKey(x), x)
<1>1. x.op \in {"set", "delete"}
  BY DEF Plain, Overwrites
<1>2. CASE MapGet(m, PathKey(x)) = {}
  BY <1>2 DEF CollapseInto
<1>3. CASE MapGet(m, PathKey(x)) # {}
  BY <1>1, <1>3 DEF CollapseInto
<1> QED BY <1>2, <1>3

(* Collapsing writes leaves the last one on every path.                    *)
LEMMA CollapsedWrites ==
  ASSUME NEW U, Plain(U), NEW L \in Seq(U)
  PROVE  /\ CollapseOperations(L) \in Seq(U) /\ OnePerPath(CollapseOperations(L))
         /\ \A o : LastIn(o, CollapseOperations(L)) => LastIn(o, L)
<1> DEFINE Good(t, m) == OneEach(m, U) /\ \A o : Holds(m, o) <=> LastIn(o, t)
           T == {t \in Seq(U) : \A f : CollapseRun(t, Len(t), f) => Good(t, f[Len(t)])}
<1>1. <<>> \in T
  <2> PICK t : t = <<>>
    OBVIOUS
  <2>1. Len(t) = 0 /\ t \in Seq(U)
    BY EmptySeq
  <2>2. OneEach(<<>>, U) /\ \A o : ~Holds(<<>>, o)
    BY DEF OneEach, Holds, IsSeq
  <2>3. \A f : CollapseRun(t, 0, f) => f[0] = <<>>
    BY DEF CollapseRun
  <2>4. \A o : ~LastIn(o, t)
    BY OnNone
  <2>5. \A f : CollapseRun(t, Len(t), f) => Good(t, f[Len(t)])
    BY <2>1, <2>2, <2>3, <2>4
  <2> QED BY <2>1, <2>5
<1>2. ASSUME NEW t \in Seq(U), NEW x \in U, t \in T PROVE Append(t, x) \in T
  <2> PICK n \in Nat : n = Len(t)
    BY LenProperties
  <2> PICK k \in Nat : k = n + 1
    OBVIOUS
  <2> PICK more : more = Append(t, x)
    OBVIOUS
  <2>1. /\ more \in Seq(U) /\ Len(more) = k /\ more[k] = x
        /\ \A i \in 1 .. n : more[i] = t[i]
    BY AppendProperties
  <2>2. \A o : LastIn(o, more) <=> o = x \/ (LastIn(o, t) /\ o.path # x.path)
    BY OneMore
  <2>3. ASSUME NEW f, CollapseRun(more, k, f) PROVE Good(more, f[k])
    <3>1. CollapseRun(t, n, f)
      BY <2>1, <2>3 DEF CollapseRun
    <3> PICK m, next : m = f[n] /\ next = f[k]
      OBVIOUS
    <3>2. OneEach(m, U) /\ \A o : Holds(m, o) <=> LastIn(o, t)
      BY <1>2, <3>1
    <3>3. next = CollapseInto(m, x)
      BY <2>1, <2>3 DEF CollapseRun
    <3>4. next = MapSet(m, PathKey(x), x)
      BY <3>3, WriteCollapses
    <3>5. OneEach(next, U) /\ \A o : Holds(next, o) <=> o = x \/ (Holds(m, o) /\ o.path # x.path)
      BY <3>2, <3>4, PutEntry
    <3> QED BY <2>2, <3>2, <3>5
  <2> HIDE DEF Good
  <2> QED BY <2>1, <2>3
<1> HIDE DEF T
<1>3. L \in T
  BY <1>1, <1>2, ByAppending
<1> PICK n \in Nat : n = Len(L)
  BY LenProperties
<1>4. PICK f : CollapseRun(L, n, f)
  BY CollapseRuns
<1>5. OneEach(f[n], U) /\ \A o : Holds(f[n], o) <=> LastIn(o, L)
  BY <1>3, <1>4 DEF T
<1>6. CollapseOperations(L) = Flat(f[n])
  BY <1>4, CollapseRuns DEF Flat
<1> QED BY <1>5, <1>6, FlatWrites

(* Merging writes leaves those that are last among the local ones, and of  *)
(* the remote ones only such as no local one is on the path of.            *)
MergeStep(m, localOps, i, x) ==
  IF i <= Len(localOps) \/ MapGet(m, PathKey(x)) = {} THEN MapSet(m, PathKey(x), x) ELSE m
(* Merging two lists of operations, one by one. *)
MergeRun(localOps, remoteOps, n, f) ==
  /\ f[0] = <<>>
  /\ \A i \in 1 .. n : f[i] = MergeStep(f[i - 1], localOps, i, (localOps \o remoteOps)[i])

(* Such a run exists, and any ends in what mergeOperations returns.        *)
LEMMA MergeRuns ==
  ASSUME NEW localOps, NEW remoteOps, NEW n \in Nat, n = Len((localOps \o remoteOps))
  PROVE  /\ \E f : MergeRun(localOps, remoteOps, n, f)
         /\ \A f : MergeRun(localOps, remoteOps, n, f) => MergeOperations(localOps, remoteOps) = [j \in DOMAIN f[n] |-> f[n][j].op]
<1> DEFINE T == {k \in 0 .. n : \E f : MergeRun(localOps, remoteOps, k, f)}
<1>1. 0 \in T
  <2> DEFINE f == [i \in 0 .. 0 |-> <<>>]
  <2>1. f[0] = <<>>
    OBVIOUS
  <2> HIDE DEF f
  <2>2. MergeRun(localOps, remoteOps, 0, f)
    BY <2>1 DEF MergeRun
  <2> QED BY <2>2
<1>2. ASSUME NEW k \in 0 .. n - 1, k \in T PROVE k + 1 \in T
  <2>1. PICK f : MergeRun(localOps, remoteOps, k, f)
    BY <1>2
  <2> DEFINE next == MergeStep(f[k], localOps, k + 1, (localOps \o remoteOps)[k + 1])
             g == [i \in 0 .. k + 1 |-> IF i <= k THEN f[i] ELSE next]
  <2>2. /\ g[k + 1] = next /\ g[k] = f[k] /\ g[0] = f[0]
        /\ \A i \in 1 .. k : g[i] = f[i] /\ g[i - 1] = f[i - 1]
    OBVIOUS
  <2> HIDE DEF g
  <2>3. ASSUME NEW i \in 1 .. k + 1 PROVE g[i] = MergeStep(g[i - 1], localOps, i, (localOps \o remoteOps)[i])
    <3>1. CASE i = k + 1
      <4>1. i - 1 = k
        BY <3>1
      <4> QED BY <2>2, <3>1, <4>1
    <3>2. CASE i \in 1 .. k
      BY <2>1, <2>2, <3>2 DEF MergeRun
    <3> QED BY <3>1, <3>2
  <2>4. MergeRun(localOps, remoteOps, k + 1, g)
    BY <2>1, <2>2, <2>3 DEF MergeRun
  <2> QED BY <2>4
<1> HIDE DEF T
<1>3. PICK f : MergeRun(localOps, remoteOps, n, f)
  <2>1. n \in T
    BY <1>1, <1>2, Reached, Zenon
  <2> QED BY <2>1 DEF T
<1> DEFINE h == [i \in 0 .. n |-> f[i]]
           C == CHOOSE g : g = [i \in 0 .. n |-> IF i = 0 THEN <<>> ELSE MergeStep(g[i - 1], localOps, i, (localOps \o remoteOps)[i])]
<1>4. h = [i \in 0 .. n |-> IF i = 0 THEN <<>> ELSE MergeStep(h[i - 1], localOps, i, (localOps \o remoteOps)[i])]
  <2>1. \A i \in 0 .. n : h[i] = IF i = 0 THEN <<>> ELSE MergeStep(h[i - 1], localOps, i, (localOps \o remoteOps)[i])
    <3>1. h[0] = f[0] /\ \A i \in 1 .. n : h[i] = f[i] /\ h[i - 1] = f[i - 1]
      OBVIOUS
    <3> HIDE DEF h
    <3> QED BY <1>3, <3>1 DEF MergeRun
  <2>2. h = [i \in 0 .. n |-> h[i]]
    OBVIOUS
  <2> HIDE DEF h
  <2> QED BY <2>1, <2>2
<1> HIDE DEF h
<1>5. C = [i \in 0 .. n |-> IF i = 0 THEN <<>> ELSE MergeStep(C[i - 1], localOps, i, (localOps \o remoteOps)[i])]
  BY <1>4, Zenon
<1>6. MergeOperations(localOps, remoteOps) = [j \in DOMAIN C[n] |-> C[n][j].op]
  BY DEF MergeOperations, MergeStep
<1> HIDE DEF C
<1>7. MergeRun(localOps, remoteOps, n, C)
  <2>1. \A i \in 0 .. n : C[i] = IF i = 0 THEN <<>> ELSE MergeStep(C[i - 1], localOps, i, (localOps \o remoteOps)[i])
    BY <1>5
  <2>2. C[0] = <<>> /\ \A i \in 1 .. n : C[i] = MergeStep(C[i - 1], localOps, i, (localOps \o remoteOps)[i])
    BY <2>1
  <2> QED BY <2>2 DEF MergeRun
<1>8. ASSUME NEW g, MergeRun(localOps, remoteOps, n, g) PROVE g[n] = C[n]
  <2> DEFINE U == {i \in 0 .. n : g[i] = C[i]}
  <2>1. 0 \in U
    BY <1>7, <1>8 DEF MergeRun
  <2>2. ASSUME NEW i \in 0 .. n - 1, i \in U PROVE i + 1 \in U
    <3>1. i + 1 \in 1 .. n /\ (i + 1) - 1 = i /\ g[i] = C[i]
      BY <2>2
    <3> QED BY <1>7, <1>8, <3>1 DEF MergeRun
  <2> HIDE DEF U
  <2>3. n \in U
    BY <2>1, <2>2, Reached, Zenon
  <2> QED BY <2>3 DEF U
<1> QED BY <1>3, <1>6, <1>8

(* What mergeOperations writes last, the local list or, at a path the local *)
(* list leaves alone, the remote one wrote.                                *)
LEMMA MergedWrites ==
  ASSUME NEW U, NEW L \in Seq(U), NEW M \in Seq(U)
  PROVE  /\ MergeOperations(L, M) \in Seq(U)
         /\ \A o : LastIn(o, MergeOperations(L, M)) =>
                     LastIn(o, L) \/ (~On(o.path, L) /\ \E i \in DOMAIN M : M[i] = o)
<1> PICK l, r \in Nat : l = Len(L) /\ r = Len(M)
  BY LenProperties
<1> PICK n \in Nat : n = l + r
  OBVIOUS
<1>0. /\ DOMAIN M = 1 .. r /\ L \o M \in Seq(U) /\ Len(L \o M) = n
      /\ \A i \in 1 .. n : (L \o M)[i] \in U
      /\ \A i \in 1 .. l : (L \o M)[i] = L[i]
      /\ \A i \in 1 .. r : (L \o M)[l + i] = M[i]
  <2>1. L \o M \in Seq(U) /\ Len(L \o M) = n
    BY ConcatProperties
  <2>2. \A i \in 1 .. l + r : (L \o M)[i] = IF i <= l THEN L[i] ELSE M[i - l]
    BY ConcatProperties
  <2>3. \A i \in 1 .. l : i \in 1 .. l + r
    OBVIOUS
  <2>4. \A i \in 1 .. r : l + i \in 1 .. l + r /\ ~(l + i <= l) /\ (l + i) - l = i
    OBVIOUS
  <2>5. \A i \in 1 .. n : (L \o M)[i] \in U
    BY <2>1, ElementOfSeq
  <2> QED BY <2>1, <2>2, <2>3, <2>4, <2>5, LenProperties
<1>1. PICK f : MergeRun(L, M, n, f)
  BY <1>0, MergeRuns
<1>2. MergeOperations(L, M) = Flat(f[n])
  <2>1. n = Len(L \o M)
    BY <1>0
  <2> QED BY <1>1, <2>1, MergeRuns DEF Flat
<1>3. f[0] = <<>> /\ \A i \in 1 .. n : f[i] = MergeStep(f[i - 1], L, i, (L \o M)[i])
  BY <1>1 DEF MergeRun
<1> DEFINE A == {k \in 0 .. l : /\ OneEach(f[k], U)
                                /\ \A o : Holds(f[k], o) <=>
                                     \E i \in 1 .. k : L[i] = o /\ \A j \in 1 .. k : j > i => L[j].path # o.path}
<1>4. 0 \in A
  <2>1. OneEach(<<>>, U) /\ \A o : ~Holds(<<>>, o)
    BY DEF OneEach, Holds, IsSeq
  <2>2. 0 \in 0 .. l /\ ~\E i \in 1 .. 0 : TRUE
    OBVIOUS
  <2> QED BY <1>3, <2>1, <2>2
<1>5. ASSUME NEW k \in 0 .. l - 1, k \in A PROVE k + 1 \in A
  <2> PICK h \in Nat : h = k + 1
    OBVIOUS
  <2> PICK m, next, x : m = f[k] /\ next = f[h] /\ x = L[h]
    OBVIOUS
  <2>1. h \in 1 .. n /\ h \in 1 .. l /\ h <= l /\ h \in 0 .. l /\ h - 1 = k
    OBVIOUS
  <2>2. next = MapSet(m, PathKey(x), x) /\ x \in U
    BY <1>0, <1>3, <2>1 DEF MergeStep
  <2>3. /\ OneEach(m, U)
        /\ \A o : Holds(m, o) <=> \E i \in 1 .. k : L[i] = o /\ \A j \in 1 .. k : j > i => L[j].path # o.path
    BY <1>5
  <2>4. OneEach(next, U) /\ \A o : Holds(next, o) <=> o = x \/ (Holds(m, o) /\ o.path # x.path)
    BY <2>2, <2>3, PutEntry
  <2>5. (\A i : i \in 1 .. h <=> i \in 1 .. k \/ i = h) /\ \A i \in 1 .. k : h > i /\ ~(i > h)
    OBVIOUS
  <2>6. ASSUME NEW o
        PROVE  Holds(next, o) <=> \E i \in 1 .. h : L[i] = o /\ \A j \in 1 .. h : j > i => L[j].path # o.path
    <3>1. ASSUME o = x
          PROVE  \E i \in 1 .. h : L[i] = o /\ \A j \in 1 .. h : j > i => L[j].path # o.path
      <4>1. h \in 1 .. h /\ \A j \in 1 .. h : ~(j > h)
        OBVIOUS
      <4> QED BY <3>1, <4>1
    <3> QED BY <2>3, <2>4, <2>5, <3>1, SMTT(30)
  <2>7. h \in A
    BY <2>1, <2>4, <2>6
  <2> QED BY <2>7
<1> HIDE DEF A
<1>6. OneEach(f[l], U) /\ \A o : Holds(f[l], o) <=> LastIn(o, L)
  <2>1. \A k \in 0 .. l : k \in A
    BY <1>4, <1>5, UpToN
  <2>2. l \in A
    BY <2>1
  <2>3. DOMAIN L = 1 .. l
    BY LenProperties
  <2>4. /\ OneEach(f[l], U)
        /\ \A o : Holds(f[l], o) <=> \E i \in 1 .. l : L[i] = o /\ \A j \in 1 .. l : j > i => L[j].path # o.path
    BY <2>2 DEF A
  <2>5. \A o : LastIn(o, L) <=> \E i \in 1 .. l : L[i] = o /\ \A j \in 1 .. l : j > i => L[j].path # o.path
    BY <2>3 DEF LastIn
  <2> QED BY <2>4, <2>5
<1> DEFINE B == {k \in 0 .. r : /\ OneEach(f[l + k], U)
                                /\ \A o : LastIn(o, L) => Holds(f[l + k], o)
                                /\ \A o : Holds(f[l + k], o) =>
                                     LastIn(o, L) \/ (~On(o.path, L) /\ \E i \in DOMAIN M : M[i] = o)}
<1>7. 0 \in B
  <2>1. l + 0 = l /\ 0 \in 0 .. r
    OBVIOUS
  <2> QED BY <1>6, <2>1
<1>8. ASSUME NEW k \in 0 .. r - 1, k \in B PROVE k + 1 \in B
  <2> PICK h, w, v \in Nat : h = k + 1 /\ w = l + k /\ v = l + h
    OBVIOUS
  <2> PICK m, next, x : m = f[w] /\ next = f[v] /\ x = M[h]
    OBVIOUS
  <2>1. h \in 1 .. r /\ h \in 0 .. r /\ v \in 1 .. n /\ ~(v <= l) /\ v - 1 = w
    OBVIOUS
  <2>2. (L \o M)[v] = x /\ x \in U /\ h \in DOMAIN M
    BY <1>0, <2>1
  <2>3. next = IF MapGet(m, PathKey(x)) = {} THEN MapSet(m, PathKey(x), x) ELSE m
    BY <1>3, <2>1, <2>2 DEF MergeStep
  <2>4. /\ OneEach(m, U) /\ \A o : LastIn(o, L) => Holds(m, o)
        /\ \A o : Holds(m, o) => LastIn(o, L) \/ (~On(o.path, L) /\ \E i \in DOMAIN M : M[i] = o)
    BY <1>8
  <2>5. CASE MapGet(m, PathKey(x)) = {}
    <3>1. OneEach(next, U) /\ \A o : Holds(next, o) <=> o = x \/ (Holds(m, o) /\ o.path # x.path)
      BY <2>2, <2>3, <2>4, <2>5, PutEntry
    <3>2. ASSUME NEW o, Holds(m, o) PROVE o.path # x.path
      <4>1. PICK i \in DOMAIN m : m[i].op = o
        BY <3>2 DEF Holds
      <4>2. m[i].key = PathKey(o) /\ m[i] \in ToSet(m)
        BY <2>4, <4>1 DEF OneEach, ToSet
      <4>3. m[i].key # PathKey(x)
        BY <2>5, <4>2 DEF MapGet
      <4> QED BY <4>2, <4>3 DEF PathKey
    <3>3. ~On(x.path, L)
      <4> SUFFICES ASSUME On(x.path, L) PROVE FALSE
        OBVIOUS
      <4>1. PICK o : LastIn(o, L) /\ o.path = x.path
        BY HasLast
      <4> QED BY <2>4, <3>2, <4>1
    <3>4. h \in B
      BY <2>1, <2>2, <2>4, <3>1, <3>2, <3>3
    <3> QED BY <3>4
  <2>6. CASE MapGet(m, PathKey(x)) # {}
    <3>1. h \in B
      BY <2>1, <2>3, <2>4, <2>6
    <3> QED BY <3>1
  <2> QED BY <2>5, <2>6
<1> HIDE DEF B
<1>9. /\ OneEach(f[n], U)
      /\ \A o : Holds(f[n], o) => LastIn(o, L) \/ (~On(o.path, L) /\ \E i \in DOMAIN M : M[i] = o)
  <2>1. \A k \in 0 .. r : k \in B
    BY <1>7, <1>8, UpToN
  <2>2. r \in B
    BY <2>1
  <2> QED BY <2>2 DEF B
<1> QED BY <1>2, <1>9, FlatWrites

(* The deltas of the engine, carrying operations of U.                     *)
Sent(U) == DeltasOver(Seq(U))

(* What the deltas of the engine are made of.                              *)
LEMMA SentAre ==
  ASSUME NEW U
  PROVE  /\ Carry(Sent(U), U)
         /\ \A d \in Sent(U) : /\ IsDelta(d) /\ d.timestamp \in Int /\ d.fromVersion \in Nat
                               /\ d.entityId \in EntityIds /\ d.operations \in Seq(U)
<1> SUFFICES ASSUME NEW d \in Sent(U)
             PROVE  /\ IsDelta(d) /\ d.timestamp \in Int /\ d.fromVersion \in Nat
                    /\ d.entityId \in EntityIds /\ d.operations \in Seq(U)
  BY DEF Carry
<1>1. /\ d.operations \in Seq(U) /\ d.timestamp \in Nat /\ d.fromVersion \in Nat /\ d.entityId \in EntityIds
      /\ d = [entityId |-> d.entityId, fromVersion |-> d.fromVersion, toVersion |-> d.toVersion,
              operations |-> d.operations, timestamp |-> d.timestamp]
  BY DEF Sent, DeltasOver
<1>2. IsSeq(d.operations)
  BY <1>1, TypedIsSeq
<1> QED BY <1>1, <1>2 DEF IsDelta

(* Deltas in order stay so as time passes, and so are those of each entity. *)
LEMMA OrderedLater ==
  ASSUME NEW s, NEW c \in Int, NEW k \in Int, c <= k, Ordered(s, c)
  PROVE  Ordered(s, k)
<1>1. \A i \in DOMAIN s : s[i].timestamp \in Int /\ s[i].timestamp <= c
  BY DEF Ordered, IsDelta
<1>2. \A i \in DOMAIN s : s[i].timestamp <= k
  BY <1>1
<1> QED BY <1>2 DEF Ordered

(* The deltas of one entity are in order when all deltas are.              *)
LEMMA OrderedParts ==
  ASSUME NEW s, IsSeq(s), NEW c \in Int, Ordered(s, c), NEW e
  PROVE  Ordered(DeltasOf(s, e), c)
<1> DEFINE S == ToSet(s)
           T == {t \in Seq(S) : Ordered(t, c) => Ordered(DeltasOf(t, e), c)}
<1>1. <<>> \in T
  BY EmptySeq, NoDeltas
<1>2. ASSUME NEW t \in Seq(S), NEW d \in S, t \in T PROVE Append(t, d) \in T
  <2>1. Append(t, d) \in Seq(S) /\ IsSeq(t) /\ IsSeq(DeltasOf(t, e))
    BY AppendProperties, TypedIsSeq, DeltasOfAre
  <2>2. ASSUME Ordered(Append(t, d), c) PROVE Ordered(DeltasOf(Append(t, d), e), c)
    <3>1. Ordered(t, c) /\ \A i \in DOMAIN t : t[i].timestamp <= d.timestamp
      BY <2>1, <2>2, OrderedShorter
    <3>2. IsDelta(d) /\ d.timestamp <= c /\ d.timestamp \in Int
      <4> PICK n \in Nat : n = Len(t)
        BY LenProperties
      <4>1. Append(t, d)[n + 1] = d /\ n + 1 \in DOMAIN Append(t, d)
        BY <2>1, AppendIsSeq, SeqIsFunction
      <4> QED BY <2>2, <4>1 DEF Ordered, IsDelta
    <3> PICK q : q = DeltasOf(t, e)
      OBVIOUS
    <3>3. IsSeq(q) /\ Ordered(q, c)
      BY <1>2, <2>1, <3>1
    <3>4. \A i \in DOMAIN q : q[i].timestamp <= d.timestamp
      <4>1. ToSet(q) \subseteq ToSet(t)
        BY <2>1, DeltasOfAre
      <4> QED BY <3>1, <4>1 DEF ToSet
    <3>5. Ordered(q, d.timestamp)
      BY <3>3, <3>4 DEF Ordered
    <3>6. Ordered(Append(q, d), d.timestamp)
      BY <3>2, <3>3, <3>5, OrderedAppend
    <3>7. Ordered(Append(q, d), c)
      BY <3>2, <3>6, OrderedLater
    <3>8. DeltasOf(Append(t, d), e) = IF d.entityId = e THEN Append(q, d) ELSE q
      BY <2>1, DeltasOfAppend
    <3> QED BY <3>3, <3>7, <3>8
  <2> QED BY <2>1, <2>2
<1> HIDE DEF T
<1>3. s \in Seq(S)
  BY DEF IsSeq
<1>4. s \in T
  BY <1>1, <1>2, <1>3, ByAppending
<1> QED BY <1>4 DEF T

(* What is left of a list when its first elements are taken off.           *)
LEMMA RestOrdered ==
  ASSUME NEW S, NEW s \in Seq(S), NEW c, Ordered(s, c), NEW k \in 0 .. Len(s)
  PROVE  /\ SubSeq(s, k + 1, Len(s)) \in Seq(S) /\ Ordered(SubSeq(s, k + 1, Len(s)), c)
         /\ SubSeq(s, 1, k) \in Seq(S) /\ Ordered(SubSeq(s, 1, k), c)
         /\ \A i \in DOMAIN SubSeq(s, k + 1, Len(s)) : SubSeq(s, k + 1, Len(s))[i] \in ToSet(s)
         /\ \A i \in DOMAIN SubSeq(s, 1, k) : SubSeq(s, 1, k)[i] \in ToSet(s)
         /\ s = SubSeq(s, 1, k) \o SubSeq(s, k + 1, Len(s))
<1> PICK n \in Nat : n = Len(s)
  BY LenProperties
<1>1. DOMAIN s = 1 .. n /\ \A i \in 1 .. n : s[i] \in S /\ s[i] \in ToSet(s)
  BY LenProperties DEF ToSet
<1>2. \A i, j \in 1 .. n : i <= j => s[i].timestamp <= s[j].timestamp
  BY <1>1 DEF Ordered
<1>3. \A i \in 1 .. n : IsDelta(s[i]) /\ s[i].timestamp <= c
  BY <1>1 DEF Ordered
<1>4. /\ SubSeq(s, k + 1, n) \in Seq(S) /\ Ordered(SubSeq(s, k + 1, n), c)
      /\ \A i \in DOMAIN SubSeq(s, k + 1, n) : SubSeq(s, k + 1, n)[i] \in ToSet(s)
  <2> PICK b : b = SubSeq(s, k + 1, n)
    OBVIOUS
  <2>1. /\ b \in Seq(S) /\ Len(b) = IF k + 1 <= n THEN n - (k + 1) + 1 ELSE 0
        /\ \A i \in 1 .. n - (k + 1) + 1 : b[i] = s[(k + 1) + i - 1]
    BY <1>1, SubSeqProperties
  <2>0. n - k \in Nat
    OBVIOUS
  <2> PICK m \in Nat : m = n - k
    BY <2>0, Zenon
  <2>2. DOMAIN b = 1 .. m /\ \A i \in 1 .. m : b[i] = s[k + i] /\ k + i \in 1 .. n
    <3>1. Len(b) = m
      BY <2>1
    <3>2. n - (k + 1) + 1 = m /\ \A i \in 1 .. m : (k + 1) + i - 1 = k + i /\ k + i \in 1 .. n
      OBVIOUS
    <3> QED BY <2>1, <3>1, <3>2, LenProperties
  <2>3. \A i, j \in 1 .. m : i <= j => k + i <= k + j
    OBVIOUS
  <2>4. Ordered(b, c)
    <3>1. ASSUME NEW i \in 1 .. m, NEW j \in 1 .. m, i <= j PROVE b[i].timestamp <= b[j].timestamp
      <4>1. b[i] = s[k + i] /\ b[j] = s[k + j] /\ k + i \in 1 .. n /\ k + j \in 1 .. n
        BY <2>2
      <4>2. k + i <= k + j
        BY <2>3, <3>1
      <4>3. s[k + i].timestamp <= s[k + j].timestamp
        BY <1>2, <4>1, <4>2
      <4> QED BY <4>1, <4>3
    <3>2. ASSUME NEW i \in 1 .. m PROVE IsDelta(b[i]) /\ b[i].timestamp <= c
      <4>1. b[i] = s[k + i] /\ k + i \in 1 .. n
        BY <2>2
      <4> QED BY <1>3, <4>1
    <3> QED BY <2>2, <3>1, <3>2 DEF Ordered
  <2> QED BY <1>1, <2>1, <2>2, <2>4
<1>5. /\ SubSeq(s, 1, k) \in Seq(S) /\ Ordered(SubSeq(s, 1, k), c)
      /\ \A i \in DOMAIN SubSeq(s, 1, k) : SubSeq(s, 1, k)[i] \in ToSet(s)
  <2> PICK b : b = SubSeq(s, 1, k)
    OBVIOUS
  <2>1. /\ b \in Seq(S) /\ Len(b) = IF 1 <= k THEN k - 1 + 1 ELSE 0
        /\ \A i \in 1 .. k - 1 + 1 : b[i] = s[1 + i - 1]
    BY <1>1, SubSeqProperties
  <2>2. DOMAIN b = 1 .. k /\ \A i \in 1 .. k : b[i] = s[i] /\ i \in 1 .. n
    <3>1. Len(b) = k
      BY <2>1
    <3>2. k - 1 + 1 = k /\ \A i \in 1 .. k : 1 + i - 1 = i /\ i \in 1 .. n
      OBVIOUS
    <3> QED BY <2>1, <3>1, <3>2, LenProperties
  <2>3. Ordered(b, c)
    BY <1>2, <1>3, <2>2 DEF Ordered
  <2> QED BY <1>1, <2>1, <2>2, <2>3
<1>6. s = SubSeq(s, 1, k) \o SubSeq(s, k + 1, n)
  <2>1. SubSeq(s, 1, k) \o SubSeq(s, k + 1, n) = SubSeq(s, 1, n)
    <3>1. 1 \in 1 .. n + 1 /\ k \in 1 - 1 .. n /\ n \in k .. n
      OBVIOUS
    <3> QED BY <3>1, ConcatAdjacentSubSeq
  <2>2. SubSeq(s, 1, n) = s
    BY SubSeqFull
  <2> QED BY <2>1, <2>2
<1> QED BY <1>4, <1>5, <1>6

(* K is what is left of a list, from some place on.                        *)
Suffix(K, L, U) == \E r \in Seq(U) : L = r \o K

(* push and shift: the delta pushed is the last, those shifted out are the *)
(* first.                                                                  *)
Pushed(h, d) == IF Len(Append(h, d)) > MaxHistory THEN Tail(Append(h, d)) ELSE Append(h, d)

(* What is retained when a delta is pushed: the operations that go are the *)
(* first.                                                                  *)
LEMMA PushedParts ==
  ASSUME NEW U, NEW h \in Seq(Sent(U)), NEW d \in Sent(U),
         NEW c \in Int, Ordered(h, c), c <= d.timestamp
  PROVE  /\ Pushed(h, d) \in Seq(Sent(U)) /\ Pushed(h, d) # <<>> /\ Last(Pushed(h, d)) = d
         /\ Ordered(Pushed(h, d), d.timestamp)
         /\ \A i \in DOMAIN Pushed(h, d) : Pushed(h, d)[i] \in ToSet(h) \cup {d}
         /\ Suffix(OperationsOf(Pushed(h, d)), OperationsOf(h) \o d.operations, U)
<1> PICK n \in Nat : n = Len(h)
  BY LenProperties
<1> PICK m \in Nat : m = n + 1
  OBVIOUS
<1> DEFINE S == Sent(U)
<1>0. Carry(S, U) /\ IsDelta(d) /\ d.timestamp \in Int /\ IsSeq(h)
  BY SentAre, TypedIsSeq
<1> HIDE DEF S
<1> PICK p : p = Append(h, d)
  OBVIOUS
<1>1. /\ p \in Seq(S) /\ Len(p) = m /\ p[m] = d /\ ToSet(p) = ToSet(h) \cup {d} /\ DOMAIN p = 1 .. m
      /\ p # <<>>
  <2>1. p \in Seq(S) /\ Len(p) = m /\ p[m] = d /\ p # <<>>
    BY AppendProperties DEF S
  <2> QED BY <1>0, <2>1, AppendIsSeq, LenProperties
<1>2. Ordered(p, d.timestamp)
  BY <1>0, OrderedAppend
<1>3. OperationsOf(h) \o d.operations = OperationsOf(p) /\ OperationsOf(p) \in Seq(U)
  BY <1>0, <1>1, OperationsOfAppend, PartsTyped
<1>4. CASE ~(m > MaxHistory)
  <2>1. Pushed(h, d) = p
    BY <1>1, <1>4 DEF Pushed
  <2>2. <<>> \in Seq(U) /\ <<>> \o OperationsOf(p) = OperationsOf(p)
    BY <1>3, EmptySeq, ConcatEmptySeq
  <2>3. \A i \in DOMAIN p : p[i] \in ToSet(h) \cup {d}
    BY <1>1 DEF ToSet
  <2>4. Suffix(OperationsOf(p), OperationsOf(p), U)
    BY <2>2 DEF Suffix
  <2> QED BY <1>1, <1>2, <1>3, <2>1, <2>3, <2>4 DEF Last, S
<1>5. CASE m > MaxHistory
  <2>1. Pushed(h, d) = Tail(p)
    BY <1>1, <1>5 DEF Pushed
  <2>2. m > 1 /\ n > 0
    BY <1>5, MaxHistoryAssumption
  <2>3. Tail(p) = SubSeq(p, 1 + 1, Len(p)) /\ 1 \in 0 .. Len(p)
    BY <1>1, <2>2, TailIsSubSeq
  <2>4. /\ Tail(p) \in Seq(S) /\ Ordered(Tail(p), d.timestamp)
        /\ \A i \in DOMAIN Tail(p) : Tail(p)[i] \in ToSet(p)
        /\ SubSeq(p, 1, 1) \in Seq(S) /\ p = SubSeq(p, 1, 1) \o Tail(p)
    <3>1. /\ SubSeq(p, 1 + 1, Len(p)) \in Seq(S) /\ Ordered(SubSeq(p, 1 + 1, Len(p)), d.timestamp)
          /\ \A i \in DOMAIN SubSeq(p, 1 + 1, Len(p)) : SubSeq(p, 1 + 1, Len(p))[i] \in ToSet(p)
          /\ SubSeq(p, 1, 1) \in Seq(S) /\ p = SubSeq(p, 1, 1) \o SubSeq(p, 1 + 1, Len(p))
      <4>1. 1 \in 0 .. Len(p) /\ p \in Seq(S) /\ Ordered(p, d.timestamp)
        BY <1>1, <1>2, <2>3
      <4>2. \A k \in 0 .. Len(p) :
              /\ SubSeq(p, k + 1, Len(p)) \in Seq(S) /\ Ordered(SubSeq(p, k + 1, Len(p)), d.timestamp)
              /\ \A i \in DOMAIN SubSeq(p, k + 1, Len(p)) : SubSeq(p, k + 1, Len(p))[i] \in ToSet(p)
              /\ SubSeq(p, 1, k) \in Seq(S) /\ p = SubSeq(p, 1, k) \o SubSeq(p, k + 1, Len(p))
        BY <4>1, RestOrdered
      <4> QED BY <4>1, <4>2
    <3>2. Tail(p) = SubSeq(p, 1 + 1, Len(p))
      BY <2>3
    <3> QED BY <3>1, <3>2, Zenon
  <2>5. Len(Tail(p)) = n /\ Tail(p)[n] = d /\ Tail(p) # <<>>
    <3>1. Len(Tail(p)) = Len(p) - 1 /\ \A i \in 1 .. Len(Tail(p)) : Tail(p)[i] = p[i + 1]
      BY <1>1, HeadTailProperties
    <3>2. Len(Tail(p)) = n
      BY <1>1, <3>1
    <3>3. n \in 1 .. n
      BY <2>2
    <3>4. Tail(p) # <<>>
      BY <2>2, <3>2, EmptySeq
    <3> QED BY <1>1, <3>1, <3>2, <3>3, <3>4
  <2>6. OperationsOf(p) = OperationsOf(SubSeq(p, 1, 1)) \o OperationsOf(Tail(p))
    <3>1. \A a, b \in Seq(S) : OperationsOf(a \o b) = OperationsOf(a) \o OperationsOf(b)
      BY <1>0, OperationsJoined
    <3> QED BY <2>4, <3>1, Zenon
  <2>7. OperationsOf(SubSeq(p, 1, 1)) \in Seq(U)
    BY <1>0, <2>4, PartsTyped
  <2>8. Suffix(OperationsOf(Tail(p)), OperationsOf(p), U)
    BY <2>6, <2>7 DEF Suffix
  <2> QED BY <1>1, <1>3, <2>1, <2>4, <2>5, <2>8 DEF Last, S
<1> QED BY <1>4, <1>5

(* A batch of several deltas, compressed: one delta per entity, in the     *)
(* order of the first delta of each; the only delta of the entity, or what *)
(* its deltas are merged into.                                             *)
LEMMA CompressedShape ==
  ASSUME NEW s, IsSeq(s), NEW c, \A e : Ordered(DeltasOf(s, e), c), ~(Len(s) <= 1)
  PROVE  \E ids :
             /\ IsSeq(ids) /\ \A i, j \in DOMAIN ids : ids[i] = ids[j] => i = j
             /\ ToSet(ids) = {s[i].entityId : i \in DOMAIN s}
             /\ IsSeq(Compress(s)) /\ DOMAIN Compress(s) = DOMAIN ids
             /\ \A i \in DOMAIN ids :
                  LET G == DeltasOf(s, ids[i])
                  IN  /\ Compress(s)[i].entityId = ids[i]
                      /\ IF Len(G) = 1 THEN Compress(s)[i] = G[1]
                                       ELSE Compress(s)[i] = MergeEntityDeltas(G)
                      /\ IsSeq(G) /\ Len(G) \in Nat \ {0} /\ Ordered(G, c)
<1> PICK ids, C : ids = EntityOrder(s) /\ C = Compress(s)
  OBVIOUS
<1> DEFINE Group == [i \in DOMAIN ids |-> DeltasOf(s, ids[i])]
           Made(i) == IF Len(Group[i]) = 1 THEN Group[i][1] ELSE MergeEntityDeltas(Group[i])
<1>1. C = [i \in DOMAIN ids |-> Made(i)]
  BY DEF Compress
<1>2. /\ IsSeq(ids) /\ \A i, j \in DOMAIN ids : ids[i] = ids[j] => i = j
      /\ ToSet(ids) = {s[i].entityId : i \in DOMAIN s}
  BY EntityOrderIs
<1>3. IsSeq(C) /\ DOMAIN C = DOMAIN ids
  <2>1. DOMAIN ids = 1 .. Len(ids) /\ Len(ids) \in Nat
    BY <1>2, SeqIsFunction
  <2> HIDE DEF Made
  <2>2. C = [i \in 1 .. Len(ids) |-> C[i]]
    BY <1>1, <2>1
  <2> QED BY <1>1, <2>1, <2>2, FunctionIsSeq
<1>4. ASSUME NEW i \in DOMAIN ids
      PROVE  LET G == DeltasOf(s, ids[i])
             IN  /\ C[i].entityId = ids[i]
                 /\ IF Len(G) = 1 THEN C[i] = G[1] ELSE C[i] = MergeEntityDeltas(G)
                 /\ IsSeq(G) /\ Len(G) \in Nat \ {0} /\ Ordered(G, c)
  <2> PICK id, G : id = ids[i] /\ G = DeltasOf(s, id)
    OBVIOUS
  <2>1. IsSeq(G) /\ ToSet(G) = {d \in ToSet(s) : d.entityId = id} /\ Ordered(G, c)
    BY DeltasOfAre
  <2>2. DOMAIN G = 1 .. Len(G) /\ Len(G) \in Nat
    BY <2>1, SeqIsFunction
  <2>3. Len(G) # 0
    <3>1. id \in ToSet(ids)
      BY DEF ToSet
    <3>2. PICK j \in DOMAIN s : s[j].entityId = id
      BY <1>2, <3>1
    <3>3. s[j] \in ToSet(G)
      BY <2>1, <3>2 DEF ToSet
    <3> QED BY <2>2, <3>3 DEF ToSet
  <2>4. \A j \in 1 .. Len(G) : G[j].entityId = id
    BY <2>1, <2>2 DEF ToSet
  <2>5. IF Len(G) = 1 THEN C[i] = G[1] ELSE C[i] = MergeEntityDeltas(G)
    BY <1>1
  <2>6. C[i].entityId = id
    BY <2>1, <2>2, <2>3, <2>4, <2>5, MergedIs
  <2> QED BY <2>1, <2>2, <2>3, <2>5, <2>6
<1> HIDE DEF Group, Made
<1> QED BY <1>2, <1>3, <1>4

(* The delta a group is merged into is one of the engine's.                *)
LEMMA MergedSent ==
  ASSUME NEW U, Plain(U), NEW G \in Seq(Sent(U)), Len(G) \in Nat \ {0}, NEW c, Ordered(G, c)
  PROVE  /\ MergeEntityDeltas(G) \in Sent(U)
         /\ OnePerPath(MergeEntityDeltas(G).operations)
<1> PICK n \in Nat \ {0} : n = Len(G)
  OBVIOUS
<1> PICK last, ops, v : /\ last = G[n] /\ ops = CollapseOperations(OperationsOf(G))
                        /\ v = Head(G).fromVersion
  OBVIOUS
<1>0. IsSeq(G)
  BY TypedIsSeq
<1>1. SortByTimestamp(G) = G
  BY <1>0, SortKeepsOrder
<1>2. MergeEntityDeltas(G) = [last EXCEPT !.fromVersion = v, !.operations = ops]
  BY <1>1 DEF MergeEntityDeltas, Last
<1>3. last \in Sent(U) /\ Head(G) \in Sent(U)
  <2>1. n \in 1 .. Len(G) /\ G # <<>>
    BY EmptySeq
  <2> QED BY <2>1, ElementOfSeq, HeadTailProperties
<1>4. v \in Nat
  BY <1>3, SentAre
<1>5. ops \in Seq(U) /\ OnePerPath(ops)
  <2>1. OperationsOf(G) \in Seq(U)
    BY PartsTyped, SentAre
  <2> QED BY <2>1, CollapsedWrites
<1>6. /\ [last EXCEPT !.fromVersion = v, !.operations = ops] \in Sent(U)
      /\ [last EXCEPT !.fromVersion = v, !.operations = ops].operations = ops
  BY <1>3, <1>4, <1>5 DEF Sent, DeltasOver
<1> QED BY <1>2, <1>5, <1>6

(* What a flush publishes of a list of deltas in the order of their times. *)
LEMMA CompressedSent ==
  ASSUME NEW U, Plain(U), NEW s \in Seq(Sent(U)), NEW c \in Int, Ordered(s, c)
  PROVE  /\ Compress(s) \in Seq(Sent(U))
         /\ \A i \in DOMAIN Compress(s) : \E j \in DOMAIN s : Compress(s)[i].entityId = s[j].entityId
         /\ \A e : OpsOf(Compress(s), e) \in {OpsOf(s, e), CollapseOperations(OpsOf(s, e))}
         /\ \A e : LET C == DeltasOf(Compress(s), e)
                       G == DeltasOf(s, e)
                   IN  C = <<>> \/ (/\ Len(C) = 1
                                    /\ \/ OnePerPath(C[1].operations)
                                       \/ G # <<>> /\ C[1].operations = Last(G).operations)
<1> PICK n \in Nat : n = Len(s)
  BY LenProperties
<1>1. /\ IsSeq(s) /\ DOMAIN s = 1 .. n /\ \A i \in 1 .. n : s[i] \in Sent(U)
      /\ \A d \in Sent(U) : IsDelta(d)
      /\ \A e : Ordered(DeltasOf(s, e), c) /\ DeltasOf(s, e) \in Seq(Sent(U))
  <2>1. IsSeq(s) /\ DOMAIN s = 1 .. n /\ \A i \in 1 .. n : s[i] \in Sent(U)
    BY TypedIsSeq, LenProperties
  <2>2. \A e : Ordered(DeltasOf(s, e), c)
    BY <2>1, OrderedParts
  <2>3. \A e : DeltasOf(s, e) \in Seq(Sent(U))
    BY PartsTyped, SentAre
  <2> QED BY <2>1, <2>2, <2>3, SentAre
<1>5. ASSUME ~(Len(s) <= 1)
      PROVE  \E ids :
               /\ IsSeq(ids) /\ \A i, j \in DOMAIN ids : ids[i] = ids[j] => i = j
               /\ ToSet(ids) = {s[i].entityId : i \in DOMAIN s}
               /\ IsSeq(Compress(s)) /\ DOMAIN Compress(s) = DOMAIN ids
               /\ \A i \in DOMAIN ids :
                    LET G == DeltasOf(s, ids[i])
                    IN  /\ Compress(s)[i].entityId = ids[i]
                        /\ IF Len(G) = 1 THEN Compress(s)[i] = G[1]
                                         ELSE Compress(s)[i] = MergeEntityDeltas(G)
                        /\ IsSeq(G) /\ Len(G) \in Nat \ {0} /\ Ordered(G, c)
  BY <1>1, <1>5, CompressedShape
<1> PICK C : C = Compress(s)
  OBVIOUS
<1>2. ASSUME NEW e PROVE OpsOf(C, e) \in {OpsOf(s, e), CollapseOperations(OpsOf(s, e))}
  <2>1. AreOperations(OpsOf(s, e))
    <3>1. OpsOf(s, e) \in Seq(U)
      BY OpsJoined, SentAre, EmptySeq
    <3>2. Len(OpsOf(s, e)) \in Nat /\ \A j \in 1 .. Len(OpsOf(s, e)) : OpsOf(s, e)[j] \in U
      BY <3>1, LenProperties, ElementOfSeq
    <3> QED BY <3>1, <3>2, TypedIsSeq DEF AreOperations, Plain
  <2>2. \/ OpsOf(Compress(s), e) = OpsOf(s, e)
        \/ OpsOf(Compress(s), e) = CollapseOperations(OpsOf(s, e))
    BY <1>1, <2>1, CompressedOps
  <2> QED BY <2>2
<1>3. CASE n <= 1
  <2>1. C = s
    BY <1>3 DEF Compress
  <2>2. ASSUME NEW e, DeltasOf(s, e) # <<>>
        PROVE  Len(DeltasOf(s, e)) = 1 /\ DeltasOf(s, e)[1].operations = Last(DeltasOf(s, e)).operations
    <3> PICK G : G = DeltasOf(s, e)
      OBVIOUS
    <3>1. IsSeq(G) /\ ToSet(G) = {d \in ToSet(s) : d.entityId = e} /\ G # <<>>
      BY <1>1, <2>2, DeltasOfAre
    <3>2. n = 1
      <4>1. n # 0
        <5> SUFFICES ASSUME n = 0 PROVE FALSE
          OBVIOUS
        <5>1. ToSet(s) = {}
          BY <1>1 DEF ToSet
        <5>2. \A x : IsSeq(x) /\ ToSet(x) = {} => x = <<>>
          BY DEF IsSeq
        <5> QED BY <3>1, <5>1, <5>2
      <4> QED BY <1>3, <4>1
    <3>3. s[1].entityId = e
      <4> SUFFICES ASSUME s[1].entityId # e PROVE FALSE
        OBVIOUS
      <4>1. \A i \in 1 .. n : i = 1
        BY <3>2
      <4>2. ToSet(G) = {}
        BY <1>1, <3>1, <4>1 DEF ToSet
      <4>3. \A x : IsSeq(x) /\ ToSet(x) = {} => x = <<>>
        BY DEF IsSeq
      <4> QED BY <3>1, <4>2, <4>3
    <3>4. G = s
      <4>1. \A i \in DOMAIN s : s[i].entityId = e
        BY <1>1, <3>2, <3>3
      <4> QED BY <1>1, <4>1, OwnDeltas
    <3>5. Len(G) = 1
      BY <3>2, <3>4
    <3> QED BY <3>5 DEF Last
  <2>3. \A i \in DOMAIN s : \E j \in DOMAIN s : s[i].entityId = s[j].entityId
    OBVIOUS
  <2> QED BY <1>2, <2>1, <2>2, <2>3
<1>4. CASE ~(n <= 1)
  <2>1. PICK ids :
        /\ IsSeq(ids) /\ \A i, j \in DOMAIN ids : ids[i] = ids[j] => i = j
        /\ ToSet(ids) = {s[i].entityId : i \in DOMAIN s}
        /\ IsSeq(C) /\ DOMAIN C = DOMAIN ids
        /\ \A i \in DOMAIN ids :
             LET G == DeltasOf(s, ids[i])
             IN  /\ C[i].entityId = ids[i]
                 /\ IF Len(G) = 1 THEN C[i] = G[1] ELSE C[i] = MergeEntityDeltas(G)
                 /\ IsSeq(G) /\ Len(G) \in Nat \ {0} /\ Ordered(G, c)
    BY <1>4, <1>5
  <2>2. ASSUME NEW i \in DOMAIN ids
        PROVE  LET G == DeltasOf(s, ids[i])
               IN  /\ C[i] \in Sent(U) /\ G # <<>>
                   /\ OnePerPath(C[i].operations) \/ C[i].operations = Last(G).operations
    <3> PICK G : G = DeltasOf(s, ids[i])
      OBVIOUS
    <3>1. /\ IF Len(G) = 1 THEN C[i] = G[1] ELSE C[i] = MergeEntityDeltas(G)
          /\ G \in Seq(Sent(U)) /\ Len(G) \in Nat \ {0} /\ Ordered(G, c)
      BY <1>1, <2>1
    <3>2. G # <<>>
      BY <3>1, EmptySeq
    <3>3. CASE Len(G) = 1
      <4>0. G \in Seq(Sent(U)) /\ 1 \in 1 .. Len(G)
        BY <3>1, <3>3
      <4>1. G[1] \in Sent(U)
        BY <4>0, ElementOfSeq
      <4>2. Last(G) = G[1]
        BY <3>3 DEF Last
      <4> QED BY <3>1, <3>2, <3>3, <4>1, <4>2
    <3>4. CASE Len(G) # 1
      BY <3>1, <3>2, <3>4, MergedSent
    <3> QED BY <3>3, <3>4
  <2>3. C \in Seq(Sent(U))
    <3>1. ToSet(C) \subseteq Sent(U)
      BY <2>1, <2>2 DEF ToSet
    <3> QED BY <2>1, <3>1, SeqMonotonic DEF IsSeq
  <2>4. \A i \in DOMAIN C : \E j \in DOMAIN s : C[i].entityId = s[j].entityId
    <3>1. \A i \in DOMAIN ids : ids[i] \in {s[j].entityId : j \in DOMAIN s}
      BY <2>1 DEF ToSet
    <3> QED BY <2>1, <3>1
  <2>5. ASSUME NEW e, DeltasOf(C, e) # <<>>
        PROVE  /\ Len(DeltasOf(C, e)) = 1
               /\ \/ OnePerPath(DeltasOf(C, e)[1].operations)
                  \/ /\ DeltasOf(s, e) # <<>>
                     /\ DeltasOf(C, e)[1].operations = Last(DeltasOf(s, e)).operations
    <3>1. PICK i \in DOMAIN C : C[i].entityId = e
      <4> SUFFICES ASSUME \A i \in DOMAIN C : C[i].entityId # e PROVE FALSE
        OBVIOUS
      <4>1. IsSeq(DeltasOf(C, e)) /\ ToSet(DeltasOf(C, e)) = {d \in ToSet(C) : d.entityId = e}
        BY <2>1, DeltasOfAre
      <4>2. ToSet(DeltasOf(C, e)) = {}
        BY <4>1 DEF ToSet
      <4>3. \A x : IsSeq(x) /\ ToSet(x) = {} => x = <<>>
        BY DEF IsSeq
      <4> QED BY <2>5, <4>1, <4>2, <4>3
    <3>2. DeltasOf(C, e) = <<C[i]>>
      <4>1. \A j \in DOMAIN C : C[j].entityId = e => j = i
        BY <2>1, <3>1
      <4> QED BY <2>1, <3>1, <4>1, OnlyDelta
    <3>3. ids[i] = e /\ i \in DOMAIN ids
      BY <2>1, <3>1
    <3>4. /\ DeltasOf(s, e) # <<>>
          /\ OnePerPath(C[i].operations) \/ C[i].operations = Last(DeltasOf(s, e)).operations
      BY <2>2, <3>3
    <3> QED BY <3>2, <3>4
  <2> QED BY <1>2, <2>3, <2>4, <2>5
<1> QED BY <1>3, <1>4

(* What the clients meant, W, against what an entity holds, d, what is     *)
(* queued of it, P, what is still to be handled, I, and what is retained   *)
(* of it, H: at rest, and while a batch is handled.                        *)
Resting(W, d, P, H) == d = W /\ Settled(W, P) /\ Settled(W, H)
Converging(W, d, P, I, H) ==
  ApplyAll(d, I) = W /\ Settled(W, P \o I) /\ Settled(W, H \o I)

(* With nothing still to come, converging is resting.                      *)
LEMMA Converged ==
  ASSUME NEW U, Plain(U), NEW W, NEW d, IsData(d), NEW P \in Seq(U), NEW H \in Seq(U),
         Converging(W, d, P, <<>>, H)
  PROVE  Resting(W, d, P, H)
<1>1. ApplyAll(d, <<>>) = d
  BY ApplyWrites, EmptySeq
<1>2. P \o <<>> = P /\ H \o <<>> = H
  BY ConcatEmptySeq
<1> QED BY <1>1, <1>2 DEF Converging, Resting

(* A batch of which every path already holds the last value.               *)
LEMMA BatchConverges ==
  ASSUME NEW U, Plain(U), NEW W, IsData(W), NEW d, NEW P \in Seq(U), NEW H \in Seq(U),
         Resting(W, d, P, H), NEW I \in Seq(U), Settled(W, I)
  PROVE  Converging(W, d, P, I, H) /\ Converging(W, d, <<>>, I, H)
<1>1. ApplyAll(d, I) = W
  BY SettledStays DEF Resting
<1>2. <<>> \in Seq(U) /\ Settled(W, <<>>)
  BY EmptySeq, OnNone
<1>3. \A L \in Seq(U) : Settled(W, L) => Settled(W, L \o I)
  BY SettledJoined
<1> QED BY <1>1, <1>2, <1>3 DEF Converging, Resting

(* The early application of writes is all there is to applying them.       *)
LEMMA EarlyWrites ==
  ASSUME NEW U, Plain(U), NEW d, IsData(d), NEW M \in Seq(U)
  PROVE  PreApply(d, M) = ApplyAll(d, M) /\ ApplyAll(PreApply(d, M), M) = ApplyAll(d, M)
<1> PICK n \in Nat : n = Len(M)
  BY LenProperties
<1>1. \A i \in 1 .. n : M[i] \in U /\ IsOperation(M[i]) /\ M[i].op \in {"set", "delete"}
  BY LenProperties, ElementOfSeq DEF Plain, Overwrites
<1>2. ApplyAll(PreApply(d, M), M) = ApplyAll(d, M)
  BY <1>1, TypedIsSeq, EarlyAbsorbed DEF AreOperations
<1>3. PreApply(d, M) = ApplyAll(d, M)
  <2> DEFINE A == CHOOSE f : f = [i \in 0 .. n |->
                        IF i = 0 THEN d ELSE ApplyOperationToData(f[i - 1], M[i])]
  <2>1. PICK f : EarlyPartial(d, M, n, f)
    BY EarlyExists
  <2>2. f = [i \in 0 .. n |-> IF i = 0 THEN d ELSE ApplyOperationToData(f[i - 1], M[i])]
    BY <2>1 DEF EarlyPartial
  <2>3. A = [i \in 0 .. n |-> IF i = 0 THEN d ELSE ApplyOperationToData(A[i - 1], M[i])]
    BY <2>2, Zenon
  <2>4. PreApply(d, M) = A[n]
    BY DEF PreApply
  <2> HIDE DEF A
  <2>5. \A i \in 0 .. n : A[i] = IF i = 0 THEN d ELSE ApplyOperationToData(A[i - 1], M[i])
    BY <2>3
  <2>6. A[0] = d
    BY <2>5
  <2>7. \A i \in 1 .. n : A[i] = ApplyOperation(A[i - 1], M[i])
    <3>1. \A i \in 1 .. n : A[i] = ApplyOperationToData(A[i - 1], M[i])
      BY <2>5
    <3> QED BY <1>1, <3>1 DEF ApplyOperationToData
  <2>8. Runs(d, M, A)
    BY <2>6, <2>7 DEF Runs
  <2> QED BY <2>4, <2>8, TypedIsSeq, ApplyAllRuns
<1> QED BY <1>2, <1>3

(* Three lists, joined either way.                                         *)
LEMMA Regroup ==
  ASSUME NEW U, NEW P \in Seq(U), NEW M \in Seq(U), NEW J \in Seq(U)
  PROVE  P \o (M \o J) = (P \o M) \o J
  BY ConcatAssociative, SMTT(30)

(* What three joined lists settle does not depend on how they are joined.  *)
LEMMA SettledRegrouped ==
  ASSUME NEW U, NEW P \in Seq(U), NEW M \in Seq(U), NEW J \in Seq(U)
  PROVE  \A W : Settled(W, P \o (M \o J)) => Settled(W, (P \o M) \o J)
<1>1. P \o (M \o J) = (P \o M) \o J
  BY Regroup
<1> QED BY <1>1

(* A suffix, when more follows.                                            *)
LEMMA SuffixMore ==
  ASSUME NEW U, NEW K \in Seq(U), NEW L \in Seq(U), NEW J \in Seq(U), NEW W,
         Suffix(K, L, U), Settled(W, L \o J)
  PROVE  Settled(W, K \o J)
<1>1. PICK r \in Seq(U) : L = r \o K
  BY DEF Suffix
<1>2. K \o J \in Seq(U)
  BY ConcatProperties
<1>3. L \o J = r \o (K \o J)
  BY <1>1, Regroup
<1>4. Settled(W, r \o (K \o J)) => Settled(W, K \o J)
  BY <1>2, SettledJoined
<1> QED BY <1>3, <1>4

(* A client's operations, at rest.                                         *)
LEMMA UpdateRests ==
  ASSUME NEW U, Plain(U), NEW W, IsData(W), NEW d, NEW P \in Seq(U), NEW H \in Seq(U),
         Resting(W, d, P, H), NEW M \in Seq(U), NEW K \in Seq(U),
         Suffix(K, H \o M, U)
  PROVE  Resting(ApplyAll(W, M), ApplyAll(d, M), P \o M, K)
<1>1. Settled(ApplyAll(W, M), P \o M) /\ Settled(ApplyAll(W, M), H \o M)
  BY SettledMore DEF Resting
<1>2. H \o M \in Seq(U) /\ K \o <<>> = K /\ (H \o M) \o <<>> = H \o M /\ <<>> \in Seq(U)
  BY ConcatProperties, ConcatEmptySeq, EmptySeq
<1>3. Settled(ApplyAll(W, M), K)
  BY <1>1, <1>2, SuffixMore
<1> QED BY <1>1, <1>3 DEF Resting

(* One delta of a batch, applied.                                          *)
LEMMA DeltaConverges ==
  ASSUME NEW U, Plain(U), NEW W, NEW d, IsData(d), NEW P \in Seq(U), NEW H \in Seq(U),
         NEW M \in Seq(U), NEW J \in Seq(U), Converging(W, d, P, M \o J, H),
         NEW K \in Seq(U), Suffix(K, H \o M, U)
  PROVE  Converging(W, ApplyAll(d, M), P \o M, J, K)
<1>1. ApplyAll(ApplyAll(d, M), J) = W
  BY ApplyJoined DEF Converging
<1>2. Settled(W, P \o (M \o J)) => Settled(W, (P \o M) \o J)
  BY SettledRegrouped, Zenon
<1>3. Settled(W, H \o (M \o J)) => Settled(W, (H \o M) \o J)
  BY SettledRegrouped, Zenon
<1>4. H \o M \in Seq(U)
  BY ConcatProperties
<1>5. Settled(W, (P \o M) \o J) /\ Settled(W, (H \o M) \o J)
  BY <1>2, <1>3 DEF Converging
<1>6. Settled(W, K \o J)
  BY <1>4, <1>5, SuffixMore
<1> QED BY <1>1, <1>5, <1>6 DEF Converging

(* One delta of a batch, passed over.                                      *)
LEMMA DeltaPassedOver ==
  ASSUME NEW U, Plain(U), NEW W, IsData(W), NEW P \in Seq(U),
         NEW M \in Seq(U), NEW J \in Seq(U), Settled(W, P), Settled(W, P \o (M \o J))
  PROVE  Converging(W, W, P, J, <<>>) /\ Settled(W, J)
<1>1. M \o J \in Seq(U) /\ <<>> \in Seq(U)
  BY ConcatProperties, EmptySeq
<1>2. Settled(W, M \o J)
  BY <1>1, SettledJoined
<1>3. Settled(W, J)
  BY <1>2, SettledJoined
<1>4. Resting(W, W, P, <<>>)
  BY OnNone DEF Resting
<1> QED BY <1>1, <1>3, <1>4, BatchConverges

(* Two lists of writes merged: W is not disturbed when it holds the last   *)
(* ones of either, and the remote list is as the batch has it.             *)
LEMMA MergeSettles ==
  ASSUME NEW U, NEW W, NEW L \in Seq(U), NEW M \in Seq(U), Settled(W, L), Settled(W, M),
         OnePerPath(M) \/ M = L
  PROVE  MergeOperations(L, M) \in Seq(U) /\ Settled(W, MergeOperations(L, M))
<1>0. /\ MergeOperations(L, M) \in Seq(U)
      /\ \A o : LastIn(o, MergeOperations(L, M)) =>
                  LastIn(o, L) \/ (~On(o.path, L) /\ \E i \in DOMAIN M : M[i] = o)
  BY MergedWrites
<1>1. SUFFICES ASSUME NEW o, LastIn(o, MergeOperations(L, M))
               PROVE  ApplyOperation(W, o) = W
  BY <1>0 DEF Settled
<1>2. LastIn(o, L) \/ (~On(o.path, L) /\ \E i \in DOMAIN M : M[i] = o)
  BY <1>0, <1>1, Zenon
<1>3. CASE LastIn(o, L)
  BY <1>3 DEF Settled
<1>4. CASE ~On(o.path, L) /\ \E i \in DOMAIN M : M[i] = o
  <2>1. M # L
    BY <1>4 DEF On
  <2>2. LastIn(o, M)
    <3>1. DOMAIN M = 1 .. Len(M) /\ Len(M) \in Nat
      BY LenProperties
    <3> QED BY <1>4, <2>1, <3>1 DEF OnePerPath, LastIn
  <2> QED BY <2>2 DEF Settled
<1> QED BY <1>2, <1>3, <1>4

(* What an entity holds, d, is consistent with what the clients meant, W,  *)
(* given its deltas in the queue, P, in the message being handled, I, and  *)
(* in its history, h.  Without "merge" the rest of the message leads to W; *)
(* when the history was cleared by a snapshot it may be passed over.       *)
Converges(W, d, P, I, h) ==
  /\ Converging(W, d, OperationsOf(P), OperationsOf(I), OperationsOf(h))
  /\ h = <<>> => Resting(W, d, OperationsOf(P), <<>>)

(* With "merge" nothing that is handled disturbs W: the one delta that     *)
(* comes has one operation per path, or is the one the resolver merges it  *)
(* with.                                                                   *)
Steady(W, d, P, I, h) ==
  Resting(W, d, OperationsOf(P), OperationsOf(h)) /\ Settled(W, OperationsOf(I))
MergeReady(P, I, h) ==
  /\ P # <<>> /\ h # <<>> => Last(P).operations = Last(h).operations
  /\ I # <<>> => /\ Len(I) = 1
                 /\ \/ OnePerPath(I[1].operations)
                    \/ h # <<>> => I[1].operations = Last(h).operations
Consistent(m, W, d, P, I, h) ==
  /\ m => Steady(W, d, P, I, h) /\ MergeReady(P, I, h)
  /\ ~m => Converges(W, d, P, I, h)

(* K is what addToHistory leaves of h when it adds D.                      *)
Retains(K, h, D, U) ==
  /\ K \in Seq(Sent(U)) /\ K # <<>> /\ Last(K) = D
  /\ Suffix(OperationsOf(K), OperationsOf(h) \o D.operations, U)

(* The operations of the deltas the engine sends.                          *)
LEMMA SentParts ==
  ASSUME NEW U
  PROVE  /\ \A s \in Seq(Sent(U)) : OperationsOf(s) \in Seq(U)
         /\ OperationsOf(<<>>) = <<>> /\ <<>> \in Seq(Sent(U)) /\ <<>> \in Seq(U)
         /\ \A D \in Sent(U) : D.operations \in Seq(U)
         /\ \A s \in Seq(Sent(U)), D \in Sent(U) :
              /\ OperationsOf(Append(s, D)) = OperationsOf(s) \o D.operations
              /\ OperationsOf(<<D>> \o s) = D.operations \o OperationsOf(s)
              /\ Append(s, D) \in Seq(Sent(U)) /\ Append(s, D) # <<>> /\ Last(Append(s, D)) = D
<1>1. \A s \in Seq(Sent(U)) : OperationsOf(s) \in Seq(U)
  BY PartsTyped, SentAre
<1>2. OperationsOf(<<>>) = <<>> /\ <<>> \in Seq(Sent(U)) /\ <<>> \in Seq(U)
  BY NoDeltas, EmptySeq
<1>3. \A D \in Sent(U) : D.operations \in Seq(U)
  BY SentAre
<1>4. ASSUME NEW s \in Seq(Sent(U)), NEW D \in Sent(U)
      PROVE  /\ OperationsOf(Append(s, D)) = OperationsOf(s) \o D.operations
             /\ OperationsOf(<<D>> \o s) = D.operations \o OperationsOf(s)
             /\ Append(s, D) \in Seq(Sent(U)) /\ Append(s, D) # <<>> /\ Last(Append(s, D)) = D
  <2>1. \A t \in Seq(Sent(U)) : OperationsOf(Append(t, D)) = OperationsOf(t) \o D.operations
    BY TypedIsSeq, OperationsOfAppend
  <2>2. <<D>> \in Seq(Sent(U)) /\ Append(<<>>, D) = <<D>>
    BY <1>2, JoinOneMore
  <2>3. OperationsOf(<<D>>) = D.operations
    <3>1. \A t \in Seq(U) : <<>> \o t = t
      BY ConcatEmptySeq
    <3> QED BY <1>2, <1>3, <2>1, <2>2, <3>1
  <2>4. OperationsOf(<<D>> \o s) = OperationsOf(<<D>>) \o OperationsOf(s)
    BY <2>2, SentAre, OperationsJoined
  <2>5. Append(s, D) \in Seq(Sent(U)) /\ Append(s, D) # <<>> /\ Last(Append(s, D)) = D
    BY AppendProperties DEF Last
  <2> QED BY <2>1, <2>3, <2>4, <2>5
<1> QED BY <1>1, <1>2, <1>3, <1>4

(* A list of one delta is its first.                                       *)
LEMMA OnlyHead ==
  ASSUME NEW S, NEW x \in S, NEW J \in Seq(S)
  PROVE  /\ <<x>> \o J # <<>> /\ (<<x>> \o J)[1] = x
         /\ Len(<<x>> \o J) = 1 => J = <<>>
<1>1. <<x>> \in Seq(S) /\ Len(<<x>>) = 1 /\ <<x>>[1] = x
  OBVIOUS
<1>2. /\ Len(<<x>> \o J) = 1 + Len(J) /\ Len(J) \in Nat
      /\ (<<x>> \o J)[1] = x /\ <<x>> \o J \in Seq(S)
  BY <1>1, ConcatProperties, LenProperties
<1>3. Len(J) = 0 => J = <<>>
  BY EmptySeq
<1> QED BY <1>2, <1>3, EmptySeq

(* The operations of the newest delta are settled when all are.            *)
LEMMA LastSettled ==
  ASSUME NEW U, NEW h \in Seq(Sent(U)), h # <<>>, NEW W, Settled(W, OperationsOf(h))
  PROVE  Last(h).operations \in Seq(U) /\ Settled(W, Last(h).operations)
<1> DEFINE T == {t \in Seq(Sent(U)) : t = <<>> \/ \E r \in Seq(Sent(U)), y \in Sent(U) : t = Append(r, y)}
<1>1. h \in T
  <2>1. <<>> \in T /\ \A s \in Seq(Sent(U)), x \in Sent(U) : s \in T => Append(s, x) \in T
    BY SentParts
  <2> HIDE DEF T
  <2> QED BY <2>1, ByAppending
<1>2. PICK r \in Seq(Sent(U)), y \in Sent(U) : h = Append(r, y)
  BY <1>1
<1>3. /\ OperationsOf(h) = OperationsOf(r) \o y.operations /\ Last(h) = y
      /\ OperationsOf(r) \in Seq(U) /\ y.operations \in Seq(U)
  BY <1>2, SentParts
<1>4. Settled(W, OperationsOf(r) \o y.operations) => Settled(W, y.operations)
  BY <1>3, SettledJoined
<1> QED BY <1>3, <1>4

(* Between messages the entity holds what was meant.                       *)
LEMMA ConsistentRests ==
  ASSUME NEW U, Plain(U), NEW m \in BOOLEAN, NEW W, NEW d, IsData(d),
         NEW P \in Seq(Sent(U)), NEW h \in Seq(Sent(U)), Consistent(m, W, d, P, <<>>, h)
  PROVE  Resting(W, d, OperationsOf(P), OperationsOf(h))
<1>1. OperationsOf(P) \in Seq(U) /\ OperationsOf(h) \in Seq(U) /\ OperationsOf(<<>>) = <<>>
  BY SentParts
<1>2. CASE m
  BY <1>2 DEF Consistent, Steady
<1>3. CASE ~m
  <2>1. Converging(W, d, OperationsOf(P), <<>>, OperationsOf(h))
    BY <1>1, <1>3 DEF Consistent, Converges
  <2> QED BY <1>1, <2>1, Converged
<1> QED BY <1>2, <1>3

(* What is at rest is consistent when a message comes whose operations are *)
(* settled and the queue is emptied or left alone.                         *)
LEMMA RestIsConsistent ==
  ASSUME NEW U, Plain(U), NEW m \in BOOLEAN, NEW W, IsData(W), NEW d,
         NEW P \in Seq(Sent(U)), NEW h \in Seq(Sent(U)), NEW I \in Seq(Sent(U)),
         Resting(W, d, OperationsOf(P), OperationsOf(h)), Settled(W, OperationsOf(I)),
         NEW Q \in {P, <<>>}, m => MergeReady(Q, I, h)
  PROVE  Consistent(m, W, d, Q, I, h)
<1> PICK p, i, k : p = OperationsOf(P) /\ i = OperationsOf(I) /\ k = OperationsOf(h)
  OBVIOUS
<1>1. p \in Seq(U) /\ i \in Seq(U) /\ k \in Seq(U) /\ OperationsOf(<<>>) = <<>>
  BY SentParts
<1>2. Converging(W, d, p, i, k) /\ Converging(W, d, <<>>, i, k)
  BY <1>1, BatchConverges, Zenon
<1>3. Settled(W, <<>>)
  BY OnNone
<1>4. Resting(W, d, OperationsOf(Q), <<>>) /\ Resting(W, d, OperationsOf(Q), k)
  BY <1>1, <1>3 DEF Resting
<1>5. Converging(W, d, OperationsOf(Q), i, k)
  BY <1>1, <1>2
<1> QED BY <1>4, <1>5 DEF Consistent, Converges, Steady

(* A new entity.                                                           *)
LEMMA NewIsConsistent ==
  ASSUME NEW U, Plain(U), NEW m \in BOOLEAN, NEW W, IsData(W)
  PROVE  Consistent(m, W, W, <<>>, <<>>, <<>>)
<1>1. <<>> \in Seq(Sent(U)) /\ OperationsOf(<<>>) = <<>>
  BY SentParts
<1>2. Settled(W, <<>>) /\ Resting(W, W, <<>>, <<>>)
  BY OnNone DEF Resting
<1>3. MergeReady(<<>>, <<>>, <<>>)
  BY DEF MergeReady
<1> QED BY <1>1, <1>2, <1>3, RestIsConsistent

(* A client's update.                                                      *)
LEMMA UpdateIsConsistent ==
  ASSUME NEW U, Plain(U), NEW m \in BOOLEAN, NEW W, IsData(W), NEW d, IsData(d),
         NEW P \in Seq(Sent(U)), NEW h \in Seq(Sent(U)), Consistent(m, W, d, P, <<>>, h),
         NEW D \in Sent(U), NEW K, Retains(K, h, D, U)
  PROVE  Consistent(m, ApplyAll(W, D.operations), ApplyAll(d, D.operations), Append(P, D), <<>>, K)
<1> PICK M : M = D.operations
  OBVIOUS
<1>1. /\ OperationsOf(P) \in Seq(U) /\ OperationsOf(h) \in Seq(U) /\ M \in Seq(U)
      /\ K \in Seq(Sent(U)) /\ OperationsOf(K) \in Seq(U)
      /\ Append(P, D) \in Seq(Sent(U)) /\ Append(P, D) # <<>> /\ Last(Append(P, D)) = D
      /\ OperationsOf(Append(P, D)) = OperationsOf(P) \o M
      /\ <<>> \in Seq(Sent(U)) /\ OperationsOf(<<>>) = <<>>
  BY SentParts DEF Retains
<1>2. Resting(W, d, OperationsOf(P), OperationsOf(h))
  BY ConsistentRests
<1>3. Resting(ApplyAll(W, M), ApplyAll(d, M), OperationsOf(P) \o M, OperationsOf(K))
  <2>1. Suffix(OperationsOf(K), OperationsOf(h) \o M, U)
    BY DEF Retains
  <2> QED BY <1>1, <1>2, <2>1, UpdateRests
<1>4. MergeReady(Append(P, D), <<>>, K)
  BY <1>1 DEF MergeReady, Retains
<1>5. Settled(ApplyAll(W, M), <<>>) /\ IsData(ApplyAll(W, M))
  BY <1>1, OnNone, ApplyWrites
<1> QED BY <1>1, <1>3, <1>4, <1>5, RestIsConsistent

(* A flush: what was queued comes back, compressed.                        *)
LEMMA FlushIsConsistent ==
  ASSUME NEW U, Plain(U), NEW m \in BOOLEAN, NEW W, IsData(W), NEW d, IsData(d),
         NEW P \in Seq(Sent(U)), NEW h \in Seq(Sent(U)), Consistent(m, W, d, P, <<>>, h),
         NEW C \in Seq(Sent(U)),
         OperationsOf(C) \in {OperationsOf(P), CollapseOperations(OperationsOf(P))},
         C = <<>> \/ (/\ Len(C) = 1
                      /\ \/ OnePerPath(C[1].operations)
                         \/ P # <<>> /\ C[1].operations = Last(P).operations)
  PROVE  Consistent(m, W, d, <<>>, C, h)
<1>1. Resting(W, d, OperationsOf(P), OperationsOf(h))
  BY ConsistentRests
<1>2. OperationsOf(P) \in Seq(U)
  BY SentParts
<1>3. Settled(W, OperationsOf(C))
  BY <1>1, <1>2, CollapsedWrites DEF Settled, Resting
<1>4. m => MergeReady(<<>>, C, h)
  BY DEF Consistent, MergeReady
<1> QED BY <1>1, <1>3, <1>4, RestIsConsistent

(* A replay of the retained deltas.                                        *)
LEMMA ReplayIsConsistent ==
  ASSUME NEW U, Plain(U), NEW W, IsData(W), NEW d, IsData(d),
         NEW P \in Seq(Sent(U)), NEW h \in Seq(Sent(U)), Consistent(FALSE, W, d, P, <<>>, h)
  PROVE  Consistent(FALSE, W, d, P, h, h)
<1>1. Resting(W, d, OperationsOf(P), OperationsOf(h))
  BY ConsistentRests
<1> QED BY <1>1, RestIsConsistent DEF Resting

(* A delta passed over, when a snapshot cleared the history.               *)
LEMMA IgnoredIsConsistent ==
  ASSUME NEW U, Plain(U), NEW m \in BOOLEAN, NEW W, IsData(W), NEW d,
         NEW P \in Seq(Sent(U)), NEW x \in Sent(U), NEW J \in Seq(Sent(U)),
         Consistent(m, W, d, P, <<x>> \o J, <<>>)
  PROVE  Consistent(m, W, d, P, J, <<>>)
<1> PICK M, j, p : M = x.operations /\ j = OperationsOf(J) /\ p = OperationsOf(P)
  OBVIOUS
<1>1. /\ M \in Seq(U) /\ j \in Seq(U) /\ p \in Seq(U)
      /\ OperationsOf(<<x>> \o J) = M \o j /\ OperationsOf(<<>>) = <<>>
  BY SentParts
<1>2. CASE m
  <2>1. Steady(W, d, P, <<x>> \o J, <<>>) /\ MergeReady(P, <<x>> \o J, <<>>)
    BY <1>2 DEF Consistent
  <2>2. Settled(W, M \o j)
    BY <1>1, <2>1 DEF Steady
  <2>3. Settled(W, j)
    BY <1>1, <2>2, SettledJoined
  <2>4. J = <<>>
    BY <2>1, OnlyHead DEF MergeReady
  <2>5. MergeReady(P, J, <<>>)
    BY <2>4 DEF MergeReady
  <2> QED BY <1>2, <2>1, <2>3, <2>5 DEF Consistent, Steady
<1>3. CASE ~m
  <2>1. Converging(W, d, p, M \o j, <<>>) /\ d = W /\ Settled(W, p)
    BY <1>1, <1>3 DEF Consistent, Converges, Resting
  <2>2. Settled(W, p \o (M \o j))
    BY <2>1 DEF Converging
  <2>3. Converging(W, W, p, j, <<>>)
    BY <1>1, <2>1, <2>2, DeltaPassedOver
  <2> QED BY <1>1, <1>3, <2>1, <2>3, OnNone DEF Consistent, Converges, Resting
<1> QED BY <1>2, <1>3

(* A delta applied, without "merge".                                       *)
LEMMA AppliedIsConsistent ==
  ASSUME NEW U, Plain(U), NEW W, NEW d, IsData(d),
         NEW P \in Seq(Sent(U)), NEW h \in Seq(Sent(U)), NEW x \in Sent(U), NEW J \in Seq(Sent(U)),
         Consistent(FALSE, W, d, P, <<x>> \o J, h),
         NEW D \in Sent(U), D.operations = x.operations, NEW K, Retains(K, h, D, U)
  PROVE  Consistent(FALSE, W, ApplyAll(d, x.operations), Append(P, D), J, K)
<1> PICK M, j, p, k : /\ M = x.operations /\ j = OperationsOf(J) /\ p = OperationsOf(P)
                      /\ k = OperationsOf(h)
  OBVIOUS
<1>1. /\ M \in Seq(U) /\ j \in Seq(U) /\ p \in Seq(U) /\ k \in Seq(U) /\ OperationsOf(K) \in Seq(U)
      /\ OperationsOf(<<x>> \o J) = M \o j /\ OperationsOf(Append(P, D)) = p \o M
  <2>1. K \in Seq(Sent(U))
    BY DEF Retains
  <2>2. /\ x.operations \in Seq(U) /\ OperationsOf(J) \in Seq(U) /\ OperationsOf(P) \in Seq(U)
        /\ OperationsOf(h) \in Seq(U) /\ OperationsOf(K) \in Seq(U)
    BY <2>1, SentParts
  <2>3. /\ OperationsOf(<<x>> \o J) = x.operations \o OperationsOf(J)
        /\ OperationsOf(Append(P, D)) = OperationsOf(P) \o D.operations
    BY SentParts
  <2> QED BY <2>2, <2>3
<1>2. Converging(W, d, p, M \o j, k) /\ Suffix(OperationsOf(K), k \o M, U) /\ K # <<>>
  BY <1>1 DEF Consistent, Converges, Retains
<1>3. Converging(W, ApplyAll(d, M), p \o M, j, OperationsOf(K))
  BY <1>1, <1>2, DeltaConverges
<1> QED BY <1>1, <1>2, <1>3 DEF Consistent, Converges

(* A delta, x, that disturbs nothing, as it is or merged with the newest   *)
(* retained one, and after which nothing comes.                            *)
Calm(W, d, P, x, J, h) ==
  /\ Len(J) = 0 /\ d = W /\ Settled(W, OperationsOf(P)) /\ Settled(W, OperationsOf(h))
  /\ Settled(W, x.operations) /\ PreApply(d, x.operations) = d
  /\ h # <<>> => Settled(W, MergeOperations(Last(h).operations, x.operations))

(* What comes under "merge" is calm.                                       *)
LEMMA ArrivesSettled ==
  ASSUME NEW U, Plain(U), NEW W, IsData(W), NEW d,
         NEW P \in Seq(Sent(U)), NEW h \in Seq(Sent(U)), NEW x \in Sent(U), NEW J \in Seq(Sent(U)),
         Consistent(TRUE, W, d, P, <<x>> \o J, h)
  PROVE  Calm(W, d, P, x, J, h)
<1>a. PICK X, j, p, k : /\ X = x.operations /\ j = OperationsOf(J) /\ p = OperationsOf(P)
                        /\ k = OperationsOf(h)
  OBVIOUS
<1>1. /\ X \in Seq(U) /\ j \in Seq(U) /\ p \in Seq(U) /\ k \in Seq(U)
      /\ OperationsOf(<<x>> \o J) = X \o j /\ OperationsOf(<<>>) = <<>>
  BY <1>a, SentParts
<1>2. Steady(W, d, P, <<x>> \o J, h) /\ MergeReady(P, <<x>> \o J, h)
  BY DEF Consistent
<1>3. J = <<>> /\ <<x>> \o J # <<>> /\ (<<x>> \o J)[1] = x
  BY <1>2, OnlyHead DEF MergeReady
<1>4. d = W /\ Settled(W, p) /\ Settled(W, k) /\ Settled(W, X)
  <2>1. X \o j = X
    BY <1>1, <1>3, <1>a, ConcatEmptySeq
  <2> QED BY <1>1, <1>2, <1>a, <2>1 DEF Steady, Resting
<1>5. PreApply(d, X) = d
  <2>1. PreApply(W, X) = ApplyAll(W, X) /\ ApplyAll(W, X) = W
    BY <1>1, <1>4, EarlyWrites, SettledStays
  <2> QED BY <1>4, <2>1
<1>6. ASSUME h # <<>> PROVE Settled(W, MergeOperations(Last(h).operations, X))
  <2>1. PICK L : L = Last(h).operations
    OBVIOUS
  <2>2. L \in Seq(U) /\ Settled(W, L)
    BY <1>4, <1>6, <1>a, <2>1, LastSettled
  <2>3. OnePerPath(X) \/ X = L
    BY <1>2, <1>3, <1>6, <1>a, <2>1 DEF MergeReady
  <2>4. Settled(W, MergeOperations(L, X))
    BY <1>1, <1>4, <2>2, <2>3, MergeSettles
  <2> QED BY <2>1, <2>4
<1>7. Len(J) = 0
  BY <1>3, EmptySeq
<1> QED BY <1>4, <1>5, <1>6, <1>7, <1>a DEF Calm

(* Operations that disturb nothing, applied, with "merge".                 *)
LEMMA MergedIsConsistent ==
  ASSUME NEW U, Plain(U), NEW W, IsData(W), NEW P \in Seq(Sent(U)), NEW h \in Seq(Sent(U)),
         Settled(W, OperationsOf(P)), Settled(W, OperationsOf(h)),
         NEW D \in Sent(U), Settled(W, D.operations), NEW K, Retains(K, h, D, U)
  PROVE  Consistent(TRUE, W, ApplyAll(W, D.operations), Append(P, D), <<>>, K)
<1>a. PICK M, p, k : M = D.operations /\ p = OperationsOf(P) /\ k = OperationsOf(h)
  OBVIOUS
<1>1. /\ p \in Seq(U) /\ k \in Seq(U) /\ M \in Seq(U)
      /\ OperationsOf(K) \in Seq(U) /\ K \in Seq(Sent(U)) /\ K # <<>> /\ Last(K) = D
      /\ OperationsOf(Append(P, D)) = p \o M
      /\ Append(P, D) # <<>> /\ Last(Append(P, D)) = D
      /\ OperationsOf(<<>>) = <<>>
  BY <1>a, SentParts DEF Retains
<1>2. ApplyAll(W, M) = W
  BY <1>1, <1>a, SettledStays
<1>3. Settled(W, p \o M) /\ Settled(W, k \o M)
  BY <1>1, <1>a, SettledJoined
<1>4. Settled(W, OperationsOf(K))
  <2>1. Suffix(OperationsOf(K), k \o M, U) /\ k \o M \in Seq(U) /\ <<>> \in Seq(U)
    BY <1>1, <1>a, ConcatProperties, EmptySeq DEF Retains
  <2>2. (k \o M) \o <<>> = k \o M /\ OperationsOf(K) \o <<>> = OperationsOf(K)
    BY <1>1, <2>1, ConcatEmptySeq
  <2>3. Settled(W, (k \o M) \o <<>>)
    BY <1>3, <2>2
  <2>4. Settled(W, OperationsOf(K) \o <<>>)
    BY <1>1, <2>1, <2>3, SuffixMore
  <2> QED BY <2>2, <2>4
<1>5. MergeReady(Append(P, D), <<>>, K)
  BY <1>1 DEF MergeReady
<1>6. Steady(W, W, Append(P, D), <<>>, K)
  BY <1>1, <1>3, <1>4, OnNone DEF Steady, Resting
<1> QED BY <1>2, <1>5, <1>6, <1>a DEF Consistent

(* Every operation a client sends is a "set" or a "delete", and no path in *)
(* use is within another.                                                  *)
PlainWrites(U) ==
  Plain(U) /\ OpLists \subseteq Seq(U) /\ \A data \in InitialData : IsData(data)

(* What is queued, in flight and retained, in the order of its times.      *)
Retained(x, U) ==
  /\ HistoryOf(x) \in Seq(Sent(U)) /\ Ordered(HistoryOf(x), now)
  /\ \A i \in DOMAIN HistoryOf(x) : HistoryOf(x)[i].entityId = x
Traffic(U) ==
  /\ used \subseteq EntityIds /\ now \in Nat
  /\ pending \in Seq(Sent(U)) /\ Ordered(pending, now)
  /\ inbox \in Seq(Sent(U))
  /\ IsFiniteSet(DOMAIN history)
  /\ \A x : Retained(x, U)
  /\ \A x \in DOMAIN entities : IsData(entities[x].data) /\ IsData(intended[x])

(* Unless a flush left deltas behind, or a full sync replayed the retained *)
(* ones under "merge", every entity is consistent with what was meant.     *)
Agreed(x) ==
  Consistent(strategy = "merge", intended[x], entities[x].data,
             DeltasOf(pending, x), DeltasOf(inbox, x), HistoryOf(x))
Undisturbed == ~overflowed /\ (strategy = "merge" => ~replayed)
WritesInv(U) ==
  SyncInv /\ Traffic(U) /\ (Undisturbed => \A x \in DOMAIN entities : Agreed(x))

(* An entity that a step does not touch.                                   *)
LEMMA UntouchedAgrees ==
  ASSUME NEW x, Agreed(x), entities'[x].data = entities[x].data, intended'[x] = intended[x],
         HistoryOf(x)' = HistoryOf(x), DeltasOf(pending', x) = DeltasOf(pending, x),
         DeltasOf(inbox', x) = DeltasOf(inbox, x), strategy' = strategy
  PROVE  Agreed(x)'
<1>1. HistoryOf(x)' = IF x \in DOMAIN history' THEN history'[x] ELSE <<>>
  BY DEF HistoryOf
<1> QED BY DEF Agreed

(* The deltas of an entity in the message being handled, the first apart.  *)
LEMMA DeltasOfFirst ==
  ASSUME NEW U, NEW s \in Seq(Sent(U)), s # <<>>
  PROVE  /\ Head(s) \in Sent(U) /\ Tail(s) \in Seq(Sent(U))
         /\ \A x : /\ DeltasOf(Tail(s), x) \in Seq(Sent(U))
                   /\ DeltasOf(s, x) = IF Head(s).entityId = x
                                       THEN <<Head(s)>> \o DeltasOf(Tail(s), x)
                                       ELSE DeltasOf(Tail(s), x)
<1> PICK D, r : D = Head(s) /\ r = Tail(s)
  OBVIOUS
<1>1. D \in Sent(U) /\ r \in Seq(Sent(U)) /\ s = <<D>> \o r
  <2>1. D \in Sent(U) /\ r \in Seq(Sent(U))
    BY HeadTailProperties
  <2>2. \A t \in Seq(Sent(U)) : t # <<>> => t = <<Head(t)>> \o Tail(t)
    BY HeadTailProperties
  <2> QED BY <2>1, <2>2
<1>2. ASSUME NEW x
      PROVE  /\ DeltasOf(r, x) \in Seq(Sent(U))
             /\ DeltasOf(s, x) = IF D.entityId = x THEN <<D>> \o DeltasOf(r, x) ELSE DeltasOf(r, x)
  <2>1. <<D>> \in Seq(Sent(U)) /\ Append(<<>>, D) = <<D>> /\ <<>> \in Seq(Sent(U))
    BY <1>1, EmptySeq, JoinOneMore
  <2>2. DeltasOf(r, x) \in Seq(Sent(U))
    BY <1>1, SentAre, PartsTyped
  <2>3. DeltasOf(<<D>>, x) = IF D.entityId = x THEN <<D>> ELSE <<>>
    <3>1. \A t : IsSeq(t) => DeltasOf(Append(t, D), x) =
                               IF D.entityId = x THEN Append(DeltasOf(t, x), D) ELSE DeltasOf(t, x)
      BY DeltasOfAppend
    <3>2. IsSeq(<<>>) /\ DeltasOf(<<>>, x) = <<>>
      BY <2>1, TypedIsSeq, NoDeltas
    <3> QED BY <2>1, <3>1, <3>2
  <2>4. DeltasOf(<<D>> \o r, x) = DeltasOf(<<D>>, x) \o DeltasOf(r, x)
    <3>1. \A t, u \in Seq(Sent(U)) : DeltasOf(t \o u, x) = DeltasOf(t, x) \o DeltasOf(u, x)
      BY SentAre, DeltasJoined
    <3> QED BY <1>1, <2>1, <3>1, Zenon
  <2>5. <<>> \o DeltasOf(r, x) = DeltasOf(r, x)
    BY <2>2, ConcatEmptySeq
  <2> QED BY <1>1, <2>2, <2>3, <2>4, <2>5
<1> QED BY <1>1, <1>2

(* An update, by a client or by a batch: the queue and the histories.      *)
LEMMA ChangeMoves ==
  ASSUME SyncInv, NEW U, Plain(U), Traffic(U), NEW id, NEW ops \in Seq(U), NEW data,
         Write(id, ops, data), QueueDelta(id)
  PROVE  /\ id \in DOMAIN entities /\ DOMAIN entities' = DOMAIN entities
         /\ entities'[id].data = data
         /\ \A x \in DOMAIN entities \ {id} : entities'[x] = entities[x]
         /\ UNCHANGED <<used, now>>
         /\ pending' \in Seq(Sent(U)) /\ Ordered(pending', now')
         /\ IsFiniteSet(DOMAIN history') /\ \A x : Retained(x, U)'
         /\ \A x : x # id => /\ HistoryOf(x)' = HistoryOf(x)
                             /\ DeltasOf(pending', x) = DeltasOf(pending, x)
         /\ \E D \in Sent(U) :
              /\ D.operations = ops /\ DeltasOf(pending', id) = Append(DeltasOf(pending, id), D)
              /\ Retains(HistoryOf(id)', HistoryOf(id), D, U)
<1>a. PICK v, t : v = entities[id].version /\ t = now
  OBVIOUS
<1>b. PICK D : D = Delta(id, v, v + 1, ops, t)
  OBVIOUS
<1>c. PICK h : h = HistoryOf(id)
  OBVIOUS
<1>1. /\ id \in DOMAIN entities /\ id \in EntityIds /\ v \in Nat /\ t \in Nat
      /\ DOMAIN entities' = DOMAIN entities /\ entities'[id].data = data
      /\ \A x \in DOMAIN entities \ {id} : entities'[x] = entities[x]
      /\ UNCHANGED <<used, now>>
  BY <1>a DEF Write, SyncInv, StoreTypes, Traffic
<1>2. /\ D \in Sent(U) /\ D.operations = ops /\ D.timestamp = t /\ D.entityId = id
      /\ IsDelta(D)
  <2>1. D \in Sent(U)
    BY <1>1, <1>b DEF Sent, DeltasOver, Delta
  <2> QED BY <1>b, <2>1, SentAre DEF Delta
<1>3. h \in Seq(Sent(U)) /\ Ordered(h, t) /\ \A i \in DOMAIN h : h[i].entityId = id
  BY <1>a, <1>c DEF Traffic, Retained
<1>4. /\ Pushed(h, D) \in Seq(Sent(U)) /\ Pushed(h, D) # <<>> /\ Last(Pushed(h, D)) = D
      /\ Ordered(Pushed(h, D), t)
      /\ \A i \in DOMAIN Pushed(h, D) : Pushed(h, D)[i] \in ToSet(h) \cup {D}
      /\ Suffix(OperationsOf(Pushed(h, D)), OperationsOf(h) \o ops, U)
  <2>1. t \in Int /\ t <= D.timestamp
    BY <1>1, <1>2
  <2>2. /\ Pushed(h, D) \in Seq(Sent(U)) /\ Pushed(h, D) # <<>> /\ Last(Pushed(h, D)) = D
        /\ Ordered(Pushed(h, D), D.timestamp)
        /\ \A i \in DOMAIN Pushed(h, D) : Pushed(h, D)[i] \in ToSet(h) \cup {D}
        /\ Suffix(OperationsOf(Pushed(h, D)), OperationsOf(h) \o D.operations, U)
    <3>1. \A g \in Seq(Sent(U)), E \in Sent(U), c \in Int :
            Ordered(g, c) /\ c <= E.timestamp =>
              /\ Pushed(g, E) \in Seq(Sent(U)) /\ Pushed(g, E) # <<>> /\ Last(Pushed(g, E)) = E
              /\ Ordered(Pushed(g, E), E.timestamp)
              /\ \A i \in DOMAIN Pushed(g, E) : Pushed(g, E)[i] \in ToSet(g) \cup {E}
              /\ Suffix(OperationsOf(Pushed(g, E)), OperationsOf(g) \o E.operations, U)
      BY PushedParts
    <3> QED BY <1>2, <1>3, <2>1, <3>1, Zenon
  <2> QED BY <1>2, <2>2
<1>5. history' = MapPut(history, id, Pushed(h, D))
  BY <1>a, <1>b, <1>c DEF Write, AddToHistory, Pushed
<1>6. /\ DOMAIN history' = DOMAIN history \cup {id} /\ history'[id] = Pushed(h, D)
      /\ \A x \in DOMAIN history \ {id} : history'[x] = history[x]
  BY <1>5 DEF MapPut
<1>7. HistoryOf(id)' = Pushed(h, D) /\ \A x : x # id => HistoryOf(x)' = HistoryOf(x)
  BY <1>6 DEF HistoryOf
<1>8. pending' = Append(pending, D)
  BY <1>4, <1>6 DEF QueueDelta
<1>9. pending' \in Seq(Sent(U)) /\ Ordered(pending', now')
  <2>1. pending \in Seq(Sent(U)) /\ Ordered(pending, t) /\ IsSeq(pending)
    BY <1>a, TypedIsSeq DEF Traffic
  <2>2. Ordered(Append(pending, D), t)
    <3>1. t \in Int /\ t <= D.timestamp
      BY <1>1, <1>2
    <3> QED BY <1>2, <2>1, <3>1, OrderedAppend
  <2>3. Append(pending, D) \in Seq(Sent(U))
    BY <1>2, <2>1, SentParts
  <2>4. now' = t
    BY <1>1, <1>a
  <2> QED BY <1>8, <2>2, <2>3, <2>4
<1>10. IsFiniteSet(DOMAIN history')
  BY <1>6, FS_AddElement DEF Traffic
<1>11. ASSUME NEW x PROVE Retained(x, U)'
  <2>1. CASE x = id
    <3>1. \A i \in DOMAIN Pushed(h, D) : Pushed(h, D)[i].entityId = id
      BY <1>2, <1>3, <1>4 DEF ToSet
    <3>2. HistoryOf(x)' = Pushed(h, D) /\ now' = t
      BY <1>1, <1>7, <1>a, <2>1
    <3> QED BY <1>4, <2>1, <3>1, <3>2 DEF Retained
  <2>2. CASE x # id
    <3>1. Retained(x, U)
      BY DEF Traffic
    <3> QED BY <1>1, <1>7, <2>2, <3>1 DEF Retained
  <2> QED BY <2>1, <2>2
<1>12. ASSUME NEW x
       PROVE  DeltasOf(pending', x) =
                IF x = id THEN Append(DeltasOf(pending, x), D) ELSE DeltasOf(pending, x)
  <2>1. IsSeq(pending)
    BY TypedIsSeq DEF Traffic
  <2>2. \A s : IsSeq(s) => DeltasOf(Append(s, D), x) =
                             IF D.entityId = x THEN Append(DeltasOf(s, x), D) ELSE DeltasOf(s, x)
    BY DeltasOfAppend
  <2> QED BY <1>2, <1>8, <2>1, <2>2
<1>13. Retains(HistoryOf(id)', HistoryOf(id), D, U)
  BY <1>2, <1>4, <1>7, <1>c DEF Retains
<1> QED BY <1>1, <1>2, <1>7, <1>9, <1>10, <1>11, <1>12, <1>13

(* The deltas of an entity are deltas the engine sends.                    *)
LEMMA TrafficParts ==
  ASSUME NEW U, Traffic(U), NEW x
  PROVE  /\ DeltasOf(pending, x) \in Seq(Sent(U)) /\ DeltasOf(inbox, x) \in Seq(Sent(U))
         /\ HistoryOf(x) \in Seq(Sent(U)) /\ DeltasOf(<<>>, x) = <<>>
<1>1. pending \in Seq(Sent(U)) /\ inbox \in Seq(Sent(U)) /\ HistoryOf(x) \in Seq(Sent(U))
  BY DEF Traffic, Retained
<1> QED BY <1>1, SentAre, PartsTyped, NoDeltas

(* Nothing is queued, in flight or retained at first.                      *)
LEMMA InitWrites == ASSUME NEW U, SyncInit PROVE WritesInv(U)
<1>1. SyncInv
  BY SyncInitInv
<1>2. /\ pending = <<>> /\ inbox = <<>> /\ DOMAIN history = {} /\ DOMAIN entities = {}
      /\ used = {} /\ now = 0
  BY DEF SyncInit, Init
<1>3. <<>> \in Seq(Sent(U)) /\ DOMAIN <<>> = {} /\ Ordered(<<>>, now)
  BY EmptySeq DEF Ordered
<1>4. \A x : Retained(x, U)
  BY <1>2, <1>3 DEF Retained, HistoryOf
<1>5. Traffic(U)
  BY <1>2, <1>3, <1>4, FS_EmptySet DEF Traffic
<1> QED BY <1>1, <1>2, <1>5 DEF WritesInv

(* A new entity has an id that no delta carries.                           *)
LEMMA CreateKeepsWrites ==
  ASSUME NEW U, PlainWrites(U), WritesInv(U),
         NEW id \in EntityIds, NEW data \in InitialData, ClientCreate(id, data)
  PROVE  Traffic(U)' /\ (Undisturbed' => \A x \in DOMAIN entities' : Agreed(x)')
<1>1. /\ SyncInv /\ Traffic(U) /\ IsData(data) /\ Plain(U)
  BY DEF WritesInv, PlainWrites
<1>2. /\ id \notin used /\ used' = used \cup {id} /\ inbox = <<>>
      /\ UNCHANGED <<history, now, pending, inbox, strategy, overflowed, replayed>>
      /\ DOMAIN entities' = DOMAIN entities \cup {id} /\ entities'[id].data = data
      /\ intended'[id] = data
      /\ \A x \in DOMAIN entities : entities'[x] = entities[x] /\ intended'[x] = intended[x]
  <2>1. DOMAIN intended = DOMAIN entities /\ DOMAIN entities \subseteq used
    BY <1>1 DEF SyncInv, LiveAsIntended, StoreTypes
  <2> QED BY <2>1 DEF ClientCreate, CreateEntity, MapPut, Idle
<1>3. \A x : HistoryOf(x)' = HistoryOf(x)
  BY <1>2 DEF HistoryOf
<1>4. Traffic(U)'
  <2>1. \A x : Retained(x, U)'
    BY <1>1, <1>2, <1>3 DEF Traffic, Retained
  <2>2. \A x \in DOMAIN entities' : IsData(entities'[x].data) /\ IsData(intended'[x])
    BY <1>1, <1>2 DEF Traffic
  <2> QED BY <1>1, <1>2, <2>1, <2>2 DEF Traffic
<1>5. ASSUME Undisturbed', NEW x \in DOMAIN entities' PROVE Agreed(x)'
  <2>1. CASE x = id
    <3>1. DeltasOf(pending, id) = <<>>
      <4>1. \A k \in DOMAIN pending : pending[k].entityId # id
        BY <1>1, <1>2 DEF SyncInv, PendingTypes
      <4>2. IsSeq(pending)
        BY <1>1 DEF SyncInv, PendingTypes
      <4>3. IsSeq(DeltasOf(pending, id)) /\ ToSet(DeltasOf(pending, id)) = {}
        BY <4>1, <4>2, DeltasOfAre DEF ToSet
      <4>4. \A s : IsSeq(s) /\ ToSet(s) = {} => s = <<>>
        BY DEF IsSeq
      <4> QED BY <4>3, <4>4
    <3>2. HistoryOf(id) = <<>>
      BY <1>1, <1>2 DEF SyncInv, StoreTypes, HistoryOf
    <3>3. DeltasOf(inbox', id) = <<>> /\ DeltasOf(pending', id) = <<>> /\ HistoryOf(id)' = <<>>
      BY <1>2, <1>3, <3>1, <3>2, NoDeltas
    <3>4. Consistent(strategy' = "merge", data, data, <<>>, <<>>, <<>>)
      BY <1>1, NewIsConsistent
    <3> QED BY <1>2, <2>1, <3>3, <3>4 DEF Agreed
  <2>2. CASE x # id
    <3>1. x \in DOMAIN entities /\ Agreed(x)
      BY <1>2, <1>5, <2>2 DEF Undisturbed, WritesInv
    <3> QED BY <1>2, <1>3, <3>1, UntouchedAgrees
  <2> QED BY <2>1, <2>2
<1> QED BY <1>4, <1>5

(* A client's update.                                                      *)
LEMMA UpdateKeepsWrites ==
  ASSUME NEW U, PlainWrites(U), WritesInv(U),
         NEW id \in EntityIds, NEW ops \in OpLists, ClientUpdate(id, ops)
  PROVE  Traffic(U)' /\ (Undisturbed' => \A x \in DOMAIN entities' : Agreed(x)')
<1>1. /\ SyncInv /\ Traffic(U) /\ Plain(U) /\ ops \in Seq(U)
  BY DEF WritesInv, PlainWrites
<1> PICK d, W : d = entities[id].data /\ W = intended[id]
  OBVIOUS
<1>2. /\ Write(id, ops, ApplyAll(d, ops)) /\ QueueDelta(id) /\ inbox = <<>>
      /\ UNCHANGED <<inbox, strategy, overflowed, replayed>>
  BY DEF ClientUpdate, UpdateEntity, Idle
<1>3. /\ id \in DOMAIN entities /\ DOMAIN entities' = DOMAIN entities
      /\ entities'[id].data = ApplyAll(d, ops)
      /\ \A x \in DOMAIN entities \ {id} : entities'[x] = entities[x]
      /\ UNCHANGED <<used, now>>
      /\ pending' \in Seq(Sent(U)) /\ Ordered(pending', now')
      /\ IsFiniteSet(DOMAIN history') /\ \A x : Retained(x, U)'
      /\ \A x : x # id => /\ HistoryOf(x)' = HistoryOf(x)
                          /\ DeltasOf(pending', x) = DeltasOf(pending, x)
      /\ \E D \in Sent(U) :
           /\ D.operations = ops /\ DeltasOf(pending', id) = Append(DeltasOf(pending, id), D)
           /\ Retains(HistoryOf(id)', HistoryOf(id), D, U)
  BY <1>1, <1>2, ChangeMoves
<1>4. /\ intended'[id] = ApplyAll(W, ops)
      /\ \A x \in DOMAIN entities \ {id} : intended'[x] = intended[x]
  <2>1. DOMAIN intended = DOMAIN entities
    BY <1>1 DEF SyncInv, LiveAsIntended
  <2> QED BY <1>3, <2>1 DEF ClientUpdate
<1>5. IsData(d) /\ IsData(W) /\ IsData(ApplyAll(d, ops)) /\ IsData(ApplyAll(W, ops))
  <2>1. IsData(d) /\ IsData(W)
    BY <1>1, <1>3 DEF Traffic
  <2> QED BY <1>1, <2>1, ApplyWrites
<1>6. Traffic(U)'
  <2>1. \A x \in DOMAIN entities' : IsData(entities'[x].data) /\ IsData(intended'[x])
    BY <1>1, <1>3, <1>4, <1>5 DEF Traffic
  <2> QED BY <1>1, <1>2, <1>3, <2>1 DEF Traffic
<1>7. ASSUME Undisturbed', NEW x \in DOMAIN entities' PROVE Agreed(x)'
  <2>1. Agreed(x) /\ x \in DOMAIN entities
    BY <1>2, <1>3, <1>7 DEF Undisturbed, WritesInv
  <2>2. CASE x = id
    <3>1. PICK D \in Sent(U) :
            /\ D.operations = ops /\ DeltasOf(pending', id) = Append(DeltasOf(pending, id), D)
            /\ Retains(HistoryOf(id)', HistoryOf(id), D, U)
      BY <1>3
    <3>2. /\ DeltasOf(pending, id) \in Seq(Sent(U)) /\ HistoryOf(id) \in Seq(Sent(U))
          /\ DeltasOf(inbox, id) = <<>>
      BY <1>1, <1>2, TrafficParts
    <3>3. Consistent(strategy = "merge", W, d, DeltasOf(pending, id), <<>>, HistoryOf(id))
      BY <2>1, <2>2, <3>2 DEF Agreed
    <3>4. Consistent(strategy = "merge", ApplyAll(W, D.operations), ApplyAll(d, D.operations),
                     Append(DeltasOf(pending, id), D), <<>>, HistoryOf(id)')
      BY <1>1, <1>5, <3>1, <3>2, <3>3, UpdateIsConsistent
    <3> QED BY <1>2, <1>3, <1>4, <2>2, <3>1, <3>2, <3>4 DEF Agreed
  <2>3. CASE x # id
    BY <1>2, <1>3, <1>4, <2>1, <2>3, UntouchedAgrees
  <2> QED BY <2>2, <2>3
<1> QED BY <1>6, <1>7

(* A deletion leaves the other entities alone.                             *)
LEMMA DeleteKeepsWrites ==
  ASSUME NEW U, WritesInv(U), NEW id \in EntityIds, ClientDelete(id)
  PROVE  Traffic(U)' /\ (Undisturbed' => \A x \in DOMAIN entities' : Agreed(x)')
<1>1. /\ SyncInv /\ Traffic(U)
  BY DEF WritesInv
<1>2. /\ UNCHANGED <<used, now, pending, inbox, strategy, overflowed, replayed>>
      /\ DOMAIN entities' = DOMAIN entities \ {id}
      /\ \A x \in DOMAIN entities' : entities'[x] = entities[x] /\ intended'[x] = intended[x]
      /\ DOMAIN history' = DOMAIN history \ {id}
      /\ \A x \in DOMAIN history' : history'[x] = history[x]
  <2>1. DOMAIN intended = DOMAIN entities
    BY <1>1 DEF SyncInv, LiveAsIntended
  <2> QED BY <2>1 DEF ClientDelete, DeleteEntity, MapRemove
<1>3. HistoryOf(id)' = <<>> /\ \A x : x # id => HistoryOf(x)' = HistoryOf(x)
  BY <1>2 DEF HistoryOf
<1>4. Traffic(U)'
  <2>1. ASSUME NEW x PROVE Retained(x, U)'
    <3>1. Retained(x, U)
      BY <1>1 DEF Traffic
    <3>2. <<>> \in Seq(Sent(U)) /\ DOMAIN <<>> = {} /\ Ordered(<<>>, now)
      BY EmptySeq DEF Ordered
    <3> QED BY <1>2, <1>3, <3>1, <3>2 DEF Retained
  <2>2. IsFiniteSet(DOMAIN history')
    BY <1>1, <1>2, FS_RemoveElement DEF Traffic
  <2> QED BY <1>1, <1>2, <2>1, <2>2 DEF Traffic
<1>5. ASSUME Undisturbed', NEW x \in DOMAIN entities' PROVE Agreed(x)'
  <2>1. x \in DOMAIN entities /\ Agreed(x) /\ x # id
    BY <1>2, <1>5 DEF Undisturbed, WritesInv
  <2> QED BY <1>2, <1>3, <2>1, UntouchedAgrees
<1> QED BY <1>4, <1>5

(* Steps of the clock and of the snapshot cache.                           *)
LEMMA StillKeepsWrites ==
  ASSUME NEW U, WritesInv(U),
         UNCHANGED <<entities, history, used, pending, inbox, strategy, intended, overflowed, replayed>>,
         now' \in {now, now + 1}
  PROVE  Traffic(U)' /\ (Undisturbed' => \A x \in DOMAIN entities' : Agreed(x)')
<1>1. /\ SyncInv /\ Traffic(U)
  BY DEF WritesInv
<1>2. \A x : HistoryOf(x)' = HistoryOf(x)
  BY DEF HistoryOf
<1>3. now \in Int /\ now' \in Nat /\ now <= now'
  BY <1>1 DEF Traffic
<1>4. \A s : Ordered(s, now) => Ordered(s, now')
  BY <1>3, OrderedLater
<1>5. Traffic(U)'
  <2>1. \A x : Retained(x, U)'
    BY <1>1, <1>2, <1>4 DEF Traffic, Retained
  <2> QED BY <1>1, <1>3, <1>4, <2>1 DEF Traffic
<1>6. ASSUME Undisturbed', NEW x \in DOMAIN entities' PROVE Agreed(x)'
  <2>1. Agreed(x)
    BY <1>6 DEF Undisturbed, WritesInv
  <2> QED BY <1>2, <2>1, UntouchedAgrees
<1> QED BY <1>5, <1>6

(* flushDeltas: the whole queue comes back compressed, unless it was       *)
(* longer than a batch.                                                    *)
LEMMA FlushKeepsWrites ==
  ASSUME NEW U, PlainWrites(U), WritesInv(U), FlushDeltas
  PROVE  Traffic(U)' /\ (Undisturbed' => \A x \in DOMAIN entities' : Agreed(x)')
<1>1. /\ SyncInv /\ Traffic(U) /\ Plain(U) /\ now \in Int
      /\ pending \in Seq(Sent(U)) /\ Ordered(pending, now)
  BY DEF WritesInv, PlainWrites, Traffic
<1>2. PICK n : n = Min({BatchSize, Len(pending)})
  OBVIOUS
<1>3. /\ UNCHANGED <<entities, history, used, now, strategy, intended, replayed>> /\ inbox = <<>>
      /\ inbox' = Compress(SubSeq(pending, 1, n))
      /\ pending' = SubSeq(pending, n + 1, Len(pending))
      /\ overflowed' = (overflowed \/ n < Len(pending))
  BY <1>2 DEF FlushDeltas, Idle, smVars
<1>4. PICK l \in Nat : l = Len(pending)
  BY <1>1, LenProperties
<1>5. n \in 0 .. l
  <2>1. n \in Nat /\ n <= l
    <3>1. \A k \in Nat : Min({BatchSize, k}) \in Nat /\ Min({BatchSize, k}) <= k
      BY BatchSizeAssumption, MinOfTwo
    <3> QED BY <1>2, <1>4, <3>1, Zenon
  <2> QED BY <2>1
<1> PICK s, r : s = SubSeq(pending, 1, n) /\ r = SubSeq(pending, n + 1, Len(pending))
  OBVIOUS
<1>6. s \in Seq(Sent(U)) /\ r \in Seq(Sent(U)) /\ Ordered(s, now) /\ Ordered(r, now)
  BY <1>1, <1>4, <1>5, RestOrdered
<1>7. /\ Compress(s) \in Seq(Sent(U))
      /\ \A e : OpsOf(Compress(s), e) \in {OpsOf(s, e), CollapseOperations(OpsOf(s, e))}
      /\ \A e : LET C == DeltasOf(Compress(s), e)
                    G == DeltasOf(s, e)
                IN  C = <<>> \/ (/\ Len(C) = 1
                                 /\ \/ OnePerPath(C[1].operations)
                                    \/ G # <<>> /\ C[1].operations = Last(G).operations)
  <2>1. \A t \in Seq(Sent(U)) : Ordered(t, now) =>
          /\ Compress(t) \in Seq(Sent(U))
          /\ \A e : OpsOf(Compress(t), e) \in {OpsOf(t, e), CollapseOperations(OpsOf(t, e))}
          /\ \A e : LET C == DeltasOf(Compress(t), e)
                        G == DeltasOf(t, e)
                    IN  C = <<>> \/ (/\ Len(C) = 1
                                     /\ \/ OnePerPath(C[1].operations)
                                        \/ G # <<>> /\ C[1].operations = Last(G).operations)
    BY <1>1, CompressedSent
  <2> QED BY <1>6, <2>1
<1>8. \A x : HistoryOf(x)' = HistoryOf(x)
  BY <1>3 DEF HistoryOf
<1>9. Traffic(U)'
  <2>1. \A x : Retained(x, U)'
    BY <1>1, <1>3, <1>8 DEF Traffic, Retained
  <2> QED BY <1>1, <1>3, <1>6, <1>7, <2>1 DEF Traffic
<1>10. ASSUME Undisturbed', NEW x \in DOMAIN entities' PROVE Agreed(x)'
  <2>1. Agreed(x) /\ x \in DOMAIN entities /\ n = l
    <3>1. ~overflowed' /\ (strategy' = "merge" => ~replayed')
      BY <1>10 DEF Undisturbed
    <3>2. ~(overflowed \/ n < l)
      BY <1>3, <1>4, <3>1
    <3>3. Undisturbed
      BY <1>3, <3>1, <3>2 DEF Undisturbed
    <3> QED BY <1>3, <1>5, <1>10, <3>2, <3>3 DEF WritesInv
  <2>2. s = pending /\ r = <<>>
    <3>1. SubSeq(pending, 1, Len(pending)) = pending
      BY <1>1, SubSeqFull
    <3>2. SubSeq(pending, l + 1, l) = <<>>
      BY <1>1, SubSeqEmpty
    <3> QED BY <1>4, <2>1, <3>1, <3>2
  <2>3. DeltasOf(inbox, x) = <<>> /\ DeltasOf(pending', x) = <<>>
    BY <1>3, <2>2, NoDeltas
  <2> PICK d, W, P, h, C : /\ d = entities[x].data /\ W = intended[x] /\ P = DeltasOf(pending, x)
                           /\ h = HistoryOf(x) /\ C = DeltasOf(Compress(pending), x)
    OBVIOUS
  <2>4. IsData(d) /\ IsData(W) /\ P \in Seq(Sent(U)) /\ h \in Seq(Sent(U)) /\ C \in Seq(Sent(U))
    <3>1. IsData(d) /\ IsData(W) /\ P \in Seq(Sent(U)) /\ h \in Seq(Sent(U))
      BY <1>1, <2>1, TrafficParts DEF Traffic
    <3>2. \A t \in Seq(Sent(U)) : DeltasOf(t, x) \in Seq(Sent(U))
      BY SentAre, PartsTyped
    <3> QED BY <1>7, <2>2, <3>1, <3>2
  <2>5. Consistent(strategy = "merge", W, d, P, <<>>, h)
    BY <2>1, <2>3 DEF Agreed
  <2>6. /\ OperationsOf(C) \in {OperationsOf(P), CollapseOperations(OperationsOf(P))}
        /\ C = <<>> \/ (/\ Len(C) = 1
                        /\ \/ OnePerPath(C[1].operations)
                           \/ P # <<>> /\ C[1].operations = Last(P).operations)
    BY <1>7, <2>2 DEF OpsOf
  <2>7. Consistent(strategy = "merge", W, d, <<>>, C, h)
    BY <1>1, <2>4, <2>5, <2>6, FlushIsConsistent
  <2> QED BY <1>3, <1>8, <2>2, <2>3, <2>7 DEF Agreed
<1> QED BY <1>9, <1>10

(* One delta of a message, applied: the entity it is for must stay         *)
(* consistent, the others are left alone.                                  *)
LEMMA RoundKeepsWrites ==
  ASSUME NEW U, Plain(U), WritesInv(U), inbox # <<>>, inbox' = Tail(inbox),
         UNCHANGED <<strategy, intended, overflowed, replayed>>,
         NEW id, id = Head(inbox).entityId, NEW ops \in Seq(U), NEW data, IsData(data),
         Write(id, ops, data), QueueDelta(id),
         \A D \in Sent(U) : \A K :
           Agreed(id) /\ D.operations = ops /\ Retains(K, HistoryOf(id), D, U) =>
             Consistent(strategy = "merge", intended[id], data, Append(DeltasOf(pending, id), D),
                        DeltasOf(Tail(inbox), id), K)
  PROVE  Traffic(U)' /\ (Undisturbed' => \A x \in DOMAIN entities' : Agreed(x)')
<1>1. SyncInv /\ Traffic(U) /\ inbox \in Seq(Sent(U))
  BY DEF WritesInv, Traffic
<1>2. /\ Tail(inbox) \in Seq(Sent(U))
      /\ \A x : x # id => DeltasOf(Tail(inbox), x) = DeltasOf(inbox, x)
  BY <1>1, DeltasOfFirst
<1>3. /\ id \in DOMAIN entities /\ DOMAIN entities' = DOMAIN entities
      /\ entities'[id].data = data
      /\ \A x \in DOMAIN entities \ {id} : entities'[x] = entities[x]
      /\ UNCHANGED <<used, now>>
      /\ pending' \in Seq(Sent(U)) /\ Ordered(pending', now')
      /\ IsFiniteSet(DOMAIN history') /\ \A x : Retained(x, U)'
      /\ \A x : x # id => /\ HistoryOf(x)' = HistoryOf(x)
                          /\ DeltasOf(pending', x) = DeltasOf(pending, x)
      /\ \E D \in Sent(U) :
           /\ D.operations = ops /\ DeltasOf(pending', id) = Append(DeltasOf(pending, id), D)
           /\ Retains(HistoryOf(id)', HistoryOf(id), D, U)
  BY <1>1, ChangeMoves
<1>4. Traffic(U)'
  <2>1. \A x \in DOMAIN entities' : IsData(entities'[x].data) /\ IsData(intended'[x])
    BY <1>1, <1>3 DEF Traffic
  <2> QED BY <1>1, <1>2, <1>3, <2>1 DEF Traffic
<1>5. ASSUME Undisturbed', NEW x \in DOMAIN entities' PROVE Agreed(x)'
  <2>1. Agreed(x) /\ x \in DOMAIN entities
    BY <1>3, <1>5 DEF Undisturbed, WritesInv
  <2>2. CASE x = id
    <3>1. PICK D \in Sent(U) :
            /\ D.operations = ops /\ DeltasOf(pending', id) = Append(DeltasOf(pending, id), D)
            /\ Retains(HistoryOf(id)', HistoryOf(id), D, U)
      BY <1>3
    <3>2. Consistent(strategy = "merge", intended[id], data, Append(DeltasOf(pending, id), D),
                     DeltasOf(Tail(inbox), id), HistoryOf(id)')
      BY <2>1, <2>2, <3>1
    <3> QED BY <1>3, <2>2, <3>1, <3>2 DEF Agreed
  <2>3. CASE x # id
    BY <1>2, <1>3, <2>1, <2>3, UntouchedAgrees
  <2> QED BY <2>2, <2>3
<1> QED BY <1>4, <1>5

(* One round of handleRemoteDelta.                                         *)
LEMMA HandleKeepsWrites ==
  ASSUME NEW U, PlainWrites(U), WritesInv(U), HandleRemoteDelta
  PROVE  Traffic(U)' /\ (Undisturbed' => \A x \in DOMAIN entities' : Agreed(x)')
<1>a. PICK y, id, J : y = Head(inbox) /\ id = y.entityId /\ J = DeltasOf(Tail(inbox), id)
  OBVIOUS
<1>b. PICK d, W, P, h : /\ d = entities[id].data /\ W = intended[id] /\ P = DeltasOf(pending, id)
                      /\ h = HistoryOf(id)
  OBVIOUS
<1>1. /\ SyncInv /\ Traffic(U) /\ Plain(U) /\ inbox \in Seq(Sent(U)) /\ inbox # <<>>
      /\ inbox' = Tail(inbox) /\ UNCHANGED <<strategy, intended, overflowed, replayed>>
  BY DEF WritesInv, PlainWrites, Traffic, HandleRemoteDelta, ghosts
<1>2. /\ y \in Sent(U) /\ Tail(inbox) \in Seq(Sent(U)) /\ J \in Seq(Sent(U))
      /\ DeltasOf(inbox, id) = <<y>> \o J
      /\ \A x : x # id => DeltasOf(Tail(inbox), x) = DeltasOf(inbox, x)
  BY <1>1, <1>a, DeltasOfFirst
<1>3. y.operations \in Seq(U) /\ P \in Seq(Sent(U)) /\ h \in Seq(Sent(U))
  BY <1>1, <1>2, <1>b, SentParts, TrafficParts
<1>4. Agreed(id) => Consistent(strategy = "merge", W, d, P, <<y>> \o J, h)
  BY <1>2, <1>b DEF Agreed
<1>5. CASE IgnoreDelta(y)
  <2>1. /\ UNCHANGED <<entities, history, used, now, pending>>
        /\ id \notin DOMAIN entities \/ h = <<>>
    BY <1>5, <1>a, <1>b DEF IgnoreDelta, smVars
  <2>2. \A x : HistoryOf(x)' = HistoryOf(x)
    BY <2>1 DEF HistoryOf
  <2>3. Traffic(U)'
    <3>1. \A x : Retained(x, U)'
      BY <1>1, <2>1, <2>2 DEF Traffic, Retained
    <3> QED BY <1>1, <1>2, <2>1, <3>1 DEF Traffic
  <2>4. ASSUME Undisturbed', NEW x \in DOMAIN entities' PROVE Agreed(x)'
    <3>1. Agreed(x) /\ x \in DOMAIN entities
      BY <1>1, <2>1, <2>4 DEF Undisturbed, WritesInv
    <3>2. CASE x = id
      <4>1. h = <<>> /\ IsData(W)
        BY <1>1, <1>b, <2>1, <3>1, <3>2 DEF Traffic
      <4>2. Consistent(strategy = "merge", W, d, P, <<y>> \o J, <<>>)
        BY <1>4, <3>1, <3>2, <4>1
      <4>3. Consistent(strategy = "merge", W, d, P, J, <<>>)
        BY <1>1, <1>2, <1>3, <4>1, <4>2, IgnoredIsConsistent
      <4> QED BY <1>1, <1>a, <1>b, <2>1, <2>2, <3>2, <4>1, <4>3 DEF Agreed
    <3>3. CASE x # id
      BY <1>1, <1>2, <2>1, <2>2, <3>1, <3>3, UntouchedAgrees
    <3> QED BY <3>2, <3>3
  <2> QED BY <2>3, <2>4
<1>6. ASSUME id \in DOMAIN entities
      PROVE  /\ IsData(d) /\ IsData(W)
             /\ PreApply(d, y.operations) = ApplyAll(d, y.operations)
             /\ ApplyAll(PreApply(d, y.operations), y.operations) = ApplyAll(d, y.operations)
             /\ \A L \in Seq(U) : IsData(ApplyAll(d, L)) /\ IsData(ApplyAll(PreApply(d, y.operations), L))
  <2>1. IsData(d) /\ IsData(W)
    BY <1>1, <1>6, <1>b DEF Traffic
  <2>2. /\ PreApply(d, y.operations) = ApplyAll(d, y.operations)
        /\ ApplyAll(PreApply(d, y.operations), y.operations) = ApplyAll(d, y.operations)
    BY <1>1, <1>3, <2>1, EarlyWrites
  <2>3. \A w : IsData(w) => \A L \in Seq(U) : IsData(ApplyAll(w, L))
    BY <1>1, ApplyWrites
  <2> QED BY <1>3, <2>1, <2>2, <2>3
<1>7. CASE ApplyDelta(y)
  <2>0. PICK ops : ops = y.operations
    OBVIOUS
  <2>1. id \in DOMAIN entities /\ Write(id, ops, ApplyAll(d, ops)) /\ QueueDelta(id)
    BY <1>7, <1>a, <1>b, <2>0 DEF ApplyDelta, UpdateEntity
  <2>2. ASSUME NEW D \in Sent(U), NEW K, Agreed(id), D.operations = ops, Retains(K, h, D, U)
        PROVE  Consistent(strategy = "merge", W, ApplyAll(d, ops), Append(P, D), J, K)
    <3>1. CASE strategy = "merge"
      <4>1. Consistent(TRUE, W, d, P, <<y>> \o J, h)
        BY <1>4, <2>2, <3>1
      <4>2. /\ Len(J) = 0 /\ d = W /\ Settled(W, OperationsOf(P)) /\ Settled(W, OperationsOf(h))
            /\ Settled(W, y.operations)
        <5>1. Calm(W, d, P, y, J, h)
          BY <1>1, <1>2, <1>3, <1>6, <2>1, <4>1, ArrivesSettled
        <5> QED BY <5>1 DEF Calm
      <4>3. Settled(W, D.operations)
        BY <2>0, <2>2, <4>2
      <4>4. Consistent(TRUE, W, ApplyAll(W, D.operations), Append(P, D), <<>>, K)
        BY <1>1, <1>3, <1>6, <2>1, <2>2, <4>2, <4>3, MergedIsConsistent
      <4>5. J = <<>>
        BY <1>2, <4>2, EmptySeq
      <4> QED BY <2>2, <3>1, <4>2, <4>4, <4>5
    <3>2. CASE strategy # "merge"
      <4>1. Consistent(FALSE, W, d, P, <<y>> \o J, h)
        BY <1>4, <2>2, <3>2
      <4>2. D.operations = y.operations
        BY <2>0, <2>2
      <4>3. Consistent(FALSE, W, ApplyAll(d, y.operations), Append(P, D), J, K)
        BY <1>1, <1>2, <1>3, <1>6, <2>1, <2>2, <4>1, <4>2, AppliedIsConsistent
      <4> QED BY <2>0, <3>2, <4>3
    <3> QED BY <3>1, <3>2
  <2>3. ops \in Seq(U) /\ IsData(ApplyAll(d, ops))
    BY <1>3, <1>6, <2>0, <2>1
  <2> QED BY <1>1, <1>a, <1>b, <2>1, <2>2, <2>3, RoundKeepsWrites
<1>8. CASE ApplyResolved(y)
  <2>0. PICK ops, data : /\ ops = ResolvedOps(Last(h), y)
                         /\ data = ApplyAll(PreApply(d, y.operations), ops)
    OBVIOUS
  <2>1. id \in DOMAIN entities /\ h # <<>> /\ Write(id, ops, data) /\ QueueDelta(id)
    BY <1>8, <1>a, <1>b, <2>0 DEF ApplyResolved, IsConflict, HistoryOf
  <2>2. ops \in Seq(U)
    <3>1. Last(h).operations \in Seq(U)
      <4>1. Len(h) \in 1 .. Len(h)
        BY <1>3, <2>1, EmptySeq, LenProperties
      <4>2. h[Len(h)] \in Sent(U)
        BY <1>3, <4>1, ElementOfSeq
      <4> QED BY <4>2, SentParts DEF Last
    <3>2. MergeOperations(Last(h).operations, y.operations) \in Seq(U)
      BY <1>3, <3>1, MergedWrites
    <3> QED BY <1>3, <2>0, <3>2 DEF ResolvedOps
  <2>3. ASSUME NEW D \in Sent(U), NEW K, Agreed(id), D.operations = ops, Retains(K, h, D, U)
        PROVE  Consistent(strategy = "merge", W, data, Append(P, D), J, K)
    <3>1. CASE strategy = "merge"
      <4>1. ops = MergeOperations(Last(h).operations, y.operations)
        BY <2>0, <3>1 DEF ResolvedOps
      <4>2. Consistent(TRUE, W, d, P, <<y>> \o J, h)
        BY <1>4, <2>3, <3>1
      <4>3. /\ Len(J) = 0 /\ d = W /\ Settled(W, OperationsOf(P)) /\ Settled(W, OperationsOf(h))
            /\ PreApply(d, y.operations) = d
            /\ Settled(W, MergeOperations(Last(h).operations, y.operations))
        <5>1. Calm(W, d, P, y, J, h)
          BY <1>1, <1>2, <1>3, <1>6, <2>1, <4>2, ArrivesSettled
        <5> QED BY <2>1, <5>1 DEF Calm
      <4>4. Settled(W, D.operations) /\ data = ApplyAll(W, D.operations)
        BY <2>0, <2>3, <4>1, <4>3
      <4>5. Consistent(TRUE, W, ApplyAll(W, D.operations), Append(P, D), <<>>, K)
        BY <1>1, <1>3, <1>6, <2>1, <2>3, <4>3, <4>4, MergedIsConsistent
      <4>6. J = <<>>
        BY <1>2, <4>3, EmptySeq
      <4> QED BY <3>1, <4>3, <4>4, <4>5, <4>6
    <3>2. CASE strategy # "merge"
      <4>1. ops = y.operations
        BY <2>0, <3>2 DEF ResolvedOps
      <4>2. data = ApplyAll(d, y.operations)
        BY <1>6, <2>0, <2>1, <4>1
      <4>3. Consistent(FALSE, W, d, P, <<y>> \o J, h) /\ D.operations = y.operations
        BY <1>4, <2>3, <3>2, <4>1
      <4>4. Consistent(FALSE, W, ApplyAll(d, y.operations), Append(P, D), J, K)
        BY <1>1, <1>2, <1>3, <1>6, <2>1, <2>3, <4>3, AppliedIsConsistent
      <4> QED BY <3>2, <4>2, <4>4
    <3> QED BY <3>1, <3>2
  <2>4. IsData(data)
    BY <1>6, <2>0, <2>1, <2>2
  <2> QED BY <1>1, <1>a, <1>b, <2>1, <2>2, <2>3, <2>4, RoundKeepsWrites
<1> QED BY <1>5, <1>7, <1>8, <1>a DEF HandleRemoteDelta

(* requestFullSync: the retained deltas come back, or, when there are      *)
(* none, the snapshot loaded is the present state.                         *)
LEMMA FullSyncKeepsWrites ==
  ASSUME NEW U, PlainWrites(U), WritesInv(U), RequestFullSync
  PROVE  Traffic(U)' /\ (Undisturbed' => \A x \in DOMAIN entities' : Agreed(x)')
<1>1. /\ SyncInv /\ Traffic(U) /\ Plain(U) /\ inbox = <<>>
      /\ UNCHANGED <<pending, strategy, intended, overflowed>>
  BY DEF WritesInv, PlainWrites, RequestFullSync, Idle
<1>a. PICK g : g = GetDeltasSince(0)
  OBVIOUS
<1>2. g \in Seq(Sent(U)) /\ \A x : DeltasOf(g, x) = HistoryOf(x)
  <2>1. Carry(Sent(U), U) /\ \A D \in Sent(U) : D.timestamp \in Int /\ D.fromVersion \in Nat
    BY SentAre
  <2>2. /\ IsFiniteSet(DOMAIN history)
        /\ \A x \in DOMAIN history : /\ history[x] \in Seq(Sent(U)) /\ Ordered(history[x], now)
                                     /\ \A i \in DOMAIN history[x] : history[x][i].entityId = x
    BY <1>1 DEF Traffic, Retained, HistoryOf
  <2> QED BY <1>a, <2>1, <2>2, RetainedCollected
<1>3. CASE inbox' = g /\ replayed' = TRUE /\ UNCHANGED smVars
  <2>1. UNCHANGED <<entities, history, used, now>> /\ \A x : HistoryOf(x)' = HistoryOf(x)
    BY <1>3 DEF smVars, HistoryOf
  <2>2. Traffic(U)'
    <3>1. \A x : Retained(x, U)'
      BY <1>1, <2>1 DEF Traffic, Retained
    <3> QED BY <1>1, <1>2, <1>3, <2>1, <3>1 DEF Traffic
  <2>3. ASSUME Undisturbed', NEW x \in DOMAIN entities' PROVE Agreed(x)'
    <3>1. strategy # "merge" /\ ~overflowed
      BY <1>1, <1>3, <2>3 DEF Undisturbed
    <3>2. x \in DOMAIN entities /\ Agreed(x)
      BY <2>1, <2>3, <3>1 DEF Undisturbed, WritesInv
    <3>b. PICK d, W, P, h : /\ d = entities[x].data /\ W = intended[x] /\ P = DeltasOf(pending, x)
                            /\ h = HistoryOf(x)
      OBVIOUS
    <3>3. IsData(d) /\ IsData(W) /\ P \in Seq(Sent(U)) /\ h \in Seq(Sent(U)) /\ DeltasOf(inbox, x) = <<>>
      BY <1>1, <3>2, <3>b, TrafficParts DEF Traffic
    <3>4. Consistent(FALSE, W, d, P, <<>>, h)
      BY <3>1, <3>2, <3>3, <3>b DEF Agreed
    <3>5. Consistent(FALSE, W, d, P, h, h)
      BY <1>1, <3>3, <3>4, ReplayIsConsistent
    <3>6. DeltasOf(inbox', x) = h /\ HistoryOf(x)' = h /\ DeltasOf(pending', x) = P
      BY <1>1, <1>2, <1>3, <2>1, <3>b
    <3> QED BY <1>1, <2>1, <3>1, <3>5, <3>6, <3>b DEF Agreed
  <2> QED BY <2>2, <2>3
<1>4. CASE /\ g = <<>> /\ LoadSnapshot(CurrentSnapshot) /\ UNCHANGED <<inbox, replayed>>
  <2>1. CurrentSnapshot = Snapshot(version, entities)
    BY <1>1 DEF CurrentSnapshot, SyncInv, CacheCoherent
  <2>2. UNCHANGED <<entities, used, now>> /\ history' = [x \in {} |-> <<>>]
    BY <1>4, <2>1 DEF LoadSnapshot, Snapshot
  <2>3. \A x : HistoryOf(x) = <<>> /\ HistoryOf(x)' = <<>>
    BY <1>2, <1>4, <2>2, NoDeltas DEF HistoryOf
  <2>4. Traffic(U)'
    <3>1. \A x : Retained(x, U)'
      BY <1>1, <2>2, <2>3 DEF Traffic, Retained
    <3>2. IsFiniteSet(DOMAIN history')
      BY <2>2, FS_EmptySet
    <3> QED BY <1>1, <1>4, <2>2, <3>1, <3>2 DEF Traffic
  <2>5. ASSUME Undisturbed', NEW x \in DOMAIN entities' PROVE Agreed(x)'
    <3>1. Agreed(x)
      BY <1>1, <1>4, <2>2, <2>5 DEF Undisturbed, WritesInv
    <3> QED BY <1>1, <1>4, <2>2, <2>3, <3>1, UntouchedAgrees
  <2> QED BY <2>4, <2>5
<1> QED BY <1>1, <1>3, <1>4, <1>a DEF RequestFullSync

(* Every step keeps every entity consistent.                               *)
LEMMA NextWrites ==
  ASSUME NEW U, PlainWrites(U), WritesInv(U), [SyncNext]_syncVars
  PROVE  WritesInv(U)'
<1>1. SyncInv'
  BY SyncNextInv DEF WritesInv
<1> SUFFICES Traffic(U)' /\ (Undisturbed' => \A x \in DOMAIN entities' : Agreed(x)')
  BY <1>1 DEF WritesInv
<1>2. ASSUME NEW id \in EntityIds, NEW data \in InitialData, ClientCreate(id, data)
      PROVE  Traffic(U)' /\ (Undisturbed' => \A x \in DOMAIN entities' : Agreed(x)')
  BY <1>2, CreateKeepsWrites
<1>3. ASSUME NEW id \in EntityIds, NEW ops \in OpLists, ClientUpdate(id, ops)
      PROVE  Traffic(U)' /\ (Undisturbed' => \A x \in DOMAIN entities' : Agreed(x)')
  BY <1>3, UpdateKeepsWrites
<1>4. ASSUME NEW id \in EntityIds, ClientDelete(id)
      PROVE  Traffic(U)' /\ (Undisturbed' => \A x \in DOMAIN entities' : Agreed(x)')
  BY <1>4, DeleteKeepsWrites
<1>5. CASE ClientSnapshot
  BY <1>5, StillKeepsWrites DEF ClientSnapshot, CreateSnapshot, ghosts
<1>6. CASE PassTime
  BY <1>6, StillKeepsWrites DEF PassTime, Tick, ghosts
<1>7. CASE FlushDeltas
  BY <1>7, FlushKeepsWrites
<1>8. CASE HandleRemoteDelta
  BY <1>8, HandleKeepsWrites
<1>9. CASE RequestFullSync
  BY <1>9, FullSyncKeepsWrites
<1>10. CASE UNCHANGED syncVars
  BY <1>10, StillKeepsWrites DEF syncVars, smVars, ghosts
<1> QED
  BY <1>2, <1>3, <1>4, <1>5, <1>6, <1>7, <1>8, <1>9, <1>10 DEF SyncNext

(* Between messages, what an entity holds is what was meant.               *)
LEMMA WritesInvKept == ASSUME NEW U, PlainWrites(U), WritesInv(U) PROVE LastWritesKept
<1>1. SyncInv /\ Traffic(U) /\ Plain(U)
  BY DEF WritesInv, PlainWrites
<1>2. DOMAIN entities = DOMAIN intended
  BY <1>1 DEF SyncInv, LiveAsIntended
<1>3. ASSUME inbox = <<>>, Undisturbed, NEW x \in DOMAIN entities
      PROVE  entities[x].data = intended[x]
  <2>a. PICK d, W, P, h : /\ d = entities[x].data /\ W = intended[x] /\ P = DeltasOf(pending, x)
                          /\ h = HistoryOf(x)
    OBVIOUS
  <2>1. IsData(d) /\ P \in Seq(Sent(U)) /\ h \in Seq(Sent(U)) /\ DeltasOf(inbox, x) = <<>>
    BY <1>1, <1>3, <2>a, TrafficParts DEF Traffic
  <2>2. Consistent(strategy = "merge", W, d, P, <<>>, h)
    BY <1>3, <2>1, <2>a DEF WritesInv, Agreed
  <2>3. Resting(W, d, OperationsOf(P), OperationsOf(h))
    BY <1>1, <2>1, <2>2, ConsistentRests
  <2> QED BY <2>3, <2>a DEF Resting
<1> QED BY <1>2, <1>3 DEF LastWritesKept, Idle, Undisturbed

(* flushDeltas, handleRemoteDelta and requestFullSync: a node that handles *)
(* its own batches neither revives nor loses an entity, and, when every    *)
(* operation is a "set" or a "delete" and no path in use is within         *)
(* another, every entity holds between messages what its clients wrote     *)
(* last, however updates, deletions, flushes, ticks of the clock and full  *)
(* syncs interleave; unless a flush found more than batchSize deltas or,   *)
(* under "merge", a full sync replayed the retained deltas.                *)
THEOREM WritesAreKept ==
  ASSUME NEW U, PlainWrites(U)
  PROVE  SyncSpec => []LastWritesKept
<1>1. SyncInit => WritesInv(U)
  BY InitWrites
<1>2. WritesInv(U) /\ [SyncNext]_syncVars => WritesInv(U)'
  BY NextWrites
<1>3. WritesInv(U) => LastWritesKept
  BY WritesInvKept
<1> QED BY <1>1, <1>2, <1>3, PTL DEF SyncSpec
====
