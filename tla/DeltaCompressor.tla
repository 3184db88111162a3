-------------------------- MODULE DeltaCompressor --------------------------
(***************************************************************************)
(* DeltaCompressor: the deltas of one batch are merged into one per        *)
(* entity, and the operations of the merged delta are collapsed per path.  *)
(* A JavaScript Map is a sequence of [key, op] pairs in insertion order.   *)
(***************************************************************************)
EXTENDS EntityOps, FiniteSets

(* pathOps is keyed by the path, or by "path:op:value" for a later append  *)
(* or remove; the two kinds of key never coincide.                         *)
PathKey(op)  == <<op.path, "">>
ValueKey(op) == <<op.path, op.op, op.value>>

(* Map.get and Map.set: a known key keeps its place. *)
MapGet(m, key) == {e.op : e \in {x \in ToSet(m) : x.key = key}}
MapSet(m, key, op) ==
  IF \E i \in DOMAIN m : m[i].key = key
  THEN [i \in DOMAIN m |-> IF m[i].key = key THEN [key |-> key, op |-> op] ELSE m[i]]
  ELSE Append(m, [key |-> key, op |-> op])

(* Faulty: an increment replaces what it should be added to. *)
CollapseIntoReplacing(m, op) ==
  IF op.op \in {"append", "remove"} /\ MapGet(m, PathKey(op)) # {}
  THEN MapSet(m, ValueKey(op), op)
  ELSE MapSet(m, PathKey(op), op)

(* One round of the loop of collapseOperations. *)
CollapseInto(m, op) ==
  LET found == MapGet(m, PathKey(op))
  IN  IF found = {} THEN MapSet(m, PathKey(op), op)
      ELSE LET existing == CHOOSE x \in found : TRUE
           IN  CASE op.op \in {"set", "delete"} -> MapSet(m, PathKey(op), op)
                 [] op.op = "increment" /\ existing.op \in {"increment", "set"} ->
                      MapSet(m, PathKey(op),
                        [existing EXCEPT
                           !.value = Num(NumberOr(existing.value, 0) + NumberOr(op.value, 1))])
                 [] op.op = "increment" /\ existing.op \notin {"increment", "set"} ->
                      MapSet(m, PathKey(op), op)
                 [] op.op \in {"append", "remove"} -> MapSet(m, ValueKey(op), op)

CollapseOperations(ops) ==
  LET after[i \in 0 .. Len(ops)] ==
        IF i = 0 THEN <<>> ELSE CollapseInto(after[i - 1], ops[i])
      m == after[Len(ops)]
  IN  [i \in DOMAIN m |-> m[i].op]

(* The deltas of one entity, and the operations of a list of deltas, in    *)
(* their order.                                                            *)
DeltasOf(deltas, e) ==
  LET mine[i \in 0 .. Len(deltas)] ==
        IF i = 0 THEN <<>>
        ELSE IF deltas[i].entityId = e THEN Append(mine[i - 1], deltas[i]) ELSE mine[i - 1]
  IN  mine[Len(deltas)]
OperationsOf(deltas) ==
  LET ops[i \in 0 .. Len(deltas)] ==
        IF i = 0 THEN <<>> ELSE ops[i - 1] \o deltas[i].operations
  IN  ops[Len(deltas)]

(* Faulty: the comparison is the wrong way round. *)
InsertedDescending(s, d) ==
  InsertAt(s, Max({0} \cup {i \in DOMAIN s : s[i].timestamp >= d.timestamp}) + 1, d)

(* Array.prototype.sort by timestamp is stable: every delta goes behind    *)
(* those before it that are not later.                                     *)
Inserted(s, d) ==
  InsertAt(s, Max({0} \cup {i \in DOMAIN s : s[i].timestamp <= d.timestamp}) + 1, d)
SortByTimestamp(deltas) ==
  LET sorted[i \in 0 .. Len(deltas)] ==
        IF i = 0 THEN <<>> ELSE Inserted(sorted[i - 1], deltas[i])
  IN  sorted[Len(deltas)]

MergeEntityDeltas(deltas) ==
  LET sorted == SortByTimestamp(deltas)
      first  == Head(sorted)
      last   == Last(sorted)
  IN  [last EXCEPT !.fromVersion = first.fromVersion,
                   !.operations  = CollapseOperations(OperationsOf(sorted))]

(* The entities of a batch in the order of their first delta. *)
EntityOrder(deltas) ==
  LET ids[i \in 0 .. Len(deltas)] ==
        IF i = 0 THEN <<>>
        ELSE IF deltas[i].entityId \in ToSet(ids[i - 1]) THEN ids[i - 1]
             ELSE Append(ids[i - 1], deltas[i].entityId)
  IN  ids[Len(deltas)]

Compress(deltas) ==
  LET ids   == EntityOrder(deltas)
      Group == [i \in DOMAIN ids |-> DeltasOf(deltas, ids[i])]
  IN  IF Len(deltas) <= 1 THEN deltas
      ELSE [i \in DOMAIN ids |-> IF Len(Group[i]) = 1 THEN Group[i][1]
                                                     ELSE MergeEntityDeltas(Group[i])]
=============================================================================
