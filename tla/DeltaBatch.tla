----------------------------- MODULE DeltaBatch -----------------------------
(***************************************************************************)
(* A batch of pendingDeltas as clients fill it between two flushes, and    *)
(* what compressing and re-applying it does to the entities' data,         *)
(* compared with applying every delta in the order it arrived.             *)
(***************************************************************************)
EXTENDS DeltaCompressor

CONSTANTS
  BatchIds,     \* the entities the batch is about
  BaseData,     \* the data an entity may hold before the batch
  Operations,   \* the operations clients send, one per delta here
  MaxBatch      \* bound on the length of a batch

ASSUME BatchAssumption == MaxBatch \in Nat
ASSUME BaseDataAssumption == \A d \in BaseData : IsData(d)
ASSUME OperationsAssumption == \A op \in Operations : IsOperation(op)

VARIABLES
  base,   \* the data every entity starts from
  batch,  \* the deltas queued so far
  clock   \* Date.now(), never stepping backwards

batchVars == <<base, batch, clock>>

OpsOf(deltas, e) == OperationsOf(DeltasOf(deltas, e))

VersionOf(e) == 1 + Len(DeltasOf(batch, e))

BatchInit ==
  /\ base \in BaseData
  /\ batch = <<>>
  /\ clock = 0

(* updateEntity emits entity:updated and the listener queues the delta. *)
Receive(e, op, later) ==
  /\ Len(batch) < MaxBatch
  /\ clock' = clock + later
  /\ batch' = Append(batch, [entityId |-> e, fromVersion |-> VersionOf(e),
                             toVersion |-> VersionOf(e) + 1,
                             operations |-> <<op>>, timestamp |-> clock'])
  /\ UNCHANGED base

(* flushDeltas takes the whole batch; the next one starts from what the    *)
(* entities hold then.                                                     *)
Flush ==
  /\ batch # <<>>
  /\ base' \in BaseData
  /\ batch' = <<>>
  /\ clock' = 0

BatchNext ==
  \/ \E e \in BatchIds, op \in Operations, later \in {0, 1} : Receive(e, op, later)
  \/ Flush

BatchSpec == BatchInit /\ [][BatchNext]_batchVars
-----------------------------------------------------------------------------
(* The operation sequences that collapseOperations keeps the meaning of.   *)
(* No path is nested in another; an increment is by an explicit positive   *)
(* number and does not directly follow a delete; on one path nothing but   *)
(* appends and removes follows an append or a remove, and none of them     *)
(* occurs twice.                                                           *)
PreviousOnPath(ops, j) == {i \in 1 .. j - 1 : ops[i].path = ops[j].path}
Collapsible(ops) ==
  \A j \in DOMAIN ops :
    /\ \A i \in DOMAIN ops : ~IsStrictPrefix(ops[i].path, ops[j].path)
    /\ ops[j].op = "increment" =>
         /\ ops[j].value.n > 0
         /\ PreviousOnPath(ops, j) # {} => ops[Max(PreviousOnPath(ops, j))].op # "delete"
    /\ \A i \in PreviousOnPath(ops, j) :
         ops[i].op \in {"append", "remove"} =>
           ops[j].op \in {"append", "remove"} /\ ops[i] # ops[j]

(* For such sequences the compressed batch does to the data exactly what   *)
(* the deltas did one by one, although collapseOperations folds several    *)
(* operations into one and keeps the place of the first.                   *)
CompressionLossless ==
  \A e \in BatchIds :
    Collapsible(OpsOf(batch, e)) =>
      ApplyAll(base, OpsOf(Compress(batch), e)) = ApplyAll(base, OpsOf(batch, e))

(* handleRemoteDelta applies the set and delete operations to the live     *)
(* data before it asks the resolver (the spread copy shares "data"), and   *)
(* updateEntity then applies all of them: the early application leaves no  *)
(* trace in the result, for any sequence of operations on any paths.       *)
PreApplyAbsorbed ==
  \A e \in BatchIds :
    LET ops == OpsOf(batch, e)
    IN  ApplyAll(PreApply(base, ops), ops) = ApplyAll(base, ops)
=============================================================================
