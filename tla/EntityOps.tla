----------------------------- MODULE EntityOps -----------------------------
(***************************************************************************)
(* The operations a client may apply to an entity's data, as               *)
(* StateManager.applyOperation performs them.                              *)
(*                                                                         *)
(* A data object is a function whose domain is the set of dotted paths     *)
(* present in it, each a non-empty sequence of keys.  A value is tagged:   *)
(* a number, an array of numbers, or an object, whose members are the      *)
(* longer paths.  Strings behave like numbers that convert to NaN and are  *)
(* left out; keys are not array indices.  Values are immutable: that an    *)
(* array set by an operation is the same object in the data and in the     *)
(* delta is not modelled.                                                  *)
(***************************************************************************)
EXTENDS Integers, Sequences, SequencesExt

Num(n)    == [t |-> "num", n |-> n, elems |-> <<>>]
Arr(s)    == [t |-> "arr", n |-> 0, elems |-> s]
Obj       == [t |-> "obj", n |-> 0, elems |-> <<>>]
Undefined == [t |-> "undefined", n |-> 0, elems |-> <<>>]

Op(op, path, value) == [op |-> op, path |-> path, value |-> value]

EmptyData == [p \in {} |-> Obj]

(* The values, paths, operations and data objects as described above; what *)
(* is appended to an array or removed from one is a number.                *)
IsValue(v) ==
  /\ v \in [t : {"num", "arr", "obj", "undefined"}, n : Int, elems : Seq(Int)]
  /\ v.t # "num" => v.n = 0
  /\ v.t # "arr" => v.elems = <<>>
IsPath(p) == p # <<>> /\ p \in Seq(ToSet(p))
IsOperation(o) ==
  /\ o = Op(o.op, o.path, o.value)
  /\ o.op \in {"set", "delete", "increment", "append", "remove"}
  /\ IsPath(o.path) /\ IsValue(o.value)
  /\ o.op \in {"append", "remove"} => o.value.t = "num"
IsData(d) ==
  /\ d = [p \in DOMAIN d |-> d[p]]
  /\ \A p \in DOMAIN d : IsPath(p) /\ IsValue(d[p])

(* The proper prefixes of a path, and the paths strictly below it. *)
Ancestors(p) == {SubSeq(p, 1, i) : i \in 1 .. Len(p) - 1}
Below(data, p) == {q \in DOMAIN data : IsStrictPrefix(p, q)}

(* typeof v === 'object' && v !== null: arrays are objects too. *)
IsContainer(v) == v.t \in {"obj", "arr"}

(* The expression Number(v) || default: NaN and 0 are both falsy. *)
NumberOr(v, default) ==
  LET n == IF v.t = "arr" /\ Len(v.elems) = 1 THEN v.elems[1] ELSE v.n
  IN  IF n = 0 THEN default ELSE n

ValueAt(data, p) == IF p \in DOMAIN data THEN data[p] ELSE Undefined

(* Walking to the last key: whatever is missing or is no object on the way *)
(* becomes an empty object.                                                *)
WalkTo(data, p) ==
  [q \in DOMAIN data \cup Ancestors(p) |->
     IF q \in Ancestors(p) /\ ~IsContainer(ValueAt(data, q)) THEN Obj ELSE data[q]]

(* current[lastKey] = v, and delete current[lastKey]. *)
Without(data, p) ==
  [q \in DOMAIN data \ ({p} \cup Below(data, p)) |-> data[q]]
Assign(data, p, v) ==
  [q \in DOMAIN Without(data, p) \cup {p} |-> IF q = p THEN v ELSE data[q]]

(* push keeps the array object, and whatever hangs below it. *)
Push(data, p, v) ==
  IF ValueAt(data, p).t = "arr"
  THEN [data EXCEPT ![p] = Arr(Append(@.elems, v.n))]
  ELSE Assign(data, p, Arr(<<v.n>>))

(* An array without the elements equal to x. *)
Filter(s, x) ==
  LET kept[i \in 0 .. Len(s)] ==
        IF i = 0 THEN <<>>
        ELSE IF s[i] = x THEN kept[i - 1] ELSE Append(kept[i - 1], s[i])
  IN  kept[Len(s)]

ApplyOperation(data, op) ==
  LET d == WalkTo(data, op.path)
      p == op.path
  IN  CASE op.op = "set"       -> Assign(d, p, op.value)
        [] op.op = "delete"    -> Without(d, p)
        [] op.op = "increment" ->
             Assign(d, p, Num(NumberOr(ValueAt(d, p), 0) + NumberOr(op.value, 1)))
        [] op.op = "append"    -> Push(d, p, op.value)
        [] op.op = "remove"    ->
             IF ValueAt(d, p).t = "arr"
             THEN Assign(d, p, Arr(Filter(d[p].elems, op.value.n)))
             ELSE d

ApplyAll(data, ops) ==
  LET after[i \in 0 .. Len(ops)] ==
        IF i = 0 THEN data ELSE ApplyOperation(after[i - 1], ops[i])
  IN  after[Len(ops)]

(* Faulty: the early application performs every operation. *)
ApplyOperationToDataFully(data, op) == ApplyOperation(data, op)

(* StateSynchronizer.applyOperationToData: it walks for every operation,   *)
(* but only performs set and delete.                                       *)
ApplyOperationToData(data, op) ==
  IF op.op \in {"set", "delete"} THEN ApplyOperation(data, op) ELSE WalkTo(data, op.path)

PreApply(data, ops) ==
  LET after[i \in 0 .. Len(ops)] ==
        IF i = 0 THEN data ELSE ApplyOperationToData(after[i - 1], ops[i])
  IN  after[Len(ops)]
=============================================================================
