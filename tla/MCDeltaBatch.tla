---------------------------- MODULE MCDeltaBatch ----------------------------
(* Bounded instances of DeltaBatch. *)
EXTENDS DeltaBatch

A  == <<"a">>
AB == <<"a", "b">>
B  == <<"b">>

(* Nothing, a number, an array, and a nested object. *)
MCBaseData ==
  { EmptyData,
    Assign(EmptyData, A, Num(1)),
    Assign(EmptyData, A, Arr(<<1>>)),
    Assign(Assign(EmptyData, A, Obj), AB, Num(1)) }

MCOperations ==
  { Op("set", A, Num(1)), Op("set", A, Arr(<<2>>)), Op("set", AB, Num(2)),
    Op("set", B, Num(1)),
    Op("delete", A, Undefined), Op("delete", AB, Undefined),
    Op("increment", A, Num(1)), Op("increment", A, Num(2)),
    Op("increment", A, Num(-1)), Op("increment", A, Undefined),
    Op("append", A, Num(1)), Op("append", A, Num(2)),
    Op("remove", A, Num(1)) }
=============================================================================
