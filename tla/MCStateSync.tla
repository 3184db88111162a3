---------------------------- MODULE MCStateSync -----------------------------
(* Bounded instances of StateSync. *)
EXTENDS StateSync

A == <<"a">>
B == <<"b">>

Empty == {EmptyData}
Ten   == {Assign(EmptyData, A, Num(10))}

(* Writes to one path, to another, and to both, one of them a deletion. *)
Sets ==
  { << Op("set", A, Num(1)) >>,
    << Op("delete", A, Undefined), Op("set", B, Num(1)) >>,
    << Op("set", B, Num(2)) >> }

PlusFive == { << Op("increment", A, Num(5)) >> }
=============================================================================
