--------------------------- MODULE MCStateManager ---------------------------
(* Bounded instances of StateManager. *)
EXTENDS StateManager

A  == <<"a">>
AB == <<"a", "b">>

(* An entity with a number, and one with nothing. *)
MCInitialData == {EmptyData, Assign(EmptyData, A, Num(1))}

(* One list per kind of operation; "a" and "a.b" are nested on purpose, and *)
(* one update carries two operations.                                       *)
MCOpLists ==
  { << Op("set", AB, Num(2)) >>,
    << Op("increment", A, Undefined) >>,
    << Op("delete", A, Undefined) >>,
    << Op("append", A, Num(1)), Op("remove", A, Num(1)) >> }
=============================================================================
