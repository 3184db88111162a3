--------------------------- MODULE MCPersistence ----------------------------
(* Bounded instances of Persistence. *)
EXTENDS Persistence

A == <<"a">>

Zero     == {Assign(EmptyData, A, Num(0))}
Counting == { << Op("increment", A, Num(1)) >> }
=============================================================================
