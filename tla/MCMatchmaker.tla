---------------------------- MODULE MCMatchmaker ----------------------------
(* Bounded instances of Matchmaker. *)
EXTENDS Matchmaker

CONSTANT p1

(* One player is stronger than the others. *)
MCRating == [p \in Players |-> IF p = p1 THEN 1 ELSE 0]

(* The other players, the servers and the modes are interchangeable. *)
Interchangeable ==
  Permutations(Players \ {p1}) \cup Permutations(ServerIds) \cup Permutations(Modes)
=============================================================================
