------------------------------- MODULE MCSyncer -------------------------------
(* Instances of Syncer with two agents for TLC. *)
EXTENDS Syncer, TLC
CONSTANTS a1, a2
Two == {a1, a2}
Same == {1}          \* colliding draws
Either == {1, 2}
Symmetry == Permutations(Two)
=============================================================================
