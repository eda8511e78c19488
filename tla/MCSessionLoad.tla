--------------------------- MODULE MCSessionLoad ---------------------------
(* Small instances of SessionLoad for TLC.                                 *)
EXTENDS SessionLoad, TLC

CONSTANTS creator, a, b
One == {a}
Two == {a, b}
Symmetry == Permutations(Two)
=============================================================================
