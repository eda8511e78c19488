-------------------------- MODULE MCSessionRoutes --------------------------
(* Small instances of SessionRoutes for TLC.                               *)
EXTENDS SessionRoutes, TLC

CONSTANTS c1, c2, a, b, q1, q2
TwoClients == {c1, c2}
OneSubagent == {a}
TwoSubagents == {a, b}
TwoRequests == {q1, q2}
ClientSymmetry == Permutations(TwoClients) \union Permutations(TwoRequests)
Symmetry == ClientSymmetry \union Permutations(TwoSubagents)
=============================================================================
