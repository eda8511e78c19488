-------------------------- MODULE MCLeaderElection --------------------------
(* Small instances of LeaderElection for TLC.                              *)
EXTENDS LeaderElection

CONSTANTS c1, c2
ClientsC == {c1, c2}

\* One client is older than the other; version 1 predates RelaunchForUpdate.
Skewed == [c \in ClientsC |-> IF c = c1 THEN 1 ELSE 2]
Uniform == [c \in ClientsC |-> 2]
=============================================================================
