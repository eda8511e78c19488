---------------------------- MODULE Selections ----------------------------
(***************************************************************************)
(* What Vec::retain and Iterator::filter keep of a sequence.  The test is a *)
(* set, not an operator, so that it can be reasoned about.                  *)
(***************************************************************************)
EXTENDS Naturals, Sequences

\* The elements of S, in their order.
Kept(s, S) ==
  LET kept[n \in 0..Len(s)] == IF n = 0 THEN <<>>
                               ELSE IF s[n] \in S THEN Append(kept[n - 1], s[n])
                               ELSE kept[n - 1]
  IN  kept[Len(s)]
=============================================================================
