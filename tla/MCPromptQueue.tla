--------------------------- MODULE MCPromptQueue ---------------------------
(* Small instances of PromptQueue for TLC.                                 *)
EXTENDS PromptQueue, TLC

CONSTANTS u1, u2, alice, bob
Owners == u1 :> alice @@ u2 :> bob
=============================================================================
