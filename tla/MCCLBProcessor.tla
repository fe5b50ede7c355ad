--------------------------- MODULE MCCLBProcessor ---------------------------
(* CLBProcessor for TLC: h1 sends, h2 mostly answers.                      *)
EXTENDS CLBProcessor, TLC

CONSTANTS h1, h2

MCMaxSend == (h1 :> 3) @@ (h2 :> 2)
=============================================================================
