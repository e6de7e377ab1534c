------------------------------ MODULE MCPanel ------------------------------
(* Phrases 0, 16h, 2Ch and 42h: the second ends in the byte of a command.  *)
EXTENDS Panel

MCSteps == <<1, 2, 3>>
============================================================================
