--------------------------- MODULE MCPanelScenarios ---------------------------
(***************************************************************************)
(* Panel in two scenarios, one of which is chosen at the start: many turns *)
(* of the encoder and no losses, or fewer turns and a byte of a command    *)
(* lost, with phrases (multiples of 11h) that hold no command byte.        *)
(***************************************************************************)
EXTENDS MCPanel

VARIABLE scenario

Lossy == INSTANCE Panel WITH PER <- 17, TURNS <- 1, LOST_UP <- 1

MCInit ==
    /\ scenario \in {"turns", "losses"}
    /\ IF scenario = "turns" THEN Init ELSE Lossy!Init

MCNext ==
    /\ UNCHANGED scenario
    /\ (scenario = "turns" /\ Next) \/ (scenario = "losses" /\ Lossy!Next)

MCMain == IF scenario = "turns" THEN Main ELSE Lossy!Main

\* Both processors go on running; the operator and the noise need not go on.
MCSpec ==
    /\ MCInit /\ [][MCNext]_<<scenario, vars>>
    /\ WF_vars(MCMain) /\ WF_vars(Nios)
===============================================================================
