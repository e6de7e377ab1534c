--------------------------- MODULE MCQueueAndReset ---------------------------
(***************************************************************************)
(* The push-frame FIFO alone, under every pattern of strobes; or the whole *)
(* transmit link around it, with its reset input.  One of the two is       *)
(* chosen at the start, and the other stays as it is.                      *)
(***************************************************************************)
EXTENDS FifoQueue, LinkTx

VARIABLE scenario

MCInit ==
    /\ scenario \in {"queue", "link"}
    /\ Init
    /\ FifoInit
    /\ scenario = "link" => /\ \A slot \in Slots : r.memory[slot] = Zero
                            /\ enq_data = Zero /\ ~ (fifo_rst \/ enq_strobe \/ deq_strobe)

MCNext ==
    /\ UNCHANGED scenario
    /\ \/ scenario = "queue" /\ FifoNext /\ UNCHANGED vars
       \/ scenario = "link" /\ NextWithResets /\ UNCHANGED fifoVars

MCSpec == MCInit /\ [][MCNext]_<<scenario, fifoVars, vars>>
==============================================================================
