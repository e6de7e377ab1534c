------------------------------ MODULE MCEthComm ------------------------------
(***************************************************************************)
(* The safety of the Ethernet side in four scenarios, one of which is      *)
(* chosen at the start; the variables of the others stay as they are.      *)
(*                                                                         *)
(* stream          AdcStream, with requests at every moment                *)
(* stream reset    AdcStream, with the reset button                        *)
(* receiver        EthRx, with frames of many kinds broken off anywhere    *)
(* receiver reset  EthRx, with the reset button                            *)
(***************************************************************************)
EXTENDS EthComm, MCAdcStream

VARIABLE scenario

mcVars == <<scenario, vars, rxVars>>

Reset == INSTANCE AdcStream WITH WIDTHS <- {}, RESETS <- 1

\* Bytes 1 6 and 1 0 begin an ARP and an IPv4 packet for this station.
Arps == {<<1, 6, 11, 12>>, <<2, 6, 21>>}
Echos == {<<1, 0, 4, 1, 8, 33>>}
OtherLengths == {<<1, 0, 3, 1, 8, 34>>, <<1, 0, 5, 1, 7, 8, 35>>}
MCFrames == Arps \union Echos \union OtherLengths

RxReset == INSTANCE EthRx WITH
    FRAMES <- {<<1, 6, 11, 12>>, <<1, 0, 4, 1, 8, 33>>}, RX_RESETS <- 1

----------------------------------------------------------------------------
MCInit ==
    /\ scenario \in {"stream", "stream reset", "receiver", "receiver reset"}
    /\ Init /\ RxInit

Streaming == Next /\ UNCHANGED rxVars
Resetting == Reset!Next /\ UNCHANGED rxVars
Receiving == RxNext /\ UNCHANGED vars
ReceivingReset == RxReset!RxNext /\ UNCHANGED vars

MCNext ==
    /\ UNCHANGED scenario
    /\ \/ scenario = "stream" /\ Streaming
       \/ scenario = "stream reset" /\ Resetting
       \/ scenario = "receiver" /\ Receiving
       \/ scenario = "receiver reset" /\ ReceivingReset

MCSpec == MCInit /\ [][MCNext]_mcVars
==============================================================================
