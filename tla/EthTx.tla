------------------------------- MODULE EthTx -------------------------------
(***************************************************************************)
(* EthComm.vhd, eth_tx_proc: the machine that builds the frames, 50 MHz    *)
(* clock.  It copies a frame into the transmit buffer word by word, always *)
(* from address 0, and enqueues its length.  A frame is either the samples *)
(* of one half of UDP_BUFFER behind an 11-word header, or the reply to an  *)
(* ARP or ICMP echo request that the receiver (eth_rx_proc) has latched.   *)
(*                                                                         *)
(* A word is <<kind, i, a, b>>: its place i in the frame and what it is    *)
(* cut from: the UDP counter for a header, a sample, or for a reply the    *)
(* host it is addressed to and the request it answers.                     *)
(*                                                                         *)
(* Of the receiver it reads r_eth_request_ready and the registers [type,   *)
(* arp, icmp]: r_eth_request_type, the sender in r_arp_data and the echo   *)
(* request in r_icmp.  Every reply, an echo too, is addressed to the       *)
(* sender in r_arp_data.                                                   *)
(***************************************************************************)
EXTENDS Integers

CONSTANT
    UDP_MOD         \* r_udp_counter counts modulo this (256 in the code)

TxStates == {"TX_IDLE", "PREPARE_ADC_DATA", "WRITE_ADC_HEADER", "WRITE_ADC_DATA",
             "PREPARE_REPLY_DATA", "WRITE_REPLY_DATA", "ENQUE_DATA"}

HeaderWord(i, udp) == <<"header", i, udp, 0>>
SampleWord(i, sample) == <<"sample", i, sample, 0>>
ReplyWord(i, reply) == <<reply.type, i, reply.to, reply.of>>
NoWord == <<"none", 0, 0, 0>>

\* What PREPARE_REPLY_DATA takes from the receiver's registers.
NoReply == [type |-> "none", to |-> 0, of |-> 0]
ReplyTo(request) ==
    [type |-> request.type, to |-> request.arp,
     of |-> IF request.type = "ARP" THEN request.arp ELSE request.icmp]

\* Header bits of an ADC frame end in its 11th word; a reply of r_tx_eth_frame_size
\* bits is written until fewer than 32 bits are left: 336 for ARP, 592 for an echo.
LastHeaderWord == 10
LastReplyWord(type) == IF type = "ARP" THEN 10 ELSE 18

TxReset(v) ==
    [v EXCEPT !.state = "TX_IDLE", !.reply_ready = FALSE, !.pf_enq = FALSE, !.len = 0,
              !.addr = 0, !.wdt = NoWord, !.wstrobe = FALSE]

\* Power-up values of the signals.
TxPowerUp ==
    [state |-> "TX_IDLE", counter |-> 0, udp_counter |-> 0, reply_ready |-> FALSE,
     frame |-> NoReply, strob |-> FALSE,
     pf_enq |-> FALSE, len |-> 0, addr |-> 0, wdt |-> NoWord, wstrobe |-> FALSE]

ClearedStillEnqueueing(v) ==
    [v EXCEPT !.len = 0, !.addr = 0, !.wdt = NoWord, !.wstrobe = FALSE, !.counter = 0]
Cleared(v) ==
    [v EXCEPT !.pf_enq = FALSE, !.len = 0, !.addr = 0, !.wdt = NoWord, !.wstrobe = FALSE,
              !.counter = 0]

TxIdle(v, data_ready) ==
    LET cleared == Cleared(v)
    IN  IF v.reply_ready
        THEN [cleared EXCEPT !.reply_ready = FALSE, !.state = "PREPARE_REPLY_DATA"]
        ELSE IF data_ready THEN [cleared EXCEPT !.state = "PREPARE_ADC_DATA"]
        ELSE cleared

Write(v, word) ==
    [v EXCEPT !.addr = v.counter, !.wdt = word, !.wstrobe = TRUE, !.counter = v.counter + 1]

\* The strobe is raised one word before the last one of the header: two clocks
\* later the first sample is on In_UDP_data.
StrobEarly(v) == v.counter = LastHeaderWord - 2
StrobDue(v) == v.counter = LastHeaderWord - 1

WriteAdcHeader(v) ==
    LET written == Write(v, HeaderWord(v.counter, v.udp_counter))
    IN  IF v.counter < LastHeaderWord
        THEN [written EXCEPT !.strob = v.strob \/ StrobDue(v)]
        ELSE [written EXCEPT !.udp_counter = (v.udp_counter + 1) % UDP_MOD,
                             !.state = "WRITE_ADC_DATA"]

WriteAdcData(v, data_ready, data) ==
    IF data_ready THEN Write(v, SampleWord(v.counter, data))
    ELSE [Write(v, SampleWord(v.counter, data)) EXCEPT !.state = "ENQUE_DATA", !.strob = FALSE]

ReplyGoesOnDropsLast(v) == v.counter < LastReplyWord(v.frame.type) - 1
ReplyGoesOn(v) == v.counter < LastReplyWord(v.frame.type)

WriteReplyData(v) ==
    LET written == Write(v, ReplyWord(v.counter, v.frame))
    IN  IF ReplyGoesOn(v) THEN written
        ELSE [written EXCEPT !.state = "ENQUE_DATA"]

EnqueData(v) ==
    [v EXCEPT !.wstrobe = FALSE, !.len = v.counter, !.pf_enq = TRUE, !.counter = 0,
              !.state = "TX_IDLE"]

\* r_reply_ready after TX_IDLE: clearing the flag of the request it takes comes after
\* setting it for the one sampled in this cycle, so that it wins.
IdleFlagSetWins(tx, request_ready) == request_ready
IdleFlag(tx, request_ready) == ~ tx.reply_ready /\ request_ready

\* rising_edge(In_CLK_50).
TxStep(tx, rst, request_ready, request, data_ready, data) ==
    LET v == [tx EXCEPT !.reply_ready = tx.reply_ready \/ request_ready]
    IN  CASE rst -> TxReset(tx)
          [] ~ rst /\ tx.state = "TX_IDLE" ->
               [TxIdle(tx, data_ready) EXCEPT !.reply_ready = IdleFlag(tx, request_ready)]
          [] ~ rst /\ tx.state = "PREPARE_ADC_DATA" -> [v EXCEPT !.state = "WRITE_ADC_HEADER"]
          [] ~ rst /\ tx.state = "WRITE_ADC_HEADER" -> WriteAdcHeader(v)
          [] ~ rst /\ tx.state = "WRITE_ADC_DATA" -> WriteAdcData(v, data_ready, data)
          [] ~ rst /\ tx.state = "PREPARE_REPLY_DATA" ->
               [v EXCEPT !.frame = ReplyTo(request), !.state = "WRITE_REPLY_DATA"]
          [] ~ rst /\ tx.state = "WRITE_REPLY_DATA" -> WriteReplyData(v)
          [] ~ rst /\ tx.state = "ENQUE_DATA" -> EnqueData(v)
============================================================================
