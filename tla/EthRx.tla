-------------------------------- MODULE EthRx --------------------------------
(***************************************************************************)
(* The receiver: rmii_to_bytestream and eth_rx_proc of EthComm, from the   *)
(* dibits of the RMII to the request registers eth_tx_proc answers from.   *)
(*                                                                         *)
(* Both are clocked by the RMII; eth_rx_proc sees the bytes of             *)
(* rmii_to_bytestream one edge later.  The line is external: the carrier   *)
(* may fall at any dibit, and frames are some edges apart.  Headers have   *)
(* few bytes here, one for each field the parser looks at; a byte that is  *)
(* not a field carries a number that tells it from the others.             *)
(*                                                                         *)
(* Reset clears the request and stops the parser where it stands; the      *)
(* debug bytes and the LEDs are left out.                                  *)
(***************************************************************************)
EXTENDS Naturals, Integers, Sequences

CONSTANTS
    MAC, ARP, IP,   \* bytes of the headers: 14, 28 and 20 in the code
    ICMP,           \* bytes of the echo request to_icmp expects, 40 in the code
    BUFFER,         \* bytes of r_RMII_RX_buffer, 128 in the code
    ME,             \* c_src_MAC or the broadcast address, as a byte
    PROTO_ARP, PROTO_IP, PROTO_ICMP, ECHO,  \* the values the parser looks for
    FRAMES,         \* frames, sequences of bytes
    SPACE,          \* edges between two frames, at least
    RX_RESETS       \* bound on resets

ASSUME RxAssumption ==
    /\ {MAC, IP} \subseteq Nat \ {0, 1} /\ {ARP, ICMP} \subseteq Nat \ {0}
    /\ BUFFER \in Nat /\ \A size \in {MAC, ARP, IP, ICMP} : size <= BUFFER
    /\ PROTO_ARP # PROTO_IP
    /\ FRAMES \subseteq Seq(Nat) \ {<< >>}
    /\ SPACE \in Nat \ {0, 1} /\ RX_RESETS \in Nat

VARIABLES
    line,           \* CRS_DV and RXD, as the PHY drives them
    frame, sent,    \* the frame on the line, or the last one, and its dibits so far
    rmii,           \* r and skip of rmii_to_bytestream
    rx,             \* r_rx_eth_state, r_RMII_RX_buffer and its count, in bytes
    rxRequest,      \* r_eth_request_ready and _type
    arp, icmp,      \* r_arp_data, r_icmp
    rxRst, resets,  \* the reset and how often it was given
    rxQuiet,        \* edges without a carrier
    seen            \* of the frame: requests made, and whether a reset touched it

lineVars == <<line, frame, sent, rxQuiet>>
registers == <<rmii, rx, rxRequest, arp, icmp>>
rxVars == <<lineVars, registers, rxRst, resets, seen>>

States == {"RX_IDLE", "DISCARD", "MAC_HEADER", "ARP", "IPV4_HEADER", "ICMP"}
Unknown == -1

\* The dibits of a byte of the frame; 01 and 11, of which preamble and SFD are made.
Dibits(b) == [q \in 1 .. 4 |-> <<b, q>>]
One == <<Unknown, 1>>
Three == <<Unknown, 3>>
Sfd == <<One, One, One, Three>>

\* What four dibits make: a byte of the frame, if they are one.
Byte(dt) == IF dt = Dibits(dt[1][1]) THEN dt[1][1] ELSE Unknown

\* Preamble and SFD, then the frame.
Dibit(f, k) ==
    IF k <= 8 THEN (IF k = 8 THEN Three ELSE One)
    ELSE Dibits(f[((k - 9) \div 4) + 1])[((k - 9) % 4) + 1]
Length(f) == 8 + 4 * Len(f)

RxInit ==
    /\ line = [dv |-> FALSE, dt |-> One] /\ frame = << >> /\ sent = 0 /\ rxQuiet = SPACE
    /\ rmii = [skip |-> TRUE, cnt |-> 0, dv |-> FALSE, str |-> FALSE, dt_tmp |-> Sfd]
    /\ rx = [state |-> "RX_IDLE", left |-> 1, buffer |-> [k \in 0 .. BUFFER - 1 |-> Unknown]]
    /\ rxRequest = [ready |-> FALSE, type |-> "ARP"]
    /\ arp = << >> /\ icmp = << >>
    /\ rxRst = FALSE /\ resets = 0
    /\ seen = [requests |-> 0, touched |-> FALSE]

----------------------------------------------------------------------------
(* The line                                                                 *)

StartOfFrame ==
    /\ ~ line.dv /\ rxQuiet >= SPACE /\ frame = << >>
    /\ frame' \in FRAMES /\ sent' = 1
    /\ line' = [dv |-> TRUE, dt |-> Dibit(frame', 1)]
    /\ rxQuiet' = 0

NextDibit ==
    /\ line.dv /\ sent < Length(frame)
    /\ sent' = sent + 1
    /\ line' = [dv |-> TRUE, dt |-> Dibit(frame, sent')]
    /\ UNCHANGED <<frame, rxQuiet>>

\* At the end of the frame, or before.
CarrierFalls ==
    /\ line.dv
    /\ line' = [line EXCEPT !.dv = FALSE] /\ rxQuiet' = 1
    /\ UNCHANGED <<frame, sent>>

\* After SPACE edges nothing is left of a frame.
Quiet ==
    /\ ~ line.dv
    /\ IF rxQuiet < SPACE THEN rxQuiet' = rxQuiet + 1 /\ UNCHANGED <<frame, sent>>
       ELSE rxQuiet' = rxQuiet /\ frame' = << >> /\ sent' = 0
    /\ UNCHANGED line

----------------------------------------------------------------------------
(* rmii_to_bytestream                                                       *)

Shifted == Append(Tail(rmii.dt_tmp), line.dt)

RmiiStep ==
    IF ~ line.dv
    THEN [rmii EXCEPT !.cnt = 0, !.skip = TRUE, !.dv = FALSE, !.str = FALSE]
    ELSE IF rmii.skip
    THEN [rmii EXCEPT !.dt_tmp = Shifted, !.str = FALSE,
                      !.dv = rmii.dv \/ Shifted = Sfd, !.skip = Shifted # Sfd,
                      !.cnt = IF Shifted = Sfd THEN 0 ELSE rmii.cnt]
    ELSE [rmii EXCEPT !.dt_tmp = Shifted, !.str = (rmii.cnt = 3), !.cnt = (rmii.cnt + 1) % 4]

----------------------------------------------------------------------------
(* eth_rx_proc                                                              *)

\* The bytes of a header or message of len bytes, the last one just arriving.
Data == Byte(rmii.dt_tmp)
Stored == [rx.buffer EXCEPT ![rx.left - 1] = Data]
TakenBeforeLast(len) == [k \in 1 .. len |-> rx.buffer[len - k]]
Taken(len) == [k \in 1 .. len |-> Stored[len - k]]

Await(state, left) == [state |-> state, left |-> left, buffer |-> Stored]
Discard == [rx EXCEPT !.state = "DISCARD", !.buffer = Stored]

\* total_len * 8 - 160 - 1, in a register of 10 bits.
MessageLengthUncut(total_len) == total_len - IP
MessageLength(total_len) == ((total_len - IP - 1) % BUFFER) + 1

\* The last byte of what the state waits for.
AfterHeader ==
    LET header == Taken(MAC)
    IN  IF header[1] # ME THEN Discard
        ELSE IF header[2] = PROTO_ARP THEN Await("ARP", ARP)
        ELSE IF header[2] = PROTO_IP THEN Await("IPV4_HEADER", IP)
        ELSE Discard

AfterIpv4 ==
    LET header == Taken(IP)
    IN  IF header[2] = PROTO_ICMP THEN Await("ICMP", MessageLength(header[1])) ELSE Discard

LastByte ==
    CASE rx.state = "MAC_HEADER" -> AfterHeader
      [] rx.state = "IPV4_HEADER" -> AfterIpv4
      [] OTHER -> Discard

\* Without a carrier the parser is back at the start, whatever it was doing.
RestartedNot == rx
Restarted == [rx EXCEPT !.state = "RX_IDLE"]

RxStep ==
    IF rxRst THEN rx
    ELSE IF ~ rmii.dv THEN Restarted
    ELSE IF rx.state = "RX_IDLE" THEN [rx EXCEPT !.state = "MAC_HEADER", !.left = MAC]
    ELSE IF rx.state = "DISCARD" \/ ~ rmii.str THEN rx
    ELSE IF rx.left > 1 THEN [rx EXCEPT !.left = rx.left - 1, !.buffer = Stored]
    ELSE LastByte

Ends(state) == ~ rxRst /\ rmii.dv /\ rmii.str /\ rx.state = state /\ rx.left = 1
Arp == Ends("ARP")
Echo == Ends("ICMP") /\ Taken(ICMP)[1] = ECHO

RequestStep ==
    [ready |-> \/ Arp \/ Echo
               \/ /\ rxRequest.ready /\ ~ rxRst /\ rmii.dv /\ rx.state # "DISCARD"
                  /\ ~ (rx.state = "MAC_HEADER" /\ rmii.str),
     type |-> IF Arp THEN "ARP" ELSE IF Echo THEN "ICMP_ECHO" ELSE rxRequest.type]

----------------------------------------------------------------------------

Clock(drive) ==
    /\ drive
    /\ rmii' = RmiiStep
    /\ rx' = RxStep
    /\ rxRequest' = RequestStep
    /\ arp' = IF Arp THEN Taken(ARP) ELSE arp
    /\ icmp' = IF Echo THEN Taken(ICMP) ELSE icmp
    /\ seen' = IF frame' # frame THEN [requests |-> 0, touched |-> rxRst]
               ELSE [requests |-> seen.requests + (IF Arp \/ Echo THEN 1 ELSE 0),
                     touched |-> seen.touched \/ rxRst]
    /\ UNCHANGED <<rxRst, resets>>

RxPress ==
    /\ ~ rxRst /\ resets < RX_RESETS
    /\ rxRst' = TRUE /\ resets' = resets + 1
    /\ UNCHANGED <<lineVars, registers, seen>>

RxRelease ==
    /\ rxRst /\ rxRst' = FALSE
    /\ UNCHANGED <<lineVars, registers, resets, seen>>

RxNext ==
    \/ Clock(StartOfFrame) \/ Clock(NextDibit) \/ Clock(CarrierFalls) \/ Clock(Quiet)
    \/ RxPress \/ RxRelease

RxSpec == RxInit /\ [][RxNext]_rxVars

----------------------------------------------------------------------------
(* Properties                                                               *)

RxTypeOK ==
    /\ rmii.cnt \in 0 .. 3 /\ {rmii.skip, rmii.dv, rmii.str} \subseteq BOOLEAN
    /\ Len(rmii.dt_tmp) = 4
    /\ rx.state \in States /\ rx.left \in 1 .. BUFFER
    /\ rxRequest \in [ready : BOOLEAN, type : {"ARP", "ICMP_ECHO"}]
    /\ Len(arp) \in {0, ARP} /\ Len(icmp) \in {0, ICMP}
    /\ seen.requests \in 0 .. 1

\* The bytes of the frame that came whole before the carrier fell.
Came == SubSeq(frame, 1, IF sent < 8 THEN 0 ELSE (sent - 8) \div 4)
ToMe == Len(Came) >= MAC /\ Came[1] = ME
IsArp == ToMe /\ Came[2] = PROTO_ARP /\ Len(Came) >= MAC + ARP
CarriesIcmp ==
    ToMe /\ Came[2] = PROTO_IP /\ Len(Came) >= MAC + IP /\ Came[MAC + 2] = PROTO_ICMP
Standard == CarriesIcmp => Came[MAC + 1] = IP + ICMP
IsEcho ==
    CarriesIcmp /\ Standard /\ Len(Came) >= MAC + IP + ICMP /\ Came[MAC + IP + 1] = ECHO

\* Every frame that is a request makes one, and no other frame does, whatever came
\* before it: frames broken off at any dibit, for others, or with messages of a length
\* the parser does not expect.  Only such a message, and a frame that a reset has
\* touched, may be taken for what it is not.
EveryRequestFound ==
    rxQuiet >= 2 /\ ~ seen.touched /\ Standard =>
        seen.requests = IF IsArp \/ IsEcho THEN 1 ELSE 0

\* The registers eth_tx_proc answers from hold the bytes of the very frame that made the
\* request, none left over from an earlier one; and the request lasts one edge, which
\* is what eth_tx_proc counts on.
RequestsHoldTheFrame ==
    [][/\ rxRequest.ready /\ registers' # registers => ~ rxRequest'.ready
       /\ rxRequest'.ready /\ ~ rxRequest.ready /\ ~ seen.touched /\ Standard =>
            IF rxRequest'.type = "ARP" THEN arp' = SubSeq(Came, MAC + 1, MAC + ARP)
            ELSE icmp' = SubSeq(Came, MAC + IP + 1, MAC + IP + ICMP)]_rxVars
==============================================================================
