------------------------------- MODULE LinkTx -------------------------------
(***************************************************************************)
(* eth100_link_tx.vhd: the whole transmit link, in its two clock domains.  *)
(*                                                                         *)
(* clk side      a client writes the words of a frame into the frame       *)
(*               buffer (dp_dclk_ram_2rdwr, port 1) and enqueues its       *)
(*               (len, ptr) in the push-frame FIFO (FifoQueue).            *)
(* ref_clk side  TxLinkFsm reads the descriptor on the FIFO's output       *)
(*               through plain registers (pf1), sends the frame from port  *)
(*               2 of the buffer, and returns two strobes through          *)
(*               DclkTransport: dequeue, and "remove frame" to the client. *)
(*                                                                         *)
(* An edge of either clock, or of both at once, is an action; neither      *)
(* clock runs more than RATIO edges ahead of the other.  rst is the        *)
(* asynchronous reset input.                                               *)
(* The client is the one the ports are documented for: it writes only into *)
(* free space of a circular buffer and obeys pf_full.                      *)
(***************************************************************************)
EXTENDS TxLinkFsm

CONSTANTS
    DEPTH,          \* 2**TXFIFO_DEPTH_W, descriptors the push-frame FIFO holds
    RATIO,          \* bound on edges of one clock between two edges of the other
    LENS,           \* lengths of the frames the client sends, in words
    IDS,            \* frame numbers are reused modulo IDS
    HOLD            \* ref_clk edges a reset is held for at least

ASSUME LinkAssumption ==
    /\ DEPTH \in Nat \ {0}
    /\ RATIO \in Nat \ {0}
    /\ LENS \subseteq 1 .. MEM - 1
    /\ IDS \in Nat /\ IDS > DEPTH + 1
    /\ HOLD \in Nat

\* The dequeue of a frame and the empty flag it may leave have 14 + 4 * IGAP_LEN edges of
\* ref_clk, from fr_done to the next look at the FIFO; each of the two ways takes at most
\* RATIO + 1.  The entity leaves it to its user to keep the clocks that close.
ASSUME TimingAssumption == RATIO <= 2 * IGAP_LEN + 6

\* A reset is held until both domains have seen it and what it stops has left them; once it
\* is released ref_clk has an edge before the client can have enqueued a frame.
ASSUME ResetAssumption ==
    /\ HOLD >= RATIO + 4 /\ HOLD > 2 * RATIO
    /\ \A len \in LENS : RATIO < len + 3

VARIABLES
    f, crc, s,              \* txlink_fsm, crc, bytestream_to_rmii
    ram2,                   \* port 2 of the buffer: rm2_addr, rm2_rstrobe, rm2_rdt
    pf1,                    \* pf1_empty, pf1_tag_len_ptr
    rmii_rst_1, rmii_rst,   \* the reset carried to ref_clk
    deq, rf,                \* the two dclk_transport instances
    q,                      \* the fifo_queue instance
    ram1,                   \* port 1 of the buffer: rm1_addr, rm1_wdt, rm1_wstrobe
    memory,                 \* the frame buffer
    rst,                    \* the reset input
    client,                 \* what the client is doing and has on the ports
    toSend,                 \* frames enqueued and not yet wholly on the wire
    pos, low,               \* dibits of the current frame, edges since the last one
    held,                   \* ref_clk edges rst has been held
    aheadRef, aheadClk      \* edges since the last edge of the other clock

refRegs == <<f, crc, s, ram2, pf1, rmii_rst_1, rmii_rst, pos, low>>
clkRegs == <<q, ram1, memory, client>>
vars == <<refRegs, clkRegs, deq, rf, rst, toSend, held, aheadRef, aheadClk>>

----------------------------------------------------------------------------
Addr == 0 .. MEM - 1
Descriptor == [len : Addr, ptr : Addr]
NoDescriptor == [len |-> 0, ptr |-> 0]
Blank == <<0, 0>>

Deq == INSTANCE DclkTransport WITH
         t <- deq, Data <- {0}, Zero <- 0, GAP <- 2 * RATIO + 1,
         torn <- FALSE, quiet <- 0, ahead1 <- aheadRef, ahead2 <- aheadClk, owed <- << >>
Rf == INSTANCE DclkTransport WITH
         t <- rf, Data <- Descriptor, Zero <- NoDescriptor, GAP <- 2 * RATIO + 1,
         torn <- FALSE, quiet <- 0, ahead1 <- aheadRef, ahead2 <- aheadClk, owed <- << >>
Pf == INSTANCE FifoQueue WITH
         SLOTS <- DEPTH, Data <- Descriptor, Zero <- NoDescriptor,
         r <- q, fifo_rst <- rst, enq_strobe <- client.pf_enq,
         enq_data <- client.tag, deq_strobe <- Deq!Strobe2(deq)

Idle == [state |-> "idle", id |-> 0, len |-> 0, next |-> 0, base |-> 0, used |-> 0,
         wstrobe |-> FALSE, addr |-> 0, wdt |-> Blank, pf_enq |-> FALSE, tag |-> NoDescriptor]

Init ==
    /\ f = FsmReset /\ crc = CrcReset /\ s = RmiiReset
    /\ ram2 = [addr |-> 0, rstrobe |-> FALSE, rdt |-> Blank]
    /\ pf1 = [empty |-> TRUE, tag |-> NoDescriptor]
    /\ rmii_rst_1 = FALSE /\ rmii_rst = FALSE
    /\ deq = Deq!PowerUp /\ rf = Rf!PowerUp
    /\ memory = [a \in Addr |-> Blank]
    /\ q = Pf!ResetOn([i \in Pf!Slots |-> NoDescriptor])
    /\ ram1 = [addr |-> 0, wdt |-> Blank, wstrobe |-> FALSE]
    /\ rst = FALSE
    /\ client = Idle
    /\ toSend = << >>
    /\ pos = 0 /\ low = 4 * IGAP_LEN /\ held = 0
    /\ aheadRef = 0 /\ aheadClk = 0

----------------------------------------------------------------------------
(* rising_edge(ref_clk)                                                     *)

\* Port 2 has a register at its inputs and one at its output: 2T of latency.
ReadPort ==
    ram2' = [addr |-> f.rptr, rstrobe |-> f.m_rstrobe,
             rdt |-> IF ram2.rstrobe THEN memory[ram2.addr] ELSE ram2.rdt]

\* pf1_empty and pf1_tag_len_ptr take the FIFO's outputs as queue shows them.
PfAcross(queue) == pf1' = [empty |-> queue.fifo_empty, tag |-> queue.deq_data]

\* The clk1 side of the two transports.
DeqIn == Deq!Edge1(deq, rmii_rst, f.fr_done, 0)
RfIn == Rf!Edge1(rf, rmii_rst, f.fr_done, pf1.tag)

\* The PHY counts the dibits of a frame and, between frames, the idle edges;
\* MAX_DIBITS, one more than the longest frame has, caps the count.
MAX_DIBITS == 4 * (8 + 4 * MEM + 4) + 1
Phy ==
    /\ pos' = IF ~ s.en THEN 0 ELSE IF pos < MAX_DIBITS THEN pos + 1 ELSE pos
    /\ low' = IF s.en THEN 0 ELSE IF low < 4 * IGAP_LEN THEN low + 1 ELSE low

\* The frames still to be sent once the PHY has seen the end of the first.
LeftAfterPhy == IF s.en /\ ~ s'.en /\ ~ rmii_rst /\ toSend # << >> THEN Tail(toSend) ELSE toSend

RefSide ==
    /\ f' = FsmStep(f, rmii_rst, pf1.empty, pf1.tag.len, pf1.tag.ptr, ram2.rdt, crc.byte)
    /\ crc' = CrcStep(crc, rmii_rst, f.t_dt, f.crc_init, f.crc_calc, f.t_str_dt)
    /\ s' = RmiiStep(s, rmii_rst, f.t_dv, f.t_str_dt, f.t_dt)
    /\ ReadPort
    /\ rmii_rst_1' = rst
    /\ rmii_rst' = rmii_rst_1
    /\ Phy
    /\ held' = IF rst /\ held < HOLD THEN held + 1 ELSE held

RefEdge ==
    /\ aheadRef < RATIO
    /\ RefSide
    /\ PfAcross(q)
    /\ deq' = DeqIn
    /\ rf' = RfIn
    /\ toSend' = LeftAfterPhy
    /\ aheadRef' = aheadRef + 1
    /\ aheadClk' = 0
    /\ UNCHANGED <<clkRegs, rst>>

----------------------------------------------------------------------------
(* rising_edge(clk)                                                         *)

\* Port 1 has a register at its inputs: a word lands one edge after the strobe.
WritePort ==
    /\ ram1' = [addr |-> client.addr, wdt |-> client.wdt, wstrobe |-> client.wstrobe]
    /\ memory' = IF ram1.wstrobe THEN [memory EXCEPT ![ram1.addr] = ram1.wdt] ELSE memory

\* A frame leaves the bottom of the client's circular buffer.
Released(c) == IF Rf!Strobe2(rf) THEN [c EXCEPT !.used = c.used - rf.dt2.len] ELSE c

\* The next thing the client does: start a frame or wait; write a word; enqueue.
ClientStart(c) ==
    /\ c.state = "idle"
    /\ \/ client' = [c EXCEPT !.pf_enq = FALSE]
       \/ \E len \in LENS :
            /\ c.used + len <= MEM
            /\ client' = [c EXCEPT !.pf_enq = FALSE, !.state = "write", !.len = len,
                                   !.next = 0, !.used = c.used + len]

ClientWrite(c) ==
    /\ c.state = "write"
    /\ client' = [c EXCEPT !.wstrobe = TRUE, !.addr = (c.base + c.next) % MEM,
                           !.wdt = <<c.id + 1, c.next>>, !.next = c.next + 1,
                           !.state = IF c.next + 1 = c.len THEN "enqueue" ELSE "write"]

ClientEnqueue(c) ==
    /\ c.state = "enqueue"
    /\ client' = IF q.fifo_full THEN [c EXCEPT !.wstrobe = FALSE]
                 ELSE [c EXCEPT !.wstrobe = FALSE, !.pf_enq = TRUE,
                                !.tag = [len |-> c.len, ptr |-> c.base],
                                !.id = (c.id + 1) % IDS,
                                !.base = (c.base + c.len) % MEM, !.state = "idle"]

\* The frame the client enqueues with this edge, if any.
Enqueued == IF client'.pf_enq THEN <<[id |-> client.id + 1, len |-> client.len]>> ELSE << >>

ClkSide ==
    /\ q' = Pf!FifoStep(q, rst, client.pf_enq, client.tag, Deq!Strobe2(deq))
    /\ WritePort
    /\ IF rst THEN client' = Idle
       ELSE \/ ClientStart(Released(client))
            \/ ClientWrite(Released(client))
            \/ ClientEnqueue(Released(client))

ClkEdge ==
    /\ aheadClk < RATIO
    /\ ClkSide
    /\ deq' = Deq!Edge2(deq, deq.strobe_latch, deq.dt_latch)
    /\ rf' = Rf!Edge2(rf, rf.strobe_latch, rf.dt_latch)
    /\ toSend' = toSend \o Enqueued
    /\ aheadClk' = aheadClk + 1
    /\ aheadRef' = 0
    /\ UNCHANGED <<refRegs, rst, held>>

\* Both edges at once: what crosses is caught old or new, each crossing on its own
\* but the registers of one crossing alike.
BothEdges ==
    /\ aheadRef < RATIO /\ aheadClk < RATIO
    /\ RefSide /\ ClkSide
    /\ PfAcross(q) \/ PfAcross(q')
    /\ \E d \in {deq, DeqIn} :
         deq' = Deq!Edge2([DeqIn EXCEPT !.strobe_tmp1 = deq.strobe_tmp1],
                          d.strobe_latch, d.dt_latch)
    /\ \E x \in {rf, RfIn} :
         rf' = Rf!Edge2([RfIn EXCEPT !.strobe_tmp1 = rf.strobe_tmp1],
                        x.strobe_latch, x.dt_latch)
    /\ toSend' = LeftAfterPhy \o Enqueued
    /\ aheadRef' = 0 /\ aheadClk' = 0
    /\ UNCHANGED rst

----------------------------------------------------------------------------
\* The reset input comes at any moment and drops every frame; it stays on long
\* enough to pass through both domains.
Press ==
    /\ ~ rst
    /\ rst' = TRUE
    /\ held' = 0
    /\ toSend' = << >>
    /\ UNCHANGED <<refRegs, clkRegs, deq, rf, aheadRef, aheadClk>>

Release ==
    /\ rst
    /\ held = HOLD
    /\ rst' = FALSE
    /\ UNCHANGED <<refRegs, clkRegs, deq, rf, toSend, held, aheadRef, aheadClk>>

Next == RefEdge \/ ClkEdge \/ BothEdges
NextWithResets == Next \/ Press \/ Release

Spec == Init /\ [][Next]_vars
SpecWithResets == Init /\ [][NextWithResets]_vars

\* Both clocks run.
FairSpec ==
    /\ Spec
    /\ WF_vars(RefEdge \/ BothEdges)
    /\ WF_vars(ClkEdge \/ BothEdges)

----------------------------------------------------------------------------
InReset == rst \/ rmii_rst_1 \/ rmii_rst

\* The frame that must be on the wire, byte by byte.
FrameBytes(frame) == 8 + 4 * frame.len + 4
DataOf(frame) == [i \in 1 .. 4 * frame.len |->
                    DataByte(<<frame.id, (i - 1) \div 4>>, (i - 1) % 4)]
WireByte(frame, n) ==
    IF n < 7 THEN Preamble
    ELSE IF n = 7 THEN Sfd
    ELSE IF n < 8 + 4 * frame.len THEN DataOf(frame)[n - 7]
    ELSE FcsByte(DataOf(frame), n - 8 - 4 * frame.len)

\* Type correctness; used is the occupation of the circular buffer.
TypeOK ==
    /\ f.state \in FsmStates /\ f.cnt \in 0 .. 15 /\ f.mii_cnt \in 0 .. 3
    /\ f.rptr \in Addr /\ f.frlen \in Addr
    /\ q \in Pf!Registers
    /\ deq \in Deq!Registers /\ rf \in Rf!Registers
    /\ client.used \in 0 .. MEM
    /\ aheadRef \in 0 .. RATIO /\ aheadClk \in 0 .. RATIO

\* Every dibit on the RMII wires is the next dibit of the oldest frame that was
\* enqueued and not yet sent: no frame is sent twice because the dequeue crosses
\* the clocks slowly, none is skipped, no word is read before it is written or
\* after it is overwritten, and the FCS covers exactly the data.
WireCarriesOldestFrame ==
    s.en /\ ~ InReset =>
        /\ toSend # << >>
        /\ pos < 4 * FrameBytes(Head(toSend))
        /\ s.byte = WireByte(Head(toSend), pos \div 4)
        /\ s.shifts = pos % 4

\* txen falls only after the last dibit of the frame.
FrameIsWhole == s.en /\ ~ s'.en /\ ~ InReset => pos + 1 = 4 * FrameBytes(Head(toSend))
FramesAreWhole == [][FrameIsWhole]_vars

\* Both hold when resets come: once one has passed through both domains the wire again
\* carries the oldest frame, and none from before the reset.
CleanAfterReset == [][WireCarriesOldestFrame' /\ FrameIsWhole]_vars

\* The FIFO is never asked for a frame it does not have, nor given one it drops: no
\* strobe is merged with another on its way, lost or doubled, and no register leaves its range.
NoStrobeLost ==
    /\ TypeOK
    /\ ~ rst =>
          /\ Deq!Strobe2(deq) => ~ q.fifo_empty
          /\ client.pf_enq => ~ q.fifo_full

\* The wires are quiet between two frames for one byte time less than IGAP_LEN,
\* and one dibit: the first byte time of the IGAP state is the one in which the
\* serialiser sends the last byte of the FCS.
GapBetweenFrames == [][~ s.en /\ s'.en => low + 1 >= 4 * (IGAP_LEN - 1) + 1]_vars

\* Every frame leaves, unless a reset drops it.
EveryFrameLeaves == \A n \in 1 .. IDS :
    (toSend # << >> /\ Head(toSend).id = n) ~> (toSend = << >> \/ Head(toSend).id # n)
============================================================================
