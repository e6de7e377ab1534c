----------------------------- MODULE AdcStream -----------------------------
(***************************************************************************)
(* The way of a sample from the demodulator to the wire: UDP_BUFFER,       *)
(* eth_tx_proc of EthComm and the frame buffer of eth100_link_tx, with the *)
(* replies that eth_tx_proc sends between the ADC frames.                  *)
(*                                                                         *)
(* SampleEdge is an edge of the sample clock, ClkEdge one of the 50 MHz    *)
(* clock.  Samples are numbered modulo SAMPLES.  The link is seen from the *)
(* buffer: it takes the oldest descriptor and reads a word every WORD_TIME *)
(* edges, then is busy for OVERHEAD more words (preamble, FCS, gap).  The  *)
(* receiver is seen from its request registers.                            *)
(***************************************************************************)
EXTENDS UdpBuffer, EthTx, Sequences

CONSTANTS
    SAMPLES,        \* sample numbers are reused modulo SAMPLES
    PACE,           \* 50 MHz edges between two samples
    WORD_TIME,      \* 50 MHz edges the link needs for a word
    OVERHEAD,       \* words of line time a frame needs beyond its own
    DEPTH,          \* descriptors the push-frame FIFO holds
    WIDTHS,         \* 50 MHz edges that may see the request pulse
    SPACING,        \* 50 MHz edges between two requests, at least
    RESETS          \* how often the reset button is pressed, at most

ASSUME StreamAssumption ==
    /\ SAMPLES \in Nat /\ SAMPLES % N = 0 /\ SAMPLES > 2 * N
    /\ Sample = 0 .. SAMPLES - 1
    /\ {PACE, WORD_TIME, SPACING, UDP_MOD, DEPTH} \subseteq Nat \ {0}
    /\ {OVERHEAD, RESETS} \subseteq Nat
    /\ WIDTHS \subseteq 0 .. 2

VARIABLES
    w, ram,             \* UDP_BUFFER, write side
    r,                  \* UDP_BUFFER, read side
    tx,                 \* eth_tx_proc
    ram1, memory,       \* port 1 of the frame buffer, and the buffer
    link,               \* the words of its frame the link has read
    request,            \* the receiver's registers
    pulse,              \* edges that are still to see the request pulse
    rst, pressed,       \* the reset button; clocks it has reached, times pressed
    n,                  \* number of the next sample
    quiet, calm,        \* edges since the last sample and since the last request
    queue,              \* frames enqueued and not yet sent, as enqueued
    asked,              \* requests seen and not yet answered
    fresh,              \* whether the pulse has not been seen yet
    next                \* sample and UDP count the next ADC frame is to start with

bufferVars == <<w, ram, n>>
txVars == <<r, tx, ram1, memory, link, pulse, fresh, calm, queue, asked, next>>
vars == <<bufferVars, txVars, request, rst, pressed, quiet>>

----------------------------------------------------------------------------
Addr == 0 .. 11 + (IF N > 8 THEN N ELSE 8)
NoRequest == [type |-> "none", arp |-> 0, icmp |-> 0, last |-> 2]
LinkIdle == [busy |-> FALSE, word |-> 0, tick |-> 0]

Init ==
    /\ w = WriteReset /\ r = ReadReset(0) /\ ram = [c \in 0 .. 2 * N - 1 |-> 0]
    /\ tx = TxPowerUp
    /\ ram1 = [addr |-> 0, wdt |-> NoWord, wstrobe |-> FALSE]
    /\ memory = [a \in Addr |-> NoWord]
    /\ link = LinkIdle
    /\ request = NoRequest /\ pulse = 0 /\ fresh = FALSE
    /\ rst = FALSE /\ pressed = [times |-> 0, clk |-> FALSE, signal |-> FALSE]
    /\ n = 0 /\ quiet = 0 /\ calm = SPACING
    /\ queue = << >> /\ asked = << >>
    /\ next = [sample |-> 0, udp |-> 0, phase |-> "stream"]

----------------------------------------------------------------------------
SampleEdge ==
    /\ quiet = PACE
    /\ w' = WriteStep(w, rst)
    /\ ram' = RamStep(w, rst, ram, n)
    /\ n' = (n + 1) % SAMPLES
    /\ quiet' = 0
    /\ pressed' = [pressed EXCEPT !.signal = rst]
    /\ UNCHANGED <<r, tx, ram1, memory, link, pulse, fresh, calm, queue, asked, next, request,
                   rst>>

\* The frame of a descriptor, as it stands in the buffer when it is enqueued.
FrameOf(len) == [i \in 1 .. len |-> memory'[i - 1]]
IsAdc(frame) == frame # << >> /\ frame[1][1] = "header"

WritePort ==
    /\ ram1' = [addr |-> tx.addr, wdt |-> tx.wdt, wstrobe |-> tx.wstrobe]
    /\ memory' = IF ram1.wstrobe THEN [memory EXCEPT ![ram1.addr] = ram1.wdt] ELSE memory

\* The link: idle, or reading the words of the oldest frame, or busy with the rest.
LinkStep(sent) ==
    IF rst THEN LinkIdle
    ELSE IF ~ link.busy THEN [LinkIdle EXCEPT !.busy = queue # << >>]
    ELSE IF link.tick < WORD_TIME - 1 THEN [link EXCEPT !.tick = link.tick + 1]
    ELSE IF sent THEN LinkIdle
    ELSE [link EXCEPT !.tick = 0, !.word = link.word + 1]

FrameSent ==
    /\ link.busy /\ link.tick = WORD_TIME - 1
    /\ link.word = Len(Head(queue)) + OVERHEAD - 1

QueueStep ==
    queue' = IF rst THEN << >>
             ELSE (IF FrameSent THEN Tail(queue) ELSE queue)
                  \o (IF tx.pf_enq THEN <<FrameOf(tx.len)>> ELSE << >>)

\* A pulse is one request, however many edges see it.
Asked ==
    asked' = IF rst THEN << >>
             ELSE (IF tx.state = "PREPARE_REPLY_DATA" /\ asked # << >>
                   THEN Tail(asked) ELSE asked)
                  \o (IF pulse > 0 /\ fresh THEN <<ReplyTo(request)>> ELSE << >>)

\* The frame that is to continue the stream from sample and UDP count udp.
FrameFrom(sample, udp) ==
    [i \in 1 .. 11 + N |->
       IF i <= 11 THEN HeaderWord(i - 1, udp)
       ELSE SampleWord(i - 1, (sample + i - 12) % SAMPLES)]

\* What is expected after an ADC frame.  A reset may swallow a frame with its UDP
\* count, and the first frame after it may be broken: the second starts the stream.
Expect ==
    LET frame == FrameOf(tx.len)
    IN  next' = IF rst \/ ~ tx.pf_enq \/ ~ IsAdc(frame) THEN next
                ELSE [sample |-> (frame[12][3] + N) % SAMPLES,
                      udp |-> (frame[1][3] + 1) % UDP_MOD,
                      phase |-> IF next.phase = "reset" THEN "restart" ELSE "stream"]

Continues(frame) ==
    \/ next.phase = "reset"
    \/ next.phase = "restart" /\ \E sample \in Sample : frame = FrameFrom(sample, next.udp)
    \/ frame = FrameFrom(next.sample, next.udp)

ClkEdge ==
    /\ quiet < PACE
    /\ r' = ReadStep(r, rst, w, ram, tx.strob)
    /\ tx' = TxStep(tx, rst, pulse > 0, request, r.ready, r.data)
    /\ WritePort
    /\ link' = LinkStep(FrameSent)
    /\ QueueStep
    /\ Asked
    /\ Expect
    /\ quiet' = quiet + 1
    /\ calm' = IF calm < SPACING THEN calm + 1 ELSE calm
    /\ pulse' = IF pulse > 0 THEN pulse - 1 ELSE 0
    /\ fresh' = FALSE
    /\ pressed' = [pressed EXCEPT !.clk = rst]
    /\ UNCHANGED <<bufferVars, request, rst>>

\* eth_rx_proc ends an ARP or echo request: it stores what the reply needs and
\* raises the request for one cycle of the RMII clock, which up to two edges see.
\* The host it comes from is another one than the last time.
Request ==
    /\ ~ rst
    /\ calm = SPACING
    /\ \E type \in {"ARP", "ICMP_ECHO"} :
         request' = [request EXCEPT !.type = type, !.last = 3 - request.last,
                       ![IF type = "ARP" THEN "arp" ELSE "icmp"] = 3 - request.last]
    /\ pulse' \in WIDTHS
    /\ fresh' = TRUE
    /\ calm' = 0
    /\ UNCHANGED <<bufferVars, r, tx, ram1, memory, link, queue, asked, next, rst,
                   pressed, quiet>>

\* The button; it is held until both clocks have seen it.
Press ==
    /\ ~ rst /\ pressed.times < RESETS
    /\ rst' = TRUE
    /\ pressed' = [times |-> pressed.times + 1, clk |-> FALSE, signal |-> FALSE]
    /\ pulse' = 0
    /\ next' = [next EXCEPT !.phase = "reset"]
    /\ UNCHANGED <<bufferVars, r, tx, ram1, memory, link, fresh, calm, queue, asked,
                   request, quiet>>

Release ==
    /\ rst /\ pressed.clk /\ pressed.signal
    /\ rst' = FALSE
    /\ UNCHANGED <<bufferVars, txVars, request, pressed, quiet>>

Next == SampleEdge \/ ClkEdge \/ Request \/ Press \/ Release

Spec == Init /\ [][Next]_vars

----------------------------------------------------------------------------
(* Properties                                                               *)

Word == {"none", "header", "sample", "ARP", "ICMP_ECHO"} \X Nat \X Nat \X Nat

\* Every register keeps the range the code declares for it.
TypeOK ==
    /\ w \in WriteRegs /\ r \in ReadRegs
    /\ ram \in [0 .. 2 * N - 1 -> Sample]
    /\ tx.state \in TxStates /\ tx.udp_counter \in 0 .. UDP_MOD - 1
    /\ tx.counter \in 0 .. 12 + (IF N > 7 THEN N ELSE 7) /\ tx.len \in Nat
    /\ tx.addr \in Addr /\ ram1.addr \in Addr
    /\ \A a \in Addr : memory[a] \in Word
    /\ link.busy \in BOOLEAN /\ link.word \in Nat /\ link.tick \in 0 .. WORD_TIME - 1
    /\ pulse \in 0 .. 2 /\ request.arp \in 0 .. 2 /\ request.icmp \in 0 .. 2
    /\ quiet \in 0 .. PACE /\ calm \in 0 .. SPACING

Enqueues == tx.pf_enq /\ ~ tx'.pf_enq /\ ~ rst

\* Every ADC frame continues the stream where the one before it ended: the header,
\* with the next UDP count in each word, and then exactly the N samples of one half
\* of UDP_BUFFER, in the order they were taken, with none lost, repeated or stale.
\* A reset breaks at most one frame: the stream starts anew with the next.
ContinuesStream == Enqueues /\ IsAdc(FrameOf(tx.len)) => Continues(FrameOf(tx.len))
StreamContinuous == [][ContinuesStream]_vars

\* Every reply answers the oldest request seen: what eth_rx_proc had stored when it
\* raised the request is what PREPARE_REPLY_DATA reads, though frames being built
\* delay it; no request is answered twice, and none is lost behind another.
AnswersWhatWasAsked ==
    /\ Len(asked) <= 1
    /\ tx.state = "PREPARE_REPLY_DATA" => asked # << >> /\ ReplyTo(request) = Head(asked)
    /\ tx.reply_ready => asked # << >>

\* A reply is enqueued with all the words of its one request: 11 for an ARP
\* reply, 19 for an echo reply.
RepliesWhole ==
    Enqueues /\ ~ IsAdc(FrameOf(tx.len)) =>
        FrameOf(tx.len) = [i \in 1 .. IF tx.frame.type = "ARP" THEN 11 ELSE 19 |->
                             ReplyWord(i - 1, tx.frame)]
RepliesAreWhole == [][RepliesWhole]_vars

\* The push-frame FIFO, whose full output eth_tx_proc does not look at, never overflows.
QueueFits == Len(queue) <= DEPTH

\* A queued frame is removed from the buffer by the link, word by word as it is
\* read; until then it stays as it was enqueued.
QueuedFramesIntact ==
    \A k \in DOMAIN queue :
      \A i \in DOMAIN queue[k] :
        (k = 1 /\ link.busy /\ i <= link.word) \/ memory[i - 1] = queue[k][i]
============================================================================
