-------------------------------- MODULE Uart --------------------------------
(***************************************************************************)
(* The UART of the soft processor, nios_uart_0.v, and its interrupt-driven *)
(* driver, altera_avalon_uart_{init,read,write}.c.                         *)
(*                                                                         *)
(* Two rings stand between the program and the device.  The program reads  *)
(* and writes at their far ends, step by step; the interrupt handler comes *)
(* between any two of its steps and works at the near ends; the device     *)
(* goes on under both.  Each ring is empty when its indices are equal and  *)
(* full one cell before that, and nothing but the masking of interrupts    *)
(* keeps the handler from filling the last cell.                           *)
(*                                                                         *)
(* The device is built without RTS, CTS and end-of-packet (their status    *)
(* bits are 0), and the driver single-threaded: its flags and semaphores   *)
(* are empty macros.                                                       *)
(***************************************************************************)
EXTENDS Naturals, Sequences

CONSTANTS
    SIZE,           \* ALT_AVALON_UART_BUF_LEN, 64 in the code
    NUMBERS,        \* the bytes of each direction are numbered modulo this
    LENS,           \* lengths given to read() and write()
    LIMIT,          \* bytes the other end sends before the program has read any
    OVERRUNS        \* bound on bytes that arrive before the last one was fetched

ASSUME UartAssumption ==
    /\ SIZE \in Nat /\ SIZE > 1
    /\ NUMBERS \in Nat /\ NUMBERS > 1
    /\ LENS \subseteq Nat
    /\ LIMIT \in Nat /\ OVERRUNS \in Nat

VARIABLES
    rx_buf, rx_start, rx_end,   \* sp->, the receive ring
    tx_buf, tx_start, tx_end,   \* sp->, the transmit ring
    ctrl,                       \* sp->ctrl and the control register: interrupts enabled
    rx,                         \* the receiver: the byte that has not been fetched
    bad, framing_error,         \* whether it was spoilt on the line; the status bit
    tx,                         \* the transmitter: the byte being shifted and the next
    isr,                        \* the handler: next step, and the status it has read
    main,                       \* the program: next step of the call it is in, its locals
    number,                     \* of the next byte to arrive and the next to be written
    overruns                    \* overruns so far

rxRing == <<rx_buf, rx_start, rx_end>>
txRing == <<tx_buf, tx_start, tx_end>>
device == <<rx, bad, framing_error, tx, overruns>>
vars == <<rxRing, txRing, ctrl, device, isr, main, number>>

\* A cell that is given back keeps its byte, which nobody should read again: Stale.
Byte == 0 .. NUMBERS
Stale == NUMBERS

Succ(i) == (i + 1) % SIZE
Ring(buf, start, end) ==
    [k \in 1 .. (end + SIZE - start) % SIZE |-> buf[(start + k - 1) % SIZE]]

\* Bytes received and not yet read; bytes written that have not left.
Received == Ring(rx_buf, rx_start, rx_end) \o rx
Written == tx \o Ring(tx_buf, tx_start, tx_end)

Idle == [at |-> "idle", left |-> 0, count |-> 0, block |-> TRUE, byte |-> << >>]

\* altera_avalon_uart_init: the state starts as zeros, RRDY interrupts are enabled.
Init ==
    /\ rx_buf = [i \in 0 .. SIZE - 1 |-> Stale] /\ rx_start = 0 /\ rx_end = 0
    /\ tx_buf = [i \in 0 .. SIZE - 1 |-> Stale] /\ tx_start = 0 /\ tx_end = 0
    /\ ctrl = {"RRDY"}
    /\ rx = << >> /\ bad = FALSE /\ framing_error = FALSE /\ tx = << >>
    /\ isr = [at |-> "none", status |-> {}]
    /\ main = Idle
    /\ number = [rx |-> 0, tx |-> 0] /\ overruns = 0

----------------------------------------------------------------------------
(* The device                                                               *)

\* got_new_char, which overwrites a byte that has not been fetched; the two count as
\* one byte.  A byte without its stop bit is spoilt, and the status says so.
Arrive ==
    /\ Len(Received) < LIMIT
    /\ IF rx = << >>
       THEN rx' = <<number.rx>> /\ number' = [number EXCEPT !.rx = (number.rx + 1) % NUMBERS]
            /\ UNCHANGED overruns
       ELSE /\ overruns < OVERRUNS /\ overruns' = overruns + 1
            /\ UNCHANGED <<rx, number>>
    /\ bad' \in BOOLEAN
    /\ framing_error' = (framing_error \/ bad')
    /\ UNCHANGED <<rxRing, txRing, ctrl, tx, isr, main>>

\* shift_done, and do_load_shifter if a byte is waiting.
Shifted ==
    /\ tx # << >> /\ tx' = Tail(tx)
    /\ UNCHANGED <<rxRing, txRing, ctrl, rx, bad, framing_error, overruns, isr, main, number>>

\* TXDATA is written: an idle shifter takes it at once, a byte still waiting is lost.
Transmit(b) == tx' = IF Len(tx) < 2 THEN Append(tx, b) ELSE <<tx[1], b>>

tx_ready == Len(tx) < 2
Status == (IF rx # << >> THEN {"RRDY"} ELSE {}) \union (IF tx_ready THEN {"TRDY"} ELSE {})
          \union (IF framing_error THEN {"FE"} ELSE {})

irq == ctrl \intersect Status # {}

----------------------------------------------------------------------------
(* altera_avalon_uart_irq                                                   *)

Interrupt ==
    /\ isr.at = "none" /\ irq
    /\ isr' = [at |-> "clear", status |-> Status]
    /\ UNCHANGED <<rxRing, txRing, ctrl, device, main, number>>

ClearErrors ==
    /\ isr.at = "clear"
    /\ framing_error' = FALSE
    /\ isr' = [isr EXCEPT !.at = "transfer"]
    /\ UNCHANGED <<rxRing, txRing, ctrl, rx, bad, tx, overruns, main, number>>

\* altera_avalon_uart_rxirq, when status has RRDY: a byte with an error stays where it is.
RxIrqBeyond ==
    IF "RRDY" \in isr.status /\ "FE" \notin isr.status
    THEN /\ rx_buf' = [rx_buf EXCEPT ![Succ(rx_end)] = rx[1]] /\ rx' = << >> /\ bad' = FALSE
         /\ rx_end' = Succ(rx_end)
    ELSE UNCHANGED <<rx_buf, rx, bad, rx_end>>
RxIrq ==
    IF "RRDY" \in isr.status /\ "FE" \notin isr.status
    THEN /\ rx_buf' = [rx_buf EXCEPT ![rx_end] = rx[1]] /\ rx' = << >> /\ bad' = FALSE
         /\ rx_end' = Succ(rx_end)
    ELSE UNCHANGED <<rx_buf, rx, bad, rx_end>>

\* altera_avalon_uart_txirq, when status has TRDY.
TxIrq ==
    IF "TRDY" \in isr.status /\ tx_start # tx_end
    THEN /\ Transmit(tx_buf[tx_start]) /\ tx_start' = Succ(tx_start)
         /\ tx_buf' = [tx_buf EXCEPT ![tx_start] = Stale]
    ELSE UNCHANGED <<tx, tx_start, tx_buf>>

\* RRDY is masked when the ring is full, TRDY when it is empty.
Mask ==
    LET full == rx_end' # rx_end /\ Succ(rx_end') = rx_start
        others == IF full THEN ctrl \ {"RRDY"} ELSE ctrl
    IN  ctrl' = IF "TRDY" \notin isr.status THEN others
                ELSE IF tx_start' = tx_end THEN others \ {"TRDY"}
                ELSE others \union {"TRDY"}

\* Nothing between the two looks at what the other changes.
Transfer ==
    /\ isr.at = "transfer"
    /\ RxIrq /\ TxIrq /\ Mask
    /\ isr' = [at |-> "none", status |-> {}]
    /\ UNCHANGED <<rx_start, tx_end, framing_error, overruns, main, number>>

Isr == ClearErrors \/ Transfer

----------------------------------------------------------------------------
(* altera_avalon_uart_read: no step while the handler runs                  *)

\* The caller's O_NONBLOCK is in the flags of its descriptor.
Call(at, lens) ==
    /\ main.at = "idle"
    /\ \E len \in lens, block \in BOOLEAN :
         main' = [Idle EXCEPT !.at = at, !.left = len, !.block = block]
    /\ UNCHANGED <<rxRing, txRing, ctrl, number>>

Goto(at) == main' = [main EXCEPT !.at = at]

\* while ((count < len) && (sp->rx_start != sp->rx_end))
ReadWhile ==
    /\ main.at = "read"
    /\ Goto(IF main.left > 0 /\ rx_start # rx_end THEN "copy" ELSE "read_check")
    /\ UNCHANGED <<rxRing, txRing, ctrl, number>>

\* *ptr++ = sp->rx_buf[sp->rx_start]
ReadCopyNext ==
    /\ main.at = "copy"
    /\ main' = [main EXCEPT !.at = "advance", !.byte = <<rx_buf[Succ(rx_start)]>>]
    /\ UNCHANGED <<rxRing, txRing, ctrl, number>>
ReadCopy ==
    /\ main.at = "copy"
    /\ main' = [main EXCEPT !.at = "advance", !.byte = <<rx_buf[rx_start]>>]
    /\ UNCHANGED <<rxRing, txRing, ctrl, number>>

\* sp->rx_start = (sp->rx_start+1) & ALT_AVALON_UART_BUF_MSK
ReadAdvance ==
    /\ main.at = "advance"
    /\ rx_start' = Succ(rx_start) /\ rx_buf' = [rx_buf EXCEPT ![rx_start] = Stale]
    /\ main' = [main EXCEPT !.at = "read", !.left = main.left - 1, !.count = main.count + 1,
                            !.byte = << >>]
    /\ UNCHANGED <<rx_end, txRing, ctrl, number>>

ReadCheck ==
    /\ main.at = "read_check"
    /\ Goto(IF main.count = 0 /\ rx_start = rx_end
            THEN IF main.block THEN "read_enable" ELSE "read_return"
            ELSE IF main.count = 0 /\ main.left > 0 THEN "read" ELSE "read_return")
    /\ UNCHANGED <<rxRing, txRing, ctrl, number>>

\* alt_irq_disable_all .. alt_irq_enable_all, and while (!count && len)
ReadEnable ==
    /\ main.at = "read_enable"
    /\ ctrl' = ctrl \union {"RRDY"}
    /\ Goto(IF main.left > 0 THEN "read" ELSE "read_return")
    /\ UNCHANGED <<rxRing, txRing, number>>

ReadReturnMasked ==
    /\ main.at = "read_return"
    /\ main' = Idle
    /\ UNCHANGED <<rxRing, txRing, ctrl, number>>
ReadReturn ==
    /\ main.at = "read_return"
    /\ ctrl' = ctrl \union {"RRDY"}
    /\ main' = Idle
    /\ UNCHANGED <<rxRing, txRing, number>>

----------------------------------------------------------------------------
(* altera_avalon_uart_write and altera_avalon_uart_close                    *)

TxFull == Succ(tx_end) = tx_start

WriteNext ==
    /\ main.at = "write"
    /\ Goto(IF main.left = 0 THEN "write_return"
            ELSE IF ~ TxFull THEN "put"
            ELSE IF main.block THEN "write_enable" ELSE "write_return")
    /\ UNCHANGED <<rxRing, txRing, ctrl, number>>

WriteEnableNot ==
    /\ main.at = "write_enable"
    /\ Goto("write_wait")
    /\ UNCHANGED <<rxRing, txRing, ctrl, number>>
WriteEnable ==
    /\ main.at = "write_enable"
    /\ ctrl' = ctrl \union {"TRDY"}
    /\ Goto("write_wait")
    /\ UNCHANGED <<rxRing, txRing, number>>

WriteWaitNot ==
    /\ main.at = "write_wait"
    /\ Goto("put")
    /\ UNCHANGED <<rxRing, txRing, ctrl, number>>
WriteWait ==
    /\ main.at = "write_wait" /\ ~ TxFull
    /\ Goto("put")
    /\ UNCHANGED <<rxRing, txRing, ctrl, number>>

\* sp->tx_buf[sp->tx_end] = *ptr++
WritePut ==
    /\ main.at = "put"
    /\ tx_buf' = [tx_buf EXCEPT ![tx_end] = number.tx]
    /\ number' = [number EXCEPT !.tx = (number.tx + 1) % NUMBERS]
    /\ Goto("publish")
    /\ UNCHANGED <<rxRing, tx_start, tx_end, ctrl>>

\* sp->tx_end = next
WritePublish ==
    /\ main.at = "publish"
    /\ tx_end' = Succ(tx_end)
    /\ main' = [main EXCEPT !.at = "write", !.left = main.left - 1]
    /\ UNCHANGED <<rxRing, tx_buf, tx_start, ctrl, number>>

WriteReturn ==
    /\ main.at = "write_return"
    /\ ctrl' = ctrl \union {"TRDY"}
    /\ main' = Idle
    /\ UNCHANGED <<rxRing, txRing, number>>

CloseReturn ==
    /\ main.at = "close"
    /\ tx_start = tx_end \/ ~ main.block
    /\ main' = Idle
    /\ UNCHANGED <<rxRing, txRing, ctrl, number>>

Calls == Call("read", LENS) \/ Call("write", LENS) \/ Call("close", {0})
Continues ==
    \/ ReadWhile \/ ReadCopy \/ ReadAdvance \/ ReadCheck \/ ReadEnable \/ ReadReturn
    \/ WriteNext \/ WriteEnable \/ WriteWait \/ WritePut \/ WritePublish \/ WriteReturn
    \/ CloseReturn

\* The program runs while no interrupt is pending or handled.
Program(step) == isr.at = "none" /\ ~ irq /\ step /\ UNCHANGED <<device, isr>>

Next == Arrive \/ Shifted \/ Interrupt \/ Isr \/ Program(Calls) \/ Program(Continues)

Spec == Init /\ [][Next]_vars

\* Interrupts are taken and handled, the transmitter shifts, and the program goes on
\* when none is pending: processor and device are clocked.  No call need be made and
\* no byte need come.
FairSpec == Spec /\ WF_vars(Shifted) /\ WF_vars(Interrupt) /\ WF_vars(Isr)
                 /\ WF_vars(Program(Continues))

----------------------------------------------------------------------------
(* Properties                                                               *)

Reading == {"read", "copy", "advance", "read_check", "read_enable", "read_return"}
Writing == {"write", "write_enable", "write_wait", "put", "publish", "write_return"}
Closing == {"close"}

TypeOK ==
    /\ rx_buf \in [0 .. SIZE - 1 -> Byte] /\ tx_buf \in [0 .. SIZE - 1 -> Byte]
    /\ {rx_start, rx_end, tx_start, tx_end} \subseteq 0 .. SIZE - 1
    /\ ctrl \subseteq {"RRDY", "TRDY"}
    /\ rx \in {<< >>} \union {<<b>> : b \in Byte} /\ bad \in BOOLEAN
    /\ framing_error \in BOOLEAN
    /\ tx \in Seq(Byte) /\ Len(tx) <= 2
    /\ isr \in [at : {"none", "clear", "transfer"}, status : SUBSET {"RRDY", "TRDY", "FE"}]
    /\ main.at \in {"idle"} \union Reading \union Writing \union Closing
    /\ main.left \in Nat /\ main.count \in Nat /\ main.block \in BOOLEAN
    /\ main.byte \in {<< >>} \union {<<b>> : b \in Byte}
    /\ number \in [rx : Byte, tx : Byte] /\ overruns \in 0 .. OVERRUNS

Receives == INSTANCE ByteChannel WITH queue <- Received
Transmits == INSTANCE ByteChannel WITH queue <- Written

\* Bytes received are handed over in order, each once, though the handler works on the
\* ring between any two steps of read(): only a byte that is still in the device may
\* be lost, to the next one.
ReceivesInOrder == Receives!Spec

\* Bytes written leave in order, each once and none lost, whatever the handler and the
\* shifter do between the steps of write().
TransmitsInOrder == Transmits!Spec

\* The byte read() hands to its caller is the oldest one of the ring at the moment
\* the ring gives its cell back.
ReadsTheOldest ==
    [][rx_start' # rx_start => main.byte = <<Head(Received)>>]_vars

\* No interrupt stays masked while its ring needs it: RRDY is masked only for a full
\* ring, or inside a read() that will unmask it; TRDY only for an empty one, or inside
\* a write() that will.
NoByteForgotten ==
    /\ "RRDY" \notin ctrl => Succ(rx_end) = rx_start \/ main.at \in Reading
    /\ "TRDY" \notin ctrl => tx_start = tx_end \/ main.at \in Writing

\* No call blocks for ever: write() and close() return, read() does when a byte is
\* there, and what was written leaves though no further call is made.
CallsReturn ==
    /\ main.at \in Writing \union Closing ~> main.at = "idle"
    /\ main.at \in Reading /\ Received # << >> ~> main.at = "idle"
    /\ <>[](main.at = "idle") => <>(Written = << >>)

\* "If the cicular buffer was full, disable interrupts": a byte that comes then waits
\* in the device until data is removed from the ring.
FullRingWaits ==
    [][rx_end' # rx_end => Succ(rx_end) # rx_start]_vars
============================================================================
