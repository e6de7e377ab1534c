----------------------------- MODULE FifoQueue -----------------------------
(***************************************************************************)
(* fifo_queue.vhd: the single-clock queue that holds the (len, ptr)        *)
(* descriptors of the Ethernet frames waiting for transmission.            *)
(*                                                                         *)
(* r is the register record of the VHDL architecture; the ports are        *)
(* variables whose next value the environment chooses at every clock.      *)
(* FifoStep is the combinational process as a function of the registers    *)
(* and the ports, so that a composition can clock a queue of its own.      *)
(***************************************************************************)
EXTENDS Integers, Sequences

CONSTANTS
    SLOTS,      \* 2**FIFO_DEPTH_W, the number of elements the memory holds
    Data,       \* values of enq_data
    Zero        \* (others => '0')

ASSUME DepthAssumption == SLOTS \in Nat \ {0}
ASSUME ZeroAssumption == Zero \in Data

Slots == 0 .. SLOTS - 1

Registers ==
    [memory     : [Slots -> Data],
     wptr       : Slots,
     rptr       : Slots,
     deq_data   : Data,
     fifo_full  : BOOLEAN,
     fifo_empty : BOOLEAN,
     fifo_level : 0 .. SLOTS]

\* pointer_t is unsigned and wraps.
Inc(p) == IF p = SLOTS - 1 THEN 0 ELSE p + 1

\* The registers after a clock with rst = '1', on a memory that reset leaves alone.
ResetOn(memory) ==
    [memory |-> memory, wptr |-> 0, rptr |-> 0, deq_data |-> Zero,
     fifo_full |-> FALSE, fifo_empty |-> TRUE, fifo_level |-> 0]

\* A strobe on an empty (a full) queue is ignored; both flags are those of the
\* cycle's beginning.
TakenUnguarded(r, deq_strobe) == deq_strobe
Taken(r, deq_strobe) == deq_strobe /\ ~ r.fifo_empty
StoredUnguarded(r, enq_strobe) == enq_strobe
Stored(r, enq_strobe) == enq_strobe /\ ~ r.fifo_full

\* The element under rptr, with the consistency bypass for the one being written.
ShownNoBypass(r, rptr, stored, enq_data) == r.memory[rptr]
Shown(r, rptr, stored, enq_data) ==
    IF stored /\ r.wptr = rptr THEN enq_data ELSE r.memory[rptr]

\* What the process does when rst = '0': dequeue, look, enqueue, flag - in this order.
Transfer(r, enq_strobe, enq_data, deq_strobe) ==
    LET taken  == Taken(r, deq_strobe)
        stored == Stored(r, enq_strobe)
        rptr   == IF taken THEN Inc(r.rptr) ELSE r.rptr
        level  == r.fifo_level + (IF stored THEN 1 ELSE 0) - (IF taken THEN 1 ELSE 0)
    IN  [memory     |-> IF stored THEN [r.memory EXCEPT ![r.wptr] = enq_data]
                                  ELSE r.memory,
         wptr       |-> IF stored THEN Inc(r.wptr) ELSE r.wptr,
         rptr       |-> rptr,
         deq_data   |-> Shown(r, rptr, stored, enq_data),
         fifo_full  |-> level >= SLOTS,
         fifo_empty |-> level = 0,
         fifo_level |-> level]

FifoStep(r, rst, enq_strobe, enq_data, deq_strobe) ==
    LET v == Transfer(r, enq_strobe, enq_data, deq_strobe)
    IN  IF rst THEN ResetOn(v.memory) ELSE v

----------------------------------------------------------------------------
VARIABLES
    r,              \* the registers
    fifo_rst, enq_strobe, enq_data, deq_strobe  \* the input ports

ports == <<fifo_rst, enq_strobe, enq_data, deq_strobe>>
fifoVars == <<r, ports>>

Ports ==
    /\ fifo_rst \in BOOLEAN
    /\ enq_strobe \in BOOLEAN
    /\ enq_data \in Data
    /\ deq_strobe \in BOOLEAN

\* The board is reset before use: the first state is the one a reset leaves.
FifoInit ==
    /\ Ports
    /\ \E memory \in [Slots -> Data] : r = ResetOn(memory)

\* rising_edge(clk): the registers are loaded, then the ports settle on new values.
Clock ==
    /\ r' = FifoStep(r, fifo_rst, enq_strobe, enq_data, deq_strobe)
    /\ fifo_rst' \in BOOLEAN
    /\ enq_strobe' \in BOOLEAN
    /\ enq_data' \in Data
    /\ deq_strobe' \in BOOLEAN

FifoNext == Clock

FifoSpec == FifoInit /\ [][FifoNext]_fifoVars

----------------------------------------------------------------------------
\* Type correctness: pointers and level stay inside the widths the VHDL declares.
FifoTypeOK ==
    /\ r \in Registers
    /\ Ports

\* The level register is the distance between the pointers, and the flags say
\* exactly whether it is zero or the whole memory.
LevelIsDistance ==
    /\ \/ r.wptr = r.rptr + r.fifo_level
       \/ r.wptr = r.rptr + r.fifo_level - SLOTS
    /\ r.fifo_empty <=> (r.fifo_level = 0)
    /\ r.fifo_full <=> (r.fifo_level = SLOTS)

\* Whenever the queue is not empty its oldest element is on deq_data, with no
\* dequeue asked for: the consumer in the other clock domain (eth100_link_tx)
\* reads the descriptor before it dequeues it.  This needs the bypass: a write
\* into the slot under rptr must show at once.
HeadShown == ~ r.fifo_empty => r.deq_data = r.memory[r.rptr]

\* The inductive strengthening used by the proofs.
IInv == FifoTypeOK /\ LevelIsDistance /\ HeadShown

----------------------------------------------------------------------------
\* What the queue holds, oldest element first.
SlotOf(i) == IF r.rptr + i < SLOTS THEN r.rptr + i ELSE r.rptr + i - SLOTS
Contents == [i \in 1 .. r.fifo_level |-> r.memory[SlotOf(i - 1)]]

Abstract == INSTANCE BoundedQueue WITH
    queue <- Contents, Capacity <- SLOTS, rst <- fifo_rst

\* The ring of registers implements a bounded queue: no element is lost,
\* duplicated or reordered, whatever strobes arrive in whatever cycles.
ImplementsQueue == Abstract!Spec
============================================================================
