----------------------------- MODULE UdpBuffer -----------------------------
(***************************************************************************)
(* udp_buffer.vhd: a double buffer between the sample clock and the 50 MHz *)
(* clock.  The write process fills one half of the RAM while the read      *)
(* process hands out the other; the only thing that crosses the clocks is  *)
(* the index of the half being written.                                    *)
(***************************************************************************)
EXTENDS Integers

CONSTANTS
    N,          \* ADC_BUFFER_SIZE, samples in a half
    Sample      \* values of an (I, Q) pair

ASSUME BufferAssumption == N \in Nat \ {0}

WriteRegs == [index : 0 .. 1, addr : 0 .. N - 1]
ReadRegs == [index : 0 .. 1, addr : 0 .. N - 1, ready : BOOLEAN, data : Sample]

WriteReset == [index |-> 0, addr |-> 0]
ReadReset(data) == [index |-> 1, addr |-> 0, ready |-> FALSE, data |-> data]

Cell(reg) == N * reg.index + reg.addr

\* write_RAM_proc, rising_edge(In_Signal_CLK): the cell it writes and its next registers.
HalfFull(w) == w.addr = N - 1

WriteStep(w, rst) ==
    IF rst THEN WriteReset
    ELSE IF HalfFull(w) THEN [index |-> 1 - w.index, addr |-> 0]
    ELSE [w EXCEPT !.addr = w.addr + 1]

RamStep(w, rst, ram, sample) == IF rst THEN ram ELSE [ram EXCEPT ![Cell(w)] = sample]

\* The reader is on the half the writer has gone to: it takes the other, just finished.
Swap(r, w) == r.index # 1 - w.index

\* read_RAM_proc, rising_edge(In_Data_CLK).  Reset leaves r_Data_ready and Out_Data alone.
ReadStep(r, rst, w, ram, strob) ==
    IF rst THEN [r EXCEPT !.index = 1, !.addr = 0]
    ELSE IF Swap(r, w) THEN [r EXCEPT !.index = 1 - w.index, !.addr = 0, !.ready = TRUE]
    ELSE LET loaded == [r EXCEPT !.data = ram[Cell(r)]]
         IN  IF ~ strob THEN loaded
             ELSE IF r.addr = N - 1 THEN [loaded EXCEPT !.ready = FALSE, !.addr = 0]
             ELSE [loaded EXCEPT !.addr = r.addr + 1]
============================================================================
