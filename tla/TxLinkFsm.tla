----------------------------- MODULE TxLinkFsm -----------------------------
(***************************************************************************)
(* txlink_fsm.vhd with the CRC it instantiates, and bytestream_to_rmii.vhd:*)
(* the ref_clk-domain machines that turn a frame of the buffer memory into *)
(* dibits on the RMII wires.  Each is a record of registers and a step     *)
(* function from the registers and the ports to the next registers; LinkTx *)
(* clocks them together.                                                   *)
(*                                                                         *)
(* A byte on the wire is <<kind, value, index>>: it remembers what it is a *)
(* part of instead of its eight bits.                                      *)
(***************************************************************************)
EXTENDS Integers, Sequences

CONSTANTS
    MEM,            \* 2**MEM_ADDR_W, words of the frame buffer
    IGAP_LEN        \* inter-frame gap in bytes

ASSUME TxLinkAssumption == MEM \in Nat \ {0} /\ IGAP_LEN \in 1 .. 16

Preamble == <<"x55", 0, 0>>
Sfd == <<"xD5", 0, 0>>
DataByte(word, k) == <<"data", word, k>>
FcsByte(fed, k) == <<"fcs", fed, k>>

----------------------------------------------------------------------------
(* crc.vhd: the register stands for the bytes fed to it since LOAD_INIT and *)
(* the number of bytes shifted out; "not reversed(...)" of its top is the   *)
(* shifted-th byte of their FCS.  All-ones stays all-ones when shifted.     *)

CrcReset == [fed |-> << >>, shifted |-> 0, byte |-> FcsByte(<< >>, 0)]

CrcStep(c, rst, data, load_init, calc, d_valid) ==
    LET fed == Append(c.fed, data)
    IN  IF rst THEN CrcReset
        ELSE IF load_init
        THEN [fed |-> << >>, shifted |-> 0,
              byte |-> IF ~ d_valid THEN c.byte
                       ELSE IF calc THEN FcsByte(fed, 0) ELSE FcsByte(c.fed, c.shifted + 1)]
        ELSE IF ~ d_valid THEN c
        ELSE IF calc THEN [fed |-> fed, shifted |-> 0, byte |-> FcsByte(fed, 0)]
        ELSE [fed |-> c.fed,
              shifted |-> IF c.fed = << >> THEN 0 ELSE c.shifted + 1,
              byte |-> FcsByte(c.fed, IF c.fed = << >> THEN 0 ELSE c.shifted + 1)]

----------------------------------------------------------------------------
(* txlink_fsm.vhd                                                           *)

FsmStates == {"IDLE", "TXPREAMBLE", "TXSFD_D5", "TXDATA", "TXFCS", "IGAP"}

FsmReset ==
    [state |-> "IDLE", cnt |-> 0, rptr |-> 0, frlen |-> 0, fr_done |-> FALSE,
     mii_strobe |-> FALSE, mii_cnt |-> 0, t_dv |-> FALSE, t_str_dt |-> FALSE,
     t_dt |-> Preamble, m_rstrobe |-> FALSE, crc_init |-> FALSE, crc_calc |-> FALSE]

\* One byte handed to the serialiser.
Strobe(v, byte) == [v EXCEPT !.t_dt = byte, !.t_str_dt = TRUE]

IdleStep(v, pf_empty, len, ptr) ==
    IF pf_empty THEN [v EXCEPT !.crc_init = TRUE]
    ELSE [Strobe(v, Preamble) EXCEPT !.crc_init = TRUE, !.rptr = ptr, !.frlen = len,
            !.state = "TXPREAMBLE", !.cnt = 0, !.t_dv = TRUE, !.mii_cnt = 0]

PreambleStep(v) ==
    IF ~ v.mii_strobe THEN v
    ELSE IF v.cnt = 5 THEN [Strobe(v, Preamble) EXCEPT !.state = "TXSFD_D5"]
    ELSE [Strobe(v, Preamble) EXCEPT !.cnt = v.cnt + 1]

SfdStep(v) ==
    IF ~ v.mii_strobe THEN v
    ELSE [Strobe(v, Sfd) EXCEPT !.state = "TXDATA", !.cnt = 0]

\* The last byte of a word moves on to the next word.
NextWordStuck(v) ==
    [v EXCEPT !.frlen = (v.frlen - 1 + MEM) % MEM, !.cnt = 0]
NextWord(v) ==
    [v EXCEPT !.rptr = (v.rptr + 1) % MEM, !.frlen = (v.frlen - 1 + MEM) % MEM, !.cnt = 0]

DataStep(v, m_rdt) ==
    IF v.mii_strobe
    THEN LET sent == Strobe(v, DataByte(m_rdt, v.cnt))
         IN  IF v.cnt < 3 THEN [sent EXCEPT !.cnt = v.cnt + 1] ELSE NextWord(sent)
    ELSE IF v.frlen = 0
    THEN [v EXCEPT !.m_rstrobe = TRUE, !.state = "TXFCS", !.cnt = 0,
                   !.crc_calc = FALSE, !.fr_done = TRUE]
    ELSE [v EXCEPT !.m_rstrobe = TRUE]

FcsLastShort(v) == v.cnt = 2
FcsLast(v) == v.cnt = 3

FcsStep(v, crc_byte) ==
    IF ~ v.mii_strobe THEN v
    ELSE IF FcsLast(v) THEN [Strobe(v, crc_byte) EXCEPT !.state = "IGAP", !.cnt = IGAP_LEN - 1]
    ELSE [Strobe(v, crc_byte) EXCEPT !.cnt = v.cnt + 1]

GapOverEarly(v) == v.cnt = 1
GapOver(v) == v.cnt = 0

GapStep(v) ==
    IF ~ v.mii_strobe THEN v
    ELSE IF GapOver(v) THEN [v EXCEPT !.state = "IDLE"]
    ELSE [v EXCEPT !.cnt = v.cnt - 1]

\* The free-running divider by four that paces the bytes.
MiiStalled(v) == [v EXCEPT !.mii_cnt = (v.mii_cnt + 1) % 4, !.mii_strobe = (v.mii_cnt = 4)]
MiiStep(v) ==
    [v EXCEPT !.mii_cnt = IF v.mii_cnt = 3 THEN 0 ELSE v.mii_cnt + 1,
              !.mii_strobe = (v.mii_cnt = 3)]

FsmNotCleared(v) == v
FsmCleared(v) ==
    [v EXCEPT !.state = "IDLE", !.cnt = 0, !.rptr = 0, !.frlen = 0,
              !.mii_strobe = FALSE, !.mii_cnt = 0, !.m_rstrobe = FALSE]

FsmStep(f, rst, pf_empty, len, ptr, m_rdt, crc_byte) ==
    LET quiet == [f EXCEPT !.t_str_dt = FALSE, !.m_rstrobe = FALSE, !.crc_init = FALSE,
                           !.fr_done = FALSE, !.crc_calc = (f.state = "TXDATA"),
                           !.t_dv = f.state \in {"TXPREAMBLE", "TXSFD_D5", "TXDATA", "TXFCS"}]
        v == MiiStep(CASE f.state = "IDLE"       -> IdleStep(quiet, pf_empty, len, ptr)
                       [] f.state = "TXPREAMBLE" -> PreambleStep(quiet)
                       [] f.state = "TXSFD_D5"   -> SfdStep(quiet)
                       [] f.state = "TXDATA"     -> DataStep(quiet, m_rdt)
                       [] f.state = "TXFCS"      -> FcsStep(quiet, crc_byte)
                       [] f.state = "IGAP"       -> GapStep(quiet))
    IN  IF rst THEN FsmCleared(v) ELSE v

----------------------------------------------------------------------------
(* bytestream_to_rmii.vhd: dt holds a byte and the number of dibits already *)
(* shifted out of it; dv counts the valid dibits left in it.                *)

RmiiReset == [en |-> FALSE, byte |-> Preamble, shifts |-> 0, dv |-> 0]

RmiiStep(s, rst, t_dv, t_str_dt, t_dt) ==
    LET loaded  == [en |-> TRUE, byte |-> t_dt, shifts |-> 0, dv |-> 4]
        shifted == IF t_str_dt THEN loaded
                   ELSE [s EXCEPT !.shifts = IF s.shifts < 4 THEN s.shifts + 1 ELSE 4,
                                  !.dv = IF s.dv > 0 THEN s.dv - 1 ELSE 0]
    IN  IF rst THEN RmiiReset
        ELSE IF ~ s.en THEN (IF t_dv /\ t_str_dt THEN loaded ELSE [s EXCEPT !.dv = 0])
        ELSE [shifted EXCEPT !.en = t_dv \/ shifted.dv # 0]
============================================================================
