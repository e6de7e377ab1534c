---------------------------- MODULE LinkTxProofs ----------------------------
(***************************************************************************)
(* Proofs about LinkTx, for buffers, queues and gaps of every size, any    *)
(* lengths of frames and clocks within TimingAssumption: the wire carries  *)
(* whole frames in the order they were enqueued, a gap between them, and   *)
(* no strobe between the clock domains is merged or lost; and within       *)
(* ResetAssumption a reset at any moment leaves a link that does the same. *)
(*                                                                         *)
(* The invariant follows a frame from the client to the wire.              *)
(*   Sound      the pace of the FSM and the serialiser, and how far each   *)
(*              handshake is: both are over before the next is needed      *)
(*   Queued, Shown   the FIFO holds the descriptors of what is enqueued    *)
(*              and not dequeued, and pf1 shows the oldest of them, or one *)
(*              the FSM cannot look at yet                                 *)
(*   Sized .. Roomy  the frames still to be read lie behind each other in  *)
(*              the circular buffer, and the client keeps off them         *)
(*   Written, Whole  every word of theirs is where its descriptor says     *)
(*   Following, Fetched   the FSM reads the oldest of them word by word    *)
(*   Placed     what is on the wire, what the CRC has covered and where    *)
(*              both stand in the frame agree                              *)
(* With resets, Draining says what has left each domain after so many      *)
(* edges of the reset, and Waking that what is carried is sound again      *)
(* before ref_clk has seen the end of it.                                  *)
(***************************************************************************)
EXTENDS LinkTx, SequenceTheorems, TLAPS

----------------------------------------------------------------------------
(* The FSM: what an edge without reset does in each state                   *)

\* The registers, with bytes of B.
FsmRegs(B) ==
    [state : FsmStates, cnt : Nat, rptr : Addr, frlen : Addr, fr_done : BOOLEAN,
     mii_strobe : BOOLEAN, mii_cnt : 0 .. 3, t_dv : BOOLEAN, t_str_dt : BOOLEAN,
     t_dt : B, m_rstrobe : BOOLEAN, crc_init : BOOLEAN, crc_calc : BOOLEAN]
FsmTyped == f \in FsmRegs({f.t_dt})

\* The states of the FSM in which a frame is being sent.
Reading == f.state \in {"TXPREAMBLE", "TXSFD_D5", "TXDATA"}
Sending == Reading \/ f.state = "TXFCS"

\* w differs from v in the state and the counter at most.
Keeps(w, v) ==
    /\ w.rptr = v.rptr /\ w.frlen = v.frlen
    /\ w.mii_cnt = v.mii_cnt /\ w.mii_strobe = v.mii_strobe
    /\ w.t_dv = v.t_dv /\ w.t_str_dt = v.t_str_dt /\ w.t_dt = v.t_dt
    /\ w.m_rstrobe = v.m_rstrobe /\ w.fr_done = v.fr_done
    /\ w.crc_init = v.crc_init /\ w.crc_calc = v.crc_calc

\* The strobes are off unless the state sets them.
Quiescent == [f EXCEPT !.t_str_dt = FALSE, !.m_rstrobe = FALSE, !.crc_init = FALSE,
                       !.fr_done = FALSE, !.crc_calc = (f.state = "TXDATA"),
                       !.t_dv = f.state \in {"TXPREAMBLE", "TXSFD_D5", "TXDATA", "TXFCS"}]

FsmClock == f' = FsmStep(f, FALSE, pf1.empty, pf1.tag.len, pf1.tag.ptr, ram2.rdt, crc.byte)

\* What an edge does: the divider goes on, a byte is handed over or not, the FSM goes
\* to a state and a count.
NextMii == IF f.mii_cnt = 3 THEN 0 ELSE f.mii_cnt + 1
Ticks == /\ f'.mii_cnt = NextMii
         /\ f'.mii_strobe <=> f.mii_cnt = 3
         /\ f'.t_dv <=> Sending
Silent == ~ f'.t_str_dt /\ f'.t_dt = f.t_dt
Hands(byte) == f'.t_str_dt /\ f'.t_dt = byte
Goes(to, n) == f'.state = to /\ f'.cnt = n
Unread == f'.rptr = f.rptr /\ f'.frlen = f.frlen /\ ~ f'.m_rstrobe /\ ~ f'.fr_done
NoCrc == ~ f'.crc_init /\ (f'.crc_calc <=> f.state = "TXDATA")

\* The states.
LEMMA States ==
    /\ "IDLE" \in FsmStates /\ "TXPREAMBLE" \in FsmStates /\ "TXSFD_D5" \in FsmStates
    /\ "TXDATA" \in FsmStates /\ "TXFCS" \in FsmStates /\ "IGAP" \in FsmStates
BY DEF FsmStates

\* The set of bytes may be narrowed to the byte there is.
LEMMA OfItsOwn == ASSUME NEW B, f' \in FsmRegs(B) PROVE FsmTyped'
BY DEF FsmTyped, FsmRegs

\* The registers with the strobes off.
LEMMA QuiescentIs ==
    ASSUME NEW B, f \in FsmRegs(B)
    PROVE  \E calm \in FsmRegs(B) :
             /\ calm = Quiescent /\ calm.state = f.state /\ calm.cnt = f.cnt
             /\ calm.rptr = f.rptr /\ calm.frlen = f.frlen
             /\ (calm.mii_strobe <=> f.mii_strobe) /\ calm.mii_cnt = f.mii_cnt /\ calm.t_dt = f.t_dt
             /\ ~ calm.t_str_dt /\ ~ calm.m_rstrobe /\ ~ calm.crc_init /\ ~ calm.fr_done
             /\ (calm.crc_calc <=> f.state = "TXDATA") /\ (calm.t_dv <=> Sending)
<1>1. Quiescent \in FsmRegs(B)
  <2>1. PICK a \in BOOLEAN : a = (f.state = "TXDATA")
    OBVIOUS
  <2>2. PICK b \in BOOLEAN : b = (f.state \in {"TXPREAMBLE", "TXSFD_D5", "TXDATA", "TXFCS"})
    <3>1. (f.state \in {"TXPREAMBLE", "TXSFD_D5", "TXDATA", "TXFCS"}) \in BOOLEAN
      OBVIOUS
    <3>2. QED
      BY <3>1
  <2>3. PICK v : v = [f EXCEPT !.t_str_dt = FALSE, !.m_rstrobe = FALSE, !.crc_init = FALSE]
    OBVIOUS
  <2>4. v \in FsmRegs(B)
    BY <2>3 DEF FsmRegs
  <2>5. PICK w : w = [v EXCEPT !.fr_done = FALSE, !.crc_calc = a]
    OBVIOUS
  <2>6. w \in FsmRegs(B)
    BY <2>4, <2>5 DEF FsmRegs
  <2>7. Quiescent = [w EXCEPT !.t_dv = b]
    BY <2>1, <2>2, <2>3, <2>5, Zenon DEF Quiescent
  <2>8. [w EXCEPT !.t_dv = b] \in FsmRegs(B)
    BY <2>2, <2>6 DEF FsmRegs
  <2>9. QED
    BY <2>7, <2>8
<1>2. /\ Quiescent.state = f.state /\ Quiescent.cnt = f.cnt
      /\ Quiescent.rptr = f.rptr /\ Quiescent.frlen = f.frlen
      /\ Quiescent.mii_strobe = f.mii_strobe /\ Quiescent.mii_cnt = f.mii_cnt
      /\ Quiescent.t_dt = f.t_dt /\ ~ Quiescent.t_str_dt /\ ~ Quiescent.m_rstrobe
      /\ ~ Quiescent.crc_init /\ ~ Quiescent.fr_done
  BY DEF FsmRegs, Quiescent
<1>3. Quiescent.crc_calc <=> f.state = "TXDATA"
  BY DEF FsmRegs, Quiescent
<1>4. Quiescent.t_dv <=> Sending
  BY DEF FsmRegs, Quiescent, Sending, Reading
<1>5. QED
  BY <1>1, <1>2, <1>3, <1>4

\* The divider moves on its own.
LEMMA MiiStepOf ==
    ASSUME NEW B, NEW w \in FsmRegs(B)
    PROVE  \E v \in FsmRegs(B) :
             /\ v = MiiStep(w)
             /\ v.mii_cnt = (IF w.mii_cnt = 3 THEN 0 ELSE w.mii_cnt + 1)
             /\ (v.mii_strobe <=> w.mii_cnt = 3)
             /\ v.state = w.state /\ v.cnt = w.cnt /\ v.rptr = w.rptr /\ v.frlen = w.frlen
             /\ v.fr_done = w.fr_done /\ v.t_dv = w.t_dv
             /\ v.t_str_dt = w.t_str_dt /\ v.t_dt = w.t_dt
             /\ v.m_rstrobe = w.m_rstrobe /\ v.crc_init = w.crc_init /\ v.crc_calc = w.crc_calc
<1>1. PICK a \in BOOLEAN : a = (w.mii_cnt = 3)
  OBVIOUS
<1>2. PICK n : n = IF w.mii_cnt = 3 THEN 0 ELSE w.mii_cnt + 1
  OBVIOUS
<1>3. n \in 0 .. 3
  BY <1>2 DEF FsmRegs
<1>4. PICK v : v = [w EXCEPT !.mii_cnt = n, !.mii_strobe = a]
  OBVIOUS
<1>5. v = MiiStep(w)
  BY <1>1, <1>2, <1>4, Zenon DEF MiiStep
<1>6. v \in FsmRegs(B) /\ v.mii_cnt = n /\ v.mii_strobe = a
  BY <1>3, <1>4 DEF FsmRegs
<1>7. /\ v.state = w.state /\ v.cnt = w.cnt /\ v.rptr = w.rptr /\ v.frlen = w.frlen
      /\ v.fr_done = w.fr_done /\ v.t_dv = w.t_dv
      /\ v.t_str_dt = w.t_str_dt /\ v.t_dt = w.t_dt
      /\ v.m_rstrobe = w.m_rstrobe /\ v.crc_init = w.crc_init /\ v.crc_calc = w.crc_calc
  BY <1>4 DEF FsmRegs
<1>8. QED
  BY <1>1, <1>2, <1>5, <1>6, <1>7

LEMMA MiiStepIs ==
    ASSUME NEW B, NEW w \in FsmRegs(B), f' = MiiStep(w)
    PROVE  /\ f' \in FsmRegs(B)
           /\ f'.mii_cnt = IF w.mii_cnt = 3 THEN 0 ELSE w.mii_cnt + 1
           /\ f'.mii_strobe <=> w.mii_cnt = 3
           /\ f'.state = w.state /\ f'.cnt = w.cnt /\ f'.rptr = w.rptr /\ f'.frlen = w.frlen
           /\ f'.fr_done = w.fr_done /\ f'.t_dv = w.t_dv
           /\ f'.t_str_dt = w.t_str_dt /\ f'.t_dt = w.t_dt
           /\ f'.m_rstrobe = w.m_rstrobe /\ f'.crc_init = w.crc_init /\ f'.crc_calc = w.crc_calc
<1>1. PICK v \in FsmRegs(B) :
             /\ v = MiiStep(w)
             /\ v.mii_cnt = (IF w.mii_cnt = 3 THEN 0 ELSE w.mii_cnt + 1)
             /\ (v.mii_strobe <=> w.mii_cnt = 3)
             /\ v.state = w.state /\ v.cnt = w.cnt /\ v.rptr = w.rptr /\ v.frlen = w.frlen
             /\ v.fr_done = w.fr_done /\ v.t_dv = w.t_dv
             /\ v.t_str_dt = w.t_str_dt /\ v.t_dt = w.t_dt
             /\ v.m_rstrobe = w.m_rstrobe /\ v.crc_init = w.crc_init /\ v.crc_calc = w.crc_calc
  BY MiiStepOf
<1>2. QED
  BY <1>1

\* A byte is handed over.
LEMMA StrobeIs ==
    ASSUME NEW B, NEW v \in FsmRegs(B), NEW byte \in B
    PROVE  \E w \in FsmRegs(B) :
             /\ w = Strobe(v, byte) /\ w.t_dt = byte /\ w.t_str_dt
             /\ w.state = v.state /\ w.cnt = v.cnt /\ w.rptr = v.rptr /\ w.frlen = v.frlen
             /\ w.mii_cnt = v.mii_cnt /\ w.mii_strobe = v.mii_strobe
             /\ w.fr_done = v.fr_done /\ w.t_dv = v.t_dv /\ w.m_rstrobe = v.m_rstrobe
             /\ w.crc_init = v.crc_init /\ w.crc_calc = v.crc_calc
<1>1. Strobe(v, byte) \in FsmRegs(B)
  BY DEF FsmRegs, Strobe
<1>2. QED
  BY <1>1 DEF FsmRegs, Strobe

\* A move to another state, to another count, or both.
LEMMA ToState ==
    ASSUME NEW B, NEW v \in FsmRegs(B), NEW to \in FsmStates
    PROVE  \E w \in FsmRegs(B) : /\ w = [v EXCEPT !.state = to] /\ Keeps(w, v)
                                 /\ w.state = to /\ w.cnt = v.cnt
<1>1. PICK w : w = [v EXCEPT !.state = to]
  OBVIOUS
<1>2. w \in FsmRegs(B) /\ Keeps(w, v) /\ w.state = to /\ w.cnt = v.cnt
  BY <1>1 DEF FsmRegs, Keeps
<1>3. QED
  BY <1>1, <1>2

\* A move to another count.
LEMMA ToCount ==
    ASSUME NEW B, NEW v \in FsmRegs(B), NEW n \in Nat
    PROVE  \E w \in FsmRegs(B) : /\ w = [v EXCEPT !.cnt = n] /\ Keeps(w, v)
                                 /\ w.state = v.state /\ w.cnt = n
<1>1. PICK w : w = [v EXCEPT !.cnt = n]
  OBVIOUS
<1>2. w \in FsmRegs(B) /\ Keeps(w, v) /\ w.state = v.state /\ w.cnt = n
  BY <1>1 DEF FsmRegs, Keeps
<1>3. QED
  BY <1>1, <1>2

\* Which state's step an edge takes.
LEMMA FsmIs ==
    ASSUME FsmClock
    PROVE  /\ f.state = "IDLE" =>
                f' = MiiStep(IdleStep(Quiescent, pf1.empty, pf1.tag.len, pf1.tag.ptr))
           /\ f.state = "TXPREAMBLE" => f' = MiiStep(PreambleStep(Quiescent))
           /\ f.state = "TXSFD_D5" => f' = MiiStep(SfdStep(Quiescent))
           /\ f.state = "TXDATA" => f' = MiiStep(DataStep(Quiescent, ram2.rdt))
           /\ f.state = "TXFCS" => f' = MiiStep(FcsStep(Quiescent, crc.byte))
           /\ f.state = "IGAP" => f' = MiiStep(GapStep(Quiescent))
BY DEF FsmClock, FsmStep, Quiescent

\* An edge that hands over a byte and goes somewhere.
LEMMA HandsAndGoes ==
    ASSUME NEW B, f \in FsmRegs(B), NEW byte \in B,
           NEW w \in FsmRegs(B), Keeps(w, Strobe(Quiescent, byte)), f' = MiiStep(w)
    PROVE  FsmTyped' /\ Ticks /\ Unread /\ NoCrc /\ Hands(byte) /\ Goes(w.state, w.cnt)
<1>1. PICK calm \in FsmRegs(B) :
        /\ calm = Quiescent /\ calm.mii_cnt = f.mii_cnt
        /\ calm.rptr = f.rptr /\ calm.frlen = f.frlen /\ (calm.t_dv <=> Sending)
        /\ ~ calm.m_rstrobe /\ ~ calm.fr_done /\ ~ calm.crc_init
        /\ (calm.crc_calc <=> f.state = "TXDATA")
  BY QuiescentIs
<1>2. PICK st \in FsmRegs(B) :
        /\ st = Strobe(calm, byte) /\ st.mii_cnt = calm.mii_cnt
        /\ st.rptr = calm.rptr /\ st.frlen = calm.frlen
        /\ st.t_str_dt /\ st.t_dt = byte /\ st.t_dv = calm.t_dv
        /\ st.m_rstrobe = calm.m_rstrobe /\ st.fr_done = calm.fr_done
        /\ st.crc_init = calm.crc_init /\ st.crc_calc = calm.crc_calc
  BY StrobeIs
<1>3. Keeps(w, st)
  BY <1>1, <1>2
<1>4. /\ f' \in FsmRegs(B)
      /\ f'.mii_cnt = (IF w.mii_cnt = 3 THEN 0 ELSE w.mii_cnt + 1)
      /\ (f'.mii_strobe <=> w.mii_cnt = 3)
      /\ f'.state = w.state /\ f'.cnt = w.cnt /\ f'.rptr = w.rptr /\ f'.frlen = w.frlen
      /\ f'.fr_done = w.fr_done /\ f'.t_dv = w.t_dv
      /\ f'.t_str_dt = w.t_str_dt /\ f'.t_dt = w.t_dt
      /\ f'.m_rstrobe = w.m_rstrobe /\ f'.crc_init = w.crc_init /\ f'.crc_calc = w.crc_calc
  BY MiiStepIs
<1>5. FsmTyped'
  BY <1>4, OfItsOwn
<1>6. QED
  BY <1>1, <1>2, <1>3, <1>4, <1>5 DEF Keeps, Ticks, Unread, NoCrc, Hands, Goes, NextMii

\* An edge that only goes somewhere.
LEMMA OnlyGoes ==
    ASSUME NEW B, f \in FsmRegs(B), NEW w \in FsmRegs(B), Keeps(w, Quiescent), f' = MiiStep(w)
    PROVE  FsmTyped' /\ Ticks /\ Unread /\ NoCrc /\ Silent /\ Goes(w.state, w.cnt)
<1>1. PICK calm \in FsmRegs(B) :
        /\ calm = Quiescent /\ calm.mii_cnt = f.mii_cnt
        /\ calm.rptr = f.rptr /\ calm.frlen = f.frlen /\ (calm.t_dv <=> Sending)
        /\ ~ calm.t_str_dt /\ calm.t_dt = f.t_dt
        /\ ~ calm.m_rstrobe /\ ~ calm.fr_done /\ ~ calm.crc_init
        /\ (calm.crc_calc <=> f.state = "TXDATA")
  BY QuiescentIs
<1>2. Keeps(w, calm)
  BY <1>1
<1>3. /\ f' \in FsmRegs(B)
      /\ f'.mii_cnt = (IF w.mii_cnt = 3 THEN 0 ELSE w.mii_cnt + 1)
      /\ (f'.mii_strobe <=> w.mii_cnt = 3)
      /\ f'.state = w.state /\ f'.cnt = w.cnt /\ f'.rptr = w.rptr /\ f'.frlen = w.frlen
      /\ f'.fr_done = w.fr_done /\ f'.t_dv = w.t_dv
      /\ f'.t_str_dt = w.t_str_dt /\ f'.t_dt = w.t_dt
      /\ f'.m_rstrobe = w.m_rstrobe /\ f'.crc_init = w.crc_init /\ f'.crc_calc = w.crc_calc
  BY MiiStepIs
<1>4. FsmTyped'
  BY <1>3, OfItsOwn
<1>5. QED
  BY <1>1, <1>2, <1>3, <1>4 DEF Keeps, Ticks, Unread, NoCrc, Silent, Goes, NextMii

\* An edge that waits.
LEMMA Waits ==
    ASSUME NEW B, f \in FsmRegs(B), f' = MiiStep(Quiescent)
    PROVE  FsmTyped' /\ Ticks /\ Unread /\ NoCrc /\ Silent /\ Goes(f.state, f.cnt)
<1>1. PICK calm \in FsmRegs(B) : calm = Quiescent /\ calm.state = f.state /\ calm.cnt = f.cnt
  BY QuiescentIs
<1>2. Keeps(calm, Quiescent)
  BY <1>1 DEF Keeps
<1>3. QED
  BY <1>1, <1>2, OnlyGoes

\* TXPREAMBLE hands over six more bytes.
LEMMA PreambleMoves ==
    ASSUME FsmTyped, FsmClock, f.state = "TXPREAMBLE"
    PROVE  /\ FsmTyped' /\ Ticks /\ Unread /\ NoCrc
           /\ ~ f.mii_strobe => Silent /\ Goes(f.state, f.cnt)
           /\ f.mii_strobe => /\ Hands(Preamble)
                              /\ f.cnt = 5 => Goes("TXSFD_D5", f.cnt)
                              /\ f.cnt # 5 => Goes(f.state, f.cnt + 1)
<1> DEFINE B == {f.t_dt, Preamble}
<1>1. f \in FsmRegs(B) /\ Preamble \in B
  BY DEF FsmTyped, FsmRegs
<1> HIDE DEF B
<1>2. PICK calm \in FsmRegs(B) : /\ calm = Quiescent /\ calm.state = f.state /\ calm.cnt = f.cnt
                              /\ (calm.mii_strobe <=> f.mii_strobe)
  BY <1>1, QuiescentIs
<1>3. PICK st \in FsmRegs(B) : st = Strobe(calm, Preamble) /\ st.state = calm.state /\ st.cnt = calm.cnt
  BY <1>1, StrobeIs
<1>4. f' = MiiStep(PreambleStep(calm))
  BY <1>2, FsmIs
<1>5. CASE ~ f.mii_strobe
  <2>1. f' = MiiStep(Quiescent)
    BY <1>2, <1>4, <1>5 DEF PreambleStep
  <2>2. QED
    BY <1>1, <1>5, <2>1, Waits
<1>6. CASE f.mii_strobe /\ f.cnt = 5
  <2>1. PICK w \in FsmRegs(B) : /\ w = [st EXCEPT !.state = "TXSFD_D5"] /\ Keeps(w, st)
                                /\ w.state = "TXSFD_D5" /\ w.cnt = st.cnt
    BY States, ToState
  <2>2. f' = MiiStep(w)
    BY <1>2, <1>3, <1>4, <1>6, <2>1 DEF PreambleStep
  <2>3. FsmTyped' /\ Ticks /\ Unread /\ NoCrc /\ Hands(Preamble) /\ Goes(w.state, w.cnt)
    BY <1>1, <1>2, <1>3, <2>1, <2>2, HandsAndGoes
  <2>4. Goes("TXSFD_D5", f.cnt)
    BY <1>2, <1>3, <2>1, <2>3
  <2>5. QED
    BY <1>6, <2>3, <2>4
<1>7. CASE f.mii_strobe /\ f.cnt # 5
  <2>1. f.cnt + 1 \in Nat
    BY <1>1 DEF FsmRegs
  <2>2. PICK w \in FsmRegs(B) : /\ w = [st EXCEPT !.cnt = f.cnt + 1] /\ Keeps(w, st)
                                /\ w.state = st.state /\ w.cnt = f.cnt + 1
    BY <2>1, ToCount
  <2>3. f' = MiiStep(w)
    BY <1>2, <1>3, <1>4, <1>7, <2>2 DEF PreambleStep
  <2>4. QED
    BY <1>1, <1>2, <1>3, <1>7, <2>2, <2>3, HandsAndGoes
<1>8. QED
  BY <1>5, <1>6, <1>7

\* TXSFD_D5 hands over the delimiter.
LEMMA SfdMoves ==
    ASSUME FsmTyped, FsmClock, f.state = "TXSFD_D5"
    PROVE  /\ FsmTyped' /\ Ticks /\ Unread /\ NoCrc
           /\ ~ f.mii_strobe => Silent /\ Goes(f.state, f.cnt)
           /\ f.mii_strobe => Hands(Sfd) /\ Goes("TXDATA", 0)
<1> DEFINE B == {f.t_dt, Sfd}
<1>1. f \in FsmRegs(B) /\ Sfd \in B
  BY DEF FsmTyped, FsmRegs
<1> HIDE DEF B
<1>2. PICK calm \in FsmRegs(B) : /\ calm = Quiescent /\ (calm.mii_strobe <=> f.mii_strobe)
  BY <1>1, QuiescentIs
<1>3. PICK st \in FsmRegs(B) : st = Strobe(calm, Sfd)
  BY <1>1, StrobeIs
<1>4. f' = MiiStep(SfdStep(calm))
  BY <1>2, FsmIs
<1>5. CASE ~ f.mii_strobe
  <2>1. f' = MiiStep(Quiescent)
    BY <1>2, <1>4, <1>5 DEF SfdStep
  <2>2. QED
    BY <1>1, <1>5, <2>1, Waits
<1>6. CASE f.mii_strobe
  <2>1. PICK w : w = [st EXCEPT !.state = "TXDATA", !.cnt = 0]
    OBVIOUS
  <2>2. w \in FsmRegs(B) /\ Keeps(w, st) /\ w.state = "TXDATA" /\ w.cnt = 0
    BY <2>1 DEF FsmRegs, Keeps, FsmStates
  <2>3. f' = MiiStep(w)
    BY <1>2, <1>3, <1>4, <1>6, <2>1 DEF SfdStep
  <2>4. QED
    BY <1>1, <1>2, <1>3, <1>6, <2>2, <2>3, HandsAndGoes
<1>7. QED
  BY <1>5, <1>6

\* TXFCS hands over four bytes of the CRC.
LEMMA FcsMoves ==
    ASSUME FsmTyped, FsmClock, f.state = "TXFCS"
    PROVE  /\ FsmTyped' /\ Ticks /\ Unread /\ NoCrc
           /\ ~ f.mii_strobe => Silent /\ Goes(f.state, f.cnt)
           /\ f.mii_strobe => /\ Hands(crc.byte)
                              /\ f.cnt = 3 => Goes("IGAP", IGAP_LEN - 1)
                              /\ f.cnt # 3 => Goes(f.state, f.cnt + 1)
<1> DEFINE B == {f.t_dt, crc.byte}
<1>1. f \in FsmRegs(B) /\ crc.byte \in B
  BY DEF FsmTyped, FsmRegs
<1> HIDE DEF B
<1>2. PICK calm \in FsmRegs(B) : /\ calm = Quiescent /\ calm.state = f.state /\ calm.cnt = f.cnt
                              /\ (calm.mii_strobe <=> f.mii_strobe)
  BY <1>1, QuiescentIs
<1>3. PICK st \in FsmRegs(B) : st = Strobe(calm, crc.byte) /\ st.state = calm.state /\ st.cnt = calm.cnt
  BY <1>1, StrobeIs
<1>4. f' = MiiStep(FcsStep(calm, crc.byte))
  BY <1>2, FsmIs
<1>5. CASE ~ f.mii_strobe
  <2>1. f' = MiiStep(Quiescent)
    BY <1>2, <1>4, <1>5 DEF FcsStep
  <2>2. QED
    BY <1>1, <1>5, <2>1, Waits
<1>6. CASE f.mii_strobe /\ f.cnt = 3
  <2>1. IGAP_LEN - 1 \in Nat
    BY TxLinkAssumption
  <2>2. PICK w : w = [st EXCEPT !.state = "IGAP", !.cnt = IGAP_LEN - 1]
    OBVIOUS
  <2>3. w \in FsmRegs(B) /\ Keeps(w, st) /\ w.state = "IGAP" /\ w.cnt = IGAP_LEN - 1
    BY <2>1, <2>2 DEF FsmRegs, Keeps, FsmStates
  <2>4. f' = MiiStep(w)
    BY <1>2, <1>3, <1>4, <1>6, <2>2 DEF FcsStep, FcsLast
  <2>5. FsmTyped' /\ Ticks /\ Unread /\ NoCrc /\ Hands(crc.byte) /\ Goes(w.state, w.cnt)
    BY <1>1, <1>2, <1>3, <2>3, <2>4, HandsAndGoes
  <2>6. QED
    BY <1>6, <2>3, <2>5
<1>7. CASE f.mii_strobe /\ f.cnt # 3
  <2>1. f.cnt + 1 \in Nat
    BY <1>1 DEF FsmRegs
  <2>2. PICK w \in FsmRegs(B) : /\ w = [st EXCEPT !.cnt = f.cnt + 1] /\ Keeps(w, st)
                                /\ w.state = st.state /\ w.cnt = f.cnt + 1
    BY <2>1, ToCount
  <2>3. f' = MiiStep(w)
    BY <1>2, <1>3, <1>4, <1>7, <2>2 DEF FcsStep, FcsLast
  <2>4. QED
    BY <1>1, <1>2, <1>3, <1>7, <2>2, <2>3, HandsAndGoes
<1>8. QED
  BY <1>5, <1>6, <1>7

\* IGAP counts byte times.
LEMMA GapMoves ==
    ASSUME FsmTyped, FsmClock, f.state = "IGAP"
    PROVE  /\ FsmTyped' /\ Ticks /\ Unread /\ NoCrc /\ Silent
           /\ ~ f.mii_strobe => Goes(f.state, f.cnt)
           /\ f.mii_strobe => /\ f.cnt = 0 => Goes("IDLE", f.cnt)
                              /\ f.cnt # 0 => Goes(f.state, f.cnt - 1)
<1> DEFINE B == {f.t_dt}
<1>1. f \in FsmRegs(B)
  BY DEF FsmTyped
<1> HIDE DEF B
<1>2. PICK calm \in FsmRegs(B) : /\ calm = Quiescent /\ calm.state = f.state /\ calm.cnt = f.cnt
                              /\ (calm.mii_strobe <=> f.mii_strobe)
  BY <1>1, QuiescentIs
<1>4. f' = MiiStep(GapStep(calm))
  BY <1>2, FsmIs
<1>5. CASE ~ f.mii_strobe
  <2>1. f' = MiiStep(Quiescent)
    BY <1>2, <1>4, <1>5 DEF GapStep
  <2>2. QED
    BY <1>1, <1>5, <2>1, Waits
<1>6. CASE f.mii_strobe /\ f.cnt = 0
  <2>1. PICK w \in FsmRegs(B) : /\ w = [calm EXCEPT !.state = "IDLE"] /\ Keeps(w, calm)
                                /\ w.state = "IDLE" /\ w.cnt = calm.cnt
    BY States, ToState
  <2>2. f' = MiiStep(w)
    BY <1>2, <1>4, <1>6, <2>1 DEF GapStep, GapOver
  <2>3. FsmTyped' /\ Ticks /\ Unread /\ NoCrc /\ Silent /\ Goes(w.state, w.cnt)
    BY <1>1, <1>2, <2>1, <2>2, OnlyGoes
  <2>4. Goes("IDLE", f.cnt)
    BY <1>2, <2>1, <2>3
  <2>5. QED
    BY <1>6, <2>3, <2>4
<1>7. CASE f.mii_strobe /\ f.cnt # 0
  <2>1. f.cnt - 1 \in Nat
    BY <1>1, <1>7 DEF FsmRegs
  <2>2. PICK w \in FsmRegs(B) : /\ w = [calm EXCEPT !.cnt = f.cnt - 1] /\ Keeps(w, calm)
                                /\ w.state = calm.state /\ w.cnt = f.cnt - 1
    BY <2>1, ToCount
  <2>3. f' = MiiStep(w)
    BY <1>2, <1>4, <1>7, <2>2 DEF GapStep, GapOver
  <2>4. QED
    BY <1>1, <1>2, <1>7, <2>2, <2>3, OnlyGoes
<1>8. QED
  BY <1>5, <1>6, <1>7

\* TXDATA hands over the bytes of a word, then turns to the next word; between two bytes
\* it fetches the word, or ends when all words are sent.
LEMMA DataMoves ==
    ASSUME FsmTyped, FsmClock, f.state = "TXDATA"
    PROVE  /\ FsmTyped' /\ Ticks /\ ~ f'.crc_init
           /\ f.mii_strobe =>
                /\ Hands(DataByte(ram2.rdt, f.cnt)) /\ ~ f'.m_rstrobe /\ ~ f'.fr_done
                /\ f'.crc_calc
                /\ f.cnt < 3 => /\ Goes(f.state, f.cnt + 1)
                                /\ f'.rptr = f.rptr /\ f'.frlen = f.frlen
                /\ ~ (f.cnt < 3) => /\ Goes(f.state, 0)
                                    /\ f'.rptr = (f.rptr + 1) % MEM
                                    /\ f'.frlen = ((f.frlen - 1) + MEM) % MEM
           /\ ~ f.mii_strobe =>
                /\ Silent /\ f'.m_rstrobe /\ f'.rptr = f.rptr /\ f'.frlen = f.frlen
                /\ f.frlen = 0 => Goes("TXFCS", 0) /\ f'.fr_done /\ ~ f'.crc_calc
                /\ f.frlen # 0 => Goes(f.state, f.cnt) /\ ~ f'.fr_done /\ f'.crc_calc
<1> DEFINE byte == DataByte(ram2.rdt, f.cnt)
           B == {f.t_dt, byte}
<1>1. f \in FsmRegs(B) /\ byte \in B
  BY DEF FsmTyped, FsmRegs
<1> HIDE DEF B, byte
<1>2. PICK calm \in FsmRegs(B) :
        /\ calm = Quiescent /\ calm.state = f.state /\ calm.cnt = f.cnt
        /\ calm.rptr = f.rptr /\ calm.frlen = f.frlen
        /\ (calm.mii_strobe <=> f.mii_strobe) /\ calm.mii_cnt = f.mii_cnt /\ calm.t_dt = f.t_dt
        /\ ~ calm.t_str_dt /\ ~ calm.m_rstrobe /\ ~ calm.crc_init /\ ~ calm.fr_done
        /\ (calm.crc_calc <=> f.state = "TXDATA") /\ (calm.t_dv <=> Sending)
  BY <1>1, QuiescentIs
<1>3. PICK st \in FsmRegs(B) : 
             /\ st = Strobe(calm, byte) /\ st.t_dt = byte /\ st.t_str_dt
             /\ st.state = calm.state /\ st.cnt = calm.cnt /\ st.rptr = calm.rptr /\ st.frlen = calm.frlen
             /\ st.mii_cnt = calm.mii_cnt /\ st.mii_strobe = calm.mii_strobe
             /\ st.fr_done = calm.fr_done /\ st.t_dv = calm.t_dv /\ st.m_rstrobe = calm.m_rstrobe
             /\ st.crc_init = calm.crc_init /\ st.crc_calc = calm.crc_calc
  BY <1>1, StrobeIs
<1>4. f' = MiiStep(DataStep(calm, ram2.rdt))
  BY <1>2, FsmIs
<1>5. CASE f.mii_strobe /\ f.cnt < 3
  <2>1. f.cnt + 1 \in Nat
    BY <1>1 DEF FsmRegs
  <2>2. PICK w \in FsmRegs(B) : /\ w = [st EXCEPT !.cnt = f.cnt + 1] /\ Keeps(w, st)
                                /\ w.state = st.state /\ w.cnt = f.cnt + 1
    BY <2>1, ToCount
  <2>3. f' = MiiStep(w)
    BY <1>2, <1>3, <1>4, <1>5, <2>2 DEF DataStep, byte
  <2>4. FsmTyped' /\ Ticks /\ Unread /\ NoCrc /\ Hands(byte) /\ Goes(w.state, w.cnt)
    BY <1>1, <1>2, <1>3, <2>2, <2>3, HandsAndGoes
  <2>5. QED
    BY <1>2, <1>3, <1>5, <2>2, <2>4 DEF Unread, NoCrc, byte
<1>6. CASE f.mii_strobe /\ ~ (f.cnt < 3)
  <2>1. PICK w : w = [st EXCEPT !.rptr = (f.rptr + 1) % MEM,
                                !.frlen = ((f.frlen - 1) + MEM) % MEM, !.cnt = 0]
    OBVIOUS
  <2>2. DataStep(calm, ram2.rdt) = NextWord(st)
    BY <1>2, <1>3, <1>6 DEF DataStep, byte
  <2>12. w = NextWord(st)
    BY <1>2, <1>3, <2>1, Zenon DEF NextWord
  <2>22. f' = MiiStep(w)
    BY <1>4, <2>2, <2>12, Zenon
  <2>3. PICK rp \in Addr, fl \in Addr : rp = (f.rptr + 1) % MEM /\ fl = ((f.frlen - 1) + MEM) % MEM
    BY <1>1, TxLinkAssumption DEF FsmRegs, Addr
  <2>4. w \in FsmRegs(B) /\ w.rptr = rp /\ w.frlen = fl /\ w.cnt = 0
    BY <2>1, <2>3 DEF FsmRegs
  <2>5. /\ w.state = st.state /\ w.mii_cnt = st.mii_cnt /\ w.t_dv = st.t_dv
        /\ w.t_str_dt = st.t_str_dt /\ w.t_dt = st.t_dt
        /\ w.m_rstrobe = st.m_rstrobe /\ w.fr_done = st.fr_done
        /\ w.crc_init = st.crc_init /\ w.crc_calc = st.crc_calc
    BY <2>1 DEF FsmRegs
  <2>6. /\ f' \in FsmRegs(B)
        /\ f'.mii_cnt = (IF w.mii_cnt = 3 THEN 0 ELSE w.mii_cnt + 1)
        /\ (f'.mii_strobe <=> w.mii_cnt = 3)
        /\ f'.state = w.state /\ f'.cnt = w.cnt /\ f'.rptr = w.rptr /\ f'.frlen = w.frlen
        /\ f'.fr_done = w.fr_done /\ f'.t_dv = w.t_dv
        /\ f'.t_str_dt = w.t_str_dt /\ f'.t_dt = w.t_dt
        /\ f'.m_rstrobe = w.m_rstrobe /\ f'.crc_init = w.crc_init /\ f'.crc_calc = w.crc_calc
    BY <2>22, <2>4, MiiStepIs
  <2>7. FsmTyped'
    BY <2>6, OfItsOwn
  <2>8. QED
    BY <1>2, <1>3, <1>6, <2>3, <2>4, <2>5, <2>6, <2>7 DEF Ticks, Hands, Goes, NextMii, byte
<1>7. CASE ~ f.mii_strobe /\ f.frlen = 0
  <2>1. PICK w : w = [calm EXCEPT !.m_rstrobe = TRUE, !.state = "TXFCS", !.cnt = 0,
                               !.crc_calc = FALSE, !.fr_done = TRUE]
    OBVIOUS
  <2>2. f' = MiiStep(w)
    BY <1>2, <1>4, <1>7, <2>1 DEF DataStep
  <2>3. w \in FsmRegs(B) /\ w.m_rstrobe /\ w.state = "TXFCS" /\ w.cnt = 0 /\ ~ w.crc_calc /\ w.fr_done
    BY <2>1 DEF FsmRegs, FsmStates
  <2>4. /\ w.mii_cnt = calm.mii_cnt /\ w.t_dv = calm.t_dv
        /\ w.t_str_dt = calm.t_str_dt /\ w.t_dt = calm.t_dt
        /\ w.rptr = calm.rptr /\ w.frlen = calm.frlen /\ w.crc_init = calm.crc_init
    BY <2>1 DEF FsmRegs
  <2>5. /\ f' \in FsmRegs(B)
        /\ f'.mii_cnt = (IF w.mii_cnt = 3 THEN 0 ELSE w.mii_cnt + 1)
        /\ (f'.mii_strobe <=> w.mii_cnt = 3)
        /\ f'.state = w.state /\ f'.cnt = w.cnt /\ f'.rptr = w.rptr /\ f'.frlen = w.frlen
        /\ f'.fr_done = w.fr_done /\ f'.t_dv = w.t_dv
        /\ f'.t_str_dt = w.t_str_dt /\ f'.t_dt = w.t_dt
        /\ f'.m_rstrobe = w.m_rstrobe /\ f'.crc_init = w.crc_init /\ f'.crc_calc = w.crc_calc
    BY <2>2, <2>3, MiiStepIs
  <2>6. FsmTyped'
    BY <2>5, OfItsOwn
  <2>7. QED
    BY <1>2, <1>7, <2>3, <2>4, <2>5, <2>6 DEF Ticks, Silent, Goes, NextMii
<1>8. CASE ~ f.mii_strobe /\ f.frlen # 0
  <2>1. PICK w : w = [calm EXCEPT !.m_rstrobe = TRUE]
    OBVIOUS
  <2>2. f' = MiiStep(w)
    BY <1>2, <1>4, <1>8, <2>1 DEF DataStep
  <2>3. w \in FsmRegs(B) /\ w.m_rstrobe
    BY <2>1 DEF FsmRegs
  <2>4. /\ w.state = calm.state /\ w.cnt = calm.cnt /\ w.mii_cnt = calm.mii_cnt /\ w.t_dv = calm.t_dv
        /\ w.t_str_dt = calm.t_str_dt /\ w.t_dt = calm.t_dt /\ w.fr_done = calm.fr_done
        /\ w.rptr = calm.rptr /\ w.frlen = calm.frlen
        /\ w.crc_init = calm.crc_init /\ w.crc_calc = calm.crc_calc
    BY <2>1 DEF FsmRegs
  <2>5. /\ f' \in FsmRegs(B)
        /\ f'.mii_cnt = (IF w.mii_cnt = 3 THEN 0 ELSE w.mii_cnt + 1)
        /\ (f'.mii_strobe <=> w.mii_cnt = 3)
        /\ f'.state = w.state /\ f'.cnt = w.cnt /\ f'.rptr = w.rptr /\ f'.frlen = w.frlen
        /\ f'.fr_done = w.fr_done /\ f'.t_dv = w.t_dv
        /\ f'.t_str_dt = w.t_str_dt /\ f'.t_dt = w.t_dt
        /\ f'.m_rstrobe = w.m_rstrobe /\ f'.crc_init = w.crc_init /\ f'.crc_calc = w.crc_calc
    BY <2>2, <2>3, MiiStepIs
  <2>6. FsmTyped'
    BY <2>5, OfItsOwn
  <2>7. QED
    BY <1>2, <1>8, <2>3, <2>4, <2>5, <2>6 DEF Ticks, Silent, Goes, NextMii
<1>9. QED
  BY <1>5, <1>6, <1>7, <1>8

\* IDLE takes the descriptor it is shown and starts.
LEMMA IdleMoves ==
    ASSUME FsmTyped, FsmClock, f.state = "IDLE",
           pf1.tag \in Descriptor
    PROVE  /\ FsmTyped' /\ ~ f'.m_rstrobe /\ ~ f'.fr_done /\ f'.crc_init /\ ~ f'.crc_calc
           /\ pf1.empty => Ticks /\ Silent /\ Goes(f.state, f.cnt)
           /\ ~ pf1.empty =>
                /\ f'.mii_cnt = 1 /\ ~ f'.mii_strobe /\ f'.t_dv
                /\ Hands(Preamble) /\ Goes("TXPREAMBLE", 0)
                /\ f'.rptr = pf1.tag.ptr /\ f'.frlen = pf1.tag.len
<1> DEFINE B == {f.t_dt, Preamble}
<1>1. f \in FsmRegs(B) /\ Preamble \in B
  BY DEF FsmTyped, FsmRegs
<1> HIDE DEF B
<1>2. PICK calm \in FsmRegs(B) :
        /\ calm = Quiescent /\ calm.state = f.state /\ calm.cnt = f.cnt
        /\ (calm.mii_strobe <=> f.mii_strobe) /\ calm.mii_cnt = f.mii_cnt /\ calm.t_dt = f.t_dt
        /\ ~ calm.t_str_dt /\ ~ calm.m_rstrobe /\ ~ calm.crc_init /\ ~ calm.fr_done
        /\ (calm.crc_calc <=> f.state = "TXDATA") /\ (calm.t_dv <=> Sending)
  BY <1>1, QuiescentIs
<1>3. PICK st \in FsmRegs(B) : 
             /\ st = Strobe(calm, Preamble) /\ st.t_dt = Preamble /\ st.t_str_dt
             /\ st.fr_done = calm.fr_done /\ st.m_rstrobe = calm.m_rstrobe /\ st.crc_calc = calm.crc_calc
  BY <1>1, StrobeIs
<1>4. f' = MiiStep(IdleStep(calm, pf1.empty, pf1.tag.len, pf1.tag.ptr))
  BY <1>2, FsmIs
<1>5. CASE pf1.empty
  <2>1. PICK w : w = [calm EXCEPT !.crc_init = TRUE]
    OBVIOUS
  <2>2. f' = MiiStep(w)
    BY <1>4, <1>5, <2>1 DEF IdleStep
  <2>3. w \in FsmRegs(B) /\ w.crc_init
    BY <2>1 DEF FsmRegs
  <2>4. /\ w.state = calm.state /\ w.cnt = calm.cnt /\ w.mii_cnt = calm.mii_cnt /\ w.t_dv = calm.t_dv
        /\ w.t_str_dt = calm.t_str_dt /\ w.t_dt = calm.t_dt
        /\ w.m_rstrobe = calm.m_rstrobe /\ w.fr_done = calm.fr_done /\ w.crc_calc = calm.crc_calc
    BY <2>1 DEF FsmRegs
  <2>5. /\ f' \in FsmRegs(B)
        /\ f'.mii_cnt = (IF w.mii_cnt = 3 THEN 0 ELSE w.mii_cnt + 1)
        /\ (f'.mii_strobe <=> w.mii_cnt = 3)
        /\ f'.state = w.state /\ f'.cnt = w.cnt
        /\ f'.fr_done = w.fr_done /\ f'.t_dv = w.t_dv
        /\ f'.t_str_dt = w.t_str_dt /\ f'.t_dt = w.t_dt
        /\ f'.m_rstrobe = w.m_rstrobe /\ f'.crc_init = w.crc_init /\ f'.crc_calc = w.crc_calc
    BY <2>2, <2>3, MiiStepIs
  <2>6. FsmTyped'
    BY <2>5, OfItsOwn
  <2>7. QED
    BY <1>2, <1>5, <2>3, <2>4, <2>5, <2>6 DEF Ticks, Silent, Goes, NextMii
<1>6. CASE ~ pf1.empty
  <2>1. PICK v : v = [st EXCEPT !.crc_init = TRUE, !.rptr = pf1.tag.ptr, !.frlen = pf1.tag.len]
    OBVIOUS
  <2>2. PICK x : x = [v EXCEPT !.state = "TXPREAMBLE", !.cnt = 0]
    OBVIOUS
  <2>12. PICK w : w = [x EXCEPT !.t_dv = TRUE, !.mii_cnt = 0]
    OBVIOUS
  <2>3. f' = MiiStep(w)
    BY <1>3, <1>4, <1>6, <2>1, <2>2, <2>12 DEF IdleStep
  <2>4. /\ v \in FsmRegs(B) /\ v.crc_init /\ v.rptr = pf1.tag.ptr /\ v.frlen = pf1.tag.len
        /\ v.t_str_dt = st.t_str_dt /\ v.t_dt = st.t_dt
        /\ v.m_rstrobe = st.m_rstrobe /\ v.fr_done = st.fr_done /\ v.crc_calc = st.crc_calc
    BY <2>1 DEF FsmRegs, Descriptor
  <2>15. /\ x \in FsmRegs(B) /\ x.state = "TXPREAMBLE" /\ x.cnt = 0
         /\ x.crc_init = v.crc_init /\ x.rptr = v.rptr /\ x.frlen = v.frlen
         /\ x.t_str_dt = v.t_str_dt /\ x.t_dt = v.t_dt
         /\ x.m_rstrobe = v.m_rstrobe /\ x.fr_done = v.fr_done /\ x.crc_calc = v.crc_calc
    BY <2>2, <2>4 DEF FsmRegs, FsmStates
  <2>5. /\ w \in FsmRegs(B) /\ w.state = "TXPREAMBLE" /\ w.cnt = 0 /\ w.t_dv /\ w.mii_cnt = 0
    <3>1. x \in FsmRegs(B)
      BY <2>15
    <3>2. w \in FsmRegs(B)
      <4>1. PICK y : y = [x EXCEPT !.t_dv = TRUE]
        OBVIOUS
      <4>2. y \in FsmRegs(B)
        BY <3>1, <4>1 DEF FsmRegs
      <4>3. w = [y EXCEPT !.mii_cnt = 0]
        BY <2>12, <4>1, Zenon
      <4>4. PICK z \in 0 .. 3 : z = 0
        OBVIOUS
      <4>5. w = [y EXCEPT !.mii_cnt = z]
        BY <4>3, <4>4, Zenon
      <4>6. QED
        BY <4>2, <4>5 DEF FsmRegs
    <3>3. w.state = x.state /\ w.cnt = x.cnt /\ w.t_dv /\ w.mii_cnt = 0
      BY <2>12, <3>1 DEF FsmRegs
    <3>4. QED
      BY <2>15, <3>2, <3>3
  <2>6. /\ w.crc_init = v.crc_init /\ w.rptr = v.rptr /\ w.frlen = v.frlen
        /\ w.t_str_dt = v.t_str_dt /\ w.t_dt = v.t_dt
        /\ w.m_rstrobe = v.m_rstrobe /\ w.fr_done = v.fr_done /\ w.crc_calc = v.crc_calc
    BY <2>12, <2>15 DEF FsmRegs
  <2>7. /\ f' \in FsmRegs(B)
        /\ f'.mii_cnt = (IF w.mii_cnt = 3 THEN 0 ELSE w.mii_cnt + 1)
        /\ (f'.mii_strobe <=> w.mii_cnt = 3)
        /\ f'.state = w.state /\ f'.cnt = w.cnt /\ f'.rptr = w.rptr /\ f'.frlen = w.frlen
        /\ f'.fr_done = w.fr_done /\ f'.t_dv = w.t_dv
        /\ f'.t_str_dt = w.t_str_dt /\ f'.t_dt = w.t_dt
        /\ f'.m_rstrobe = w.m_rstrobe /\ f'.crc_init = w.crc_init /\ f'.crc_calc = w.crc_calc
    BY <2>3, <2>5, MiiStepIs
  <2>8. FsmTyped'
    BY <2>7, OfItsOwn
  <2>9. QED
    BY <1>2, <1>3, <1>6, <2>4, <2>5, <2>6, <2>7, <2>8 DEF Hands, Goes
<1>7. QED
  BY <1>5, <1>6

----------------------------------------------------------------------------
(* The pace of the FSM and of the serialiser                                *)

\* The end of a frame: the FSM is past its data.
Ending == f.state \in {"TXFCS", "IGAP"}

\* ref_clk edges since the serialiser took the byte in t_dt; -1 before.
Phase == IF f.mii_cnt = 0 THEN 2 ELSE f.mii_cnt - 2

\* The first byte of a frame is in t_dt and not yet taken; the last byte of the FCS is.
First == f.state = "TXPREAMBLE" /\ f.cnt = 0 /\ f.mii_cnt = 1
LastByte == f.state = "IGAP" /\ f.cnt = IGAP_LEN - 1

RmiiTyped == s \in [en : BOOLEAN, byte : {s.byte}, shifts : 0 .. 4, dv : 0 .. 4]

\* The FSM hands over a byte every four edges, when the divider says so.
Paced ==
    /\ f.mii_strobe => f.mii_cnt = 0
    /\ f.state # "IDLE" => (f.mii_strobe <=> f.mii_cnt = 0)
    /\ f.state = "IDLE" => f.cnt = 0
    /\ f.state = "TXPREAMBLE" => f.cnt \in 0 .. 5
    /\ f.state = "TXSFD_D5" => f.cnt = 5
    /\ f.state \in {"TXDATA", "TXFCS"} => f.cnt \in 0 .. 3
    /\ f.state = "IGAP" => f.cnt \in 0 .. IGAP_LEN - 1
    /\ f.state = "TXFCS" /\ f.cnt = 0 => f.mii_cnt # 1
    /\ f.state = "TXDATA" /\ f.frlen = 0 => f.cnt = 0 /\ f.mii_cnt = 1
    /\ f.t_str_dt <=> (Sending \/ LastByte) /\ f.mii_cnt = 1
    /\ f.t_dv <=> Sending \/ (LastByte /\ f.mii_cnt = 1)
    /\ f.fr_done <=> f.state = "TXFCS" /\ f.cnt = 0 /\ f.mii_cnt = 2

\* The serialiser is busy from the edge after the first byte to the end of the last,
\* in step with the divider.
Serial ==
    /\ s.en <=> \/ Sending /\ ~ First
                \/ LastByte
                \/ f.state = "IGAP" /\ f.cnt = IGAP_LEN - 2 /\ f.mii_cnt = 1
                \/ f.state = "IDLE" /\ s.en
    /\ s.en /\ f.state = "IDLE" => IGAP_LEN = 1 /\ f.mii_cnt = 1
    /\ s.en => /\ s.shifts = IF f.mii_cnt = 1 THEN 3 ELSE Phase
               /\ s.dv = 4 - s.shifts

\* How long the wires have been quiet.
Quiet ==
    /\ low \in 0 .. 4 * IGAP_LEN
    /\ ~ s.en /\ f.state = "IGAP" => low >= 4 * (IGAP_LEN - 2 - f.cnt) + Phase
    /\ ~ s.en /\ f.state = "IDLE" => low >= 4 * IGAP_LEN - 5
    /\ ~ s.en /\ f.state = "TXPREAMBLE" => low >= 4 * IGAP_LEN - 4

RefInv == FsmTyped /\ RmiiTyped /\ Paced /\ Serial /\ Quiet

\* The ranges of the registers.
LEMMA FsmRanges ==
    ASSUME FsmTyped
    PROVE  /\ f.state \in FsmStates /\ f.cnt \in Nat /\ f.mii_cnt \in 0 .. 3
           /\ f.rptr \in Addr /\ f.frlen \in Addr /\ f.mii_strobe \in BOOLEAN
           /\ f.t_dv \in BOOLEAN /\ f.t_str_dt \in BOOLEAN /\ f.fr_done \in BOOLEAN
           /\ f.m_rstrobe \in BOOLEAN /\ f.crc_init \in BOOLEAN /\ f.crc_calc \in BOOLEAN
BY DEF FsmTyped, FsmRegs

RmiiClock == s' = RmiiStep(s, FALSE, f.t_dv, f.t_str_dt, f.t_dt)

\* What an edge does to the serialiser.
LEMMA RmiiIs ==
    ASSUME RmiiTyped, f.t_dv \in BOOLEAN, RmiiClock
    PROVE  /\ RmiiTyped'
           /\ f.t_str_dt /\ (s.en \/ f.t_dv) =>
                /\ s'.byte = f.t_dt /\ s'.shifts = 0 /\ s'.dv = 4 /\ s'.en
           /\ ~ s.en /\ ~ (f.t_str_dt /\ f.t_dv) => ~ s'.en
           /\ s.en /\ ~ f.t_str_dt =>
                /\ s'.byte = s.byte
                /\ s'.shifts = IF s.shifts < 4 THEN s.shifts + 1 ELSE 4
                /\ s'.dv = IF s.dv > 0 THEN s.dv - 1 ELSE 0
                /\ s'.en <=> f.t_dv \/ s'.dv # 0
<1> DEFINE loaded == [en |-> TRUE, byte |-> f.t_dt, shifts |-> 0, dv |-> 4]
<1>1. CASE ~ s.en /\ f.t_str_dt /\ f.t_dv
  BY <1>1 DEF RmiiClock, RmiiStep, RmiiTyped
<1>2. CASE ~ s.en /\ ~ (f.t_str_dt /\ f.t_dv)
  BY <1>2 DEF RmiiClock, RmiiStep, RmiiTyped
<1>3. CASE s.en /\ f.t_str_dt
  <2>1. s' = [loaded EXCEPT !.en = f.t_dv \/ loaded.dv # 0]
    BY <1>3, Zenon DEF RmiiClock, RmiiStep
  <2>2. loaded.dv # 0
    OBVIOUS
  <2>3. s' = loaded
    BY <2>1, <2>2
  <2>4. s'.en /\ s'.byte = f.t_dt /\ s'.shifts = 0 /\ s'.dv = 4
    BY <2>3
  <2>5. RmiiTyped'
    BY <2>3 DEF RmiiTyped
  <2>6. QED
    BY <1>3, <2>4, <2>5
<1>4. CASE s.en /\ ~ f.t_str_dt
  <2>1. PICK a \in 0 .. 4 : a = IF s.shifts < 4 THEN s.shifts + 1 ELSE 4
    BY DEF RmiiTyped
  <2>2. PICK b \in 0 .. 4 : b = IF s.dv > 0 THEN s.dv - 1 ELSE 0
    BY DEF RmiiTyped
  <2>3. PICK x : x = [s EXCEPT !.shifts = a, !.dv = b]
    OBVIOUS
  <2>4. x.dv = b /\ x.shifts = a /\ x.byte = s.byte /\ x.en = s.en
    BY <2>1, <2>2, <2>3 DEF RmiiTyped
  <2>5. PICK e \in BOOLEAN : e <=> f.t_dv \/ x.dv # 0
    OBVIOUS
  <2>6. (f.t_dv \/ x.dv # 0) = e
    BY <2>5
  <2>7. s' = [x EXCEPT !.en = f.t_dv \/ x.dv # 0]
    BY <1>4, <2>1, <2>2, <2>3, Zenon DEF RmiiClock, RmiiStep
  <2>8. s' = [x EXCEPT !.en = e]
    BY <2>6, <2>7, Zenon
  <2>9. s'.en = e /\ s'.byte = s.byte /\ s'.shifts = a /\ s'.dv = b
    BY <2>1, <2>2, <2>3, <2>8 DEF RmiiTyped
  <2>10. RmiiTyped'
    BY <2>1, <2>2, <2>3, <2>8 DEF RmiiTyped
  <2>11. QED
    BY <1>4, <2>1, <2>2, <2>4, <2>5, <2>9, <2>10
<1>5. QED
  BY <1>1, <1>2, <1>3, <1>4 DEF RmiiTyped

\* The six states.
LEMMA InSomeState ==
    ASSUME FsmTyped
    PROVE  f.state = "IDLE" \/ f.state = "TXPREAMBLE" \/ f.state = "TXSFD_D5"
           \/ f.state = "TXDATA" \/ f.state = "TXFCS" \/ f.state = "IGAP"
BY FsmRanges DEF FsmStates

\* What every edge does: the FSM goes on, the pace is kept.
LEMMA PacedAfter ==
    ASSUME FsmTyped, Paced, FsmClock, pf1.tag \in Descriptor
    PROVE  FsmTyped' /\ Paced'
<1> USE FsmRanges, TxLinkAssumption
<1>1. CASE f.state = "IDLE"
  <2>1. /\ FsmTyped' /\ ~ f'.m_rstrobe /\ ~ f'.fr_done /\ f'.crc_init /\ ~ f'.crc_calc
        /\ pf1.empty => Ticks /\ Silent /\ Goes(f.state, f.cnt)
        /\ ~ pf1.empty =>
             /\ f'.mii_cnt = 1 /\ ~ f'.mii_strobe /\ f'.t_dv
             /\ Hands(Preamble) /\ Goes("TXPREAMBLE", 0)
    BY <1>1, IdleMoves
  <2>2. Paced'
    BY <1>1, <2>1 DEF Paced, Ticks, Silent, Goes, Hands, NextMii, Sending, Reading, LastByte
  <2>3. QED
    BY <2>1, <2>2
<1>2. CASE f.state = "TXPREAMBLE"
  <2>1. /\ FsmTyped' /\ Ticks /\ Unread
        /\ ~ f.mii_strobe => Silent /\ Goes(f.state, f.cnt)
        /\ f.mii_strobe => /\ Hands(Preamble)
                           /\ f.cnt = 5 => Goes("TXSFD_D5", f.cnt)
                           /\ f.cnt # 5 => Goes(f.state, f.cnt + 1)
    BY <1>2, PreambleMoves
  <2>2. Paced'
    BY <1>2, <2>1 DEF Paced, Ticks, Silent, Goes, Hands, NextMii, Sending, Reading, LastByte, Unread
  <2>3. QED
    BY <2>1, <2>2
<1>3. CASE f.state = "TXSFD_D5"
  <2>1. /\ FsmTyped' /\ Ticks /\ Unread
        /\ ~ f.mii_strobe => Silent /\ Goes(f.state, f.cnt)
        /\ f.mii_strobe => Hands(Sfd) /\ Goes("TXDATA", 0)
    BY <1>3, SfdMoves
  <2>2. Paced'
    BY <1>3, <2>1 DEF Paced, Ticks, Silent, Goes, Hands, NextMii, Sending, Reading, LastByte, Unread
  <2>3. QED
    BY <2>1, <2>2
<1>4. CASE f.state = "TXDATA"
  <2>1. /\ FsmTyped' /\ Ticks
        /\ f.mii_strobe =>
             /\ f'.t_str_dt /\ ~ f'.fr_done
             /\ f.cnt < 3 => Goes(f.state, f.cnt + 1) /\ f'.frlen = f.frlen
             /\ ~ (f.cnt < 3) => Goes(f.state, 0)
        /\ ~ f.mii_strobe =>
             /\ ~ f'.t_str_dt /\ f'.frlen = f.frlen
             /\ f.frlen = 0 => Goes("TXFCS", 0) /\ f'.fr_done
             /\ f.frlen # 0 => Goes(f.state, f.cnt) /\ ~ f'.fr_done
    BY <1>4, DataMoves DEF Hands, Silent
  <2>2. Paced'
    BY <1>4, <2>1 DEF Paced, Ticks, Goes, NextMii, Sending, Reading, LastByte
  <2>3. QED
    BY <2>1, <2>2
<1>5. CASE f.state = "TXFCS"
  <2>1. /\ FsmTyped' /\ Ticks /\ Unread
        /\ ~ f.mii_strobe => Silent /\ Goes(f.state, f.cnt)
        /\ f.mii_strobe => /\ f'.t_str_dt
                           /\ f.cnt = 3 => Goes("IGAP", IGAP_LEN - 1)
                           /\ f.cnt # 3 => Goes(f.state, f.cnt + 1)
    BY <1>5, FcsMoves DEF Hands
  <2>2. Paced'
    BY <1>5, <2>1 DEF Paced, Ticks, Silent, Goes, NextMii, Sending, Reading, LastByte, Unread
  <2>3. QED
    BY <2>1, <2>2
<1>6. CASE f.state = "IGAP"
  <2>1. /\ FsmTyped' /\ Ticks /\ Unread /\ Silent
        /\ ~ f.mii_strobe => Goes(f.state, f.cnt)
        /\ f.mii_strobe => /\ f.cnt = 0 => Goes("IDLE", f.cnt)
                           /\ f.cnt # 0 => Goes(f.state, f.cnt - 1)
    BY <1>6, GapMoves
  <2>2. Paced'
    BY <1>6, <2>1 DEF Paced, Ticks, Silent, Goes, NextMii, Sending, Reading, LastByte, Unread
  <2>3. QED
    BY <2>1, <2>2
<1>7. QED
  BY <1>1, <1>2, <1>3, <1>4, <1>5, <1>6, InSomeState

\* The same edge in short: where it goes, and how the divider moves.
LEMMA Went ==
    ASSUME FsmTyped, Paced, FsmClock, pf1.tag \in Descriptor
    PROVE  /\ f.state = "IDLE" => /\ pf1.empty => Goes("IDLE", 0) /\ f'.mii_cnt = NextMii
                                  /\ ~ pf1.empty => Goes("TXPREAMBLE", 0) /\ f'.mii_cnt = 1
           /\ f.state # "IDLE" => f'.mii_cnt = NextMii
           /\ f.state \notin {"IDLE", "TXDATA"} /\ f.mii_cnt # 0 => Goes(f.state, f.cnt)
           /\ f.state = "TXPREAMBLE" /\ f.mii_cnt = 0 =>
                IF f.cnt = 5 THEN Goes("TXSFD_D5", 5) ELSE Goes("TXPREAMBLE", f.cnt + 1)
           /\ f.state = "TXSFD_D5" /\ f.mii_cnt = 0 => Goes("TXDATA", 0)
           /\ f.state = "TXDATA" /\ f.mii_cnt = 0 => Goes("TXDATA", IF f.cnt < 3 THEN f.cnt + 1 ELSE 0)
           /\ f.state = "TXDATA" /\ f.mii_cnt # 0 /\ f.frlen # 0 => Goes("TXDATA", f.cnt)
           /\ f.state = "TXDATA" /\ f.mii_cnt # 0 /\ f.frlen = 0 => Goes("TXFCS", 0)
           /\ f.state = "TXFCS" /\ f.mii_cnt = 0 =>
                IF f.cnt = 3 THEN Goes("IGAP", IGAP_LEN - 1) ELSE Goes("TXFCS", f.cnt + 1)
           /\ f.state = "IGAP" /\ f.mii_cnt = 0 =>
                IF f.cnt = 0 THEN Goes("IDLE", 0) ELSE Goes("IGAP", f.cnt - 1)
<1> USE FsmRanges DEF Ticks, Paced
<1>1. CASE f.state = "IDLE"
  BY <1>1, IdleMoves
<1>2. CASE f.state = "TXPREAMBLE"
  BY <1>2, PreambleMoves
<1>3. CASE f.state = "TXSFD_D5"
  BY <1>3, SfdMoves
<1>4. CASE f.state = "TXDATA"
  <2>1. /\ Ticks /\ f.cnt \in Nat
        /\ f.mii_strobe => /\ f.cnt < 3 => Goes(f.state, f.cnt + 1)
                           /\ ~ (f.cnt < 3) => Goes(f.state, 0)
        /\ ~ f.mii_strobe => /\ f.frlen = 0 => Goes("TXFCS", 0)
                             /\ f.frlen # 0 => Goes(f.state, f.cnt)
    BY <1>4, DataMoves
  <2>2. QED
    BY <1>4, <2>1
<1>5. CASE f.state = "TXFCS"
  BY <1>5, FcsMoves
<1>6. CASE f.state = "IGAP"
  BY <1>6, GapMoves
<1>7. QED
  BY <1>1, <1>2, <1>3, <1>4, <1>5, <1>6, InSomeState

\* The serialiser after an edge.
LEMMA SerialAfter ==
    ASSUME FsmTyped, RmiiTyped, Paced, Serial, FsmClock, RmiiClock, pf1.tag \in Descriptor
    PROVE  RmiiTyped' /\ Serial'
<1> USE TxLinkAssumption
<1>1. /\ f.cnt \in Nat /\ f.mii_cnt \in 0 .. 3 /\ f.t_dv \in BOOLEAN /\ f.frlen \in Addr
      /\ f.t_str_dt \in BOOLEAN
  BY FsmRanges
<1>2. s.en \in BOOLEAN /\ s.shifts \in 0 .. 4 /\ s.dv \in 0 .. 4
  BY DEF RmiiTyped
<1>3. /\ RmiiTyped'
      /\ f.t_str_dt /\ (s.en \/ f.t_dv) =>
           /\ s'.byte = f.t_dt /\ s'.shifts = 0 /\ s'.dv = 4 /\ s'.en
      /\ ~ s.en /\ ~ (f.t_str_dt /\ f.t_dv) => ~ s'.en
      /\ s.en /\ ~ f.t_str_dt =>
           /\ s'.shifts = IF s.shifts < 4 THEN s.shifts + 1 ELSE 4
           /\ s'.dv = IF s.dv > 0 THEN s.dv - 1 ELSE 0
           /\ s'.en <=> f.t_dv \/ s'.dv # 0
  BY <1>1, RmiiIs
<1>4. /\ f.state = "IDLE" => /\ pf1.empty => Goes("IDLE", 0) /\ f'.mii_cnt = NextMii
                             /\ ~ pf1.empty => Goes("TXPREAMBLE", 0) /\ f'.mii_cnt = 1
      /\ f.state # "IDLE" => f'.mii_cnt = NextMii
      /\ f.state \notin {"IDLE", "TXDATA"} /\ f.mii_cnt # 0 => Goes(f.state, f.cnt)
      /\ f.state = "TXPREAMBLE" /\ f.mii_cnt = 0 =>
           IF f.cnt = 5 THEN Goes("TXSFD_D5", 5) ELSE Goes("TXPREAMBLE", f.cnt + 1)
      /\ f.state = "TXSFD_D5" /\ f.mii_cnt = 0 => Goes("TXDATA", 0)
      /\ f.state = "TXDATA" /\ f.mii_cnt = 0 => Goes("TXDATA", IF f.cnt < 3 THEN f.cnt + 1 ELSE 0)
      /\ f.state = "TXDATA" /\ f.mii_cnt # 0 /\ f.frlen # 0 => Goes("TXDATA", f.cnt)
      /\ f.state = "TXDATA" /\ f.mii_cnt # 0 /\ f.frlen = 0 => Goes("TXFCS", 0)
      /\ f.state = "TXFCS" /\ f.mii_cnt = 0 =>
           IF f.cnt = 3 THEN Goes("IGAP", IGAP_LEN - 1) ELSE Goes("TXFCS", f.cnt + 1)
      /\ f.state = "IGAP" /\ f.mii_cnt = 0 =>
           IF f.cnt = 0 THEN Goes("IDLE", 0) ELSE Goes("IGAP", f.cnt - 1)
  BY Went
<1>5. CASE f.state = "IDLE"
  BY <1>1, <1>2, <1>3, <1>4, <1>5
  DEF Paced, Serial, Phase, Sending, Reading, First, LastByte, Goes, NextMii
<1>6. CASE f.state = "TXPREAMBLE"
  BY <1>1, <1>2, <1>3, <1>4, <1>6
  DEF Paced, Serial, Phase, Sending, Reading, First, LastByte, Goes, NextMii
<1>7. CASE f.state = "TXSFD_D5"
  BY <1>1, <1>2, <1>3, <1>4, <1>7
  DEF Paced, Serial, Phase, Sending, Reading, First, LastByte, Goes, NextMii
<1>8. CASE f.state = "TXDATA"
  BY <1>1, <1>2, <1>3, <1>4, <1>8
  DEF Paced, Serial, Phase, Sending, Reading, First, LastByte, Goes, NextMii
<1>9. CASE f.state = "TXFCS"
  BY <1>1, <1>2, <1>3, <1>4, <1>9
  DEF Paced, Serial, Phase, Sending, Reading, First, LastByte, Goes, NextMii
<1>10. CASE f.state = "IGAP"
  BY <1>1, <1>2, <1>3, <1>4, <1>10
  DEF Paced, Serial, Phase, Sending, Reading, First, LastByte, Goes, NextMii
<1>11. QED
  BY <1>3, <1>5, <1>6, <1>7, <1>8, <1>9, <1>10, InSomeState

\* The quiet of the wires after an edge, and how long it has been when they wake.
LEMMA QuietAfter ==
    ASSUME FsmTyped, RmiiTyped, Paced, Serial, Quiet, FsmClock, RmiiClock, pf1.tag \in Descriptor,
           Phy
    PROVE  /\ Quiet'
           /\ ~ s.en /\ s'.en => low + 1 >= 4 * (IGAP_LEN - 1) + 1
<1> USE TxLinkAssumption
<1>1. f.cnt \in Nat /\ f.mii_cnt \in 0 .. 3 /\ f.t_dv \in BOOLEAN /\ f.t_str_dt \in BOOLEAN
  BY FsmRanges
<1>2. s.en \in BOOLEAN /\ RmiiTyped'
  BY <1>1, RmiiIs DEF RmiiTyped
<1>3. FsmTyped' /\ Paced' /\ Serial'
  BY PacedAfter, SerialAfter
<1>4. f'.cnt \in Nat /\ f'.mii_cnt \in 0 .. 3 /\ s'.en \in BOOLEAN
  BY <1>2, <1>3 DEF FsmTyped, FsmRegs, RmiiTyped
<1>5. low' = IF s.en THEN 0 ELSE IF low < 4 * IGAP_LEN THEN low + 1 ELSE low
  BY DEF Phy
<1>6. low' \in 0 .. 4 * IGAP_LEN /\ low \in 0 .. 4 * IGAP_LEN
  BY <1>5 DEF Quiet
<1>7. /\ f.state = "IDLE" => /\ pf1.empty => Goes("IDLE", 0) /\ f'.mii_cnt = NextMii
                             /\ ~ pf1.empty => Goes("TXPREAMBLE", 0) /\ f'.mii_cnt = 1
      /\ f.state # "IDLE" => f'.mii_cnt = NextMii
      /\ f.state \notin {"IDLE", "TXDATA"} /\ f.mii_cnt # 0 => Goes(f.state, f.cnt)
      /\ f.state = "TXPREAMBLE" /\ f.mii_cnt = 0 =>
           IF f.cnt = 5 THEN Goes("TXSFD_D5", 5) ELSE Goes("TXPREAMBLE", f.cnt + 1)
      /\ f.state = "TXSFD_D5" /\ f.mii_cnt = 0 => Goes("TXDATA", 0)
      /\ f.state = "TXDATA" /\ f.mii_cnt = 0 => Goes("TXDATA", IF f.cnt < 3 THEN f.cnt + 1 ELSE 0)
      /\ f.state = "TXDATA" /\ f.mii_cnt # 0 /\ f.frlen # 0 => Goes("TXDATA", f.cnt)
      /\ f.state = "TXDATA" /\ f.mii_cnt # 0 /\ f.frlen = 0 => Goes("TXFCS", 0)
      /\ f.state = "TXFCS" /\ f.mii_cnt = 0 =>
           IF f.cnt = 3 THEN Goes("IGAP", IGAP_LEN - 1) ELSE Goes("TXFCS", f.cnt + 1)
      /\ f.state = "IGAP" /\ f.mii_cnt = 0 =>
           IF f.cnt = 0 THEN Goes("IDLE", 0) ELSE Goes("IGAP", f.cnt - 1)
  BY Went
<1>8. CASE f.state = "IDLE"
  BY <1>1, <1>2, <1>3, <1>4, <1>5, <1>6, <1>7, <1>8
  DEF Paced, Serial, Quiet, Phase, Sending, Reading, First, LastByte, Goes, NextMii
<1>9. CASE f.state = "TXPREAMBLE"
  BY <1>1, <1>2, <1>3, <1>4, <1>5, <1>6, <1>7, <1>9
  DEF Paced, Serial, Quiet, Phase, Sending, Reading, First, LastByte, Goes, NextMii
<1>10. CASE f.state \in {"TXSFD_D5", "TXDATA", "TXFCS"}
  BY <1>1, <1>2, <1>3, <1>4, <1>5, <1>6, <1>7, <1>10
  DEF Paced, Serial, Quiet, Phase, Sending, Reading, First, LastByte, Goes, NextMii
<1>11. CASE f.state = "IGAP"
  <2>1. f.cnt \in 0 .. IGAP_LEN - 1
    BY <1>11 DEF Paced
  <2>2. s.en => f.cnt = IGAP_LEN - 1 \/ (f.cnt = IGAP_LEN - 2 /\ f.mii_cnt = 1)
    BY <1>11 DEF Serial, Sending, Reading, LastByte
  <2>3. ~ s.en => low >= 4 * (IGAP_LEN - 2 - f.cnt) + Phase /\ f.cnt # IGAP_LEN - 1
    BY <1>11 DEF Serial, Quiet, LastByte
  <2>4. CASE f.mii_cnt # 0
    <3>1. f'.state = "IGAP" /\ f'.cnt = f.cnt /\ f'.mii_cnt = NextMii
      BY <1>7, <1>11, <2>4 DEF Goes
    <3>2. s'.en <=> f.cnt = IGAP_LEN - 1 \/ (f.cnt = IGAP_LEN - 2 /\ f'.mii_cnt = 1)
      BY <1>3, <3>1 DEF Serial, Sending, Reading, LastByte
    <3>3. s'.en => s.en
      BY <1>1, <2>1, <2>3, <2>4, <3>1, <3>2 DEF NextMii
    <3>4. CASE s.en
      BY <1>1, <1>5, <2>1, <2>2, <2>4, <3>1, <3>2, <3>4, <1>6 DEF Quiet, NextMii, Phase
    <3>5. CASE ~ s.en
      <4>1. low' >= 4 * (IGAP_LEN - 2 - f'.cnt) + Phase'
        BY <1>1, <1>5, <1>6, <2>1, <2>3, <2>4, <3>1, <3>5 DEF Phase, NextMii
      <4>2. QED
        BY <1>6, <3>1, <3>3, <3>5, <4>1 DEF Quiet
    <3>6. QED
      BY <1>2, <3>4, <3>5
  <2>5. CASE f.mii_cnt = 0 /\ f.cnt = 0
    <3>1. f'.state = "IDLE"
      BY <1>7, <1>11, <2>5 DEF Goes
    <3>2. CASE s.en
      BY <1>6, <2>1, <2>2, <2>5, <3>1, <3>2 DEF Quiet
    <3>3. CASE ~ s.en
      <4>1. low >= 4 * IGAP_LEN - 6 /\ IGAP_LEN # 1
        BY <2>1, <2>3, <2>5, <3>3 DEF Phase
      <4>2. ~ s'.en
        BY <1>3, <3>1, <4>1 DEF Serial
      <4>3. QED
        BY <1>5, <1>6, <3>1, <3>3, <4>1, <4>2 DEF Quiet
    <3>4. QED
      BY <1>2, <3>2, <3>3
  <2>6. CASE f.mii_cnt = 0 /\ f.cnt # 0
    <3>1. f'.state = "IGAP" /\ f'.cnt = f.cnt - 1 /\ f'.mii_cnt = 1
      BY <1>1, <1>7, <1>11, <2>6 DEF Goes, NextMii
    <3>2. s'.en <=> f'.cnt = IGAP_LEN - 1 \/ f'.cnt = IGAP_LEN - 2
      BY <1>3, <3>1 DEF Serial, Sending, Reading, LastByte
    <3>3. s'.en <=> s.en
      BY <1>1, <2>1, <2>2, <2>3, <2>6, <3>1, <3>2
    <3>4. ~ s.en => low' >= 4 * (IGAP_LEN - 2 - f'.cnt) + Phase'
      BY <1>1, <1>5, <1>6, <2>1, <2>3, <2>6, <3>1 DEF Phase
    <3>5. QED
      BY <1>2, <1>6, <3>1, <3>3, <3>4 DEF Quiet
  <2>7. QED
    BY <2>4, <2>5, <2>6
<1>12. QED
  BY <1>8, <1>9, <1>10, <1>11, InSomeState

----------------------------------------------------------------------------
(* A strobe on its way to clk: t and u are the registers of a transport     *)
(* before and after an edge, done says whether the strobe is on the port,   *)
(* n counts the ref_clk edges since it was, and past says that it no longer *)
(* is; ahead is aheadRef.                                                    *)

Crossing(t, past, n, ahead) ==
    /\ t.strobe_latch \/ t.strobe_tmp1 => past
    /\ t.strobe_latch /\ ~ t.strobe_tmp1 => n <= ahead + 1
    /\ t.strobe_latch /\ t.strobe_tmp1 => ahead = 0 /\ n <= RATIO + 1
    /\ t.strobe_tmp1 => n <= RATIO + 2 + ahead
    /\ t.strobe_tmp1 /\ ~ t.strobe_tmp2 => n <= RATIO + 1 + ahead
    /\ t.strobe_tmp1 => t.dt2 = t.dt_latch

\* The strobe has been given and not yet been taken.
Taking(t) == t.strobe_tmp1 /\ ~ t.strobe_tmp2
OnWay(t, done) == done \/ (t.strobe_latch /\ ~ t.strobe_tmp1) \/ Taking(t)

Bits(t) == t.strobe_latch \in BOOLEAN /\ t.strobe_tmp1 \in BOOLEAN /\ t.strobe_tmp2 \in BOOLEAN

\* What an edge of ref_clk, of clk, and of both does to the registers.
Latches(t, u, done, dt) ==
    /\ u.strobe_latch <=> done \/ (t.strobe_latch /\ ~ t.strobe_tmp1)
    /\ u.dt_latch = IF done THEN dt ELSE t.dt_latch
RefMoves(t, u, done, dt) ==
    /\ Latches(t, u, done, dt)
    /\ (u.strobe_tmp1 <=> t.strobe_tmp1) /\ (u.strobe_tmp2 <=> t.strobe_tmp2) /\ u.dt2 = t.dt2
ClkMoves(t, u) ==
    /\ (u.strobe_latch <=> t.strobe_latch) /\ u.dt_latch = t.dt_latch
    /\ (u.strobe_tmp1 <=> t.strobe_latch) /\ u.dt2 = t.dt_latch
    /\ u.strobe_tmp2 <=> t.strobe_tmp1
BothMove(t, u, done, dt) ==
    /\ Latches(t, u, done, dt)
    /\ u.strobe_tmp2 <=> t.strobe_tmp1
    /\ \/ (u.strobe_tmp1 <=> t.strobe_latch) /\ u.dt2 = t.dt_latch
       \/ (u.strobe_tmp1 <=> u.strobe_latch) /\ u.dt2 = u.dt_latch

\* The registers of a transport, whatever its data.
TransportRegs(D) == [strobe_latch : BOOLEAN, dt_latch : D,
                     strobe_tmp1 : BOOLEAN, strobe_tmp2 : BOOLEAN, dt2 : D]

\* The clk1 edge of a transport, and the edge of both clocks that catches x.
Edge1Of(t, done, dt) == [t EXCEPT !.strobe_latch = done \/ (t.strobe_latch /\ ~ t.strobe_tmp1),
                                  !.dt_latch = IF done THEN dt ELSE t.dt_latch]
Edge2Of(t, latch, data) == [t EXCEPT !.dt2 = data, !.strobe_tmp1 = latch,
                                     !.strobe_tmp2 = t.strobe_tmp1]

\* The clk1 edge.
LEMMA Edge1Is ==
    ASSUME NEW D, NEW t \in TransportRegs(D), NEW done \in BOOLEAN, NEW dt \in D
    PROVE  \E u \in TransportRegs(D) : u = Edge1Of(t, done, dt) /\ RefMoves(t, u, done, dt)
<1>1. PICK a \in BOOLEAN : a = (done \/ (t.strobe_latch /\ ~ t.strobe_tmp1))
  BY DEF TransportRegs
<1>2. PICK d \in D : d = IF done THEN dt ELSE t.dt_latch
  BY DEF TransportRegs
<1>3. PICK u : u = [t EXCEPT !.strobe_latch = a, !.dt_latch = d]
  OBVIOUS
<1>4. u \in TransportRegs(D)
  BY <1>3 DEF TransportRegs
<1>5. u.strobe_latch = a /\ u.dt_latch = d
  BY <1>3 DEF TransportRegs
<1>6. u.strobe_tmp1 = t.strobe_tmp1 /\ u.strobe_tmp2 = t.strobe_tmp2 /\ u.dt2 = t.dt2
  BY <1>3 DEF TransportRegs
<1>7. u = Edge1Of(t, done, dt)
  BY <1>1, <1>2, <1>3, Zenon DEF Edge1Of
<1>8. RefMoves(t, u, done, dt)
  BY <1>1, <1>2, <1>5, <1>6 DEF RefMoves, Latches
<1>9. QED
  BY <1>4, <1>7, <1>8

\* The clk2 edge.
LEMMA Edge2Is ==
    ASSUME NEW D, NEW t \in TransportRegs(D), NEW latch \in BOOLEAN, NEW data \in D
    PROVE  \E u \in TransportRegs(D) :
             /\ u = Edge2Of(t, latch, data)
             /\ u.strobe_latch = t.strobe_latch /\ u.dt_latch = t.dt_latch
             /\ u.strobe_tmp1 = latch /\ u.dt2 = data /\ u.strobe_tmp2 = t.strobe_tmp1
<1>1. PICK a \in BOOLEAN : a = t.strobe_tmp1
  BY DEF TransportRegs
<1>2. PICK u : u = [t EXCEPT !.dt2 = data, !.strobe_tmp1 = latch, !.strobe_tmp2 = a]
  OBVIOUS
<1>3. u \in TransportRegs(D)
  BY <1>2 DEF TransportRegs
<1>4. u.strobe_tmp1 = latch /\ u.strobe_tmp2 = a /\ u.dt2 = data
  BY <1>2 DEF TransportRegs
<1>5. u.strobe_latch = t.strobe_latch /\ u.dt_latch = t.dt_latch
  BY <1>2 DEF TransportRegs
<1>6. u = Edge2Of(t, latch, data)
  BY <1>1, <1>2, Zenon DEF Edge2Of
<1>7. QED
  BY <1>1, <1>3, <1>4, <1>5, <1>6

\* A strobe is taken within the bounds when clk moves alone.
LEMMA CrossingClk ==
    ASSUME NEW t, NEW u, NEW done \in BOOLEAN, NEW past \in BOOLEAN,
           NEW n \in Int, NEW ahead \in 0 .. RATIO,
           ClkMoves(t, u), Bits(t), Crossing(t, past, n, ahead), done => ~ past
    PROVE  /\ Crossing(u, past, n, 0)
           /\ OnWay(u, done) <=> OnWay(t, done) /\ ~ Taking(t)
BY LinkAssumption DEF ClkMoves, Bits, Crossing, OnWay, Taking

\* Edges of ref_clk since fr_done.
Since == Phase + (IF f.state = "TXFCS" THEN 4 * f.cnt ELSE 16 + 4 * (IGAP_LEN - 1 - f.cnt))
Past == Ending /\ ~ f.fr_done

Handshake(t) == Crossing(t, Past, Since, aheadRef)

\* How an edge of ref_clk moves the count, and that fr_done starts it.
LEMMA SinceAfter ==
    ASSUME FsmTyped, Paced, FsmClock, pf1.tag \in Descriptor
    PROVE  /\ Past \in BOOLEAN /\ Past' \in BOOLEAN
           /\ Since \in Int
           /\ f.fr_done => ~ Past /\ Since = 0 /\ Ending
           /\ Ending /\ Since <= 2 * RATIO + 1 => Past' /\ Since' = Since + 1
           /\ f'.fr_done <=> f.state = "TXDATA" /\ f'.state = "TXFCS"
           /\ f'.fr_done => f.state = "TXDATA" /\ f'.state = "TXFCS" /\ Since' = 0
           /\ Past' => Ending
           /\ Since' \in Int
           /\ f'.fr_done \in BOOLEAN /\ f.fr_done \in BOOLEAN
<1> USE TxLinkAssumption, LinkAssumption, TimingAssumption
<1>1. f.cnt \in Nat /\ f.mii_cnt \in 0 .. 3 /\ f.fr_done \in BOOLEAN
  BY FsmRanges
<1>2. FsmTyped' /\ Paced'
  BY PacedAfter
<1>3. f'.cnt \in Nat /\ f'.mii_cnt \in 0 .. 3 /\ f'.fr_done \in BOOLEAN
  BY <1>2 DEF FsmTyped, FsmRegs
<1>4. /\ f.state = "IDLE" => /\ pf1.empty => Goes("IDLE", 0) /\ f'.mii_cnt = NextMii
                             /\ ~ pf1.empty => Goes("TXPREAMBLE", 0) /\ f'.mii_cnt = 1
      /\ f.state # "IDLE" => f'.mii_cnt = NextMii
      /\ f.state \notin {"IDLE", "TXDATA"} /\ f.mii_cnt # 0 => Goes(f.state, f.cnt)
      /\ f.state = "TXPREAMBLE" /\ f.mii_cnt = 0 =>
           IF f.cnt = 5 THEN Goes("TXSFD_D5", 5) ELSE Goes("TXPREAMBLE", f.cnt + 1)
      /\ f.state = "TXSFD_D5" /\ f.mii_cnt = 0 => Goes("TXDATA", 0)
      /\ f.state = "TXDATA" /\ f.mii_cnt = 0 => Goes("TXDATA", IF f.cnt < 3 THEN f.cnt + 1 ELSE 0)
      /\ f.state = "TXDATA" /\ f.mii_cnt # 0 /\ f.frlen # 0 => Goes("TXDATA", f.cnt)
      /\ f.state = "TXDATA" /\ f.mii_cnt # 0 /\ f.frlen = 0 => Goes("TXFCS", 0)
      /\ f.state = "TXFCS" /\ f.mii_cnt = 0 =>
           IF f.cnt = 3 THEN Goes("IGAP", IGAP_LEN - 1) ELSE Goes("TXFCS", f.cnt + 1)
      /\ f.state = "IGAP" /\ f.mii_cnt = 0 =>
           IF f.cnt = 0 THEN Goes("IDLE", 0) ELSE Goes("IGAP", f.cnt - 1)
  BY Went
<1>5. Past \in BOOLEAN /\ Past' \in BOOLEAN
  BY DEF Past
<1>6. Since \in Int
  BY <1>1 DEF Since, Phase
<1>7. f.fr_done => ~ Past /\ Since = 0 /\ Ending
  BY <1>1 DEF Since, Phase, Past, Ending, Paced
<1>8. Ending /\ Since <= 2 * RATIO + 1 => Past' /\ Since' = Since + 1
  <2>1. CASE f.state = "TXFCS"
    <3>1. f.cnt \in 0 .. 3 /\ (f.cnt = 0 => f.mii_cnt # 1)
      BY <2>1 DEF Paced
    <3>2. f'.mii_cnt = NextMii /\ (f.mii_cnt # 0 => f'.state = "TXFCS" /\ f'.cnt = f.cnt)
      BY <1>4, <2>1 DEF Goes
    <3>3. f.mii_cnt = 0 => IF f.cnt = 3 THEN f'.state = "IGAP" /\ f'.cnt = IGAP_LEN - 1
                           ELSE f'.state = "TXFCS" /\ f'.cnt = f.cnt + 1
      BY <1>4, <2>1 DEF Goes
    <3>4. Past'
      BY <1>1, <1>2, <3>1, <3>2, <3>3 DEF Past, Ending, Paced, NextMii
    <3>5. Since' = Since + 1
      BY <1>1, <2>1, <3>1, <3>2, <3>3 DEF Since, Phase, NextMii
    <3>6. QED
      BY <3>4, <3>5
  <2>2. CASE f.state = "IGAP"
    BY <1>1, <1>2, <1>3, <1>4, <2>2 DEF Since, Phase, Past, Ending, Paced, Goes, NextMii
  <2>3. QED
    BY <2>1, <2>2 DEF Ending
<1>9. f'.fr_done => f.state = "TXDATA" /\ f'.state = "TXFCS" /\ Since' = 0
  <2>1. SUFFICES ASSUME f'.fr_done PROVE f.state = "TXDATA" /\ f'.state = "TXFCS" /\ Since' = 0
    OBVIOUS
  <2>2. f'.state = "TXFCS" /\ f'.cnt = 0 /\ f'.mii_cnt = 2
    BY <1>2, <2>1 DEF Paced
  <2>3. f.state = "TXDATA"
    BY <1>1, <1>4, <2>2, InSomeState DEF Goes, NextMii, Paced
  <2>4. QED
    BY <2>2, <2>3 DEF Since, Phase
<1>10. f.state = "TXDATA" /\ f'.state = "TXFCS" => f'.fr_done
  BY <1>1, <1>2, <1>4 DEF Goes, NextMii, Paced
<1>11. Past' => Ending
  BY <1>1, <1>2, <1>4, <1>10, InSomeState DEF Past, Ending, Goes
<1>12. Since' \in Int
  BY <1>3 DEF Since, Phase
<1>13. QED
  BY <1>1, <1>3, <1>5, <1>6, <1>7, <1>8, <1>9, <1>10, <1>11, <1>12

\* The count stands still between the edges of ref_clk.
LEMMA SinceStill ==
    ASSUME FsmTyped, Paced, UNCHANGED f
    PROVE  Since' = Since /\ Past' = Past /\ Ending' = Ending /\ f'.fr_done = f.fr_done
           /\ (f.fr_done => ~ Past) /\ Since \in Int
<1>1. f.cnt \in Nat /\ f.mii_cnt \in 0 .. 3
  BY FsmRanges
<1>2. QED
  BY <1>1, TxLinkAssumption DEF Since, Past, Ending, Phase, Paced

\* The reset input is off.  It may still be on its way to ref_clk, whose side then is at
\* rest, as a reset leaves it: only the registers of pf1 may move.
Running == rst = FALSE
RestOf(byte) ==
    [state |-> "IDLE", cnt |-> 0, rptr |-> 0, frlen |-> 0, fr_done |-> FALSE,
     mii_strobe |-> FALSE, mii_cnt |-> 0, t_dv |-> FALSE, t_str_dt |-> FALSE,
     t_dt |-> byte, m_rstrobe |-> FALSE, crc_init |-> TRUE, crc_calc |-> FALSE]
AtRest ==
    /\ f = RestOf(f.t_dt)
    /\ s = RmiiReset /\ crc = CrcReset /\ pos = 0
    /\ ram2 = [addr |-> 0, rstrobe |-> FALSE, rdt |-> ram2.rdt]
    /\ pf1.empty
    /\ ~ deq.strobe_latch /\ ~ rf.strobe_latch

\* The steps of the clocks then: an edge of both clocks is one of clk alone while ref_clk
\* is in reset.
RefTick == rmii_rst = FALSE /\ RefEdge
BothTick == rmii_rst = FALSE /\ BothEdges
Parked == rmii_rst = TRUE /\ AtRest /\ BothEdges
ClkTick == ClkEdge \/ Parked
Tick == RefTick \/ ClkTick \/ BothTick

\* The crossings keep their types, and what the FSM sees of the FIFO.
PfTyped == pf1 \in [empty : BOOLEAN, tag : Descriptor]
CrossTyped ==
    /\ deq \in TransportRegs({0}) /\ rf \in TransportRegs(Descriptor)
    /\ aheadRef \in 0 .. RATIO /\ aheadClk \in 0 .. RATIO
Handshakes == Handshake(deq) /\ Handshake(rf)

\* A register of booleans.
LEMMA BitsOf ==
    ASSUME NEW D, NEW t \in TransportRegs(D)
    PROVE  Bits(t) /\ t.dt_latch \in D /\ t.dt2 \in D
BY DEF TransportRegs, Bits

\* Whatever the state, the step of it is of the registers' types; IDLE shows an empty
\* queue no byte.
LEMMA StepTyped ==
    ASSUME NEW B, f \in FsmRegs(B), Preamble \in B, Sfd \in B, crc.byte \in B,
           DataByte(ram2.rdt, f.cnt) \in B, pf1.empty \/ pf1.tag \in Descriptor
    PROVE  \E w \in FsmRegs(B) :
             /\ FsmStep(f, TRUE, pf1.empty, pf1.tag.len, pf1.tag.ptr, ram2.rdt, crc.byte)
                  = FsmCleared(MiiStep(w))
             /\ f.state = "IDLE" => /\ ~ w.fr_done /\ ~ w.crc_calc /\ w.crc_init
                                    /\ pf1.empty => ~ w.t_dv /\ ~ w.t_str_dt /\ w.t_dt = f.t_dt
<1>1. PICK calm \in FsmRegs(B) :
             /\ calm = Quiescent /\ calm.state = f.state /\ calm.cnt = f.cnt
             /\ calm.rptr = f.rptr /\ calm.frlen = f.frlen
             /\ (calm.mii_strobe <=> f.mii_strobe) /\ calm.mii_cnt = f.mii_cnt /\ calm.t_dt = f.t_dt
             /\ ~ calm.t_str_dt /\ ~ calm.m_rstrobe /\ ~ calm.crc_init /\ ~ calm.fr_done
             /\ (calm.crc_calc <=> f.state = "TXDATA") /\ (calm.t_dv <=> Sending)
  BY QuiescentIs
<1> DEFINE step == FsmStep(f, TRUE, pf1.empty, pf1.tag.len, pf1.tag.ptr, ram2.rdt, crc.byte)
<1>2. /\ f.state = "IDLE" =>
           step = FsmCleared(MiiStep(IdleStep(calm, pf1.empty, pf1.tag.len, pf1.tag.ptr)))
      /\ f.state = "TXPREAMBLE" => step = FsmCleared(MiiStep(PreambleStep(calm)))
      /\ f.state = "TXSFD_D5" => step = FsmCleared(MiiStep(SfdStep(calm)))
      /\ f.state = "TXDATA" => step = FsmCleared(MiiStep(DataStep(calm, ram2.rdt)))
      /\ f.state = "TXFCS" => step = FsmCleared(MiiStep(FcsStep(calm, crc.byte)))
      /\ f.state = "IGAP" => step = FsmCleared(MiiStep(GapStep(calm)))
  BY <1>1 DEF FsmStep, Quiescent
<1> HIDE DEF step
<1>3. calm.cnt + 1 \in Nat /\ IGAP_LEN - 1 \in Nat /\ calm.cnt \in Nat
  BY <1>1, TxLinkAssumption DEF FsmRegs
<1>4. CASE f.state = "IDLE" /\ pf1.empty
  <2>1. PICK w : w = [calm EXCEPT !.crc_init = TRUE]
    OBVIOUS
  <2>2. /\ w \in FsmRegs(B) /\ w.crc_init /\ w.t_dv = calm.t_dv /\ w.t_str_dt = calm.t_str_dt
        /\ w.t_dt = calm.t_dt /\ w.fr_done = calm.fr_done /\ w.crc_calc = calm.crc_calc
    BY <2>1 DEF FsmRegs
  <2>3. step = FsmCleared(MiiStep(w))
    BY <1>2, <1>4, <2>1 DEF IdleStep
  <2>4. ~ Sending
    BY <1>4 DEF Sending, Reading
  <2>5. QED
    BY <1>1, <1>4, <2>2, <2>3, <2>4 DEF step
<1>5. CASE f.state = "IDLE" /\ ~ pf1.empty
  <2>1. PICK st \in FsmRegs(B) : 
             /\ st = Strobe(calm, Preamble)
             /\ st.fr_done = calm.fr_done /\ st.crc_calc = calm.crc_calc
    BY StrobeIs
  <2>2. PICK v : v = [st EXCEPT !.crc_init = TRUE, !.rptr = pf1.tag.ptr, !.frlen = pf1.tag.len]
    OBVIOUS
  <2>3. PICK x : x = [v EXCEPT !.state = "TXPREAMBLE", !.cnt = 0]
    OBVIOUS
  <2>4. PICK y : y = [x EXCEPT !.t_dv = TRUE]
    OBVIOUS
  <2>5. PICK zero \in 0 .. 3 : zero = 0
    OBVIOUS
  <2>6. PICK w : w = [y EXCEPT !.mii_cnt = zero]
    OBVIOUS
  <2>7. /\ v \in FsmRegs(B) /\ v.crc_init /\ v.fr_done = st.fr_done /\ v.crc_calc = st.crc_calc
    BY <1>5, <2>2 DEF FsmRegs, Descriptor
  <2>8. /\ x \in FsmRegs(B) /\ x.crc_init = v.crc_init /\ x.fr_done = v.fr_done
        /\ x.crc_calc = v.crc_calc
    BY <2>3, <2>7 DEF FsmRegs, FsmStates
  <2>9. /\ y \in FsmRegs(B) /\ y.crc_init = x.crc_init /\ y.fr_done = x.fr_done
        /\ y.crc_calc = x.crc_calc
    BY <2>4, <2>8 DEF FsmRegs
  <2>10. /\ w \in FsmRegs(B) /\ w.crc_init = y.crc_init /\ w.fr_done = y.fr_done
         /\ w.crc_calc = y.crc_calc
    BY <2>6, <2>9 DEF FsmRegs
  <2>11. step = FsmCleared(MiiStep(w))
    <3>1. IdleStep(calm, pf1.empty, pf1.tag.len, pf1.tag.ptr) = w
      BY <1>5, <2>1, <2>2, <2>3, <2>4, <2>5, <2>6, Zenon DEF IdleStep
    <3>2. QED
      BY <1>2, <1>5, <3>1
  <2>12. QED
    BY <1>1, <1>5, <2>1, <2>7, <2>8, <2>9, <2>10, <2>11 DEF step
<1>6. CASE f.state \in {"TXPREAMBLE", "TXSFD_D5", "TXFCS"}
  <2>1. PICK byte \in B : byte = IF f.state = "TXSFD_D5" THEN Sfd
                                 ELSE IF f.state = "TXFCS" THEN crc.byte ELSE Preamble
    OBVIOUS
  <2>2. PICK st \in FsmRegs(B) : st = Strobe(calm, byte) /\ st.state = calm.state /\ st.cnt = calm.cnt
    BY StrobeIs
  <2>3. PICK w1 : w1 = [st EXCEPT !.state = "TXSFD_D5"]
    OBVIOUS
  <2>4. PICK w2 : w2 = [st EXCEPT !.cnt = calm.cnt + 1]
    OBVIOUS
  <2>5. PICK w3 : w3 = [st EXCEPT !.state = "TXDATA", !.cnt = 0]
    OBVIOUS
  <2>6. PICK w4 : w4 = [st EXCEPT !.state = "IGAP", !.cnt = IGAP_LEN - 1]
    OBVIOUS
  <2>7. w1 \in FsmRegs(B) /\ w2 \in FsmRegs(B) /\ w3 \in FsmRegs(B) /\ w4 \in FsmRegs(B)
    BY <1>3, <2>3, <2>4, <2>5, <2>6 DEF FsmRegs, FsmStates
  <2>8. \E w \in {calm, w1, w2, w3, w4} : step = FsmCleared(MiiStep(w))
    <3>1. CASE f.state = "TXPREAMBLE"
      BY <1>2, <2>1, <2>2, <2>3, <2>4, <3>1 DEF PreambleStep
    <3>2. CASE f.state = "TXSFD_D5"
      BY <1>2, <2>1, <2>2, <2>5, <3>2 DEF SfdStep
    <3>3. CASE f.state = "TXFCS"
      BY <1>2, <2>1, <2>2, <2>4, <2>6, <3>3 DEF FcsStep
    <3>4. QED
      BY <1>6, <3>1, <3>2, <3>3
  <2>9. f.state # "IDLE"
    BY <1>6
  <2>10. QED
    BY <2>7, <2>8, <2>9 DEF step
<1>7. CASE f.state = "IGAP"
  <2>1. PICK w1 : w1 = [calm EXCEPT !.state = "IDLE"]
    OBVIOUS
  <2>2. w1 \in FsmRegs(B)
    BY <2>1 DEF FsmRegs, FsmStates
  <2>3. CASE ~ calm.mii_strobe
    BY <1>2, <1>7, <2>3 DEF GapStep, step
  <2>4. CASE calm.mii_strobe /\ GapOver(calm)
    BY <1>2, <1>7, <2>1, <2>2, <2>4 DEF GapStep, step
  <2>5. CASE calm.mii_strobe /\ ~ GapOver(calm)
    <3>1. calm.cnt - 1 \in Nat
      BY <1>3, <2>5 DEF GapOver
    <3>2. PICK w2 : w2 = [calm EXCEPT !.cnt = calm.cnt - 1]
      OBVIOUS
    <3>3. w2 \in FsmRegs(B)
      BY <3>1, <3>2 DEF FsmRegs
    <3>4. QED
      BY <1>2, <1>7, <2>5, <3>2, <3>3 DEF GapStep, step
  <2>6. QED
    BY <2>3, <2>4, <2>5
<1>8. CASE f.state = "TXDATA"
  <2>1. PICK byte \in B : byte = DataByte(ram2.rdt, calm.cnt)
    BY <1>1
  <2>2. PICK st \in FsmRegs(B) : /\ st = Strobe(calm, byte) /\ st.cnt = calm.cnt
                                 /\ st.rptr = calm.rptr /\ st.frlen = calm.frlen
    BY StrobeIs
  <2>3. PICK rp \in Addr, fl \in Addr : rp = (st.rptr + 1) % MEM /\ fl = ((st.frlen - 1) + MEM) % MEM
    BY TxLinkAssumption DEF FsmRegs, Addr
  <2>4. PICK w1 : w1 = [st EXCEPT !.cnt = calm.cnt + 1]
    OBVIOUS
  <2>5. PICK w2 : w2 = [st EXCEPT !.rptr = rp, !.frlen = fl, !.cnt = 0]
    OBVIOUS
  <2>6. PICK w3 : w3 = [calm EXCEPT !.m_rstrobe = TRUE, !.state = "TXFCS", !.cnt = 0,
                                    !.crc_calc = FALSE, !.fr_done = TRUE]
    OBVIOUS
  <2>7. PICK w4 : w4 = [calm EXCEPT !.m_rstrobe = TRUE]
    OBVIOUS
  <2>8. w1 \in FsmRegs(B) /\ w2 \in FsmRegs(B) /\ w3 \in FsmRegs(B) /\ w4 \in FsmRegs(B)
    BY <1>3, <2>4, <2>5, <2>6, <2>7 DEF FsmRegs, FsmStates
  <2>9. w2 = NextWord(st)
    BY <2>3, <2>5, Zenon DEF NextWord
  <2>10. \E w \in {w1, w2, w3, w4} : step = FsmCleared(MiiStep(w))
    <3>1. CASE calm.mii_strobe /\ calm.cnt < 3
      BY <1>2, <1>8, <2>1, <2>2, <2>4, <3>1 DEF DataStep
    <3>2. CASE calm.mii_strobe /\ ~ (calm.cnt < 3)
      <4>1. DataStep(calm, ram2.rdt) = NextWord(st)
        BY <2>1, <2>2, <3>2 DEF DataStep
      <4>2. QED
        BY <1>2, <1>8, <2>9, <4>1
    <3>3. CASE ~ calm.mii_strobe /\ calm.frlen = 0
      BY <1>2, <1>8, <2>6, <3>3 DEF DataStep
    <3>4. CASE ~ calm.mii_strobe /\ calm.frlen # 0
      BY <1>2, <1>8, <2>7, <3>4 DEF DataStep
    <3>5. QED
      BY <3>1, <3>2, <3>3, <3>4
  <2>11. QED
    BY <1>8, <2>8, <2>10 DEF step
<1>9. f.state \in FsmStates
  BY DEF FsmRegs
<1>10. QED
  BY <1>4, <1>5, <1>6, <1>7, <1>8, <1>9 DEF FsmStates

\* An edge in reset.
FsmClears == f' = FsmStep(f, TRUE, pf1.empty, pf1.tag.len, pf1.tag.ptr, ram2.rdt, crc.byte)
LEMMA ResetStep ==
    ASSUME FsmTyped, FsmClears, pf1.empty \/ pf1.tag \in Descriptor
    PROVE  /\ FsmTyped'
           /\ f'.state = "IDLE" /\ f'.cnt = 0 /\ f'.rptr = 0 /\ f'.frlen = 0
           /\ ~ f'.mii_strobe /\ f'.mii_cnt = 0 /\ ~ f'.m_rstrobe
           /\ f.state = "IDLE" => /\ ~ f'.fr_done /\ ~ f'.crc_calc /\ f'.crc_init
                                  /\ pf1.empty => ~ f'.t_dv /\ ~ f'.t_str_dt /\ f'.t_dt = f.t_dt
<1> DEFINE B == {f.t_dt, Preamble, Sfd, crc.byte, DataByte(ram2.rdt, f.cnt)}
<1>1. f \in FsmRegs(B) /\ Preamble \in B /\ Sfd \in B /\ crc.byte \in B
      /\ DataByte(ram2.rdt, f.cnt) \in B
  BY DEF FsmTyped, FsmRegs
<1> HIDE DEF B
<1>2. PICK w \in FsmRegs(B) :
        /\ f' = FsmCleared(MiiStep(w))
        /\ f.state = "IDLE" => /\ ~ w.fr_done /\ ~ w.crc_calc /\ w.crc_init
                               /\ pf1.empty => ~ w.t_dv /\ ~ w.t_str_dt /\ w.t_dt = f.t_dt
  BY <1>1, StepTyped DEF FsmClears
<1>3. PICK v \in FsmRegs(B) :
        /\ v = MiiStep(w) /\ v.fr_done = w.fr_done /\ v.t_dv = w.t_dv
        /\ v.t_str_dt = w.t_str_dt /\ v.t_dt = w.t_dt
        /\ v.crc_init = w.crc_init /\ v.crc_calc = w.crc_calc
  BY MiiStepOf
<1>11. PICK none \in Addr : none = 0
  BY TxLinkAssumption DEF Addr
<1>4. PICK x : x = [v EXCEPT !.state = "IDLE", !.cnt = 0, !.rptr = none, !.frlen = none]
  OBVIOUS
<1>5. /\ x \in FsmRegs(B) /\ x.state = "IDLE" /\ x.cnt = 0 /\ x.rptr = none /\ x.frlen = none
      /\ x.fr_done = v.fr_done /\ x.t_dv = v.t_dv
      /\ x.t_str_dt = v.t_str_dt /\ x.t_dt = v.t_dt
      /\ x.crc_init = v.crc_init /\ x.crc_calc = v.crc_calc
  BY <1>4 DEF FsmRegs, FsmStates
<1>6. PICK zero \in 0 .. 3 : zero = 0
  OBVIOUS
<1>7. f' = [x EXCEPT !.mii_strobe = FALSE, !.mii_cnt = zero, !.m_rstrobe = FALSE]
  BY <1>2, <1>3, <1>4, <1>6, <1>11, Zenon DEF FsmCleared
<1>8. /\ f' \in FsmRegs(B) /\ ~ f'.mii_strobe /\ f'.mii_cnt = zero /\ ~ f'.m_rstrobe
      /\ f'.state = x.state /\ f'.cnt = x.cnt /\ f'.rptr = x.rptr /\ f'.frlen = x.frlen
      /\ f'.fr_done = x.fr_done /\ f'.t_dv = x.t_dv
      /\ f'.t_str_dt = x.t_str_dt /\ f'.t_dt = x.t_dt
      /\ f'.crc_init = x.crc_init /\ f'.crc_calc = x.crc_calc
  BY <1>5, <1>7 DEF FsmRegs
<1>9. FsmTyped'
  BY <1>8, OfItsOwn
<1>10. QED
  BY <1>2, <1>3, <1>5, <1>6, <1>8, <1>9, <1>11

\* At rest an edge of ref_clk in reset moves nothing.
LEMMA RestStays ==
    ASSUME CrossTyped, AtRest, rmii_rst = TRUE, RefSide
    PROVE  /\ f' = f /\ s' = s /\ crc' = crc /\ ram2' = ram2 /\ pos' = pos
           /\ DeqIn = deq /\ RfIn = rf /\ LeftAfterPhy = toSend
           /\ f.state = "IDLE" /\ ~ f.fr_done
<1>1. PICK byte : f = RestOf(byte)
  BY DEF AtRest
<1>2. /\ s.en = FALSE /\ f.state = "IDLE" /\ f.fr_done = FALSE /\ f.rptr = 0 /\ f.m_rstrobe = FALSE
      /\ ram2.addr = 0 /\ ram2.rstrobe = FALSE
  <2>1. /\ f.state = "IDLE" /\ f.fr_done = FALSE /\ f.rptr = 0 /\ f.m_rstrobe = FALSE
    BY <1>1 DEF RestOf
  <2>2. s.en = FALSE
    BY DEF AtRest, RmiiReset
  <2>3. ram2.addr = 0 /\ ram2.rstrobe = FALSE
    <3>1. PICK word : ram2 = [addr |-> 0, rstrobe |-> FALSE, rdt |-> word]
      BY DEF AtRest
    <3>2. QED
      BY <3>1
  <2>4. QED
    BY <2>1, <2>2, <2>3
<1>0. f' = f
  <2>1. FsmTyped
    BY <1>1, TxLinkAssumption DEF FsmTyped, FsmRegs, FsmStates, RestOf, Addr
  <2>2. FsmClears
    BY DEF FsmClears, RefSide
  <2>3. /\ FsmTyped'
        /\ f'.state = "IDLE" /\ f'.cnt = 0 /\ f'.rptr = 0 /\ f'.frlen = 0
        /\ ~ f'.mii_strobe /\ f'.mii_cnt = 0 /\ ~ f'.m_rstrobe
        /\ ~ f'.fr_done /\ ~ f'.crc_calc /\ f'.crc_init
        /\ ~ f'.t_dv /\ ~ f'.t_str_dt /\ f'.t_dt = f.t_dt
    BY <1>2, <2>1, <2>2, ResetStep DEF AtRest
  <2>4. f' = RestOf(f.t_dt)
    BY <2>3 DEF FsmTyped, FsmRegs, RestOf
  <2>5. QED
    BY <2>4 DEF AtRest
<1>3. s' = s /\ crc' = crc
  BY DEF AtRest, RefSide, RmiiStep, CrcStep
<1>4. ram2' = ram2
  BY <1>2 DEF AtRest, RefSide, ReadPort
<1>5. pos' = pos
  BY <1>2 DEF AtRest, RefSide, Phy
<1>6. DeqIn = deq /\ RfIn = rf
  BY DEF AtRest, CrossTyped, TransportRegs, DeqIn, RfIn, Deq!Edge1, Rf!Edge1
<1>7. LeftAfterPhy = toSend
  BY <1>2 DEF LeftAfterPhy
<1>8. QED
  BY <1>0, <1>2, <1>3, <1>4, <1>5, <1>6, <1>7

\* What an edge of clk does, alone or not.
LEMMA ClkTickIs ==
    ASSUME CrossTyped, ClkTick
    PROVE  /\ ClkSide /\ rst' = rst
           /\ f' = f /\ s' = s /\ crc' = crc /\ ram2' = ram2 /\ pos' = pos
           /\ \/ pf1' = pf1
              \/ f.state = "IDLE" /\ ~ f.fr_done /\ (PfAcross(q) \/ PfAcross(q'))
           /\ deq' = Deq!Edge2(deq, deq.strobe_latch, deq.dt_latch)
           /\ rf' = Rf!Edge2(rf, rf.strobe_latch, rf.dt_latch)
           /\ toSend' = toSend \o Enqueued
           /\ aheadRef' = 0 /\ aheadClk' \in 0 .. RATIO
           /\ ~ RefTick /\ ~ BothTick
<1> USE LinkAssumption
<1>1. aheadRef \in 0 .. RATIO /\ aheadClk \in 0 .. RATIO
  BY DEF CrossTyped
<1>2. CASE ClkEdge
  <2>1. aheadRef' = 0 /\ aheadClk' = aheadClk + 1 /\ aheadClk < RATIO
    BY <1>2 DEF ClkEdge
  <2>2. aheadRef + 1 # 0 /\ aheadClk + 1 # 0
    BY <1>1
  <2>3. ~ RefTick /\ ~ BothTick
    BY <2>1, <2>2 DEF RefTick, RefEdge, BothTick, BothEdges
  <2>4. aheadClk' \in 0 .. RATIO
    BY <1>1, <2>1
  <2>5. QED
    BY <1>2, <2>1, <2>3, <2>4 DEF ClkEdge, refRegs
<1>3. CASE Parked
  <2>1. rmii_rst = TRUE /\ AtRest /\ RefSide /\ ClkSide /\ aheadRef' = 0 /\ aheadClk' = 0 /\ rst' = rst
        /\ toSend' = LeftAfterPhy \o Enqueued /\ (PfAcross(q) \/ PfAcross(q'))
    BY <1>3 DEF Parked, BothEdges
  <2>2. /\ f' = f /\ s' = s /\ crc' = crc /\ ram2' = ram2 /\ pos' = pos
        /\ DeqIn = deq /\ RfIn = rf /\ LeftAfterPhy = toSend
        /\ f.state = "IDLE" /\ ~ f.fr_done
    BY <2>1, RestStays
  <2>3. deq' = Deq!Edge2(deq, deq.strobe_latch, deq.dt_latch)
    <3>1. deq' = Deq!Edge2([deq EXCEPT !.strobe_tmp1 = deq.strobe_tmp1],
                           deq.strobe_latch, deq.dt_latch)
      BY <1>3, <2>2 DEF Parked, BothEdges
    <3>2. [deq EXCEPT !.strobe_tmp1 = deq.strobe_tmp1] = deq
      BY DEF CrossTyped, TransportRegs
    <3>3. QED
      BY <3>1, <3>2
  <2>4. rf' = Rf!Edge2(rf, rf.strobe_latch, rf.dt_latch)
    <3>1. rf' = Rf!Edge2([rf EXCEPT !.strobe_tmp1 = rf.strobe_tmp1],
                         rf.strobe_latch, rf.dt_latch)
      BY <1>3, <2>2 DEF Parked, BothEdges
    <3>2. [rf EXCEPT !.strobe_tmp1 = rf.strobe_tmp1] = rf
      BY DEF CrossTyped, TransportRegs
    <3>3. QED
      BY <3>1, <3>2
  <2>5. ~ RefTick /\ ~ BothTick /\ aheadClk' \in 0 .. RATIO
    BY <2>1 DEF RefTick, BothTick
  <2>6. QED
    BY <2>1, <2>2, <2>3, <2>4, <2>5
<1>4. QED
  BY <1>2, <1>3 DEF ClkTick

\* A step is one of the three only.
LEMMA OneTick ==
    ASSUME CrossTyped
    PROVE  /\ RefTick => ~ ClkTick /\ ~ BothTick
           /\ BothTick => ~ ClkTick /\ ~ RefTick
<1>1. aheadRef + 1 # 0
  BY LinkAssumption DEF CrossTyped
<1>2. ClkTick => ~ RefTick /\ ~ BothTick
  BY ClkTickIs
<1>3. RefTick => ~ BothTick
  BY <1>1 DEF RefTick, RefEdge, BothTick, BothEdges
<1>4. QED
  BY <1>2, <1>3

\* The edges of the two transports are those of TransportRegs.
LEMMA EdgesAre ==
    /\ ~ rmii_rst => DeqIn = Edge1Of(deq, f.fr_done, 0)
    /\ ~ rmii_rst => RfIn = Edge1Of(rf, f.fr_done, pf1.tag)
    /\ \A t, latch, data : Deq!Edge2(t, latch, data) = Edge2Of(t, latch, data)
    /\ \A t, latch, data : Rf!Edge2(t, latch, data) = Edge2Of(t, latch, data)
    /\ \A t : Deq!Strobe2(t) <=> Taking(t)
    /\ \A t : Rf!Strobe2(t) <=> Taking(t)
<1>1. ~ rmii_rst => DeqIn = Edge1Of(deq, f.fr_done, 0)
  BY DEF DeqIn, Deq!Edge1, Deq!Latch, Deq!DataLatch, Edge1Of
<1>2. ~ rmii_rst => RfIn = Edge1Of(rf, f.fr_done, pf1.tag)
  BY DEF RfIn, Rf!Edge1, Rf!Latch, Rf!DataLatch, Edge1Of
<1>3. QED
  BY <1>1, <1>2 DEF Deq!Edge2, Rf!Edge2, Edge2Of, Deq!Strobe2, Rf!Strobe2, Taking

\* The edge of both clocks, for any transport.
LEMMA BothIs ==
    ASSUME NEW D, NEW t \in TransportRegs(D), NEW done \in BOOLEAN, NEW dt \in D,
           NEW d \in {t, Edge1Of(t, done, dt)}
    PROVE  \E u \in TransportRegs(D) :
             /\ u = Edge2Of([Edge1Of(t, done, dt) EXCEPT !.strobe_tmp1 = t.strobe_tmp1],
                            d.strobe_latch, d.dt_latch)
             /\ BothMove(t, u, done, dt)
<1>1. PICK e \in TransportRegs(D) : e = Edge1Of(t, done, dt) /\ RefMoves(t, e, done, dt)
  BY Edge1Is
<1>2. t.strobe_tmp1 \in BOOLEAN
  BY DEF TransportRegs
<1>3. PICK g : g = [e EXCEPT !.strobe_tmp1 = t.strobe_tmp1]
  OBVIOUS
<1>4. /\ g \in TransportRegs(D) /\ g.strobe_tmp1 = t.strobe_tmp1
      /\ g.strobe_latch = e.strobe_latch /\ g.dt_latch = e.dt_latch
  BY <1>2, <1>3 DEF TransportRegs
<1>5. d = t \/ d = e
  BY <1>1
<1>6. d.strobe_latch \in BOOLEAN /\ d.dt_latch \in D
  BY <1>5 DEF TransportRegs
<1>7. PICK u \in TransportRegs(D) :
        /\ u = Edge2Of(g, d.strobe_latch, d.dt_latch)
        /\ u.strobe_latch = g.strobe_latch /\ u.dt_latch = g.dt_latch
        /\ u.strobe_tmp1 = d.strobe_latch /\ u.dt2 = d.dt_latch /\ u.strobe_tmp2 = g.strobe_tmp1
  <2>1. PICK latch \in BOOLEAN, data \in D : latch = d.strobe_latch /\ data = d.dt_latch
    BY <1>6
  <2>2. PICK u \in TransportRegs(D) :
          /\ u = Edge2Of(g, latch, data)
          /\ u.strobe_latch = g.strobe_latch /\ u.dt_latch = g.dt_latch
          /\ u.strobe_tmp1 = latch /\ u.dt2 = data /\ u.strobe_tmp2 = g.strobe_tmp1
    BY <1>4, Edge2Is
  <2>3. QED
    BY <2>1, <2>2, Zenon
<1>8. BothMove(t, u, done, dt)
  <2>1. Latches(t, u, done, dt)
    BY <1>1, <1>4, <1>7 DEF Latches, RefMoves
  <2>2. CASE d = t
    BY <1>4, <1>7, <2>1, <2>2 DEF BothMove
  <2>3. CASE d = e
    BY <1>4, <1>7, <2>1, <2>3 DEF BothMove
  <2>4. QED
    BY <1>5, <2>2, <2>3
<1>9. QED
  BY <1>1, <1>3, <1>7, <1>8

\* What each action does to the strobe of the dequeue.
LEMMA DeqAfter ==
    ASSUME Running, CrossTyped, f.fr_done \in BOOLEAN
    PROVE  /\ RefTick => deq' \in TransportRegs({0}) /\ RefMoves(deq, deq', f.fr_done, 0)
           /\ ClkTick => deq' \in TransportRegs({0}) /\ ClkMoves(deq, deq')
           /\ BothTick => deq' \in TransportRegs({0}) /\ BothMove(deq, deq', f.fr_done, 0)
<1>1. deq \in TransportRegs({0}) /\ 0 \in {0}
  BY DEF CrossTyped
<1>2. deq.strobe_latch \in BOOLEAN /\ deq.dt_latch \in {0}
  BY <1>1, BitsOf DEF Bits
<1>3. ASSUME RefTick
      PROVE  deq' \in TransportRegs({0}) /\ RefMoves(deq, deq', f.fr_done, 0)
  <2>1. PICK u \in TransportRegs({0}) : u = Edge1Of(deq, f.fr_done, 0) /\ RefMoves(deq, u, f.fr_done, 0)
    BY <1>1, Edge1Is
  <2>2. deq' = u
    BY <1>3, <2>1, EdgesAre DEF RefTick, RefEdge
  <2>3. QED
    BY <2>1, <2>2
<1>4. ASSUME ClkTick
      PROVE  deq' \in TransportRegs({0}) /\ ClkMoves(deq, deq')
  <2>1. PICK u \in TransportRegs({0}) :
          /\ u = Edge2Of(deq, deq.strobe_latch, deq.dt_latch)
          /\ u.strobe_latch = deq.strobe_latch /\ u.dt_latch = deq.dt_latch
          /\ u.strobe_tmp1 = deq.strobe_latch /\ u.dt2 = deq.dt_latch
          /\ u.strobe_tmp2 = deq.strobe_tmp1
    BY <1>1, <1>2, Edge2Is
  <2>2. deq' = u
    BY <1>4, <2>1, EdgesAre, ClkTickIs
  <2>3. QED
    BY <2>1, <2>2 DEF ClkMoves
<1>5. ASSUME BothTick
      PROVE  deq' \in TransportRegs({0}) /\ BothMove(deq, deq', f.fr_done, 0)
  <2>1. PICK d \in {deq, Edge1Of(deq, f.fr_done, 0)} :
          deq' = Edge2Of([Edge1Of(deq, f.fr_done, 0) EXCEPT !.strobe_tmp1 = deq.strobe_tmp1],
                         d.strobe_latch, d.dt_latch)
    BY <1>5, EdgesAre DEF BothTick, BothEdges
  <2>2. PICK u \in TransportRegs({0}) :
          /\ u = Edge2Of([Edge1Of(deq, f.fr_done, 0) EXCEPT !.strobe_tmp1 = deq.strobe_tmp1],
                         d.strobe_latch, d.dt_latch)
          /\ BothMove(deq, u, f.fr_done, 0)
    BY <1>1, BothIs
  <2>3. QED
    BY <2>1, <2>2
<1>6. QED
  BY <1>3, <1>4, <1>5

\* What each action does to the strobe that tells the client a frame is gone.
LEMMA RfAfter ==
    ASSUME Running, CrossTyped, pf1.tag \in Descriptor, f.fr_done \in BOOLEAN
    PROVE  /\ RefTick => rf' \in TransportRegs(Descriptor) /\ RefMoves(rf, rf', f.fr_done, pf1.tag)
           /\ ClkTick => rf' \in TransportRegs(Descriptor) /\ ClkMoves(rf, rf')
           /\ BothTick => rf' \in TransportRegs(Descriptor) /\ BothMove(rf, rf', f.fr_done, pf1.tag)
<1>1. rf \in TransportRegs(Descriptor)
  BY DEF CrossTyped
<1>2. rf.strobe_latch \in BOOLEAN /\ rf.dt_latch \in Descriptor
  BY <1>1, BitsOf DEF Bits
<1>3. ASSUME RefTick
      PROVE  rf' \in TransportRegs(Descriptor) /\ RefMoves(rf, rf', f.fr_done, pf1.tag)
  <2>1. PICK u \in TransportRegs(Descriptor) :
          u = Edge1Of(rf, f.fr_done, pf1.tag) /\ RefMoves(rf, u, f.fr_done, pf1.tag)
    BY <1>1, Edge1Is
  <2>2. rf' = u
    BY <1>3, <2>1, EdgesAre DEF RefTick, RefEdge
  <2>3. QED
    BY <2>1, <2>2
<1>4. ASSUME ClkTick
      PROVE  rf' \in TransportRegs(Descriptor) /\ ClkMoves(rf, rf')
  <2>1. PICK u \in TransportRegs(Descriptor) :
          /\ u = Edge2Of(rf, rf.strobe_latch, rf.dt_latch)
          /\ u.strobe_latch = rf.strobe_latch /\ u.dt_latch = rf.dt_latch
          /\ u.strobe_tmp1 = rf.strobe_latch /\ u.dt2 = rf.dt_latch
          /\ u.strobe_tmp2 = rf.strobe_tmp1
    BY <1>1, <1>2, Edge2Is
  <2>2. rf' = u
    BY <1>4, <2>1, EdgesAre, ClkTickIs
  <2>3. QED
    BY <2>1, <2>2 DEF ClkMoves
<1>5. ASSUME BothTick
      PROVE  rf' \in TransportRegs(Descriptor) /\ BothMove(rf, rf', f.fr_done, pf1.tag)
  <2>1. PICK d \in {rf, Edge1Of(rf, f.fr_done, pf1.tag)} :
          rf' = Edge2Of([Edge1Of(rf, f.fr_done, pf1.tag) EXCEPT !.strobe_tmp1 = rf.strobe_tmp1],
                        d.strobe_latch, d.dt_latch)
    BY <1>5, EdgesAre DEF BothTick, BothEdges
  <2>2. PICK u \in TransportRegs(Descriptor) :
          /\ u = Edge2Of([Edge1Of(rf, f.fr_done, pf1.tag) EXCEPT !.strobe_tmp1 = rf.strobe_tmp1],
                         d.strobe_latch, d.dt_latch)
          /\ BothMove(rf, u, f.fr_done, pf1.tag)
    BY <1>1, BothIs
  <2>3. QED
    BY <2>1, <2>2
<1>6. QED
  BY <1>3, <1>4, <1>5

OnItsWay(t) == OnWay(t, f.fr_done)

\* A strobe that is on its way was given by a frame that has ended.
LEMMA OnItsWayEnds ==
    ASSUME NEW t, Bits(t), FsmTyped, Paced, Handshake(t)
    PROVE  /\ OnItsWay(t) => Ending
           /\ Taking(t) => OnItsWay(t) /\ ~ f.fr_done /\ t.dt2 = t.dt_latch
                           /\ Since <= RATIO + 1 + aheadRef
           /\ OnItsWay(t) /\ ~ f.fr_done => t.strobe_latch \/ t.strobe_tmp1
BY DEF Bits, Handshake, Crossing, OnItsWay, OnWay, Taking, Past, Ending, Paced

\* An edge of ref_clk and a strobe.
LEMMA HandshakeRef ==
    ASSUME NEW t, NEW u, NEW dt, FsmTyped, Paced, FsmClock, pf1.tag \in Descriptor,
           RefMoves(t, u, f.fr_done, dt), Bits(t), Handshake(t), aheadRef \in 0 .. RATIO - 1
    PROVE  /\ Crossing(u, Past', Since', aheadRef + 1)
           /\ OnWay(u, f'.fr_done) <=> f'.fr_done \/ OnItsWay(t)
           /\ f'.fr_done => ~ OnItsWay(t)
<1>1. /\ Past \in BOOLEAN /\ Past' \in BOOLEAN /\ Since \in Int /\ Since' \in Int
      /\ f.fr_done \in BOOLEAN
      /\ f.fr_done => ~ Past /\ Since = 0 /\ Ending
      /\ Ending /\ Since <= 2 * RATIO + 1 => Past' /\ Since' = Since + 1
      /\ f'.fr_done => f.state = "TXDATA"
  BY SinceAfter
<1>2. (Past \/ f.fr_done) /\ Since <= 2 * RATIO + 1 => Past' /\ Since' = Since + 1
  BY <1>1 DEF Past
<1>3. Crossing(t, Past, Since, aheadRef)
  BY DEF Handshake
<1>4. Crossing(u, Past', Since', aheadRef + 1) /\ (OnWay(u, FALSE) <=> OnItsWay(t))
  <2>1. PICK p \in BOOLEAN, p2 \in BOOLEAN : p = Past /\ p2 = Past'
    BY <1>1
  <2>2. PICK n \in Int, n2 \in Int : n = Since /\ n2 = Since'
    BY <1>1
  <2>3. /\ Crossing(t, p, n, aheadRef) /\ (f.fr_done => ~ p /\ n = 0)
        /\ (p \/ f.fr_done) /\ n <= 2 * RATIO + 1 => p2 /\ n2 = n + 1
    BY <1>1, <1>2, <1>3, <2>1, <2>2
  <2>4. Crossing(u, p2, n2, aheadRef + 1) /\ (OnWay(u, FALSE) <=> OnWay(t, f.fr_done))
    <3>1. f.fr_done \in BOOLEAN
      BY <1>1
    <3>2. QED
      BY <2>3, <3>1, LinkAssumption DEF RefMoves, Latches, Bits, Crossing, OnWay, Taking
  <2>5. QED
    BY <2>1, <2>2, <2>4 DEF OnItsWay
<1>5. f'.fr_done => ~ OnItsWay(t)
  BY <1>1, OnItsWayEnds DEF Ending
<1>6. OnWay(u, f'.fr_done) <=> f'.fr_done \/ OnWay(u, FALSE)
  BY DEF OnWay
<1>7. QED
  BY <1>4, <1>5, <1>6

\* An edge of clk and a strobe.
LEMMA HandshakeClk ==
    ASSUME NEW t, NEW u, FsmTyped, Paced, UNCHANGED f,
           ClkMoves(t, u), Bits(t), Handshake(t), aheadRef \in 0 .. RATIO
    PROVE  /\ Crossing(u, Past', Since', 0)
           /\ OnWay(u, f'.fr_done) <=> OnItsWay(t) /\ ~ Taking(t)
<1>1. /\ Past \in BOOLEAN /\ Since \in Int /\ f.fr_done \in BOOLEAN /\ (f.fr_done => ~ Past)
      /\ Past' = Past /\ Since' = Since /\ f'.fr_done = f.fr_done
  BY SinceStill, FsmRanges DEF Past
<1>2. Crossing(t, Past, Since, aheadRef)
  BY DEF Handshake
<1>3. Crossing(u, Past, Since, 0) /\ (OnWay(u, f.fr_done) <=> OnWay(t, f.fr_done) /\ ~ Taking(t))
  BY <1>1, <1>2, CrossingClk
<1>4. QED
  BY <1>1, <1>3 DEF OnItsWay

\* An edge of both and a strobe.
LEMMA HandshakeBoth ==
    ASSUME NEW t, NEW u, NEW dt, FsmTyped, Paced, FsmClock, pf1.tag \in Descriptor,
           BothMove(t, u, f.fr_done, dt), Bits(t), Handshake(t), aheadRef \in 0 .. RATIO - 1
    PROVE  /\ Crossing(u, Past', Since', 0)
           /\ OnWay(u, f'.fr_done) <=> f'.fr_done \/ (OnItsWay(t) /\ ~ Taking(t))
           /\ f'.fr_done => ~ OnItsWay(t)
<1>1. /\ Past \in BOOLEAN /\ Past' \in BOOLEAN /\ Since \in Int /\ Since' \in Int
      /\ f.fr_done \in BOOLEAN
      /\ f.fr_done => ~ Past /\ Since = 0 /\ Ending
      /\ Ending /\ Since <= 2 * RATIO + 1 => Past' /\ Since' = Since + 1
      /\ f'.fr_done => f.state = "TXDATA"
  BY SinceAfter
<1>2. (Past \/ f.fr_done) /\ Since <= 2 * RATIO + 1 => Past' /\ Since' = Since + 1
  BY <1>1 DEF Past
<1>3. Crossing(t, Past, Since, aheadRef)
  BY DEF Handshake
<1>4. Crossing(u, Past', Since', 0) /\ (OnWay(u, FALSE) <=> OnItsWay(t) /\ ~ Taking(t))
  <2>1. PICK p \in BOOLEAN, p2 \in BOOLEAN : p = Past /\ p2 = Past'
    BY <1>1
  <2>2. PICK n \in Int, n2 \in Int : n = Since /\ n2 = Since'
    BY <1>1
  <2>3. /\ Crossing(t, p, n, aheadRef) /\ (f.fr_done => ~ p /\ n = 0)
        /\ (p \/ f.fr_done) /\ n <= 2 * RATIO + 1 => p2 /\ n2 = n + 1
    BY <1>1, <1>2, <1>3, <2>1, <2>2
  <2>4. Crossing(u, p2, n2, 0) /\ (OnWay(u, FALSE) <=> OnWay(t, f.fr_done) /\ ~ Taking(t))
    <3>1. f.fr_done \in BOOLEAN
      BY <1>1
    <3>2. QED
      BY <2>3, <3>1, LinkAssumption DEF BothMove, Latches, Bits, Crossing, OnWay, Taking
  <2>5. QED
    BY <2>1, <2>2, <2>4 DEF OnItsWay
<1>5. f'.fr_done => ~ OnItsWay(t)
  BY <1>1, OnItsWayEnds DEF Ending
<1>6. OnWay(u, f'.fr_done) <=> f'.fr_done \/ OnWay(u, FALSE)
  BY DEF OnWay
<1>7. QED
  BY <1>4, <1>5, <1>6

\* What the ref_clk side does at its edge.
LEMMA RefSideIs ==
    ASSUME Running, RefTick \/ BothTick
    PROVE  /\ FsmClock /\ RmiiClock /\ Phy /\ ReadPort /\ Running'
           /\ crc' = CrcStep(crc, FALSE, f.t_dt, f.crc_init, f.crc_calc, f.t_str_dt)
           /\ aheadRef < RATIO
<1>1. RefSide /\ rst' = rst /\ aheadRef < RATIO /\ rmii_rst = FALSE
  BY DEF RefTick, RefEdge, BothTick, BothEdges
<1>2. QED
  BY <1>1 DEF RefSide, Running, FsmClock, RmiiClock

\* What all the actions do to the crossings.
CrossAfter(t) ==
    /\ Handshake(t)'
    /\ RefTick => (OnItsWay(t)' <=> f'.fr_done \/ OnItsWay(t))
    /\ ClkTick => (OnItsWay(t)' <=> OnItsWay(t) /\ ~ Taking(t))
    /\ BothTick => (OnItsWay(t)' <=> f'.fr_done \/ (OnItsWay(t) /\ ~ Taking(t)))
    /\ RefTick \/ BothTick => (f'.fr_done => ~ OnItsWay(t))

\* The types of the crossings, and the handshakes.
LEMMA CrossingsAfter ==
    ASSUME Running, FsmTyped, Paced, PfTyped, CrossTyped, Handshakes, Tick
    PROVE  CrossTyped' /\ Running' /\ CrossAfter(deq) /\ CrossAfter(rf)
<1>1. /\ pf1.tag \in Descriptor /\ f.fr_done \in BOOLEAN
      /\ aheadRef \in 0 .. RATIO /\ aheadClk \in 0 .. RATIO
  BY FsmRanges DEF PfTyped, CrossTyped
<1>2. Bits(deq) /\ Bits(rf) /\ Handshake(deq) /\ Handshake(rf)
  BY BitsOf DEF CrossTyped, Handshakes
<1>3. CASE RefTick
  <2>1. FsmClock /\ Running' /\ aheadRef \in 0 .. RATIO - 1
    BY <1>1, <1>3, RefSideIs, LinkAssumption
  <2>2. aheadRef' = aheadRef + 1 /\ aheadClk' = 0
    BY <1>3 DEF RefTick, RefEdge
  <2>3. /\ deq' \in TransportRegs({0}) /\ RefMoves(deq, deq', f.fr_done, 0)
        /\ rf' \in TransportRegs(Descriptor) /\ RefMoves(rf, rf', f.fr_done, pf1.tag)
    BY <1>1, <1>3, DeqAfter, RfAfter
  <2>4. CrossTyped'
    BY <2>1, <2>2, <2>3, LinkAssumption DEF CrossTyped
  <2>5. Crossing(deq', Past', Since', aheadRef') /\ Crossing(rf', Past', Since', aheadRef')
    BY <1>1, <1>2, <2>1, <2>2, <2>3, HandshakeRef
  <2>6. Handshake(deq)' /\ Handshake(rf)'
    BY <2>5 DEF Handshake
  <2>7. /\ OnWay(deq', f'.fr_done) <=> f'.fr_done \/ OnItsWay(deq)
        /\ OnWay(rf', f'.fr_done) <=> f'.fr_done \/ OnItsWay(rf)
        /\ f'.fr_done => ~ OnItsWay(deq) /\ ~ OnItsWay(rf)
    BY <1>1, <1>2, <2>1, <2>3, HandshakeRef
  <2>8. ~ ClkTick /\ ~ BothTick
    BY <1>3, OneTick
  <2>9. QED
    BY <2>1, <2>4, <2>6, <2>7, <2>8 DEF CrossAfter, OnItsWay
<1>4. CASE ClkTick
  <2>1. UNCHANGED f /\ Running' /\ aheadRef' = 0 /\ aheadClk' \in 0 .. RATIO
    BY <1>4, ClkTickIs DEF Running
  <2>2. /\ deq' \in TransportRegs({0}) /\ ClkMoves(deq, deq')
        /\ rf' \in TransportRegs(Descriptor) /\ ClkMoves(rf, rf')
    BY <1>1, <1>4, DeqAfter, RfAfter
  <2>3. CrossTyped'
    BY <1>1, <2>1, <2>2, LinkAssumption DEF CrossTyped
  <2>4. Crossing(deq', Past', Since', 0) /\ Crossing(rf', Past', Since', 0)
    BY <1>1, <1>2, <2>1, <2>2, HandshakeClk
  <2>5. Handshake(deq)' /\ Handshake(rf)'
    BY <2>1, <2>4 DEF Handshake
  <2>6. /\ OnWay(deq', f'.fr_done) <=> OnItsWay(deq) /\ ~ Taking(deq)
        /\ OnWay(rf', f'.fr_done) <=> OnItsWay(rf) /\ ~ Taking(rf)
    BY <1>1, <1>2, <2>1, <2>2, HandshakeClk
  <2>7. ~ RefTick /\ ~ BothTick
    BY <1>4, ClkTickIs
  <2>8. QED
    BY <2>1, <2>3, <2>5, <2>6, <2>7 DEF CrossAfter, OnItsWay
<1>5. CASE BothTick
  <2>1. FsmClock /\ Running' /\ aheadRef \in 0 .. RATIO - 1
    BY <1>1, <1>5, RefSideIs, LinkAssumption
  <2>2. aheadRef' = 0 /\ aheadClk' = 0
    BY <1>5 DEF BothTick, BothEdges
  <2>3. /\ deq' \in TransportRegs({0}) /\ BothMove(deq, deq', f.fr_done, 0)
        /\ rf' \in TransportRegs(Descriptor) /\ BothMove(rf, rf', f.fr_done, pf1.tag)
    BY <1>1, <1>5, DeqAfter, RfAfter
  <2>4. CrossTyped'
    BY <2>2, <2>3, LinkAssumption DEF CrossTyped
  <2>5. Crossing(deq', Past', Since', 0) /\ Crossing(rf', Past', Since', 0)
    BY <1>1, <1>2, <2>1, <2>3, HandshakeBoth
  <2>6. Handshake(deq)' /\ Handshake(rf)'
    BY <2>2, <2>5 DEF Handshake
  <2>7. /\ OnWay(deq', f'.fr_done) <=> f'.fr_done \/ (OnItsWay(deq) /\ ~ Taking(deq))
        /\ OnWay(rf', f'.fr_done) <=> f'.fr_done \/ (OnItsWay(rf) /\ ~ Taking(rf))
        /\ f'.fr_done => ~ OnItsWay(deq) /\ ~ OnItsWay(rf)
    BY <1>1, <1>2, <2>1, <2>3, HandshakeBoth
  <2>8. ~ ClkTick /\ ~ RefTick
    BY <1>5, OneTick
  <2>9. QED
    BY <2>1, <2>4, <2>6, <2>7, <2>8 DEF CrossAfter, OnItsWay
<1>6. QED
  BY <1>3, <1>4, <1>5 DEF Tick

----------------------------------------------------------------------------
(* The queue of descriptors                                                 *)

PfP == INSTANCE FifoQueueProofs WITH
         SLOTS <- DEPTH, Data <- Descriptor, Zero <- NoDescriptor,
         r <- q, fifo_rst <- rst, enq_strobe <- client.pf_enq,
         enq_data <- client.tag, deq_strobe <- Deq!Strobe2(deq)

PfClock == q' = Pf!FifoStep(q, rst, client.pf_enq, client.tag, Deq!Strobe2(deq))
PfPorts == client.pf_enq \in BOOLEAN /\ client.tag \in Descriptor

\* The registers of the FIFO agree.
PfConsistent == q \in Pf!Registers /\ Pf!LevelIsDistance /\ Pf!HeadShown

\* What the proofs about FifoQueue say of this instance.
LEMMA PfMoves ==
    ASSUME Running, PfConsistent, PfPorts, Bits(deq), PfClock,
           Taking(deq) => ~ q.fifo_empty, client.pf_enq => ~ q.fifo_full
    PROVE  /\ PfConsistent'
           /\ q'.fifo_level = q.fifo_level + (IF client.pf_enq THEN 1 ELSE 0)
                                           - (IF Taking(deq) THEN 1 ELSE 0)
           /\ \A i \in 1 .. q.fifo_level - (IF Taking(deq) THEN 1 ELSE 0) :
                q'.memory[Pf!SlotOf(i - 1)'] = q.memory[Pf!SlotOf(i - (IF Taking(deq) THEN 0 ELSE 1))]
           /\ client.pf_enq => \A i \in Nat : i = q'.fifo_level =>
                                 q'.memory[Pf!SlotOf(i - 1)'] = client.tag
<1>1. PfP!DepthAssumption /\ PfP!ZeroAssumption
  BY LinkAssumption, TxLinkAssumption
  DEF PfP!DepthAssumption, PfP!ZeroAssumption, NoDescriptor, Descriptor, Addr
<1>2. Deq!Strobe2(deq) <=> Taking(deq)
  BY EdgesAre
<1>3. Deq!Strobe2(deq) \in BOOLEAN
  BY DEF Deq!Strobe2, Bits
<1>4. PfP!FifoTypeOK
  BY <1>3 DEF PfP!FifoTypeOK, PfP!Registers, PfP!Ports, PfP!Slots, Pf!Registers, Pf!Slots,
              Running, PfConsistent, PfPorts
<1>5. PfP!LevelIsDistance /\ PfP!HeadShown
  BY DEF PfP!LevelIsDistance, PfP!HeadShown, Pf!LevelIsDistance, Pf!HeadShown, PfConsistent
<1>6. q' = PfP!Transfer(q, client.pf_enq, client.tag, Deq!Strobe2(deq))
  <2>1. q' = Pf!Transfer(q, client.pf_enq, client.tag, Deq!Strobe2(deq))
    BY DEF PfClock, Pf!FifoStep, Running
  <2>2. QED
    BY <2>1 DEF Pf!Transfer, PfP!Transfer, Pf!Taken, PfP!Taken, Pf!Stored, PfP!Stored,
                Pf!Inc, PfP!Inc, Pf!Shown, PfP!Shown
<1>7. PfP!Taken(q, Deq!Strobe2(deq)) <=> Taking(deq)
  BY <1>2 DEF PfP!Taken
<1>8. PfP!Stored(q, client.pf_enq) <=> client.pf_enq
  BY DEF PfP!Stored
<1>9. PfP!FifoTypeOK /\ q' \in PfP!Registers /\ PfP!LevelIsDistance' /\ PfP!HeadShown'
  BY <1>1, <1>4, <1>5, <1>6, PfP!TransferType, PfP!TransferLevel, PfP!TransferHead
<1>10. PfConsistent'
  BY <1>9 DEF PfConsistent, PfP!Registers, PfP!Slots, Pf!Registers, Pf!Slots,
              PfP!LevelIsDistance, PfP!HeadShown, Pf!LevelIsDistance, Pf!HeadShown
<1>11. q.fifo_level \in Nat /\ q'.fifo_level \in Nat
  BY <1>10 DEF PfConsistent, Pf!Registers
<1>12. PICK left \in Int : left = q.fifo_level - (IF Taking(deq) THEN 1 ELSE 0)
  BY <1>11
<1>13. /\ q'.fifo_level = left + (IF client.pf_enq THEN 1 ELSE 0)
       /\ left \in Nat
       /\ \A i \in 1 .. left :
            q'.memory[PfP!SlotOf(i - 1)'] = q.memory[PfP!SlotOf(i - (IF Taking(deq) THEN 0 ELSE 1))]
       /\ client.pf_enq => \A i \in Nat : i = left + 1 => q'.memory[PfP!SlotOf(i - 1)'] = client.tag
  BY <1>1, <1>4, <1>5, <1>6, <1>7, <1>8, <1>12, PfP!SlotsAfter, Zenon
<1>14. /\ \A i : Pf!SlotOf(i) = PfP!SlotOf(i)
       /\ \A i : Pf!SlotOf(i)' = PfP!SlotOf(i)'
  BY DEF Pf!SlotOf, PfP!SlotOf
<1>15. \A i \in 1 .. left :
         q'.memory[Pf!SlotOf(i - 1)'] = q.memory[Pf!SlotOf(i - (IF Taking(deq) THEN 0 ELSE 1))]
  BY <1>13, <1>14
<1>16. ASSUME client.pf_enq, NEW i \in Nat, i = q'.fifo_level
       PROVE  q'.memory[Pf!SlotOf(i - 1)'] = client.tag
  <2>1. i = left + 1
    BY <1>11, <1>12, <1>13, <1>16
  <2>2. q'.memory[PfP!SlotOf(i - 1)'] = client.tag
    BY <1>13, <1>16, <2>1
  <2>3. QED
    BY <1>14, <2>2
<1>17. q'.fifo_level = q.fifo_level + (IF client.pf_enq THEN 1 ELSE 0)
                                    - (IF Taking(deq) THEN 1 ELSE 0)
  BY <1>11, <1>12, <1>13
<1>18. QED
  BY <1>10, <1>12, <1>15, <1>16, <1>17

----------------------------------------------------------------------------
(* The client                                                               *)

\* Addresses of the ring.
Wrap(z) == IF z < MEM THEN z ELSE z - MEM

\* The modulo of an address that goes round at most once.
LEMMA WrapIs ==
    ASSUME NEW z \in 0 .. 2 * MEM - 1
    PROVE  z % MEM = Wrap(z) /\ Wrap(z) \in Addr
<1>1. CASE z \in 0 .. MEM - 1
  BY <1>1, TxLinkAssumption DEF Wrap, Addr
<1>2. CASE z \in MEM .. 2 * MEM - 1
  BY <1>2, TxLinkAssumption DEF Wrap, Addr
<1>3. QED
  BY <1>1, <1>2, TxLinkAssumption

\* The registers of the client, with words of W.
ClientRegs(W) ==
    [state : {"idle", "write", "enqueue"}, id : 0 .. IDS - 1, len : Addr, next : Nat, base : Addr,
     used : Int, wstrobe : BOOLEAN, addr : Addr, wdt : W, pf_enq : BOOLEAN, tag : Descriptor]

\* What the client goes by, and that it only writes while it has a frame to write.
ClientTyped ==
    /\ client \in ClientRegs({client.wdt})
    /\ client.state # "idle" => client.len > 0 /\ ~ client.pf_enq
    /\ client.state = "write" => client.next < client.len
    /\ client.state = "enqueue" => client.next = client.len
    /\ client.wstrobe => client.state # "idle"
    /\ client.tag.len > 0 \/ ~ client.pf_enq

\* What is occupied once the frame that is reported gone is taken off.
Occupied == client.used - (IF Taking(rf) THEN rf.dt2.len ELSE 0)

\* The steps of the client, register by register.
Same1 == /\ client'.id = client.id /\ client'.base = client.base /\ client'.tag = client.tag
         /\ client'.addr = client.addr /\ client'.wdt = client.wdt
Waiting ==
    /\ client.state = "idle" /\ client'.state = "idle" /\ Same1
    /\ client'.used = Occupied /\ ~ client'.pf_enq
    /\ client'.len = client.len /\ client'.next = client.next
    /\ client'.wstrobe <=> client.wstrobe
Starting ==
    /\ client.state = "idle" /\ client'.state = "write" /\ Same1
    /\ client'.used = Occupied + client'.len /\ ~ client'.pf_enq
    /\ client'.len \in LENS /\ Occupied + client'.len <= MEM /\ client'.next = 0
    /\ client'.wstrobe <=> client.wstrobe
WritingOne ==
    /\ client.state = "write"
    /\ client'.state = IF client.next + 1 = client.len THEN "enqueue" ELSE "write"
    /\ client'.id = client.id /\ client'.base = client.base /\ client'.tag = client.tag
    /\ client'.used = Occupied /\ (client'.pf_enq <=> client.pf_enq)
    /\ client'.len = client.len /\ client'.next = client.next + 1
    /\ client'.wstrobe /\ client'.addr = (client.base + client.next) % MEM
    /\ client'.wdt = <<client.id + 1, client.next>>
Blocked ==
    /\ client.state = "enqueue" /\ client'.state = "enqueue" /\ q.fifo_full /\ Same1
    /\ client'.used = Occupied /\ (client'.pf_enq <=> client.pf_enq)
    /\ client'.len = client.len /\ client'.next = client.next
    /\ ~ client'.wstrobe
Queueing ==
    /\ client.state = "enqueue" /\ client'.state = "idle" /\ ~ q.fifo_full
    /\ client'.id = (client.id + 1) % IDS /\ client'.base = (client.base + client.len) % MEM
    /\ client'.tag.len = client.len /\ client'.tag.ptr = client.base
    /\ client'.addr = client.addr /\ client'.wdt = client.wdt
    /\ client'.used = Occupied /\ client'.pf_enq
    /\ client'.len = client.len /\ client'.next = client.next
    /\ ~ client'.wstrobe
ClientMoves == Waiting \/ Starting \/ WritingOne \/ Blocked \/ Queueing

\* The registers with the frame reported gone taken off.
LEMMA ReleasedIs ==
    ASSUME NEW W, client \in ClientRegs(W), rf \in TransportRegs(Descriptor), Running
    PROVE  \E c \in ClientRegs(W) :
             /\ c = Released(client) /\ c.used = Occupied
             /\ c.state = client.state /\ c.id = client.id /\ c.len = client.len
             /\ c.next = client.next /\ c.base = client.base /\ c.wstrobe = client.wstrobe
             /\ c.addr = client.addr /\ c.wdt = client.wdt /\ c.pf_enq = client.pf_enq
             /\ c.tag = client.tag
<1>1. rf.dt2.len \in Int /\ client.used \in Int
  BY TxLinkAssumption DEF TransportRegs, Descriptor, Addr, ClientRegs
<1>2. PICK u \in Int : u = client.used - rf.dt2.len
  BY <1>1
<1>3. CASE Taking(rf)
  <2>1. PICK c : c = [client EXCEPT !.used = u]
    OBVIOUS
  <2>2. c = Released(client)
    BY <1>2, <1>3, <2>1, EdgesAre DEF Released
  <2>3. c \in ClientRegs(W) /\ c.used = u
    BY <2>1 DEF ClientRegs
  <2>4. /\ c.state = client.state /\ c.id = client.id /\ c.len = client.len
        /\ c.next = client.next /\ c.base = client.base /\ c.wstrobe = client.wstrobe
        /\ c.addr = client.addr /\ c.wdt = client.wdt /\ c.pf_enq = client.pf_enq
        /\ c.tag = client.tag
    BY <2>1 DEF ClientRegs
  <2>5. QED
    BY <1>2, <1>3, <2>2, <2>3, <2>4 DEF Occupied
<1>4. CASE ~ Taking(rf)
  <2>1. client = Released(client)
    BY <1>4, EdgesAre DEF Released
  <2>2. Occupied = client.used
    BY <1>1, <1>4 DEF Occupied
  <2>3. QED
    BY <2>1, <2>2
<1>5. QED
  BY <1>3, <1>4

\* The set of words may be narrowed to the word there is.
LEMMA ClientOfItsOwn == ASSUME NEW W, client' \in ClientRegs(W) PROVE (client \in ClientRegs({client.wdt}))'
BY DEF ClientRegs

\* An edge of clk is one of these steps.
LEMMA ClientMovesAre ==
    ASSUME ClientTyped, rf \in TransportRegs(Descriptor), Running, ClkSide
    PROVE  ClientMoves /\ ClientTyped'
<1> DEFINE word == <<client.id + 1, client.next>>
           W == {client.wdt, word}
<1> USE LinkAssumption, TxLinkAssumption
<1>1. client \in ClientRegs({client.wdt})
  BY DEF ClientTyped
<1>2. client \in ClientRegs(W) /\ word \in W
  BY <1>1 DEF ClientRegs
<1> HIDE DEF W, word
<1>3. PICK c \in ClientRegs(W) :
        /\ c = Released(client) /\ c.used = Occupied
        /\ c.state = client.state /\ c.id = client.id /\ c.len = client.len
        /\ c.next = client.next /\ c.base = client.base /\ c.wstrobe = client.wstrobe
        /\ c.addr = client.addr /\ c.wdt = client.wdt /\ c.pf_enq = client.pf_enq
        /\ c.tag = client.tag
  BY <1>2, ReleasedIs
<1>4. /\ client.state \in {"idle", "write", "enqueue"} /\ client.id \in 0 .. IDS - 1
      /\ client.len \in 0 .. MEM - 1 /\ client.next \in Nat /\ client.base \in 0 .. MEM - 1
      /\ client.pf_enq \in BOOLEAN /\ client.wstrobe \in BOOLEAN /\ Occupied \in Int
  BY <1>2, <1>3 DEF ClientRegs, Addr
<1>5. ClientStart(c) \/ ClientWrite(c) \/ ClientEnqueue(c)
  BY <1>3 DEF ClkSide, Running
<1>6. CASE ClientStart(c)
  <2>1. c.state = "idle"
    BY <1>6 DEF ClientStart
  <2>2. CASE client' = [c EXCEPT !.pf_enq = FALSE]
    <3>1. client' \in ClientRegs(W) /\ ~ client'.pf_enq
      BY <2>2 DEF ClientRegs
    <3>2. /\ client'.state = c.state /\ client'.id = c.id /\ client'.len = c.len
          /\ client'.next = c.next /\ client'.base = c.base /\ client'.used = c.used
          /\ client'.wstrobe = c.wstrobe /\ client'.addr = c.addr /\ client'.wdt = c.wdt
          /\ client'.tag = c.tag
      BY <2>2 DEF ClientRegs
    <3>3. Waiting
      BY <1>3, <2>1, <3>1, <3>2 DEF Waiting, Same1
    <3>4. ClientTyped'
      BY <1>3, <2>1, <3>1, <3>2, ClientOfItsOwn DEF ClientTyped
    <3>5. QED
      BY <3>3, <3>4 DEF ClientMoves
  <2>3. ASSUME NEW len \in LENS, c.used + len <= MEM,
               client' = [c EXCEPT !.pf_enq = FALSE, !.state = "write", !.len = len,
                                   !.next = 0, !.used = c.used + len]
        PROVE  ClientMoves /\ ClientTyped'
    <3>1. len \in 1 .. MEM - 1 /\ len \in Addr
      BY DEF Addr
    <3>2. PICK u \in Int : u = c.used + len
      BY <1>3, <1>4, <3>1
    <3>3. PICK d : d = [c EXCEPT !.pf_enq = FALSE, !.state = "write", !.len = len]
      OBVIOUS
    <3>4. /\ d \in ClientRegs(W) /\ ~ d.pf_enq /\ d.state = "write" /\ d.len = len
          /\ d.id = c.id /\ d.base = c.base /\ d.wstrobe = c.wstrobe
          /\ d.addr = c.addr /\ d.wdt = c.wdt /\ d.tag = c.tag
      BY <3>1, <3>3 DEF ClientRegs
    <3>5. client' = [d EXCEPT !.next = 0, !.used = u]
      BY <2>3, <3>2, <3>3, Zenon
    <3>6. client' \in ClientRegs(W) /\ client'.next = 0 /\ client'.used = u
      BY <3>4, <3>5 DEF ClientRegs
    <3>7. /\ client'.state = d.state /\ client'.id = d.id /\ client'.len = d.len
          /\ client'.base = d.base /\ client'.pf_enq = d.pf_enq
          /\ client'.wstrobe = d.wstrobe /\ client'.addr = d.addr /\ client'.wdt = d.wdt
          /\ client'.tag = d.tag
      BY <3>4, <3>5 DEF ClientRegs
    <3>8. Starting
      BY <1>3, <2>1, <2>3, <3>2, <3>4, <3>6, <3>7 DEF Starting, Same1
    <3>9. ClientTyped'
      BY <1>3, <3>1, <3>4, <3>6, <3>7, ClientOfItsOwn DEF ClientTyped
    <3>10. QED
      BY <3>8, <3>9 DEF ClientMoves
  <2>4. QED
    BY <1>6, <2>2, <2>3 DEF ClientStart
<1>7. CASE ClientWrite(c)
  <2>1. c.state = "write" /\ client.next < client.len
    BY <1>3, <1>7 DEF ClientWrite, ClientTyped
  <2>2. PICK a \in Addr : a = (c.base + c.next) % MEM
    <3>1. c.base + c.next \in 0 .. 2 * MEM - 1
      BY <1>3, <1>4, <2>1
    <3>2. QED
      BY <3>1, WrapIs
  <2>3. PICK n \in Nat : n = c.next + 1
    BY <1>3, <1>4
  <2>4. PICK st \in {"write", "enqueue"} : st = IF c.next + 1 = c.len THEN "enqueue" ELSE "write"
    OBVIOUS
  <2>5. PICK d : d = [c EXCEPT !.wstrobe = TRUE, !.addr = a, !.wdt = word]
    OBVIOUS
  <2>6. /\ d \in ClientRegs(W) /\ d.wstrobe /\ d.addr = a /\ d.wdt = word
        /\ d.id = c.id /\ d.base = c.base /\ d.len = c.len /\ d.used = c.used
        /\ d.pf_enq = c.pf_enq /\ d.tag = c.tag
    BY <1>2, <2>5 DEF ClientRegs
  <2>7. client' = [d EXCEPT !.next = n, !.state = st]
    <3>1. <<c.id + 1, c.next>> = word
      BY <1>3 DEF word
    <3>2. client' = [c EXCEPT !.wstrobe = TRUE, !.addr = a, !.wdt = word, !.next = n, !.state = st]
      BY <1>7, <2>2, <2>3, <2>4, <3>1, Zenon DEF ClientWrite
    <3>3. QED
      BY <2>5, <3>2, Zenon
  <2>8. client' \in ClientRegs(W) /\ client'.next = n /\ client'.state = st
    BY <2>6, <2>7 DEF ClientRegs
  <2>9. /\ client'.id = d.id /\ client'.len = d.len
        /\ client'.base = d.base /\ client'.pf_enq = d.pf_enq /\ client'.used = d.used
        /\ client'.wstrobe = d.wstrobe /\ client'.addr = d.addr /\ client'.wdt = d.wdt
        /\ client'.tag = d.tag
    BY <2>6, <2>7 DEF ClientRegs
  <2>10. WritingOne
    BY <1>3, <2>1, <2>2, <2>3, <2>4, <2>6, <2>8, <2>9 DEF WritingOne, word
  <2>11. ClientTyped'
    <3>1. ~ client.pf_enq /\ client.len > 0
      BY <1>3, <2>1 DEF ClientTyped
    <3>2. QED
      <4>1. client'.state = "write" => client'.next < client'.len
        BY <1>3, <1>4, <2>1, <2>3, <2>4, <2>6, <2>8, <2>9
      <4>2. client'.state = "enqueue" => client'.next = client'.len
        BY <1>3, <1>4, <2>1, <2>3, <2>4, <2>6, <2>8, <2>9
      <4>3. client'.state # "idle" /\ client'.len > 0 /\ ~ client'.pf_enq
        BY <1>3, <2>4, <2>6, <2>8, <2>9, <3>1
      <4>4. QED
        BY <2>8, <4>1, <4>2, <4>3, ClientOfItsOwn DEF ClientTyped
  <2>12. QED
    BY <2>10, <2>11 DEF ClientMoves
<1>8. CASE ClientEnqueue(c)
  <2>1. c.state = "enqueue" /\ client.len > 0 /\ ~ client.pf_enq /\ client.next = client.len
    BY <1>3, <1>8 DEF ClientEnqueue, ClientTyped
  <2>2. CASE q.fifo_full
    <3>1. client' = [c EXCEPT !.wstrobe = FALSE]
      BY <1>8, <2>2 DEF ClientEnqueue
    <3>2. client' \in ClientRegs(W) /\ ~ client'.wstrobe
      BY <3>1 DEF ClientRegs
    <3>3. /\ client'.state = c.state /\ client'.id = c.id /\ client'.len = c.len
          /\ client'.next = c.next /\ client'.base = c.base /\ client'.used = c.used
          /\ client'.pf_enq = c.pf_enq /\ client'.addr = c.addr /\ client'.wdt = c.wdt
          /\ client'.tag = c.tag
      BY <3>1 DEF ClientRegs
    <3>4. Blocked
      BY <1>3, <2>1, <2>2, <3>2, <3>3 DEF Blocked, Same1
    <3>5. ClientTyped'
      BY <1>3, <2>1, <3>2, <3>3, ClientOfItsOwn DEF ClientTyped
    <3>6. QED
      BY <3>4, <3>5 DEF ClientMoves
  <2>3. CASE ~ q.fifo_full
    <3>1. PICK tag \in Descriptor : tag = [len |-> c.len, ptr |-> c.base]
      BY <1>3, <1>4 DEF Descriptor, Addr
    <3>2. PICK i \in 0 .. IDS - 1 : i = (c.id + 1) % IDS
      BY <1>3, <1>4
    <3>3. PICK b \in Addr : b = (c.base + c.len) % MEM
      BY <1>3, <1>4 DEF Addr
    <3>4. PICK d : d = [c EXCEPT !.wstrobe = FALSE, !.pf_enq = TRUE, !.tag = tag]
      OBVIOUS
    <3>5. /\ d \in ClientRegs(W) /\ ~ d.wstrobe /\ d.pf_enq /\ d.tag = tag
          /\ d.len = c.len /\ d.used = c.used /\ d.next = c.next
          /\ d.addr = c.addr /\ d.wdt = c.wdt
      BY <3>4 DEF ClientRegs
    <3>6. client' = [d EXCEPT !.id = i, !.base = b, !.state = "idle"]
      <4>1. client' = [c EXCEPT !.wstrobe = FALSE, !.pf_enq = TRUE, !.tag = tag,
                                !.id = i, !.base = b, !.state = "idle"]
        BY <1>8, <2>3, <3>1, <3>2, <3>3, Zenon DEF ClientEnqueue
      <4>2. QED
        BY <3>4, <4>1, Zenon
    <3>7. client' \in ClientRegs(W) /\ client'.id = i /\ client'.base = b /\ client'.state = "idle"
      BY <3>5, <3>6 DEF ClientRegs
    <3>8. /\ client'.len = d.len /\ client'.next = d.next /\ client'.used = d.used
          /\ client'.wstrobe = d.wstrobe /\ client'.addr = d.addr /\ client'.wdt = d.wdt
          /\ client'.pf_enq = d.pf_enq /\ client'.tag = d.tag
      BY <3>5, <3>6 DEF ClientRegs
    <3>9. client'.tag.len = client.len /\ client'.tag.ptr = client.base
      BY <1>3, <3>1, <3>5, <3>8
    <3>10. Queueing
      BY <1>3, <2>1, <2>3, <3>2, <3>3, <3>5, <3>7, <3>8, <3>9 DEF Queueing
    <3>11. ClientTyped'
      BY <1>3, <2>1, <3>5, <3>7, <3>8, <3>9, ClientOfItsOwn DEF ClientTyped
    <3>12. QED
      BY <3>10, <3>11 DEF ClientMoves
  <2>4. QED
    BY <2>2, <2>3
<1>9. QED
  BY <1>5, <1>6, <1>7, <1>8

----------------------------------------------------------------------------
(* The descriptors from the client's port to the FSM                        *)

\* Those in the FIFO and the one on the client's port, oldest first.
Count == q.fifo_level + (IF client.pf_enq THEN 1 ELSE 0)
Desc(i) == IF i <= q.fifo_level THEN q.memory[Pf!SlotOf(i - 1)] ELSE client.tag

\* The FIFO has what the FSM is sending until the dequeue arrives, and room for what
\* the client enqueues.
Queued ==
    /\ PfConsistent
    /\ client.pf_enq => ~ q.fifo_full
    /\ OnItsWay(deq) \/ Reading => q.fifo_level > 0

\* The FSM sees the oldest descriptor, or none, from the time it looks for a frame to
\* the time the dequeue arrives; what it sees afterwards is stale for a while.
Shown ==
    /\ \/ Ending /\ ~ OnItsWay(deq) /\ Since <= 2 * RATIO + 1
       \/ pf1.empty
       \/ q.fifo_level > 0 /\ pf1.tag = Desc(1)
    /\ Reading \/ f.fr_done => ~ pf1.empty

\* Taking is what clk takes at its edge.
Taken == IF Taking(deq) THEN 1 ELSE 0
Added == IF client'.pf_enq THEN 1 ELSE 0

\* The ranges of the FIFO.
LEMMA PfRanges ==
    ASSUME PfConsistent
    PROVE  /\ q.fifo_level \in 0 .. DEPTH /\ q.memory \in [Pf!Slots -> Descriptor]
           /\ q.deq_data \in Descriptor /\ q.fifo_empty \in BOOLEAN /\ q.fifo_full \in BOOLEAN
           /\ q.fifo_empty <=> q.fifo_level = 0
           /\ q.fifo_full <=> q.fifo_level = DEPTH
           /\ q.fifo_level > 0 => q.deq_data = q.memory[Pf!SlotOf(0)]
<1>1. /\ q.fifo_level \in 0 .. DEPTH /\ q.memory \in [Pf!Slots -> Descriptor]
      /\ q.deq_data \in Descriptor /\ q.fifo_empty \in BOOLEAN /\ q.fifo_full \in BOOLEAN
      /\ q.rptr \in 0 .. DEPTH - 1
  BY DEF PfConsistent, Pf!Registers, Pf!Slots
<1>2. /\ q.fifo_empty <=> q.fifo_level = 0
      /\ q.fifo_full <=> q.fifo_level = DEPTH
  BY DEF PfConsistent, Pf!LevelIsDistance
<1>3. Pf!SlotOf(0) = q.rptr
  BY <1>1, LinkAssumption DEF Pf!SlotOf
<1>4. q.fifo_level > 0 => q.deq_data = q.memory[q.rptr]
  BY <1>1, <1>2, LinkAssumption DEF PfConsistent, Pf!HeadShown
<1>5. QED
  BY <1>1, <1>2, <1>3, <1>4

\* What the FIFO shows is the oldest descriptor.
LEMMA HeadIs ==
    ASSUME PfConsistent
    PROVE  q.fifo_level > 0 => q.deq_data = Desc(1)
<1>1. q.fifo_level > 0 => 1 <= q.fifo_level
  BY PfRanges, LinkAssumption
<1>2. QED
  BY <1>1, PfRanges DEF Desc

\* What an edge of clk does to the descriptors.
LEMMA DescriptorsAfter ==
    ASSUME Running, CrossTyped, FsmTyped, Paced, Handshakes, Queued, ClientTyped, ClkSide
    PROVE  /\ PfConsistent' /\ client'.pf_enq \in BOOLEAN
           /\ client'.pf_enq => ~ q'.fifo_full
           /\ Taking(deq) => q.fifo_level > 0
           /\ q'.fifo_level = Count - Taken
           /\ Count' = Count - Taken + Added
           /\ \A i \in 1 .. Count - Taken : Desc(i)' = Desc(i + Taken)
           /\ \A i \in Nat : client'.pf_enq /\ i = Count' => Desc(i)' = client'.tag
<1> USE LinkAssumption
<1>1. Bits(deq) /\ rf \in TransportRegs(Descriptor) /\ Handshake(deq)
  BY BitsOf DEF CrossTyped, Handshakes
<1>2. PfPorts /\ PfConsistent
  BY DEF ClientTyped, ClientRegs, PfPorts, Queued
<1>3. PfClock
  BY DEF ClkSide, PfClock
<1>4. /\ q.fifo_level \in 0 .. DEPTH
      /\ q.fifo_empty <=> q.fifo_level = 0
      /\ q.fifo_full <=> q.fifo_level = DEPTH
  BY <1>2, PfRanges
<1>5. Taking(deq) => q.fifo_level > 0
  BY <1>1, OnItsWayEnds DEF Queued
<1>6. (Taking(deq) => ~ q.fifo_empty) /\ (client.pf_enq => ~ q.fifo_full)
  BY <1>4, <1>5 DEF Queued
<1>7. /\ PfConsistent'
      /\ q'.fifo_level = q.fifo_level + (IF client.pf_enq THEN 1 ELSE 0)
                                      - (IF Taking(deq) THEN 1 ELSE 0)
      /\ \A i \in 1 .. q.fifo_level - (IF Taking(deq) THEN 1 ELSE 0) :
           q'.memory[Pf!SlotOf(i - 1)'] = q.memory[Pf!SlotOf(i - (IF Taking(deq) THEN 0 ELSE 1))]
      /\ client.pf_enq => \A i \in Nat : i = q'.fifo_level =>
                            q'.memory[Pf!SlotOf(i - 1)'] = client.tag
  BY <1>1, <1>2, <1>3, <1>6, PfMoves
<1>8. ClientMoves /\ ClientTyped'
  BY <1>1, ClientMovesAre
<1>9. client'.pf_enq \in BOOLEAN /\ client.pf_enq \in BOOLEAN
  BY <1>2, <1>8 DEF ClientTyped, ClientRegs, PfPorts
<1>10. q'.fifo_level = Count - Taken /\ q'.fifo_level \in Nat /\ Count \in Nat
  BY <1>4, <1>5, <1>7, <1>9 DEF Count, Taken
<1>11. Count' = Count - Taken + Added
  BY <1>9, <1>10 DEF Count, Added
<1>12. client'.pf_enq => ~ q'.fifo_full
  <2>1. SUFFICES ASSUME client'.pf_enq PROVE ~ q'.fifo_full
    OBVIOUS
  <2>2. (~ client.pf_enq /\ ~ q.fifo_full)
    <3>1. Queueing \/ WritingOne \/ Blocked
      BY <1>8, <2>1 DEF ClientMoves, Waiting, Starting
    <3>2. client.state # "idle"
      BY <3>1 DEF Queueing, WritingOne, Blocked
    <3>3. ~ client.pf_enq
      BY <3>2 DEF ClientTyped
    <3>4. QED
      BY <2>1, <3>1, <3>3 DEF Queueing, WritingOne, Blocked
  <2>3. q'.fifo_full <=> q'.fifo_level = DEPTH
    BY <1>7 DEF PfConsistent, Pf!LevelIsDistance
  <2>4. q'.fifo_level <= q.fifo_level
    BY <1>4, <1>7, <2>2
  <2>5. QED
    BY <1>4, <1>10, <2>2, <2>3, <2>4
<1>13. ASSUME NEW i \in 1 .. Count - Taken
       PROVE  Desc(i)' = Desc(i + Taken)
  <2>1. i <= q'.fifo_level /\ i \in Nat
    BY <1>10
  <2>2. Desc(i)' = q'.memory[Pf!SlotOf(i - 1)']
    BY <2>1 DEF Desc
  <2>3. CASE i \in 1 .. q.fifo_level - Taken
    <3>1. Desc(i)' = q.memory[Pf!SlotOf(i - (IF Taking(deq) THEN 0 ELSE 1))]
      BY <1>7, <2>2, <2>3 DEF Taken
    <3>2. Desc(i + Taken) = q.memory[Pf!SlotOf(i + Taken - 1)]
      BY <1>4, <2>3 DEF Desc, Taken
    <3>3. i + Taken - 1 = i - (IF Taking(deq) THEN 0 ELSE 1)
      BY <2>1 DEF Taken
    <3>4. QED
      BY <3>1, <3>2, <3>3
  <2>4. CASE ~ (i \in 1 .. q.fifo_level - Taken)
    <3>1. client.pf_enq /\ i = q'.fifo_level /\ ~ (i + Taken <= q.fifo_level)
      BY <1>4, <1>5, <1>9, <1>10, <2>4 DEF Count, Taken
    <3>2. Desc(i)' = client.tag
      BY <1>7, <2>1, <2>2, <3>1
    <3>3. Desc(i + Taken) = client.tag
      BY <3>1 DEF Desc
    <3>4. QED
      BY <3>2, <3>3
  <2>5. QED
    BY <2>3, <2>4
<1>14. ASSUME NEW i \in Nat, client'.pf_enq, i = Count'
       PROVE  Desc(i)' = client'.tag
  <2>1. ~ (i <= q'.fifo_level)
    BY <1>10, <1>14 DEF Count
  <2>2. QED
    BY <2>1 DEF Desc
<1>15. QED
  BY <1>5, <1>7, <1>9, <1>10, <1>11, <1>12, <1>13, <1>14

\* What the queue's part of the invariant rests on.
Crossed == Running /\ FsmTyped /\ Paced /\ PfTyped /\ CrossTyped /\ Handshakes

\* A frame is being read only if it was, or if the FSM has just been shown one.
LEMMA ReadsOn ==
    ASSUME FsmTyped, Paced, FsmClock, pf1.tag \in Descriptor
    PROVE  /\ Reading' => \/ f.state # "IDLE" /\ Reading
                          \/ f.state = "IDLE" /\ ~ pf1.empty
           /\ Reading /\ ~ Reading' => f'.fr_done
           /\ f'.fr_done => Reading
<1>1. /\ f'.fr_done <=> f.state = "TXDATA" /\ f'.state = "TXFCS"
      /\ f.cnt \in Nat /\ f.mii_cnt \in 0 .. 3
  BY SinceAfter, FsmRanges
<1>2. /\ f.state = "IDLE" => /\ pf1.empty => Goes("IDLE", 0) /\ f'.mii_cnt = NextMii
                             /\ ~ pf1.empty => Goes("TXPREAMBLE", 0) /\ f'.mii_cnt = 1
      /\ f.state \notin {"IDLE", "TXDATA"} /\ f.mii_cnt # 0 => Goes(f.state, f.cnt)
      /\ f.state = "TXPREAMBLE" /\ f.mii_cnt = 0 =>
           IF f.cnt = 5 THEN Goes("TXSFD_D5", 5) ELSE Goes("TXPREAMBLE", f.cnt + 1)
      /\ f.state = "TXSFD_D5" /\ f.mii_cnt = 0 => Goes("TXDATA", 0)
      /\ f.state = "TXDATA" /\ f.mii_cnt = 0 => Goes("TXDATA", IF f.cnt < 3 THEN f.cnt + 1 ELSE 0)
      /\ f.state = "TXDATA" /\ f.mii_cnt # 0 /\ f.frlen # 0 => Goes("TXDATA", f.cnt)
      /\ f.state = "TXDATA" /\ f.mii_cnt # 0 /\ f.frlen = 0 => Goes("TXFCS", 0)
      /\ f.state = "TXFCS" /\ f.mii_cnt = 0 =>
           IF f.cnt = 3 THEN Goes("IGAP", IGAP_LEN - 1) ELSE Goes("TXFCS", f.cnt + 1)
      /\ f.state = "IGAP" /\ f.mii_cnt = 0 =>
           IF f.cnt = 0 THEN Goes("IDLE", 0) ELSE Goes("IGAP", f.cnt - 1)
  BY Went
<1>3. QED
  BY <1>1, <1>2, InSomeState DEF Reading, Goes

\* The FIFO after an action.
LEMMA QueuedAfter ==
    ASSUME Crossed, Queued, Shown, ClientTyped, Tick
    PROVE  /\ Queued' /\ ClientTyped'
           /\ RefTick \/ BothTick => (OnItsWay(deq)' \/ Reading' => q.fifo_level > 0)
           /\ BothTick /\ (OnItsWay(deq)' \/ Reading') => ~ Taking(deq)
           /\ ClkTick /\ OnItsWay(deq)' => ~ Taking(deq)
<1> USE LinkAssumption DEF Crossed
<1>1. CrossTyped' /\ Running' /\ CrossAfter(deq) /\ CrossAfter(rf)
  BY CrossingsAfter
<1>2. pf1.tag \in Descriptor /\ Bits(deq) /\ Handshake(deq) /\ rf \in TransportRegs(Descriptor)
  BY BitsOf DEF PfTyped, CrossTyped, Handshakes
<1>3. /\ OnItsWay(deq) => Ending
      /\ Taking(deq) => OnItsWay(deq) /\ ~ f.fr_done /\ Since <= RATIO + 1 + aheadRef
  BY <1>2, OnItsWayEnds
<1>4. Ending => ~ Reading /\ f.state # "IDLE"
  BY DEF Ending, Reading
<1>5. f.state = "IDLE" /\ ~ pf1.empty => q.fifo_level > 0
  BY DEF Shown, Ending
<1>6. CASE RefTick
  <2>1. FsmClock /\ UNCHANGED <<q, client>>
    BY <1>6, RefSideIs DEF RefTick, RefEdge, clkRegs
  <2>2. OnItsWay(deq)' \/ Reading' => OnItsWay(deq) \/ Reading \/ (f.state = "IDLE" /\ ~ pf1.empty)
    BY <1>1, <1>2, <1>6, <2>1, ReadsOn DEF CrossAfter
  <2>3. OnItsWay(deq)' \/ Reading' => q.fifo_level > 0
    BY <1>5, <2>2 DEF Queued
  <2>4. Queued'
    BY <2>1, <2>3 DEF Queued, PfConsistent, Pf!LevelIsDistance, Pf!HeadShown
  <2>5. ClientTyped'
    BY <2>1 DEF ClientTyped
  <2>6. ~ ClkTick /\ ~ BothTick
    BY <1>6, OneTick
  <2>7. QED
    BY <2>3, <2>4, <2>5, <2>6
<1>7. CASE ClkTick
  <2>1. ClkSide /\ UNCHANGED f
    BY <1>7, ClkTickIs
  <2>2. /\ PfConsistent' /\ (client'.pf_enq => ~ q'.fifo_full)
        /\ q'.fifo_level = Count - Taken
    BY <2>1, DescriptorsAfter
  <2>3. ClientTyped'
    BY <1>2, <2>1, ClientMovesAre
  <2>4. OnItsWay(deq)' => OnItsWay(deq) /\ ~ Taking(deq)
    BY <1>1, <1>7 DEF CrossAfter
  <2>5. Reading' => Reading /\ ~ Taking(deq)
    BY <1>3, <1>4, <2>1 DEF Reading
  <2>6. OnItsWay(deq)' \/ Reading' => q'.fifo_level > 0
    BY <2>2, <2>4, <2>5, PfRanges DEF Queued, Count, Taken
  <2>7. ~ RefTick /\ ~ BothTick
    BY <1>7, ClkTickIs
  <2>8. QED
    BY <2>2, <2>3, <2>4, <2>6, <2>7 DEF Queued
<1>8. CASE BothTick
  <2>1. FsmClock /\ ClkSide /\ aheadRef < RATIO /\ aheadRef \in 0 .. RATIO
    BY <1>8, RefSideIs DEF BothTick, BothEdges, CrossTyped
  <2>2. /\ PfConsistent' /\ (client'.pf_enq => ~ q'.fifo_full)
        /\ q'.fifo_level = Count - Taken
    BY <2>1, DescriptorsAfter
  <2>3. ClientTyped'
    BY <1>2, <2>1, ClientMovesAre
  <2>4. Reading' => ~ Taking(deq)
    <3>1. Taking(deq) => Past'
      BY <1>2, <1>3, <2>1, SinceAfter
    <3>2. QED
      BY <3>1 DEF Past, Ending, Reading
  <2>5. OnItsWay(deq)' => ~ Taking(deq)
    BY <1>1, <1>3, <1>8 DEF CrossAfter
  <2>6. OnItsWay(deq)' \/ Reading' => q.fifo_level > 0
    <3>1. OnItsWay(deq)' \/ Reading' => OnItsWay(deq) \/ Reading \/ (f.state = "IDLE" /\ ~ pf1.empty)
      BY <1>1, <1>2, <1>8, <2>1, ReadsOn DEF CrossAfter
    <3>2. QED
      BY <1>5, <3>1 DEF Queued
  <2>7. OnItsWay(deq)' \/ Reading' => q'.fifo_level > 0
    BY <2>2, <2>4, <2>5, <2>6, PfRanges DEF Queued, Count, Taken
  <2>8. ~ RefTick /\ ~ ClkTick
    BY <1>8, OneTick
  <2>9. QED
    BY <2>2, <2>3, <2>4, <2>5, <2>6, <2>7, <2>8 DEF Queued
<1>9. QED
  BY <1>6, <1>7, <1>8 DEF Tick

\* What the FIFO shows after an action.
LEMMA HeadAfter ==
    ASSUME PfConsistent'
    PROVE  /\ q'.fifo_level \in 0 .. DEPTH /\ q'.deq_data \in Descriptor /\ q'.fifo_empty \in BOOLEAN
           /\ q'.fifo_empty <=> q'.fifo_level = 0
           /\ q'.fifo_level > 0 => q'.deq_data = Desc(1)'
<1>1. /\ q'.fifo_level \in 0 .. DEPTH /\ q'.deq_data \in Descriptor /\ q'.fifo_empty \in BOOLEAN
      /\ q'.rptr \in 0 .. DEPTH - 1
  BY DEF PfConsistent, Pf!Registers, Pf!Slots
<1>2. q'.fifo_empty <=> q'.fifo_level = 0
  BY DEF PfConsistent, Pf!LevelIsDistance
<1>3. Pf!SlotOf(1 - 1)' = q'.rptr
  BY <1>1, LinkAssumption DEF Pf!SlotOf
<1>4. q'.fifo_level > 0 => q'.deq_data = q'.memory[q'.rptr]
  BY <1>1, <1>2, LinkAssumption DEF PfConsistent, Pf!HeadShown
<1>5. q'.fifo_level > 0 => Desc(1)' = q'.memory[Pf!SlotOf(1 - 1)']
  BY <1>1, LinkAssumption DEF Desc
<1>6. QED
  BY <1>1, <1>2, <1>3, <1>4, <1>5

\* What the FSM sees after an action.
LEMMA ShownAfter ==
    ASSUME Crossed, Queued, Shown, ClientTyped, Tick
    PROVE  Shown' /\ PfTyped'
<1> USE LinkAssumption DEF Crossed
<1>1. CrossTyped' /\ Running' /\ CrossAfter(deq) /\ CrossAfter(rf)
  BY CrossingsAfter
<1>2. /\ pf1.tag \in Descriptor /\ Bits(deq) /\ Handshake(deq) /\ rf \in TransportRegs(Descriptor)
      /\ aheadRef \in 0 .. RATIO
  BY BitsOf DEF PfTyped, CrossTyped, Handshakes
<1>3. /\ OnItsWay(deq) => Ending
      /\ Taking(deq) => OnItsWay(deq) /\ ~ f.fr_done /\ Since <= RATIO + 1 + aheadRef
  BY <1>2, OnItsWayEnds
<1>4. /\ Queued'
      /\ RefTick \/ BothTick => (OnItsWay(deq)' \/ Reading' => q.fifo_level > 0)
      /\ BothTick /\ (OnItsWay(deq)' \/ Reading') => ~ Taking(deq)
  BY QueuedAfter
<1>5. f'.fr_done => OnItsWay(deq)'
  BY DEF OnItsWay, OnWay
<1>6. /\ q.fifo_level \in 0 .. DEPTH /\ q.deq_data \in Descriptor /\ q.fifo_empty \in BOOLEAN
      /\ q.fifo_empty <=> q.fifo_level = 0
      /\ q.fifo_level > 0 => q.deq_data = Desc(1)
  BY PfRanges, HeadIs DEF Queued
<1>7. CASE RefTick
  <2>1. UNCHANGED <<q, client>> /\ pf1' = [empty |-> q.fifo_empty, tag |-> q.deq_data]
    BY <1>7 DEF RefTick, RefEdge, clkRegs, PfAcross
  <2>2. pf1'.empty = q.fifo_empty /\ pf1'.tag = q.deq_data /\ PfTyped'
    BY <1>6, <2>1 DEF PfTyped
  <2>3. Desc(1)' = Desc(1) /\ q'.fifo_level = q.fifo_level
    BY <2>1 DEF Desc, Pf!SlotOf
  <2>4. Reading' \/ f'.fr_done => ~ pf1'.empty
    BY <1>4, <1>5, <1>6, <1>7, <2>2
  <2>5. pf1'.empty \/ (q'.fifo_level > 0 /\ pf1'.tag = Desc(1)')
    BY <1>6, <2>2, <2>3
  <2>6. QED
    BY <2>2, <2>4, <2>5 DEF Shown
<1>8. CASE ClkTick
  <2>1. /\ ClkSide /\ UNCHANGED f
        /\ \/ pf1' = pf1
           \/ f.state = "IDLE" /\ ~ f.fr_done /\ (PfAcross(q) \/ PfAcross(q'))
    BY <1>8, ClkTickIs
  <2>2. /\ q'.fifo_level = Count - Taken
        /\ \A i \in 1 .. Count - Taken : Desc(i)' = Desc(i + Taken)
    BY <2>1, DescriptorsAfter
  <2>3. Since' = Since /\ Ending' = Ending
    BY <2>1, SinceStill
  <2>4. OnItsWay(deq)' <=> OnItsWay(deq) /\ ~ Taking(deq)
    BY <1>1, <1>8 DEF CrossAfter
  <2>9. ASSUME ~ Taking(deq), q.fifo_level > 0
        PROVE  Desc(1)' = Desc(1) /\ q'.fifo_level > 0
    <3>1. Count - Taken \in Nat /\ Count - Taken > 0 /\ Taken = 0
      BY <1>6, <2>9 DEF Count, Taken
    <3>2. QED
      BY <2>2, <3>1
  <2>10. CASE pf1' = pf1
    <3>1. (Reading' \/ f'.fr_done => ~ pf1'.empty) /\ PfTyped'
      BY <2>1, <2>10 DEF Shown, Reading, PfTyped
    <3>2. CASE Ending /\ ~ OnItsWay(deq) /\ Since <= 2 * RATIO + 1
      BY <2>3, <2>4, <3>1, <3>2 DEF Shown
    <3>3. CASE pf1.empty
      BY <2>10, <3>1, <3>3 DEF Shown
    <3>4. CASE q.fifo_level > 0 /\ pf1.tag = Desc(1) /\ Taking(deq)
      <4>1. Since <= 2 * RATIO + 1
        BY <1>2, <1>3, <3>4, SinceStill, <2>1
      <4>2. QED
        BY <1>3, <2>3, <2>4, <3>1, <3>4, <4>1 DEF Shown
    <3>5. CASE q.fifo_level > 0 /\ pf1.tag = Desc(1) /\ ~ Taking(deq)
      <4>1. Desc(1)' = Desc(1) /\ q'.fifo_level > 0
        BY <2>9, <3>5
      <4>2. QED
        BY <2>10, <3>1, <3>5, <4>1 DEF Shown
    <3>6. QED
      BY <3>2, <3>3, <3>4, <3>5 DEF Shown
  <2>11. CASE f.state = "IDLE" /\ ~ f.fr_done /\ (PfAcross(q) \/ PfAcross(q'))
    <3>1. ~ Reading' /\ ~ f'.fr_done /\ ~ Taking(deq)
      BY <1>3, <2>1, <2>11 DEF Reading, Ending
    <3>2. CASE PfAcross(q)
      <4>1. pf1' = [empty |-> q.fifo_empty, tag |-> q.deq_data]
        BY <3>2 DEF PfAcross
      <4>2. pf1'.empty = q.fifo_empty /\ pf1'.tag = q.deq_data /\ PfTyped'
        BY <1>6, <4>1 DEF PfTyped
      <4>3. q.fifo_level > 0 => Desc(1)' = Desc(1) /\ q'.fifo_level > 0
        BY <2>9, <3>1
      <4>4. QED
        BY <1>6, <3>1, <4>2, <4>3 DEF Shown
    <3>3. CASE PfAcross(q')
      <4>1. /\ q'.fifo_level \in 0 .. DEPTH /\ q'.deq_data \in Descriptor /\ q'.fifo_empty \in BOOLEAN
            /\ q'.fifo_empty <=> q'.fifo_level = 0
            /\ q'.fifo_level > 0 => q'.deq_data = Desc(1)'
        BY <1>4, HeadAfter DEF Queued
      <4>2. pf1' = [empty |-> q'.fifo_empty, tag |-> q'.deq_data]
        BY <3>3 DEF PfAcross
      <4>3. pf1'.empty = q'.fifo_empty /\ pf1'.tag = q'.deq_data /\ PfTyped'
        BY <4>1, <4>2 DEF PfTyped
      <4>4. QED
        BY <3>1, <4>1, <4>3 DEF Shown
    <3>4. QED
      BY <2>11, <3>2, <3>3
  <2>12. QED
    BY <2>1, <2>10, <2>11
<1>9. CASE BothTick
  <2>1. FsmClock /\ ClkSide /\ aheadRef < RATIO
    BY <1>9, RefSideIs DEF BothTick, BothEdges
  <2>2. /\ q'.fifo_level = Count - Taken
        /\ \A i \in 1 .. Count - Taken : Desc(i)' = Desc(i + Taken)
    BY <2>1, DescriptorsAfter
  <2>3. /\ q'.fifo_level \in 0 .. DEPTH /\ q'.deq_data \in Descriptor /\ q'.fifo_empty \in BOOLEAN
        /\ q'.fifo_empty <=> q'.fifo_level = 0
        /\ q'.fifo_level > 0 => q'.deq_data = Desc(1)'
    BY <1>4, HeadAfter DEF Queued
  <2>4. PfAcross(q) \/ PfAcross(q')
    BY <1>9 DEF BothTick, BothEdges
  <2>5. CASE PfAcross(q)
    <3>1. pf1' = [empty |-> q.fifo_empty, tag |-> q.deq_data]
      BY <2>5 DEF PfAcross
    <3>2. pf1'.empty = q.fifo_empty /\ pf1'.tag = q.deq_data /\ PfTyped'
      BY <1>6, <3>1 DEF PfTyped
    <3>3. Reading' \/ f'.fr_done => ~ pf1'.empty
      BY <1>4, <1>5, <1>6, <1>9, <3>2
    <3>4. CASE q.fifo_level = 0
      BY <1>6, <3>2, <3>3, <3>4 DEF Shown
    <3>5. CASE q.fifo_level > 0 /\ ~ Taking(deq)
      <4>1. Count - Taken \in Nat /\ Count - Taken > 0 /\ Taken = 0
        BY <1>6, <3>5 DEF Count, Taken
      <4>2. Desc(1)' = Desc(1) /\ q'.fifo_level > 0
        BY <2>2, <4>1
      <4>3. QED
        BY <1>6, <3>2, <3>3, <3>5, <4>2 DEF Shown
    <3>6. CASE Taking(deq)
      <4>1. Since <= 2 * RATIO
        BY <1>2, <1>3, <2>1, <3>6, SinceAfter
      <4>2. Past' /\ Since' = Since + 1 /\ Since' <= 2 * RATIO + 1
        BY <1>2, <1>3, <2>1, <3>6, <4>1, SinceAfter
      <4>3. ~ OnItsWay(deq)'
        BY <1>1, <1>9, <3>6, <4>2 DEF CrossAfter, Past
      <4>4. QED
        BY <3>2, <3>3, <4>2, <4>3 DEF Shown, Past
    <3>7. QED
      BY <1>6, <3>4, <3>5, <3>6
  <2>6. CASE PfAcross(q')
    <3>1. pf1' = [empty |-> q'.fifo_empty, tag |-> q'.deq_data]
      BY <2>6 DEF PfAcross
    <3>2. pf1'.empty = q'.fifo_empty /\ pf1'.tag = q'.deq_data /\ PfTyped'
      BY <2>3, <3>1 DEF PfTyped
    <3>3. Reading' \/ f'.fr_done => ~ pf1'.empty
      BY <1>4, <1>5, <2>3, <3>2 DEF Queued
    <3>4. QED
      BY <2>3, <3>2, <3>3 DEF Shown
  <2>7. QED
    BY <2>4, <2>5, <2>6
<1>10. QED
  BY <1>7, <1>8, <1>9 DEF Tick

----------------------------------------------------------------------------
(* The frames still to be read by the FSM                                   *)

\* Their descriptors: the first in the FIFO is no longer one of them from fr_done to
\* the edge of clk that takes the dequeue.
Read == IF OnItsWay(deq) THEN 1 ELSE 0
Live == Count - Read
LiveDesc(k) == IF OnItsWay(deq) THEN Desc(k + 1) ELSE Desc(k)

\* An action drops the first of them, at the end of its data, and may add one.
Dropped == IF Reading /\ ~ Reading' THEN 1 ELSE 0
NowAdded == IF RefTick THEN 0 ELSE Added

\* The frames still to be read after an action.
LEMMA LiveAfter ==
    ASSUME Crossed, Queued, Shown, ClientTyped, Tick
    PROVE  /\ Live' = Live - Dropped + NowAdded /\ Live \in Nat /\ NowAdded \in {0, 1}
           /\ Dropped \in {0, 1} /\ Dropped <= Live
           /\ \A k \in 1 .. Live - Dropped : LiveDesc(k)' = LiveDesc(k + Dropped)
           /\ NowAdded = 1 => client'.pf_enq /\ (ClkTick \/ BothTick)
           /\ \A k \in Nat : NowAdded = 1 /\ k = Live' => LiveDesc(k)' = client'.tag
<1> USE LinkAssumption DEF Crossed
<1>1. CrossAfter(deq)
  BY CrossingsAfter
<1>2. /\ pf1.tag \in Descriptor /\ Bits(deq) /\ Handshake(deq)
  BY BitsOf DEF PfTyped, CrossTyped, Handshakes
<1>3. /\ OnItsWay(deq) => Ending
      /\ Taking(deq) => OnItsWay(deq) /\ ~ f.fr_done
  BY <1>2, OnItsWayEnds
<1>4. q.fifo_level \in 0 .. DEPTH /\ client.pf_enq \in BOOLEAN
  BY PfRanges DEF Queued, ClientTyped, ClientRegs
<1>5. Count \in Nat /\ (OnItsWay(deq) \/ Reading => Count > 0) /\ Taken \in {0, 1} /\ Dropped \in {0, 1}
  BY <1>4 DEF Count, Queued, Taken, Dropped
<1>6. /\ Live \in Nat /\ Dropped <= Live
  <2>1. Reading => ~ OnItsWay(deq)
    BY <1>3 DEF Ending, Reading
  <2>2. QED
    BY <1>5, <2>1 DEF Live, Read, Dropped
<1>7. OnItsWay(deq)' \in BOOLEAN /\ OnItsWay(deq) \in BOOLEAN
  BY <1>2 DEF OnItsWay, OnWay
<1>8. CASE RefTick
  <2>1. FsmClock /\ UNCHANGED <<q, client>>
    BY <1>8, RefSideIs DEF RefTick, RefEdge, clkRegs
  <2>2. Count' = Count /\ \A i : Desc(i)' = Desc(i)
    BY <2>1 DEF Count, Desc, Pf!SlotOf
  <2>3. Reading /\ ~ Reading' <=> f'.fr_done
    BY <1>2, <2>1, ReadsOn, SinceAfter DEF Reading
  <2>4. /\ OnItsWay(deq)' <=> f'.fr_done \/ OnItsWay(deq)
        /\ f'.fr_done => ~ OnItsWay(deq)
    BY <1>1, <1>8 DEF CrossAfter
  <2>5. Live' = Live - Dropped
    BY <1>5, <2>2, <2>3, <2>4 DEF Live, Read, Dropped
  <2>6. ASSUME NEW k \in 1 .. Live - Dropped
        PROVE  LiveDesc(k)' = LiveDesc(k + Dropped)
    BY <2>2, <2>3, <2>4 DEF LiveDesc, Dropped
  <2>7. QED
    BY <1>5, <1>6, <1>8, <2>5, <2>6 DEF NowAdded
<1>9. CASE (ClkTick \/ BothTick) /\ ~ RefTick
  <2>1. ClkSide
    BY <1>9, ClkTickIs DEF BothTick, BothEdges
  <2>2. /\ client'.pf_enq \in BOOLEAN
        /\ Count' = Count - Taken + Added
        /\ \A i \in 1 .. Count - Taken : Desc(i)' = Desc(i + Taken)
        /\ \A i \in Nat : client'.pf_enq /\ i = Count' => Desc(i)' = client'.tag
    BY <2>1, DescriptorsAfter
  <2>3. /\ OnItsWay(deq)' <=> Dropped = 1 \/ (OnItsWay(deq) /\ Taken = 0)
        /\ Dropped = 1 => ~ OnItsWay(deq)
    <3>1. CASE ClkTick
      <4>1. Dropped = 0
        BY <3>1, ClkTickIs DEF Dropped, Reading
      <4>2. OnItsWay(deq)' <=> OnItsWay(deq) /\ ~ Taking(deq)
        BY <1>1, <3>1 DEF CrossAfter
      <4>3. QED
        BY <4>1, <4>2 DEF Taken
    <3>2. CASE BothTick
      <4>1. FsmClock
        BY <3>2, RefSideIs
      <4>2. Reading /\ ~ Reading' <=> f'.fr_done
        BY <1>2, <4>1, ReadsOn, SinceAfter DEF Reading
      <4>3. /\ OnItsWay(deq)' <=> f'.fr_done \/ (OnItsWay(deq) /\ ~ Taking(deq))
            /\ f'.fr_done => ~ OnItsWay(deq)
        BY <1>1, <3>2 DEF CrossAfter
      <4>4. QED
        BY <4>2, <4>3 DEF Taken, Dropped
    <3>3. QED
      BY <1>9, <3>1, <3>2
  <2>4. Added \in {0, 1} /\ NowAdded = Added
    BY <1>9, <2>2 DEF Added, NowAdded
  <2>5. Taken = 1 => OnItsWay(deq)
    BY <1>3 DEF Taken
  <2>6. Read' = Read - Taken + Dropped
    BY <1>5, <1>7, <2>3, <2>5 DEF Read
  <2>7. Live' = Live - Dropped + Added
    BY <1>5, <2>2, <2>4, <2>6 DEF Live, Read
  <2>8. ASSUME NEW k \in 1 .. Live - Dropped
        PROVE  LiveDesc(k)' = LiveDesc(k + Dropped)
    <3>1. CASE OnItsWay(deq)'
      <4>1. /\ k + 1 \in 1 .. Count - Taken /\ k + 1 + Taken = k + Dropped + Read
        BY <1>5, <2>3, <2>5, <2>6, <3>1 DEF Live, Read
      <4>2. Desc(k + 1)' = Desc(k + 1 + Taken)
        BY <2>2, <4>1
      <4>3. LiveDesc(k)' = Desc(k + 1)'
        BY <3>1 DEF LiveDesc
      <4>4. Desc(k + Dropped + Read) = LiveDesc(k + Dropped)
        BY <1>5 DEF LiveDesc, Read
      <4>5. QED
        BY <4>1, <4>2, <4>3, <4>4
    <3>2. CASE ~ OnItsWay(deq)'
      <4>1. /\ k \in 1 .. Count - Taken /\ k + Taken = k + Dropped + Read
        BY <1>5, <2>3, <2>5, <2>6, <3>2 DEF Live, Read
      <4>2. Desc(k)' = Desc(k + Taken)
        BY <2>2, <4>1
      <4>3. LiveDesc(k)' = Desc(k)'
        BY <3>2 DEF LiveDesc
      <4>4. Desc(k + Dropped + Read) = LiveDesc(k + Dropped)
        BY <1>5 DEF LiveDesc, Read
      <4>5. QED
        BY <4>1, <4>2, <4>3, <4>4
    <3>3. QED
      BY <3>1, <3>2
  <2>9. ASSUME NEW k \in Nat, NowAdded = 1, k = Live'
        PROVE  LiveDesc(k)' = client'.tag
    <3>0. Added = 1
      BY <2>4, <2>9
    <3>1. client'.pf_enq
      BY <3>0 DEF Added
    <3>5. Count' \in Int
      BY <1>5, <2>2, <3>0
    <3>6. PICK c \in Int : c = Count'
      BY <3>5
    <3>7. k = c - Read'
      BY <2>9, <3>6 DEF Live
    <3>2. CASE OnItsWay(deq)'
      <4>0. Read' = 1
        BY <3>2 DEF Read
      <4>1. k + 1 \in Nat /\ k + 1 = c
        BY <3>7, <4>0
      <4>2. QED
        BY <2>2, <3>1, <3>2, <3>6, <4>1 DEF LiveDesc
    <3>3. CASE ~ OnItsWay(deq)'
      <4>0. Read' = 0
        BY <3>3 DEF Read
      <4>1. k = c
        BY <3>7, <4>0
      <4>2. QED
        BY <2>2, <3>1, <3>3, <3>6, <4>1 DEF LiveDesc
    <3>4. QED
      BY <3>2, <3>3
  <2>10. NowAdded = 1 => client'.pf_enq
    BY <2>4 DEF Added
  <2>11. QED
    BY <1>5, <1>6, <1>9, <2>4, <2>7, <2>8, <2>9, <2>10
<1>10. QED
  BY <1>8, <1>9 DEF Tick

----------------------------------------------------------------------------
(* The frames enqueued and not yet wholly on the wire                       *)

\* A frame is on the wire from the first byte the FSM hands over to the last dibit the
\* serialiser sends; its descriptor is live as long as its data are read.
OnWire == Sending \/ s.en
Lead == IF OnWire /\ ~ Reading THEN 1 ELSE 0
LiveFrame(k) == toSend[Lead + k]

\* The serialiser sends the last dibit of a frame.
Fell == IF s.en /\ ~ s'.en THEN 1 ELSE 0

Frame == [id : 1 .. IDS, len : 1 .. MEM - 1]
Sized == toSend \in Seq(Frame) /\ Len(toSend) = Lead + Live

\* A sequence that may lose its first element and gain a last one.
Moved(S, a, d, x, n, b) ==
    /\ a \in Seq(S) /\ d \in {0, 1} /\ d <= Len(a) /\ n \in {0, 1} /\ (n = 1 => x \in S)
    /\ b = (IF d = 1 THEN Tail(a) ELSE a) \o (IF n = 1 THEN <<x>> ELSE << >>)

\* What is in it then.
LEMMA Shifted ==
    ASSUME NEW S, NEW a, NEW d, NEW x, NEW n, NEW b, Moved(S, a, d, x, n, b)
    PROVE  /\ b \in Seq(S) /\ Len(b) = Len(a) - d + n
           /\ \A i \in 1 .. Len(a) - d : b[i] = a[i + d]
           /\ n = 1 => \A i \in Nat : i = Len(a) - d + 1 => b[i] = x
<1> USE DEF Moved
<1>1. Len(a) \in Nat /\ (d = 1 => a # << >>)
  BY EmptySeq, LenProperties
<1>2. PICK l \in Seq(S), m \in Nat :
        /\ l = IF d = 1 THEN Tail(a) ELSE a
        /\ m = Len(a) - d /\ Len(l) = m /\ \A i \in 1 .. m : l[i] = a[i + d]
  <2>1. CASE d = 1
    <3>1. /\ Tail(a) \in Seq(S) /\ Len(Tail(a)) = Len(a) - 1
          /\ \A i \in 1 .. Len(Tail(a)) : Tail(a)[i] = a[i + 1]
      BY <1>1, <2>1, HeadTailProperties
    <3>2. Len(a) - 1 \in Nat
      BY <1>1, <2>1
    <3>3. QED
      BY <2>1, <3>1, <3>2
  <2>2. CASE d = 0
    <3>1. \A i \in 1 .. Len(a) : i + 0 = i
      OBVIOUS
    <3>2. QED
      BY <1>1, <2>2, <3>1
  <2>3. QED
    BY <2>1, <2>2
<1>3. CASE n = 1
  <2>0. x \in S
    BY <1>3
  <2>1. b = Append(l, x)
    BY <1>2, <1>3, <2>0, AppendIsConcat
  <2>2. /\ Append(l, x) \in Seq(S) /\ Len(Append(l, x)) = Len(l) + 1
        /\ \A i \in 1 .. Len(l) : Append(l, x)[i] = l[i]
        /\ Append(l, x)[Len(l) + 1] = x
    BY <1>3, <2>0, AppendProperties
  <2>3. b \in Seq(S) /\ Len(b) = m + 1 /\ (\A i \in 1 .. m : b[i] = a[i + d]) /\ b[m + 1] = x
    BY <1>2, <2>1, <2>2
  <2>4. QED
    BY <1>2, <1>3, <2>3
<1>4. CASE n = 0
  <2>1. b = l \o << >>
    BY <1>2, <1>4
  <2>2. b = l
    BY <2>1, ConcatEmptySeq
  <2>3. QED
    BY <1>2, <1>4, <2>2
<1>5. QED
  BY <1>3, <1>4

\* How an action moves the first live frame in the sequence.
LEMMA LeadAfter ==
    ASSUME Crossed, RmiiTyped, Serial, Tick
    PROVE  /\ Lead \in {0, 1} /\ Fell \in {0, 1} /\ Fell <= Lead /\ Lead' = Lead - Fell + Dropped
           /\ Fell = 1 => Dropped = 0
           /\ ClkTick => Fell = 0 /\ Dropped = 0
<1> USE TxLinkAssumption DEF Crossed
<1>1. CASE RefTick \/ BothTick
  <2>1. FsmClock /\ RmiiClock
    BY <1>1, RefSideIs
  <2>2. pf1.tag \in Descriptor
    BY DEF PfTyped
  <2>3. /\ f.cnt \in Nat /\ f.mii_cnt \in 0 .. 3 /\ s.en \in BOOLEAN
    BY FsmRanges DEF RmiiTyped
  <2>4. FsmTyped' /\ Paced' /\ RmiiTyped' /\ Serial'
    BY <2>1, <2>2, PacedAfter, SerialAfter
  <2>5. s'.en \in BOOLEAN
    BY <2>4 DEF RmiiTyped
  <2>6. /\ f.state = "IDLE" => /\ pf1.empty => Goes("IDLE", 0) /\ f'.mii_cnt = NextMii
                               /\ ~ pf1.empty => Goes("TXPREAMBLE", 0) /\ f'.mii_cnt = 1
        /\ f.state # "IDLE" => f'.mii_cnt = NextMii
        /\ f.state \notin {"IDLE", "TXDATA"} /\ f.mii_cnt # 0 => Goes(f.state, f.cnt)
        /\ f.state = "TXPREAMBLE" /\ f.mii_cnt = 0 =>
             IF f.cnt = 5 THEN Goes("TXSFD_D5", 5) ELSE Goes("TXPREAMBLE", f.cnt + 1)
        /\ f.state = "TXSFD_D5" /\ f.mii_cnt = 0 => Goes("TXDATA", 0)
        /\ f.state = "TXDATA" /\ f.mii_cnt = 0 => Goes("TXDATA", IF f.cnt < 3 THEN f.cnt + 1 ELSE 0)
        /\ f.state = "TXDATA" /\ f.mii_cnt # 0 /\ f.frlen # 0 => Goes("TXDATA", f.cnt)
        /\ f.state = "TXDATA" /\ f.mii_cnt # 0 /\ f.frlen = 0 => Goes("TXFCS", 0)
        /\ f.state = "TXFCS" /\ f.mii_cnt = 0 =>
             IF f.cnt = 3 THEN Goes("IGAP", IGAP_LEN - 1) ELSE Goes("TXFCS", f.cnt + 1)
        /\ f.state = "IGAP" /\ f.mii_cnt = 0 =>
             IF f.cnt = 0 THEN Goes("IDLE", 0) ELSE Goes("IGAP", f.cnt - 1)
    BY <2>1, <2>2, Went
  <2>0. ~ s.en /\ ~ (f.t_str_dt /\ f.t_dv) => ~ s'.en
    BY <2>1, FsmRanges, RmiiIs
  <2>7. /\ Lead \in {0, 1} /\ Fell \in {0, 1} /\ Fell <= Lead /\ Lead' = Lead - Fell + Dropped
        /\ Fell = 1 => Dropped = 0
    <3>1. CASE f.state = "IDLE"
      BY <2>0, <2>3, <2>4, <2>5, <2>6, <3>1
      DEF Serial, Paced, Lead, Fell, Dropped, OnWire, Sending, Reading, First, LastByte, Goes, NextMii
    <3>2. CASE f.state \in {"TXPREAMBLE", "TXSFD_D5", "TXDATA"}
      BY <2>3, <2>4, <2>5, <2>6, <3>2
      DEF Serial, Paced, Lead, Fell, Dropped, OnWire, Sending, Reading, First, LastByte, Goes, NextMii
    <3>3. CASE f.state = "TXFCS"
      BY <2>3, <2>4, <2>5, <2>6, <3>3
      DEF Serial, Paced, Lead, Fell, Dropped, OnWire, Sending, Reading, First, LastByte, Goes, NextMii
    <3>4. CASE f.state = "IGAP"
      BY <2>3, <2>4, <2>5, <2>6, <3>4
      DEF Serial, Paced, Lead, Fell, Dropped, OnWire, Sending, Reading, First, LastByte, Goes, NextMii
    <3>5. QED
      BY <3>1, <3>2, <3>3, <3>4, InSomeState
  <2>8. ASSUME ClkTick
        PROVE  Fell = 0 /\ Dropped = 0
    <3>1. f' = f /\ s' = s
      BY <2>8, ClkTickIs
    <3>2. QED
      BY <3>1 DEF Fell, Dropped, Reading
  <2>9. QED
    BY <2>7, <2>8
<1>2. CASE ClkTick
  <2>1. f' = f /\ s' = s
    BY <1>2, ClkTickIs
  <2>2. s.en \in BOOLEAN
    BY DEF RmiiTyped
  <2>3. Fell = 0 /\ Dropped = 0
    BY <2>1 DEF Fell, Dropped, Reading
  <2>4. Lead' = Lead /\ Lead \in {0, 1}
    BY <2>1 DEF Lead, OnWire, Sending, Reading
  <2>5. QED
    BY <2>3, <2>4
<1>3. QED
  BY <1>1, <1>2 DEF Tick

\* A frame is added by the client's step that enqueues it, and by no other.
LEMMA AddedIs ==
    ASSUME Crossed, ClientTyped, ClkSide
    PROVE  /\ ClientMoves /\ ClientTyped' /\ client'.pf_enq \in BOOLEAN
           /\ client'.pf_enq <=> Queueing
           /\ Queueing => client.len \in 1 .. MEM - 1 /\ client.id \in 0 .. IDS - 1
<1>1. ClientMoves /\ ClientTyped'
  BY ClientMovesAre DEF Crossed, CrossTyped
<1>2. client'.pf_enq \in BOOLEAN
  BY <1>1 DEF ClientTyped, ClientRegs
<1>3. client'.pf_enq <=> Queueing
  <2>1. client.state # "idle" => ~ client.pf_enq
    BY DEF ClientTyped
  <2>2. QED
    BY <1>1, <2>1 DEF ClientMoves, Waiting, Starting, WritingOne, Blocked, Queueing
<1>4. ASSUME Queueing
      PROVE  client.len \in 1 .. MEM - 1 /\ client.id \in 0 .. IDS - 1
  <2>1. client.state # "idle" /\ client.len \in 0 .. MEM - 1 /\ client.id \in 0 .. IDS - 1
    BY <1>4 DEF Queueing, ClientTyped, ClientRegs, Addr
  <2>2. client.len > 0
    BY <2>1 DEF ClientTyped
  <2>3. QED
    BY <2>1, <2>2, TxLinkAssumption
<1>5. QED
  BY <1>1, <1>2, <1>3, <1>4

\* The frames after an action: the first is gone when the serialiser falls, the last is new
\* when the client has enqueued one.
LEMMA SentAfter ==
    ASSUME Crossed, RmiiTyped, Serial, Queued, Shown, ClientTyped, Sized, Tick
    PROVE  /\ Sized'
           /\ Live - Dropped \in Nat
           /\ \A k \in 1 .. Live - Dropped : LiveFrame(k)' = LiveFrame(k + Dropped)
           /\ NowAdded = 1 => \A k \in Nat : k = Live' =>
                                LiveFrame(k)' = [id |-> client.id + 1, len |-> client.len]
           /\ OnWire /\ Fell = 0 => /\ toSend # << >> /\ toSend' # << >>
                                    /\ toSend[1] \in Frame /\ toSend'[1] = toSend[1]
<1> DEFINE x == [id |-> client.id + 1, len |-> client.len]
<1> USE LinkAssumption, TxLinkAssumption
<1>1. /\ Live' = Live - Dropped + NowAdded /\ Live \in Nat /\ NowAdded \in {0, 1}
      /\ Dropped \in {0, 1} /\ Dropped <= Live
      /\ NowAdded = 1 => client'.pf_enq /\ (ClkTick \/ BothTick)
  BY LiveAfter
<1>2. /\ Lead \in {0, 1} /\ Fell \in {0, 1} /\ Fell <= Lead /\ Lead' = Lead - Fell + Dropped
      /\ Fell = 1 => Dropped = 0
      /\ ClkTick => Fell = 0 /\ Dropped = 0
  BY LeadAfter
<1>3. toSend \in Seq(Frame) /\ Len(toSend) = Lead + Live
  BY DEF Sized
<1>4. Fell = 1 <=> s.en /\ ~ s'.en
  BY DEF Fell
<1>5. ~ RefTick => NowAdded = IF client'.pf_enq THEN 1 ELSE 0
  BY DEF NowAdded, Added
<1>6. PICK a \in Seq(Frame) : a = toSend
  BY <1>3
<1>7. Fell = 1 => toSend # << >>
  BY <1>1, <1>2, <1>3, <1>6, EmptySeq
<1>8. NowAdded = 1 => x \in Frame
  <2>1. SUFFICES ASSUME NowAdded = 1 PROVE x \in Frame
    OBVIOUS
  <2>2. ClkSide /\ client'.pf_enq
    BY <1>1, <2>1, ClkTickIs DEF Crossed, BothTick, BothEdges
  <2>3. client.len \in 1 .. MEM - 1 /\ client.id \in 0 .. IDS - 1
    BY <2>2, AddedIs
  <2>4. client.id + 1 \in 1 .. IDS
    BY <2>3
  <2>5. QED
    BY <2>3, <2>4 DEF Frame
<1>18. Enqueued = IF client'.pf_enq THEN <<x>> ELSE << >>
  BY DEF Enqueued
<1> HIDE DEF x
<1>19. ~ RefTick => Enqueued = IF NowAdded = 1 THEN <<x>> ELSE << >>
  BY <1>5, <1>18
<1>9. toSend' = (IF Fell = 1 THEN Tail(a) ELSE a) \o (IF NowAdded = 1 THEN <<x>> ELSE << >>)
  <2>2. ~ rmii_rst => LeftAfterPhy = IF Fell = 1 THEN Tail(a) ELSE a
    BY <1>4, <1>6, <1>7 DEF LeftAfterPhy
  <2>3. ~ RefTick => Enqueued = IF NowAdded = 1 THEN <<x>> ELSE << >>
    BY <1>19
  <2>4. CASE RefTick
    <3>1. toSend' = LeftAfterPhy /\ NowAdded = 0 /\ ~ rmii_rst
      BY <2>4 DEF RefTick, RefEdge, NowAdded
    <3>2. (IF Fell = 1 THEN Tail(a) ELSE a) \in Seq(Frame)
      BY <1>6, <1>7, HeadTailProperties
    <3>3. QED
      BY <2>2, <3>1, <3>2, ConcatEmptySeq
  <2>5. CASE ~ RefTick /\ ClkTick
    <3>1. toSend' = toSend \o Enqueued /\ Fell = 0
      BY <1>2, <2>5, ClkTickIs DEF Crossed
    <3>2. (IF Fell = 1 THEN Tail(a) ELSE a) = toSend
      BY <1>6, <3>1
    <3>3. QED
      BY <2>3, <2>5, <3>1, <3>2
  <2>6. CASE ~ RefTick /\ BothTick
    <3>1. toSend' = LeftAfterPhy \o Enqueued /\ ~ rmii_rst
      BY <2>6 DEF BothTick, BothEdges
    <3>2. QED
      BY <2>2, <2>3, <2>6, <3>1
  <2>7. QED
    BY <2>4, <2>5, <2>6 DEF Tick
<1>10. PICK b : b = toSend'
  OBVIOUS
<1>11. PICK l \in Nat : l = Len(a)
  BY LenProperties
<1>12. /\ b \in Seq(Frame) /\ Len(b) = l - Fell + NowAdded
       /\ \A i \in 1 .. l - Fell : b[i] = a[i + Fell]
       /\ NowAdded = 1 => \A i \in Nat : i = l - Fell + 1 => b[i] = x
  <2>1. Fell <= Len(a)
    BY <1>1, <1>2, <1>3, <1>6
  <2>2. b = (IF Fell = 1 THEN Tail(a) ELSE a) \o (IF NowAdded = 1 THEN <<x>> ELSE << >>)
    BY <1>9, <1>10
  <2>3. PICK d \in {0, 1}, n \in {0, 1} : d = Fell /\ n = NowAdded
    BY <1>1, <1>2
  <2>7. PICK c : c = x
    OBVIOUS
  <2>4. Moved(Frame, a, d, c, n, b)
    BY <1>6, <1>8, <2>1, <2>2, <2>3, <2>7 DEF Moved
  <2>5. /\ b \in Seq(Frame) /\ Len(b) = Len(a) - d + n
        /\ \A i \in 1 .. Len(a) - d : b[i] = a[i + d]
        /\ n = 1 => \A i \in Nat : i = Len(a) - d + 1 => b[i] = c
    <3>1. b \in Seq(Frame)
      BY <2>4, Shifted
    <3>2. Len(b) = Len(a) - d + n
      BY <2>4, Shifted
    <3>3. \A i \in 1 .. Len(a) - d : b[i] = a[i + d]
      BY <2>4, Shifted
    <3>4. n = 1 => \A i \in Nat : i = Len(a) - d + 1 => b[i] = c
      BY <2>4, Shifted
    <3>5. QED
      BY <3>1, <3>2, <3>3, <3>4
  <2>6. QED
    BY <1>11, <2>3, <2>5, <2>7
<1>13. l = Lead + Live
  BY <1>3, <1>6, <1>11
<1>14. Sized'
  <2>1. Len(b) = Lead' + Live'
    BY <1>1, <1>2, <1>12, <1>13
  <2>2. QED
    BY <1>10, <1>12, <2>1 DEF Sized
<1>15. Live - Dropped \in Nat
  BY <1>1
<1>16. ASSUME NEW k \in 1 .. Live - Dropped
       PROVE  LiveFrame(k)' = LiveFrame(k + Dropped)
  <2>1. LiveFrame(k)' = b[Lead' + k]
    BY <1>10 DEF LiveFrame
  <2>2. Lead' + k \in 1 .. l - Fell /\ Lead' + k + Fell = Lead + (k + Dropped)
    BY <1>1, <1>2, <1>13
  <2>3. b[Lead' + k] = a[Lead' + k + Fell]
    BY <1>12, <2>2
  <2>4. QED
    BY <1>6, <2>1, <2>2, <2>3 DEF LiveFrame
<1>17. ASSUME NowAdded = 1, NEW k \in Nat, k = Live'
       PROVE  LiveFrame(k)' = x
  <2>1. LiveFrame(k)' = b[Lead' + k]
    BY <1>10 DEF LiveFrame
  <2>2. Lead' + k \in Nat /\ Lead' + k = l - Fell + 1
    BY <1>1, <1>2, <1>13, <1>17
  <2>3. QED
    BY <1>12, <1>17, <2>1, <2>2
<1>20. ASSUME OnWire, Fell = 0
       PROVE  /\ toSend # << >> /\ toSend' # << >>
              /\ toSend[1] \in Frame /\ toSend'[1] = toSend[1]
  <2>1. Reading => Live > 0
    <3>0. Reading => Count \in Nat
      <4>1. q.fifo_level \in 0 .. DEPTH
        BY PfRanges DEF Queued
      <4>2. QED
        BY <4>1 DEF Count
    <3>1. ~ (Reading /\ OnItsWay(deq))
      <4>1. Bits(deq) /\ Handshake(deq)
        BY BitsOf DEF Crossed, CrossTyped, Handshakes
      <4>2. OnItsWay(deq) => Ending
        BY <4>1, OnItsWayEnds DEF Crossed
      <4>3. QED
        BY <4>2 DEF Ending, Reading
    <3>2. Reading => Count > 0
      <4>1. q.fifo_level \in 0 .. DEPTH
        BY PfRanges DEF Queued
      <4>2. QED
        BY <4>1 DEF Queued, Count
    <3>3. QED
      BY <3>0, <3>1, <3>2 DEF Live, Read
  <2>2. l > 0
    BY <1>1, <1>2, <1>13, <1>20, <2>1 DEF Lead
  <2>3. 1 \in 1 .. l - Fell /\ 1 + Fell = 1
    BY <1>20, <2>2
  <2>4. b[1] = a[1] /\ a[1] \in Frame
    BY <1>11, <1>12, <2>2, <2>3, ElementOfSeq
  <2>5. Len(b) > 0
    BY <1>1, <1>12, <1>20, <2>2
  <2>6. QED
    BY <1>6, <1>10, <1>11, <2>2, <2>4, <2>5, EmptySeq
<1>21. QED
  BY <1>14, <1>15, <1>16, <1>17, <1>20 DEF x

----------------------------------------------------------------------------
(* The circular buffer: how far behind the client's place a frame starts    *)

Gap(ptr, base) == IF ptr < base THEN base - ptr ELSE base - ptr + MEM

\* The gap grows with the frames written after it, and separates their cells from its own.
LEMMA GapRange == ASSUME NEW p \in Addr, NEW b \in Addr PROVE Gap(p, b) \in 1 .. MEM
BY TxLinkAssumption DEF Gap, Addr

\* The client moves on by a frame.
LEMMA GapGrows ==
    ASSUME NEW p \in Addr, NEW b \in Addr, NEW len \in 0 .. MEM - 1, Gap(p, b) + len <= MEM
    PROVE  Gap(p, Wrap(b + len)) = Gap(p, b) + len
BY TxLinkAssumption DEF Gap, Addr, Wrap

\* The frame it leaves behind.
LEMMA GapOfNew ==
    ASSUME NEW b \in Addr, NEW len \in 1 .. MEM - 1
    PROVE  Gap(b, Wrap(b + len)) = len
BY TxLinkAssumption DEF Gap, Addr, Wrap

\* A cell of a frame is not one the client writes ahead of its place.
LEMMA CellsApart ==
    ASSUME NEW p \in Addr, NEW b \in Addr, NEW j \in Nat, NEW n \in Nat,
           j < Gap(p, b), Gap(p, b) + n < MEM
    PROVE  Wrap(p + j) # Wrap(b + n)
BY TxLinkAssumption DEF Gap, Addr, Wrap

----------------------------------------------------------------------------
(* The space a frame takes until the client is told it is gone              *)

\* The length that is reported to the client.
ToRelease == IF ~ OnItsWay(rf) THEN 0
             ELSE IF f.fr_done THEN pf1.tag.len ELSE rf.dt_latch.len
Gone == IF ~ RefTick /\ Taking(rf) THEN rf.dt2.len ELSE 0
DroppedLen == IF Dropped = 1 THEN LiveDesc(1).len ELSE 0

\* What the FSM is shown when it ends the data of a frame is that frame's descriptor.
LEMMA DroppedIsShown ==
    ASSUME Crossed, Queued, Shown, ClientTyped, Tick
    PROVE  /\ Dropped = 1 <=> f'.fr_done /\ ~ f.fr_done
           /\ Dropped = 1 => pf1'.tag = LiveDesc(1) /\ Live > 0 /\ ~ ClkTick
           /\ RefTick \/ BothTick => (Dropped = 1 <=> f'.fr_done)
<1> USE LinkAssumption DEF Crossed
<1>1. pf1.tag \in Descriptor /\ Bits(deq) /\ Handshake(deq) /\ f.fr_done \in BOOLEAN
  BY BitsOf, FsmRanges DEF PfTyped, CrossTyped, Handshakes
<1>2. CASE ClkTick
  <2>1. f' = f
    BY <1>2, ClkTickIs
  <2>2. Dropped = 0
    BY <2>1 DEF Dropped, Reading
  <2>3. ~ (RefTick \/ BothTick)
    BY <1>2, ClkTickIs
  <2>4. QED
    BY <2>1, <2>2, <2>3
<1>3. CASE RefTick \/ BothTick
  <2>1. FsmClock
    BY <1>3, RefSideIs
  <2>2. /\ Reading /\ ~ Reading' <=> f'.fr_done
        /\ f'.fr_done => ~ f.fr_done
    <3>1. /\ Reading /\ ~ Reading' => f'.fr_done
          /\ f'.fr_done => Reading
      BY <1>1, <2>1, ReadsOn
    <3>2. f'.fr_done => f.state = "TXDATA" /\ f'.state = "TXFCS"
      BY <1>1, <2>1, SinceAfter
    <3>3. f.fr_done => f.state = "TXFCS"
      BY DEF Paced
    <3>4. QED
      BY <3>1, <3>2, <3>3 DEF Reading
  <2>3. ~ ClkTick
    BY <1>3, OneTick
  <2>4. ASSUME f'.fr_done
        PROVE  pf1'.tag = LiveDesc(1) /\ Live > 0
    <3>1. Reading
      BY <2>2, <2>4
    <3>2. OnItsWay(deq)'
      BY <2>4 DEF OnItsWay, OnWay
    <3>3. Shown'
      BY ShownAfter
    <3>4. pf1'.tag = Desc(1)'
      BY <2>4, <3>2, <3>3 DEF Shown
    <3>5. ~ OnItsWay(deq)
      BY <1>1, <3>1, OnItsWayEnds DEF Ending, Reading
    <3>6. q.fifo_level \in Nat /\ q.fifo_level > 0 /\ client.pf_enq \in BOOLEAN
      BY <3>1, PfRanges DEF Queued, ClientTyped, ClientRegs
    <3>7. LiveDesc(1) = Desc(1) /\ Live = Count /\ Count \in Nat /\ Count > 0
      BY <3>5, <3>6 DEF LiveDesc, Live, Read, Count
    <3>8. Desc(1)' = Desc(1)
      <4>1. CASE RefTick
        <5>1. UNCHANGED <<q, client>>
          BY <4>1 DEF RefTick, RefEdge, clkRegs
        <5>2. QED
          BY <5>1 DEF Desc, Pf!SlotOf
      <4>2. CASE BothTick
        <5>1. ClkSide
          BY <4>2 DEF BothTick, BothEdges
        <5>2. Taken = 0
          BY <3>2, <4>2, QueuedAfter DEF Taken
        <5>3. \A i \in 1 .. Count - Taken : Desc(i)' = Desc(i + Taken)
          BY <5>1, DescriptorsAfter
        <5>4. QED
          BY <3>7, <5>2, <5>3
      <4>3. QED
        BY <1>3, <4>1, <4>2
    <3>9. QED
      BY <3>4, <3>7, <3>8
  <2>5. Dropped = 1 <=> f'.fr_done
    BY <2>2 DEF Dropped
  <2>6. QED
    BY <2>2, <2>3, <2>4, <2>5
<1>4. QED
  BY <1>2, <1>3 DEF Tick

\* The space still to be reported after an action.
LEMMA ToReleaseAfter ==
    ASSUME Crossed, Queued, Shown, ClientTyped, Tick
    PROVE  /\ ToRelease \in Nat /\ Gone \in Nat /\ Gone <= ToRelease
           /\ DroppedLen \in Nat
           /\ ToRelease' = ToRelease - Gone + DroppedLen
<1> USE DEF Crossed
<1>1. /\ pf1.tag \in Descriptor /\ pf1'.tag \in Descriptor /\ Bits(rf) /\ Handshake(rf)
      /\ f.fr_done \in BOOLEAN /\ rf.dt_latch \in Descriptor /\ rf.dt2 \in Descriptor
  BY BitsOf, FsmRanges, ShownAfter DEF PfTyped, CrossTyped, Handshakes
<1>2. /\ pf1.tag.len \in Nat /\ pf1'.tag.len \in Nat /\ rf.dt_latch.len \in Nat /\ rf.dt2.len \in Nat
  BY <1>1, TxLinkAssumption DEF Descriptor, Addr
<1>3. ToRelease \in Nat
  BY <1>2 DEF ToRelease
<1>4. /\ Taking(rf) => OnItsWay(rf) /\ ~ f.fr_done /\ rf.dt2 = rf.dt_latch
      /\ f.fr_done => OnItsWay(rf)
  BY <1>1, OnItsWayEnds DEF OnItsWay, OnWay
<1>5. Gone \in Nat /\ Gone <= ToRelease
  BY <1>2, <1>4 DEF Gone, ToRelease
<1>6. /\ RefTick \/ BothTick => (Dropped = 1 <=> f'.fr_done)
      /\ Dropped = 1 => pf1'.tag = LiveDesc(1) /\ ~ ClkTick
  BY DroppedIsShown
<1>7. DroppedLen \in Nat /\ (Dropped = 1 => DroppedLen = pf1'.tag.len)
  BY <1>2, <1>6 DEF DroppedLen
<1>8. CrossAfter(rf) /\ Handshake(rf)'
  BY CrossingsAfter DEF CrossAfter
<1>9. CASE RefTick
  <2>1. RefMoves(rf, rf', f.fr_done, pf1.tag)
    BY <1>1, <1>9, RfAfter
  <2>2. rf'.dt_latch = IF f.fr_done THEN pf1.tag ELSE rf.dt_latch
    BY <2>1 DEF RefMoves, Latches
  <2>3. /\ OnItsWay(rf)' <=> f'.fr_done \/ OnItsWay(rf)
        /\ f'.fr_done => ~ OnItsWay(rf)
    BY <1>8, <1>9 DEF CrossAfter
  <2>4. Gone = 0
    BY <1>9 DEF Gone
  <2>5. CASE f'.fr_done
    BY <1>2, <1>6, <1>7, <1>9, <2>3, <2>4, <2>5 DEF ToRelease
  <2>6. CASE ~ f'.fr_done
    <3>1. ToRelease' = ToRelease
      BY <1>4, <2>2, <2>3, <2>6 DEF ToRelease
    <3>2. DroppedLen = 0
      BY <1>6, <1>9, <2>6 DEF DroppedLen
    <3>3. QED
      BY <1>3, <1>5, <1>7, <2>4, <3>1, <3>2
  <2>7. QED
    BY <1>3, <1>5, <1>7, <2>5, <2>6
<1>10. CASE ~ RefTick /\ ClkTick
  <2>1. ClkMoves(rf, rf') /\ f' = f /\ (f.fr_done => pf1' = pf1)
    BY <1>1, <1>10, RfAfter, ClkTickIs
  <2>2. rf'.dt_latch = rf.dt_latch
    BY <2>1 DEF ClkMoves
  <2>3. OnItsWay(rf)' <=> OnItsWay(rf) /\ ~ Taking(rf)
    BY <1>8, <1>10 DEF CrossAfter
  <2>4. DroppedLen = 0
    BY <1>6, <1>10 DEF DroppedLen
  <2>5. ToRelease' = IF Taking(rf) THEN 0 ELSE ToRelease
    BY <2>1, <2>2, <2>3 DEF ToRelease
  <2>6. Taking(rf) => ToRelease = Gone
    BY <1>4, <1>10 DEF ToRelease, Gone
  <2>7. ~ Taking(rf) => Gone = 0
    BY DEF Gone
  <2>8. QED
    BY <1>3, <1>5, <1>7, <2>4, <2>5, <2>6, <2>7
<1>11. CASE ~ RefTick /\ BothTick
  <2>1. BothMove(rf, rf', f.fr_done, pf1.tag)
    BY <1>1, <1>11, RfAfter
  <2>2. rf'.dt_latch = IF f.fr_done THEN pf1.tag ELSE rf.dt_latch
    BY <2>1 DEF BothMove, Latches
  <2>3. /\ OnItsWay(rf)' <=> f'.fr_done \/ (OnItsWay(rf) /\ ~ Taking(rf))
        /\ f'.fr_done => ~ OnItsWay(rf)
    BY <1>8, <1>11 DEF CrossAfter
  <2>4. CASE f'.fr_done
    <3>1. Gone = 0 /\ ToRelease = 0
      BY <1>4, <2>3, <2>4 DEF Gone, ToRelease
    <3>2. ToRelease' = pf1'.tag.len
      BY <2>3, <2>4 DEF ToRelease
    <3>3. QED
      BY <1>2, <1>3, <1>5, <1>6, <1>7, <1>11, <2>4, <3>1, <3>2
  <2>5. CASE ~ f'.fr_done
    <3>1. DroppedLen = 0
      BY <1>6, <1>11, <2>5 DEF DroppedLen
    <3>2. ToRelease' = IF Taking(rf) THEN 0 ELSE ToRelease
      BY <1>4, <2>2, <2>3, <2>5 DEF ToRelease
    <3>3. Taking(rf) => ToRelease = Gone
      BY <1>4, <1>11 DEF ToRelease, Gone
    <3>4. ~ Taking(rf) => Gone = 0
      BY DEF Gone
    <3>5. QED
      BY <1>3, <1>5, <1>7, <3>1, <3>2, <3>3, <3>4
  <2>6. QED
    BY <2>4, <2>5
<1>12. QED
  BY <1>3, <1>5, <1>7, <1>9, <1>10, <1>11 DEF Tick

----------------------------------------------------------------------------
(* The frames in the circular buffer                                        *)

Far(k) == Gap(LiveDesc(k).ptr, client.base)
Held == IF Live = 0 THEN 0 ELSE Far(1)
Writing == IF client.state = "idle" THEN 0 ELSE client.len

\* The descriptors are those of the frames to be sent.
Matched ==
    \A k \in 1 .. Live : /\ LiveDesc(k) \in Descriptor /\ LiveDesc(k).len > 0
                         /\ LiveFrame(k).len = LiveDesc(k).len

\* Every frame ends where the next one, or the client's place, begins.
Chained ==
    /\ \A k \in 1 .. Live : Far(k) = LiveDesc(k).len + (IF k = Live THEN 0 ELSE Far(k + 1))
    /\ \A j, k \in 1 .. Live : j <= k => Far(k) <= Far(j)

\* What the client counts as occupied is, and there is room for it.
Roomy ==
    /\ client.used = Held + Writing + ToRelease
    /\ client.used <= MEM

\* How far the client's place moves, and the length it starts to write.
Grown == IF NowAdded = 1 THEN client.len ELSE 0
Begun == IF ~ RefTick /\ Starting THEN client'.len ELSE 0

\* What an action does to the client's account.
LEMMA AccountAfter ==
    ASSUME Crossed, Queued, Shown, ClientTyped, Tick
    PROVE  /\ client.base \in Addr /\ client'.base \in Addr
           /\ client'.base = Wrap(client.base + Grown)
           /\ Grown \in 0 .. Writing /\ Writing \in 0 .. MEM - 1 /\ Begun \in Nat
           /\ Writing' = Writing - Grown + Begun
           /\ client'.used = client.used - Gone + Begun
           /\ Begun > 0 => client'.used <= MEM
           /\ client.used \in Int
           /\ NowAdded = 1 => /\ Queueing /\ ClkSide /\ client.len \in 1 .. MEM - 1
                              /\ Writing = client.len
                              /\ client'.tag \in Descriptor
                              /\ client'.tag.len = client.len /\ client'.tag.ptr = client.base
<1> USE TxLinkAssumption, LinkAssumption
<1>1. /\ client.base \in 0 .. MEM - 1 /\ client.len \in 0 .. MEM - 1 /\ client.used \in Int
      /\ client.state \in {"idle", "write", "enqueue"} /\ client.base \in Addr
  BY DEF ClientTyped, ClientRegs, Addr
<1>2. Writing \in 0 .. MEM - 1
  BY <1>1 DEF Writing
<1>3. ToRelease \in Nat /\ Gone \in Nat
  BY ToReleaseAfter
<1>4. NowAdded \in {0, 1}
  BY LiveAfter
<1>5. CASE RefTick
  <2>1. client' = client
    BY <1>5 DEF RefTick, RefEdge, clkRegs
  <2>2. NowAdded = 0 /\ Grown = 0 /\ Begun = 0 /\ Gone = 0
    BY <1>5 DEF NowAdded, Grown, Begun, Gone
  <2>3. Wrap(client.base + 0) = client.base
    BY <1>1 DEF Wrap
  <2>4. Writing' = Writing
    BY <2>1 DEF Writing
  <2>5. QED
    BY <1>1, <1>2, <2>1, <2>2, <2>3, <2>4
<1>6. CASE ~ RefTick /\ (ClkTick \/ BothTick)
  <2>1. ClkSide
    BY <1>6, ClkTickIs DEF Crossed, BothTick, BothEdges
  <2>2. /\ ClientMoves /\ ClientTyped' /\ client'.pf_enq \in BOOLEAN
        /\ client'.pf_enq <=> Queueing
        /\ Queueing => client.len \in 1 .. MEM - 1 /\ client.id \in 0 .. IDS - 1
    BY <2>1, AddedIs
  <2>3. NowAdded = 1 <=> Queueing
    BY <1>6, <2>2 DEF NowAdded, Added
  <2>4. client'.base \in Addr /\ client'.tag \in Descriptor
    BY <2>2 DEF ClientTyped, ClientRegs
  <2>5. Occupied = client.used - Gone /\ client.used - Gone \in Int
    BY <1>1, <1>3, <1>6 DEF Occupied, Gone
  <2>6. CASE Queueing
    <3>1. client'.base = (client.base + client.len) % MEM /\ client'.used = Occupied
          /\ client.state = "enqueue" /\ client'.state = "idle"
          /\ client'.tag.len = client.len /\ client'.tag.ptr = client.base
      BY <2>6 DEF Queueing
    <3>2. client'.base = Wrap(client.base + client.len)
      BY <1>1, <2>2, <2>6, <3>1, WrapIs
    <3>3. ~ Starting
      BY <3>1 DEF Starting
    <3>4. Grown = client.len /\ Begun = 0 /\ Writing = client.len /\ Writing' = 0
      BY <2>3, <2>6, <3>1, <3>3 DEF Grown, Begun, Writing
    <3>5. QED
      BY <1>1, <2>1, <2>2, <2>4, <2>5, <2>6, <3>1, <3>2, <3>4
  <2>7. CASE Starting
    <3>1. client'.base = client.base /\ client'.used = Occupied + client'.len
          /\ client.state = "idle" /\ client'.state = "write" /\ client'.len \in LENS
          /\ Occupied + client'.len <= MEM
      BY <2>7 DEF Starting, Same1
    <3>2. client'.len \in 1 .. MEM - 1
      BY <3>1
    <3>3. ~ Queueing
      BY <3>1 DEF Queueing
    <3>4. Grown = 0 /\ Begun = client'.len /\ Writing = 0 /\ Writing' = client'.len /\ NowAdded # 1
      BY <1>6, <2>3, <2>7, <3>1, <3>3 DEF Grown, Begun, Writing
    <3>5. Wrap(client.base + 0) = client.base
      BY <1>1 DEF Wrap
    <3>6. QED
      BY <1>1, <2>4, <2>5, <3>1, <3>2, <3>4, <3>5
  <2>8. CASE Waiting \/ WritingOne \/ Blocked
    <3>1. /\ client'.base = client.base /\ client'.used = Occupied /\ client'.len = client.len
          /\ client'.state = "idle" <=> client.state = "idle"
          /\ ~ Starting /\ ~ Queueing
      BY <2>8 DEF Waiting, WritingOne, Blocked, Same1, Starting, Queueing
    <3>2. Grown = 0 /\ Begun = 0 /\ Writing' = Writing /\ NowAdded # 1
      BY <2>3, <3>1 DEF Grown, Begun, Writing
    <3>3. Wrap(client.base + 0) = client.base
      BY <1>1 DEF Wrap
    <3>4. QED
      BY <1>1, <1>2, <2>4, <2>5, <3>1, <3>2, <3>3
  <2>9. QED
    BY <2>2, <2>6, <2>7, <2>8 DEF ClientMoves
<1>7. QED
  BY <1>5, <1>6 DEF Tick

\* The gaps after an action.
LEMMA FarAfter ==
    ASSUME Crossed, RmiiTyped, Serial, Queued, Shown, ClientTyped, Sized, Matched, Chained, Roomy,
           Tick
    PROVE  /\ \A k \in 1 .. Live - Dropped :
                Far(k)' = Far(k + Dropped) + Grown /\ Far(k + Dropped) \in 1 .. MEM
           /\ NowAdded = 1 => \A k \in Nat : k = Live' => Far(k)' = client.len
<1> USE TxLinkAssumption
<1>1. /\ Live' = Live - Dropped + NowAdded /\ Live \in Nat /\ NowAdded \in {0, 1}
      /\ Dropped \in {0, 1} /\ Dropped <= Live
      /\ \A k \in 1 .. Live - Dropped : LiveDesc(k)' = LiveDesc(k + Dropped)
      /\ \A k \in Nat : NowAdded = 1 /\ k = Live' => LiveDesc(k)' = client'.tag
  BY LiveAfter
<1>2. /\ client.base \in Addr /\ client'.base = Wrap(client.base + Grown)
      /\ Grown \in 0 .. Writing /\ Writing \in 0 .. MEM - 1
      /\ NowAdded = 1 => /\ client.len \in 1 .. MEM - 1
                         /\ Writing = client.len
                         /\ client'.tag.ptr = client.base
  BY AccountAfter
<1>3. ToRelease \in Nat
  BY ToReleaseAfter
<1>4. ASSUME NEW k \in 1 .. Live - Dropped
      PROVE  Far(k)' = Far(k + Dropped) + Grown /\ Far(k + Dropped) \in 1 .. MEM
  <2>1. k + Dropped \in 1 .. Live /\ 1 \in 1 .. Live /\ 1 <= k + Dropped
    BY <1>1
  <2>2. LiveDesc(k + Dropped) \in Descriptor
    BY <2>1 DEF Matched
  <2>3. PICK p \in Addr : p = LiveDesc(k + Dropped).ptr
    BY <2>2 DEF Descriptor
  <2>4. Far(k + Dropped) = Gap(p, client.base) /\ Gap(p, client.base) \in 1 .. MEM
    BY <1>2, <2>3, GapRange DEF Far
  <2>5. LiveDesc(1) \in Descriptor
    BY <2>1 DEF Matched
  <2>6. Far(1) \in 1 .. MEM
    BY <1>2, <2>5, GapRange DEF Far, Descriptor
  <2>7. Far(k + Dropped) <= Far(1)
    BY <2>1 DEF Chained
  <2>8. Far(1) + Writing <= MEM
    BY <1>1, <1>2, <1>3, <2>1, <2>6 DEF Roomy, Held
  <2>9. Gap(p, client.base) + Grown <= MEM
    BY <1>2, <2>4, <2>6, <2>7, <2>8
  <2>10. Gap(p, Wrap(client.base + Grown)) = Gap(p, client.base) + Grown
    <3>1. PICK b \in Addr, len \in 0 .. MEM - 1 : b = client.base /\ len = Grown
      BY <1>2
    <3>2. Gap(p, b) + len <= MEM
      BY <2>9, <3>1
    <3>3. Gap(p, Wrap(b + len)) = Gap(p, b) + len
      BY <3>2, GapGrows
    <3>4. QED
      BY <3>1, <3>3
  <2>11. LiveDesc(k)'.ptr = p
    BY <1>1, <2>3
  <2>12. Far(k)' = Gap(p, client'.base)
    BY <2>11 DEF Far, Gap
  <2>13. QED
    BY <1>2, <2>4, <2>10, <2>12
<1>5. ASSUME NowAdded = 1, NEW k \in Nat, k = Live'
      PROVE  Far(k)' = client.len
  <2>1. LiveDesc(k)' = client'.tag
    BY <1>1, <1>5
  <2>2. PICK b \in Addr, len \in 1 .. MEM - 1 : b = client.base /\ len = client.len
    BY <1>2, <1>5
  <2>3. Gap(b, Wrap(b + len)) = len
    BY GapOfNew
  <2>4. LiveDesc(k)'.ptr = b /\ client'.base = Wrap(b + len)
    BY <1>2, <1>5, <2>1, <2>2 DEF Grown
  <2>5. Far(k)' = Gap(b, client'.base)
    BY <2>4 DEF Far, Gap
  <2>6. QED
    BY <2>2, <2>3, <2>4, <2>5
<1>6. QED
  BY <1>4, <1>5

\* The frames and their places after an action.
LEMMA FramesAfter ==
    ASSUME Crossed, RmiiTyped, Serial, Queued, Shown, ClientTyped, Sized, Matched, Chained, Roomy,
           Tick
    PROVE  Matched' /\ Chained' /\ Roomy'
<1> USE TxLinkAssumption
<1>1. /\ Live' = Live - Dropped + NowAdded /\ Live \in Nat /\ NowAdded \in {0, 1}
      /\ Dropped \in {0, 1} /\ Dropped <= Live
      /\ \A k \in 1 .. Live - Dropped : LiveDesc(k)' = LiveDesc(k + Dropped)
      /\ \A k \in Nat : NowAdded = 1 /\ k = Live' => LiveDesc(k)' = client'.tag
  BY LiveAfter
<1>2. /\ Grown \in 0 .. Writing /\ Writing \in 0 .. MEM - 1 /\ Begun \in Nat
      /\ Writing' = Writing - Grown + Begun
      /\ client'.used = client.used - Gone + Begun
      /\ Begun > 0 => client'.used <= MEM
      /\ client.used \in Int
      /\ NowAdded = 1 => /\ client.len \in 1 .. MEM - 1
                         /\ client'.tag \in Descriptor
                         /\ client'.tag.len = client.len
  BY AccountAfter
<1>3. /\ ToRelease \in Nat /\ Gone \in Nat /\ DroppedLen \in Nat
      /\ ToRelease' = ToRelease - Gone + DroppedLen
  BY ToReleaseAfter
<1>4. /\ \A k \in 1 .. Live - Dropped : Far(k)' = Far(k + Dropped) + Grown /\ Far(k + Dropped) \in 1 .. MEM
      /\ NowAdded = 1 => \A k \in Nat : k = Live' => Far(k)' = client.len
  BY FarAfter
<1>5. /\ \A k \in 1 .. Live - Dropped : LiveFrame(k)' = LiveFrame(k + Dropped)
      /\ NowAdded = 1 => \A k \in Nat : k = Live' =>
                           LiveFrame(k)' = [id |-> client.id + 1, len |-> client.len]
  BY SentAfter
<1>6. PICK L \in Nat, d \in 0 .. 1, n \in 0 .. 1 :
        L = Live /\ d = Dropped /\ n = NowAdded /\ d <= L
  BY <1>1
<1>7. Live' = L - d + n
  BY <1>1, <1>6
<1>8. Grown = IF n = 1 THEN client.len ELSE 0
  BY <1>6 DEF Grown
<1>9. Matched'
  <2>1. ASSUME NEW k \in 1 .. L - d + n
        PROVE  (LiveDesc(k) \in Descriptor /\ LiveDesc(k).len > 0
                /\ LiveFrame(k).len = LiveDesc(k).len)'
    <3>1. CASE k \in 1 .. L - d
      <4>1. k + d \in 1 .. L
        BY <1>6, <3>1
      <4>2. /\ LiveDesc(k + d) \in Descriptor /\ LiveDesc(k + d).len > 0
            /\ LiveFrame(k + d).len = LiveDesc(k + d).len
        BY <1>6, <4>1 DEF Matched
      <4>3. LiveDesc(k)' = LiveDesc(k + d) /\ LiveFrame(k)' = LiveFrame(k + d)
        BY <1>1, <1>5, <1>6, <3>1
      <4>4. Descriptor' = Descriptor
        BY DEF Descriptor, Addr
      <4>5. QED
        BY <4>2, <4>3, <4>4
    <3>2. CASE ~ (k \in 1 .. L - d)
      <4>1. n = 1 /\ k = L - d + n /\ k \in Nat
        BY <1>6, <3>2
      <4>2. LiveDesc(k)' = client'.tag
        BY <1>1, <1>6, <1>7, <4>1
      <4>3. LiveFrame(k)' = [id |-> client.id + 1, len |-> client.len]
        BY <1>5, <1>6, <1>7, <4>1
      <4>4. LiveFrame(k)'.len = client.len
        BY <4>3
      <4>5. QED
        BY <1>2, <1>6, <4>1, <4>2, <4>4
    <3>3. QED
      BY <3>1, <3>2
  <2>2. QED
    BY <1>7, <2>1 DEF Matched
<1>10. ASSUME NEW k \in 1 .. L - d
       PROVE  /\ k + d \in 1 .. L /\ Far(k)' = Far(k + d) + Grown /\ Far(k + d) \in 1 .. MEM
              /\ Far(k + d) = LiveDesc(k + d).len + (IF k + d = L THEN 0 ELSE Far(k + d + 1))
              /\ LiveDesc(k)' = LiveDesc(k + d) /\ LiveDesc(k + d).len \in Nat
  <2>1. k + d \in 1 .. L
    BY <1>6
  <2>2. Far(k + d) = LiveDesc(k + d).len + (IF k + d = L THEN 0 ELSE Far(k + d + 1))
    BY <1>6, <2>1 DEF Chained
  <2>3. LiveDesc(k + d) \in Descriptor
    BY <1>6, <2>1 DEF Matched
  <2>4. LiveDesc(k + d).len \in Nat
    BY <2>3 DEF Descriptor, Addr
  <2>5. QED
    BY <1>1, <1>4, <1>6, <2>1, <2>2, <2>4
<1>11. n = 1 => \A k \in Nat : k = L - d + 1 => /\ Far(k)' = client.len /\ client.len \in Nat
                                                /\ LiveDesc(k)'.len = client.len
  BY <1>1, <1>2, <1>4, <1>6, <1>7
<1>12. \A k \in 1 .. L - d + n :
         Far(k)' = LiveDesc(k)'.len + (IF k = L - d + n THEN 0 ELSE Far(k + 1)')
  <2>1. SUFFICES ASSUME NEW k \in 1 .. L - d + n
                 PROVE  Far(k)' = LiveDesc(k)'.len + (IF k = L - d + n THEN 0 ELSE Far(k + 1)')
    OBVIOUS
  <2>2. CASE k \in 1 .. L - d - 1
    <3>1. k + 1 \in 1 .. L - d /\ k \in 1 .. L - d /\ k + 1 + d = k + d + 1 /\ k + d # L
          /\ k # L - d + n
      BY <1>6, <2>2
    <3>2. Far(k)' = Far(k + d) + Grown /\ Far(k + d) = LiveDesc(k + d).len + Far(k + d + 1)
          /\ LiveDesc(k)' = LiveDesc(k + d) /\ LiveDesc(k + d).len \in Nat
      BY <1>10, <3>1
    <3>3. Far(k + 1)' = Far(k + d + 1) + Grown /\ Far(k + d + 1) \in 1 .. MEM
      BY <1>10, <3>1
    <3>4. QED
      BY <1>2, <3>1, <3>2, <3>3
  <2>3. CASE k = L - d
    <3>1. k \in 1 .. L - d /\ k + d = L
      BY <1>6, <2>3
    <3>2. Far(k)' = Far(k + d) + Grown /\ Far(k + d) = LiveDesc(k + d).len
          /\ LiveDesc(k)' = LiveDesc(k + d) /\ LiveDesc(k + d).len \in Nat
      BY <1>10, <3>1
    <3>3. n = 1 => Far(k + 1)' = client.len /\ client.len \in Nat
      BY <1>6, <1>11, <2>3
    <3>4. QED
      BY <1>6, <1>8, <2>3, <3>2, <3>3
  <2>4. CASE ~ (k \in 1 .. L - d - 1) /\ k # L - d
    <3>1. n = 1 /\ k = L - d + 1 /\ k = L - d + n /\ k \in Nat
      BY <1>6, <2>4
    <3>2. QED
      BY <1>11, <3>1
  <2>5. QED
    BY <2>2, <2>3, <2>4
<1>13. \A j, k \in 1 .. L - d + n : j <= k => Far(k)' <= Far(j)'
  <2>1. SUFFICES ASSUME NEW j \in 1 .. L - d + n, NEW k \in 1 .. L - d + n, j <= k
                 PROVE  Far(k)' <= Far(j)'
    OBVIOUS
  <2>2. CASE k \in 1 .. L - d
    <3>1. j \in 1 .. L - d /\ j + d <= k + d
      BY <1>6, <2>1, <2>2
    <3>2. k + d \in 1 .. L /\ Far(k)' = Far(k + d) + Grown /\ Far(k + d) \in 1 .. MEM
      BY <1>10, <2>2
    <3>3. j + d \in 1 .. L /\ Far(j)' = Far(j + d) + Grown /\ Far(j + d) \in 1 .. MEM
      BY <1>10, <3>1
    <3>4. Far(k + d) <= Far(j + d)
      BY <1>6, <3>1, <3>2, <3>3 DEF Chained
    <3>5. QED
      BY <1>2, <3>2, <3>3, <3>4
  <2>3. CASE ~ (k \in 1 .. L - d)
    <3>1. n = 1 /\ k = L - d + 1 /\ k \in Nat
      BY <1>6, <2>3
    <3>2. Far(k)' = client.len /\ client.len \in Nat /\ Grown = client.len
      BY <1>8, <1>11, <3>1
    <3>3. CASE j = k
      BY <3>2, <3>3
    <3>4. CASE j \in 1 .. L - d
      <4>1. Far(j)' = Far(j + d) + Grown /\ Far(j + d) \in 1 .. MEM
        BY <1>10, <3>4
      <4>2. QED
        BY <3>2, <4>1
    <3>5. QED
      BY <1>6, <2>1, <3>1, <3>3, <3>4
  <2>4. QED
    BY <2>2, <2>3
<1>14. Chained'
  BY <1>7, <1>12, <1>13 DEF Chained
<1>15. Held' = Held - DroppedLen + Grown /\ Held \in Nat
  <2>1. L > 0 => Far(1) \in 1 .. MEM
    <3>1. SUFFICES ASSUME L > 0 PROVE Far(1) \in 1 .. MEM
      OBVIOUS
    <3>2. 1 \in 1 .. L
      BY <3>1
    <3>3. LiveDesc(1) \in Descriptor
      BY <1>6, <3>2 DEF Matched
    <3>4. client.base \in Addr
      BY AccountAfter
    <3>5. QED
      BY <3>3, <3>4, GapRange DEF Far, Descriptor
  <2>2. Held = IF L = 0 THEN 0 ELSE Far(1)
    BY <1>6 DEF Held
  <2>3. Held' = IF L - d + n = 0 THEN 0 ELSE Far(1)'
    BY <1>7 DEF Held
  <2>4. DroppedLen = IF d = 1 THEN LiveDesc(1).len ELSE 0
    BY <1>6 DEF DroppedLen
  <2>5. d = 1 => Far(1) = LiveDesc(1).len + (IF 1 = L THEN 0 ELSE Far(2))
    <3>1. SUFFICES ASSUME d = 1 PROVE Far(1) = LiveDesc(1).len + (IF 1 = L THEN 0 ELSE Far(1 + 1))
      OBVIOUS
    <3>2. 1 \in 1 .. L
      BY <1>6, <3>1
    <3>3. QED
      BY <1>6, <3>2 DEF Chained
  <2>6. CASE L - d > 0
    <3>1. 1 \in 1 .. L - d
      BY <1>6, <2>6
    <3>2. Far(1)' = Far(1 + d) + Grown /\ Far(1 + d) \in 1 .. MEM
      BY <1>10, <3>1
    <3>3. CASE d = 1
      BY <1>2, <1>3, <1>6, <2>1, <2>2, <2>3, <2>4, <2>5, <2>6, <3>2, <3>3
    <3>4. CASE d = 0
      BY <1>2, <1>6, <2>1, <2>2, <2>3, <2>4, <2>6, <3>2, <3>4
    <3>5. QED
      BY <1>6, <3>3, <3>4
  <2>7. CASE L - d = 0
    <3>1. Held = DroppedLen
      BY <1>3, <1>6, <2>1, <2>2, <2>4, <2>5, <2>7
    <3>2. Held' = Grown
      <4>1. CASE n = 1
        BY <1>8, <1>11, <2>3, <2>7, <4>1
      <4>2. CASE n = 0
        BY <1>8, <2>3, <2>7, <4>2
      <4>3. QED
        BY <4>1, <4>2
    <3>3. QED
      BY <1>2, <1>3, <3>1, <3>2
  <2>8. QED
    BY <1>6, <2>6, <2>7
<1>16. Roomy'
  <2>1. client'.used = Held' + Writing' + ToRelease'
    BY <1>2, <1>3, <1>15 DEF Roomy
  <2>2. client'.used <= MEM
    BY <1>2, <1>3 DEF Roomy
  <2>3. QED
    BY <2>1, <2>2 DEF Roomy
<1>17. QED
  BY <1>9, <1>14, <1>16

----------------------------------------------------------------------------
(* The words in the frame buffer                                            *)

\* What a cell holds when the writes under way have landed.
Landed(a) == IF client.wstrobe /\ client.addr = a THEN client.wdt
             ELSE IF ram1.wstrobe /\ ram1.addr = a THEN ram1.wdt ELSE memory[a]

\* The writes under way are of the frame being written, or the last of the one just enqueued,
\* and the words written so far are those of the frame.
Written ==
    /\ DOMAIN memory = Addr /\ ram1.addr \in Addr /\ ram1.wstrobe \in BOOLEAN
    /\ client.wstrobe => client.next > 0 /\ client.addr = Wrap(client.base + (client.next - 1))
    /\ ram1.wstrobe =>
         \/ client.state # "idle" /\ \E j \in 0 .. client.next - 1 : ram1.addr = Wrap(client.base + j)
         \/ client.pf_enq /\ ram1.addr = Wrap(client.tag.ptr + (client.tag.len - 1))
    /\ client.state # "idle" =>
         \A j \in 0 .. client.next - 1 : Landed(Wrap(client.base + j)) = <<client.id + 1, j>>

\* Every frame still to be read is in the buffer.
Whole ==
    \A k \in 1 .. Live : \A j \in 0 .. LiveDesc(k).len - 1 :
        Landed(Wrap(LiveDesc(k).ptr + j)) = <<LiveFrame(k).id, j>>

\* The client's registers as numbers.
LEMMA ClientRanges ==
    ASSUME ClientTyped
    PROVE  /\ client.base \in 0 .. MEM - 1 /\ client.len \in 0 .. MEM - 1 /\ client.next \in Nat
           /\ client.state # "idle" => client.next <= client.len /\ client.len > 0
           /\ client.id \in Nat /\ client.pf_enq \in BOOLEAN /\ client.wstrobe \in BOOLEAN
           /\ client.addr \in Addr /\ client.base \in Addr
           /\ client.wstrobe => client.state # "idle"
BY TxLinkAssumption, LinkAssumption DEF ClientTyped, ClientRegs, Addr

\* A clk edge carries the writes on, and may put one word more under way.
WritesNow == ~ RefTick /\ WritingOne

\* What has landed where, after a step.
LEMMA LandedAfter ==
    ASSUME Crossed, ClientTyped, Written, Tick
    PROVE  /\ \A a \in Addr : Landed(a)' = IF WritesNow /\ a = Wrap(client.base + client.next)
                                           THEN <<client.id + 1, client.next>> ELSE Landed(a)
           /\ DOMAIN memory' = Addr /\ ram1'.addr \in Addr /\ ram1'.wstrobe \in BOOLEAN
<1> USE TxLinkAssumption
<1>1. CASE RefTick
  <2>1. client' = client /\ ram1' = ram1 /\ memory' = memory
    BY <1>1 DEF RefTick, RefEdge, clkRegs
  <2>2. QED
    BY <1>1, <2>1 DEF Landed, WritesNow, Written
<1>2. CASE ~ RefTick /\ (ClkTick \/ BothTick)
  <2>1. ClkSide
    BY <1>2, ClkTickIs DEF Crossed, BothTick, BothEdges
  <2>2. ClientMoves
    BY <2>1, AddedIs
  <2>3. /\ client.base \in 0 .. MEM - 1 /\ client.len \in 0 .. MEM - 1 /\ client.next \in Nat
        /\ client.wstrobe \in BOOLEAN /\ client.addr \in Addr
        /\ client.wstrobe => client.state # "idle"
    BY ClientRanges
  <2>4. /\ ram1' = [addr |-> client.addr, wdt |-> client.wdt, wstrobe |-> client.wstrobe]
        /\ memory' = IF ram1.wstrobe THEN [memory EXCEPT ![ram1.addr] = ram1.wdt] ELSE memory
    BY <2>1 DEF ClkSide, WritePort
  <2>5. ram1'.addr = client.addr /\ ram1'.wdt = client.wdt /\ ram1'.wstrobe = client.wstrobe
    BY <2>4
  <2>6. /\ DOMAIN memory' = Addr
        /\ \A a \in Addr : memory'[a] = IF ram1.wstrobe /\ ram1.addr = a THEN ram1.wdt ELSE memory[a]
    BY <2>4 DEF Written
  <2>7. \A a \in Addr : (IF ram1'.wstrobe /\ ram1'.addr = a THEN ram1'.wdt ELSE memory'[a]) = Landed(a)
    BY <2>5, <2>6 DEF Landed
  <2>8. CASE WritingOne
    <3>1. /\ client'.wstrobe /\ client'.addr = (client.base + client.next) % MEM
          /\ client'.wdt = <<client.id + 1, client.next>>
      BY <2>8 DEF WritingOne
    <3>2. client.next < client.len
      BY <2>8 DEF WritingOne, ClientTyped
    <3>3. client'.addr = Wrap(client.base + client.next)
      BY <2>3, <3>1, <3>2, WrapIs
    <3>4. \A a \in Addr : Landed(a)' = IF client'.addr = a THEN client'.wdt ELSE Landed(a)
      BY <2>7, <3>1 DEF Landed
    <3>5. QED
      BY <1>2, <2>3, <2>5, <2>6, <2>8, <3>1, <3>3, <3>4 DEF WritesNow
  <2>9. CASE ~ WritingOne
    <3>1. ~ client'.wstrobe
      BY <2>2, <2>3, <2>9 DEF ClientMoves, Waiting, Starting, Blocked, Queueing
    <3>2. \A a \in Addr : Landed(a)' = Landed(a)
      BY <2>7, <3>1 DEF Landed
    <3>3. QED
      BY <2>3, <2>5, <2>6, <2>9, <3>2 DEF WritesNow
  <2>10. QED
    BY <2>8, <2>9
<1>3. QED
  BY <1>1, <1>2 DEF Tick

\* The frame being written, after an action.
LEMMA WrittenAfter ==
    ASSUME Crossed, Queued, Shown, ClientTyped, Written, Tick
    PROVE  Written'
<1> USE TxLinkAssumption
<1>1. CASE RefTick
  <2>1. client' = client /\ ram1' = ram1 /\ memory' = memory
    BY <1>1 DEF RefTick, RefEdge, clkRegs
  <2>2. QED
    BY <2>1 DEF Written, Landed, Addr, Wrap
<1>2. CASE ~ RefTick /\ (ClkTick \/ BothTick)
  <2>1. ClkSide
    BY <1>2, ClkTickIs DEF Crossed, BothTick, BothEdges
  <2>2. ClientMoves
    BY <2>1, AddedIs
  <2>3. /\ client.base \in 0 .. MEM - 1 /\ client.len \in 0 .. MEM - 1 /\ client.next \in Nat
        /\ client.state # "idle" => client.next <= client.len /\ client.len > 0
        /\ client.wstrobe \in BOOLEAN /\ client.addr \in Addr
        /\ client.wstrobe => client.state # "idle"
    BY ClientRanges
  <2>4. /\ \A a \in Addr : Landed(a)' = IF WritesNow /\ a = Wrap(client.base + client.next)
                                        THEN <<client.id + 1, client.next>> ELSE Landed(a)
        /\ DOMAIN memory' = Addr /\ ram1'.addr \in Addr /\ ram1'.wstrobe \in BOOLEAN
    BY LandedAfter
  <2>5. ram1'.addr = client.addr /\ ram1'.wstrobe = client.wstrobe
    BY <2>1 DEF ClkSide, WritePort
  <2>6. \A j \in 0 .. client.len : Wrap(client.base + j) \in Addr
    BY <2>3 DEF Wrap, Addr
  <2>7. client.wstrobe => client.next > 0 /\ client.addr = Wrap(client.base + (client.next - 1))
    BY DEF Written
  <2>8. CASE Waiting
    <3>1. client'.state = "idle" /\ ~ client'.wstrobe /\ ~ ram1'.wstrobe
      BY <2>3, <2>5, <2>8 DEF Waiting
    <3>2. QED
      BY <2>4, <3>1 DEF Written, Addr
  <2>9. CASE Starting
    <3>1. client'.next = 0 /\ ~ client'.wstrobe /\ ~ ram1'.wstrobe
      BY <2>3, <2>5, <2>9 DEF Starting
    <3>2. \A j \in 0 .. client'.next - 1 : FALSE
      BY <3>1
    <3>3. QED
      BY <2>4, <3>1, <3>2 DEF Written, Addr
  <2>10. CASE WritingOne
    <3>1. /\ client.state # "idle" /\ client'.state # "idle" /\ client'.base = client.base
          /\ client'.id = client.id /\ client'.next = client.next + 1 /\ client'.wstrobe
          /\ client'.addr = (client.base + client.next) % MEM
      BY <2>10 DEF WritingOne
    <3>2. client.next < client.len
      BY <2>10 DEF WritingOne, ClientTyped
    <3>3. client'.addr = Wrap(client.base + client.next)
      BY <2>3, <3>1, <3>2, WrapIs
    <3>4. client'.next - 1 = client.next /\ client'.next > 0
      BY <2>3, <3>1
    <3>5. ASSUME NEW j \in 0 .. client.next
          PROVE  Landed(Wrap(client.base + j))' = <<client.id + 1, j>>
      <4>1. PICK a \in Addr : a = Wrap(client.base + j)
        BY <2>3, <2>6, <3>2
      <4>2. Landed(Wrap(client.base + j))' = Landed(a)'
        <5>1. (Wrap(client.base + j))' = Wrap(client.base + j)
          BY <3>1 DEF Wrap
        <5>2. QED
          BY <4>1, <5>1 DEF Landed
      <4>3. CASE j = client.next
        BY <1>2, <2>4, <2>10, <4>1, <4>2, <4>3 DEF WritesNow
      <4>4. CASE j # client.next
        <5>1. j \in 0 .. client.next - 1
          BY <2>3, <4>4
        <5>2. a # Wrap(client.base + client.next)
          BY <2>3, <3>2, <4>1, <5>1 DEF Wrap
        <5>3. Landed(a) = <<client.id + 1, j>>
          BY <3>1, <4>1, <5>1 DEF Written
        <5>4. QED
          BY <2>4, <4>1, <4>2, <5>2, <5>3
      <4>5. QED
        BY <4>3, <4>4
    <3>6. ASSUME ram1'.wstrobe
          PROVE  \E j \in 0 .. client'.next - 1 : ram1'.addr = Wrap(client.base + j)
      <4>1. client.next - 1 \in 0 .. client.next /\ client.addr = Wrap(client.base + (client.next - 1))
        BY <2>3, <2>5, <2>7, <3>6
      <4>2. QED
        BY <2>5, <3>4, <4>1
    <3>7. \A z : Wrap(z)' = Wrap(z)
      BY DEF Wrap
    <3>8. QED
      <4>1. \A j \in 0 .. client'.next - 1 : Landed(Wrap(client.base + j))' = <<client.id + 1, j>>
        BY <3>4, <3>5
      <4>2. (\A j \in 0 .. client.next - 1 : Landed(Wrap(client.base + j)) = <<client.id + 1, j>>)'
        BY <3>1, <4>1
      <4>3. (client.wstrobe => client.next > 0 /\ client.addr = Wrap(client.base + (client.next - 1)))'
        BY <3>1, <3>3, <3>4 DEF Wrap
      <4>4. ram1'.wstrobe => (\E j \in 0 .. client.next - 1 : ram1.addr = Wrap(client.base + j))'
        BY <3>1, <3>6 DEF Wrap
      <4>5. (DOMAIN memory = Addr /\ ram1.addr \in Addr /\ ram1.wstrobe \in BOOLEAN)'
        BY <2>4 DEF Addr
      <4>6. QED
        BY <3>1, <4>2, <4>3, <4>4, <4>5 DEF Written
  <2>11. CASE Blocked
    <3>1. /\ client.state # "idle" /\ client'.state # "idle" /\ client'.base = client.base
          /\ client'.id = client.id /\ client'.next = client.next /\ ~ client'.wstrobe
          /\ ~ WritingOne
      BY <2>11 DEF Blocked, Same1, WritingOne
    <3>2. ASSUME NEW j \in 0 .. client.next - 1
          PROVE  Landed(Wrap(client.base + j))' = <<client.id + 1, j>>
      <4>1. PICK a \in Addr : a = Wrap(client.base + j)
        BY <2>3, <2>6, <3>1
      <4>2. Landed(Wrap(client.base + j))' = Landed(a)'
        <5>1. (Wrap(client.base + j))' = Wrap(client.base + j)
          BY <3>1 DEF Wrap
        <5>2. QED
          BY <4>1, <5>1 DEF Landed
      <4>3. Landed(a) = <<client.id + 1, j>>
        BY <3>1, <4>1 DEF Written
      <4>4. QED
        BY <2>4, <3>1, <4>2, <4>3 DEF WritesNow
    <3>3. ASSUME ram1'.wstrobe
          PROVE  \E j \in 0 .. client.next - 1 : ram1'.addr = Wrap(client.base + j)
      <4>1. client.next - 1 \in 0 .. client.next - 1
        BY <2>3, <2>5, <2>7, <3>3
      <4>2. QED
        BY <2>5, <2>7, <3>3, <4>1
    <3>4. QED
      <4>1. (\A j \in 0 .. client.next - 1 : Landed(Wrap(client.base + j)) = <<client.id + 1, j>>)'
        BY <3>1, <3>2
      <4>2. ram1'.wstrobe => (\E j \in 0 .. client.next - 1 : ram1.addr = Wrap(client.base + j))'
        BY <3>1, <3>3 DEF Wrap
      <4>3. (DOMAIN memory = Addr /\ ram1.addr \in Addr /\ ram1.wstrobe \in BOOLEAN)'
        BY <2>4 DEF Addr
      <4>4. QED
        BY <3>1, <4>1, <4>2, <4>3 DEF Written
  <2>12. CASE Queueing
    <3>1. /\ client.state = "enqueue" /\ client'.state = "idle" /\ ~ client'.wstrobe /\ client'.pf_enq
          /\ client'.tag.ptr = client.base /\ client'.tag.len = client.len
      BY <2>12 DEF Queueing
    <3>2. client.next = client.len
      BY <3>1 DEF ClientTyped
    <3>3. ram1'.wstrobe => ram1'.addr = Wrap(client.base + (client.len - 1))
      BY <2>5, <2>7, <3>2
    <3>4. QED
      BY <2>4, <3>1, <3>3 DEF Written, Addr, Wrap
  <2>13. QED
    BY <2>2, <2>8, <2>9, <2>10, <2>11, <2>12 DEF ClientMoves
<1>3. QED
  BY <1>1, <1>2 DEF Tick

\* Where a frame still to be read lies: behind the client's place, with room for the frame
\* the client is writing.
LEMMA PlaceOf ==
    ASSUME Crossed, Queued, Shown, ClientTyped, Matched, Chained, Roomy, Tick,
           NEW k \in 1 .. Live
    PROVE  /\ LiveDesc(k).ptr \in Addr /\ LiveDesc(k).len \in 1 .. MEM - 1
           /\ Far(k) \in 1 .. MEM /\ LiveDesc(k).len <= Far(k) /\ Far(k) + Writing <= MEM
<1> USE TxLinkAssumption
<1>1. Live \in Nat /\ client.base \in Addr /\ Writing \in 0 .. MEM - 1 /\ ToRelease \in Nat
  BY LiveAfter, AccountAfter, ToReleaseAfter
<1>2. \A i \in 1 .. Live : /\ LiveDesc(i).ptr \in Addr /\ LiveDesc(i).len \in 1 .. MEM - 1
                           /\ Far(i) \in 1 .. MEM
  <2>1. SUFFICES ASSUME NEW i \in 1 .. Live
                 PROVE  /\ LiveDesc(i).ptr \in Addr /\ LiveDesc(i).len \in 1 .. MEM - 1
                        /\ Far(i) \in 1 .. MEM
    OBVIOUS
  <2>2. LiveDesc(i) \in Descriptor /\ LiveDesc(i).len > 0
    BY DEF Matched
  <2>3. LiveDesc(i).ptr \in Addr /\ LiveDesc(i).len \in 0 .. MEM - 1
    BY <2>2 DEF Descriptor, Addr
  <2>4. QED
    BY <1>1, <2>2, <2>3, GapRange DEF Far
<1>3. Far(k) = LiveDesc(k).len + (IF k = Live THEN 0 ELSE Far(k + 1))
  BY DEF Chained
<1>4. LiveDesc(k).len <= Far(k)
  <2>1. CASE k = Live
    BY <1>2, <1>3, <2>1
  <2>2. CASE k # Live
    <3>1. k + 1 \in 1 .. Live
      BY <1>1, <2>2
    <3>2. Far(k + 1) \in 1 .. MEM
      BY <1>2, <3>1
    <3>3. QED
      BY <1>2, <1>3, <2>2, <3>2
  <2>3. QED
    BY <2>1, <2>2
<1>5. 1 \in 1 .. Live /\ 1 <= k
  BY <1>1
<1>6. Far(k) <= Far(1) /\ Far(1) \in 1 .. MEM
  BY <1>2, <1>5 DEF Chained
<1>7. Far(1) + Writing <= MEM
  BY <1>1, <1>5, <1>6 DEF Roomy, Held
<1>8. QED
  BY <1>1, <1>2, <1>4, <1>6, <1>7

\* The frames in the buffer after an action.
LEMMA WholeAfter ==
    ASSUME Crossed, RmiiTyped, Serial, Queued, Shown, ClientTyped, Sized, Matched, Chained, Roomy,
           Written, Whole, Tick
    PROVE  Whole'
<1> USE TxLinkAssumption
<1>1. /\ Live' = Live - Dropped + NowAdded /\ Live \in Nat /\ NowAdded \in {0, 1}
      /\ Dropped \in {0, 1} /\ Dropped <= Live
      /\ \A k \in 1 .. Live - Dropped : LiveDesc(k)' = LiveDesc(k + Dropped)
      /\ \A k \in Nat : NowAdded = 1 /\ k = Live' => LiveDesc(k)' = client'.tag
  BY LiveAfter
<1>2. /\ \A k \in 1 .. Live - Dropped : LiveFrame(k)' = LiveFrame(k + Dropped)
      /\ NowAdded = 1 => \A k \in Nat : k = Live' =>
                           LiveFrame(k)' = [id |-> client.id + 1, len |-> client.len]
  BY SentAfter
<1>3. /\ NowAdded = 1 => /\ Queueing /\ client'.tag.len = client.len /\ client'.tag.ptr = client.base
      /\ Writing \in 0 .. MEM - 1
  BY AccountAfter
<1>4. /\ client.base \in 0 .. MEM - 1 /\ client.len \in 0 .. MEM - 1 /\ client.next \in Nat
      /\ client.base \in Addr
  BY ClientRanges
<1>5. \A a \in Addr : Landed(a)' = IF WritesNow /\ a = Wrap(client.base + client.next)
                                   THEN <<client.id + 1, client.next>> ELSE Landed(a)
  BY LandedAfter
<1>6. WritesNow => client.next < client.len /\ Writing = client.len
  BY DEF WritesNow, WritingOne, ClientTyped, Writing
<1>7. PICK L \in Nat, d \in 0 .. 1, n \in 0 .. 1 :
        L = Live /\ d = Dropped /\ n = NowAdded /\ d <= L
  BY <1>1
<1>8. Live' = L - d + n
  BY <1>1, <1>7
<1>9. ASSUME NEW k \in 1 .. L - d, NEW j \in 0 .. LiveDesc(k)'.len - 1,
             NEW a \in Addr, a = Wrap(LiveDesc(k)'.ptr + j)
      PROVE  Landed(a)' = <<LiveFrame(k)'.id, j>>
  <2>1. k + d \in 1 .. Live /\ LiveDesc(k)' = LiveDesc(k + d) /\ LiveFrame(k)' = LiveFrame(k + d)
    BY <1>1, <1>2, <1>7
  <2>2. PICK p \in Addr, len \in 1 .. MEM - 1 :
          /\ p = LiveDesc(k + d).ptr /\ len = LiveDesc(k + d).len
          /\ len <= Gap(p, client.base) /\ Gap(p, client.base) \in 1 .. MEM
          /\ Gap(p, client.base) + Writing <= MEM
    <3>1. /\ LiveDesc(k + d).ptr \in Addr /\ LiveDesc(k + d).len \in 1 .. MEM - 1
          /\ Far(k + d) \in 1 .. MEM /\ LiveDesc(k + d).len <= Far(k + d)
          /\ Far(k + d) + Writing <= MEM
      BY <2>1, PlaceOf
    <3>2. QED
      BY <3>1 DEF Far
  <2>3. j \in 0 .. len - 1 /\ j \in Nat /\ j < Gap(p, client.base)
    BY <2>1, <2>2
  <2>4. a = Wrap(p + j)
    BY <1>9, <2>1, <2>2
  <2>5. Landed(a) = <<LiveFrame(k + d).id, j>>
    BY <2>1, <2>2, <2>3, <2>4 DEF Whole
  <2>6. WritesNow => a # Wrap(client.base + client.next)
    <3>1. SUFFICES ASSUME WritesNow PROVE a # Wrap(client.base + client.next)
      OBVIOUS
    <3>2. Gap(p, client.base) + client.next < MEM
      BY <1>3, <1>4, <1>6, <2>2, <3>1
    <3>3. PICK b \in Addr, m \in Nat : b = client.base /\ m = client.next
      BY <1>4
    <3>4. Wrap(p + j) # Wrap(b + m)
      BY <2>3, <3>2, <3>3, CellsApart
    <3>5. QED
      BY <2>4, <3>3, <3>4
  <2>7. Landed(a)' = <<LiveFrame(k + d).id, j>>
    BY <1>5, <2>5, <2>6
  <2>8. QED
    BY <2>1, <2>7
<1>10. ASSUME n = 1, NEW k \in Nat, k = L - d + n, NEW j \in 0 .. LiveDesc(k)'.len - 1,
              NEW a \in Addr, a = Wrap(LiveDesc(k)'.ptr + j)
       PROVE  Landed(a)' = <<LiveFrame(k)'.id, j>>
  <2>1. /\ Queueing /\ LiveDesc(k)'.len = client.len /\ LiveDesc(k)'.ptr = client.base
    BY <1>1, <1>3, <1>7, <1>8, <1>10
  <2>2. LiveFrame(k)' = [id |-> client.id + 1, len |-> client.len]
    BY <1>2, <1>7, <1>8, <1>10
  <2>3. client.state = "enqueue" /\ ~ WritesNow /\ client.next = client.len
    BY <2>1 DEF Queueing, WritesNow, WritingOne, ClientTyped
  <2>4. j \in 0 .. client.next - 1
    BY <2>1, <2>3
  <2>5. a = Wrap(client.base + j)
    BY <1>10, <2>1
  <2>6. Landed(a) = <<client.id + 1, j>>
    BY <2>3, <2>4, <2>5 DEF Written
  <2>7. Landed(a)' = <<client.id + 1, j>>
    BY <1>5, <2>3, <2>6
  <2>8. QED
    BY <2>2, <2>7
<1>11. ASSUME NEW k \in 1 .. L - d + n
       PROVE  (\A j \in 0 .. LiveDesc(k).len - 1 :
                  Landed(Wrap(LiveDesc(k).ptr + j)) = <<LiveFrame(k).id, j>>)'
  <2>1. k \in 1 .. L - d \/ (n = 1 /\ k \in Nat /\ k = L - d + n)
    BY <1>7
  <2>2. PICK p : p = LiveDesc(k)'.ptr
    OBVIOUS
  <2>3. \A j \in 0 .. LiveDesc(k)'.len - 1 : Wrap(p + j) \in Addr
    <3>1. LiveDesc(k)' \in Descriptor'
      BY <1>8, FramesAfter DEF Matched
    <3>2. p \in Addr /\ LiveDesc(k)'.len \in Addr
      BY <2>2, <3>1 DEF Descriptor, Addr
    <3>3. QED
      BY <3>2 DEF Wrap, Addr
  <2>4. \A j \in 0 .. LiveDesc(k)'.len - 1 : Landed(Wrap(p + j))' = <<LiveFrame(k)'.id, j>>
    <3>1. ASSUME NEW j \in 0 .. LiveDesc(k)'.len - 1
          PROVE  Landed(Wrap(p + j))' = <<LiveFrame(k)'.id, j>>
      <4>1. PICK a \in Addr : a = Wrap(p + j)
        BY <2>3
      <4>2. Landed(a)' = <<LiveFrame(k)'.id, j>>
        BY <1>9, <1>10, <2>1, <2>2, <4>1
      <4>3. Landed(Wrap(p + j))' = Landed(a)'
        BY <4>1 DEF Landed, Wrap
      <4>4. QED
        BY <4>2, <4>3
    <3>2. QED
      BY <3>1
  <2>5. QED
    BY <2>2, <2>4
<1>12. QED
  BY <1>8, <1>11 DEF Whole

\* A word the FSM reads has landed.
LEMMA ReadsWhole ==
    ASSUME Crossed, Queued, Shown, ClientTyped, Matched, Chained, Roomy, Written, Whole, Tick,
           Reading, NEW j \in 0 .. LiveDesc(1).len - 1
    PROVE  /\ 1 \in 1 .. Live
           /\ memory[Wrap(LiveDesc(1).ptr + j)] = <<LiveFrame(1).id, j>>
<1> USE TxLinkAssumption
<1>1. Bits(deq) /\ Handshake(deq)
  BY BitsOf DEF Crossed, CrossTyped, Handshakes
<1>2. ~ OnItsWay(deq)
  BY <1>1, OnItsWayEnds DEF Crossed, Ending, Reading
<1>3. q.fifo_level \in Nat /\ q.fifo_level > 0
  BY PfRanges, LinkAssumption DEF Queued
<1>4. Live = Count /\ Count \in Nat /\ (Count = IF client.pf_enq THEN q.fifo_level + 1 ELSE q.fifo_level)
  BY <1>2, <1>3 DEF Live, Read, Count
<1>5. 1 \in 1 .. Live
  BY <1>3, <1>4
<1>6. PICK p \in Addr, len \in 1 .. MEM - 1 :
        /\ p = LiveDesc(1).ptr /\ len = LiveDesc(1).len
        /\ len <= Gap(p, client.base) /\ Gap(p, client.base) \in 1 .. MEM
        /\ Gap(p, client.base) + Writing <= MEM /\ Far(1) = Gap(p, client.base)
  <2>1. /\ LiveDesc(1).ptr \in Addr /\ LiveDesc(1).len \in 1 .. MEM - 1
        /\ Far(1) \in 1 .. MEM /\ LiveDesc(1).len <= Far(1) /\ Far(1) + Writing <= MEM
    BY <1>5, PlaceOf
  <2>2. QED
    BY <2>1 DEF Far
<1>7. j \in 0 .. len - 1
  BY <1>6
<1>8. PICK a \in Addr : a = Wrap(p + j)
  BY <1>6, <1>7 DEF Wrap, Addr
<1>9. Landed(a) = <<LiveFrame(1).id, j>>
  BY <1>5, <1>6, <1>7, <1>8 DEF Whole
<1>10. /\ client.base \in 0 .. MEM - 1 /\ client.len \in 0 .. MEM - 1 /\ client.next \in Nat
       /\ client.base \in Addr /\ client.pf_enq \in BOOLEAN
       /\ client.state # "idle" => client.next <= client.len /\ Writing = client.len
       /\ client.wstrobe => client.state # "idle"
  BY ClientRanges DEF Writing
<1>11. PICK b \in Addr : b = client.base
  BY <1>10
<1>12. ASSUME client.state # "idle", NEW m \in 0 .. client.next - 1
       PROVE  a # Wrap(client.base + m)
  <2>1. m \in Nat /\ Gap(p, b) + m < MEM /\ j < Gap(p, b) /\ j \in Nat
    BY <1>6, <1>7, <1>10, <1>11, <1>12
  <2>2. Wrap(p + j) # Wrap(b + m)
    BY <2>1, CellsApart
  <2>3. QED
    BY <1>8, <1>11, <2>2
<1>13. ~ (client.wstrobe /\ client.addr = a)
  <2>1. SUFFICES ASSUME client.wstrobe, client.addr = a PROVE FALSE
    OBVIOUS
  <2>2. /\ client.state # "idle" /\ client.next > 0
        /\ client.addr = Wrap(client.base + (client.next - 1))
    BY <1>10, <2>1 DEF Written
  <2>3. client.next - 1 \in 0 .. client.next - 1
    BY <1>10, <2>2
  <2>4. QED
    BY <1>12, <2>1, <2>2, <2>3
<1>14. ~ (ram1.wstrobe /\ ram1.addr = a)
  <2>1. SUFFICES ASSUME ram1.wstrobe, ram1.addr = a PROVE FALSE
    OBVIOUS
  <2>2. CASE client.state # "idle" /\ \E m \in 0 .. client.next - 1 : ram1.addr = Wrap(client.base + m)
    BY <1>12, <2>1, <2>2
  <2>3. CASE client.pf_enq /\ ram1.addr = Wrap(client.tag.ptr + (client.tag.len - 1))
    <3>1. PICK l \in Nat : l = Live
      BY <1>4
    <3>2. l \in 1 .. Live /\ 2 \in 1 .. Live /\ 2 <= l /\ 1 # Live
      BY <1>3, <1>4, <2>3, <3>1
    <3>3. LiveDesc(l) = client.tag
      <4>1. ~ (l <= q.fifo_level)
        BY <1>3, <1>4, <2>3, <3>1
      <4>2. QED
        BY <1>2, <4>1 DEF LiveDesc, Desc
    <3>4. /\ LiveDesc(l).ptr \in Addr /\ LiveDesc(l).len \in 1 .. MEM - 1
      BY <3>2, PlaceOf
    <3>5. Far(l) = LiveDesc(l).len
      BY <3>1, <3>2, <3>4 DEF Chained
    <3>6. Far(1) = LiveDesc(1).len + Far(1 + 1) /\ Far(l) <= Far(2)
      BY <1>5, <3>2 DEF Chained
    <3>7. Far(2) \in 1 .. MEM
      BY <3>2, PlaceOf
    <3>8. PICK p2 \in Addr, l2 \in 1 .. MEM - 1 :
            p2 = client.tag.ptr /\ l2 = client.tag.len /\ l2 = Gap(p2, b)
      BY <1>11, <3>3, <3>4, <3>5 DEF Far
    <3>9. Gap(p, b) >= len + l2
      BY <1>6, <1>11, <3>3, <3>5, <3>6, <3>7, <3>8
    <3>10. Gap(p, b) - j > 1 /\ Gap(p, b) \in 1 .. MEM
      BY <1>6, <1>7, <1>11, <3>9
    <3>11. Wrap(p + j) # Wrap(p2 + (l2 - 1))
      BY <1>7, <3>8, <3>10 DEF Gap, Wrap, Addr
    <3>12. QED
      BY <1>8, <2>1, <2>3, <3>8, <3>11
  <2>4. QED
    BY <2>1, <2>2, <2>3 DEF Written
<1>15. Landed(a) = memory[a]
  BY <1>13, <1>14 DEF Landed
<1>16. QED
  BY <1>5, <1>6, <1>8, <1>9, <1>15

----------------------------------------------------------------------------
(* The frame the FSM reads                                                  *)

\* rptr and frlen say how far the FSM is in the first of the frames still to be read.
Following ==
    Reading =>
      /\ f.frlen <= LiveDesc(1).len
      /\ f.state # "TXDATA" => f.frlen = LiveDesc(1).len
      /\ f.rptr = Wrap(LiveDesc(1).ptr + (LiveDesc(1).len - f.frlen))

\* The word that is handed over next has been read when its first byte is due.
Fetched ==
    f.state = "TXDATA" =>
      /\ f.mii_cnt # 1 => f.m_rstrobe
      /\ f.mii_cnt \in {3, 0} => ram2.rstrobe /\ ram2.addr = f.rptr
      /\ f.mii_cnt = 0 => ram2.rdt = <<toSend[1].id, LiveDesc(1).len - f.frlen>>

\* All that is said of the frames.
Kept == Sized /\ Matched /\ Chained /\ Roomy /\ Written /\ Whole
Sound == Crossed /\ RmiiTyped /\ Serial /\ Queued /\ Shown /\ ClientTyped /\ Kept

\* The first of the frames still to be read stays the first while it is read.
LEMMA FirstStays ==
    ASSUME Sound, Tick, Reading
    PROVE  /\ 1 \in 1 .. Live /\ Fell = 0 /\ LiveFrame(1) = toSend[1]
           /\ LiveDesc(1).ptr \in Addr /\ LiveDesc(1).len \in 1 .. MEM - 1
           /\ toSend[1] \in Frame /\ toSend[1].len = LiveDesc(1).len
           /\ toSend'[1] = toSend[1]
           /\ Reading' => LiveDesc(1)' = LiveDesc(1)
<1> USE DEF Sound, Kept
<1>1. /\ Bits(deq) /\ Handshake(deq)
  BY BitsOf DEF Crossed, CrossTyped, Handshakes
<1>2. ~ OnItsWay(deq)
  BY <1>1, OnItsWayEnds DEF Crossed, Ending, Reading
<1>3. q.fifo_level \in Nat /\ q.fifo_level > 0
  BY PfRanges, LinkAssumption DEF Queued
<1>4. Live \in Nat /\ Live > 0 /\ 1 \in 1 .. Live
  BY <1>2, <1>3 DEF Live, Read, Count
<1>5. Fell = 0 /\ Lead = 0
  <2>1. Lead = 0
    BY DEF Lead
  <2>2. QED
    BY <2>1, LeadAfter
<1>6. LiveFrame(1) = toSend[1]
  BY <1>5 DEF LiveFrame
<1>7. LiveDesc(1).ptr \in Addr /\ LiveDesc(1).len \in 1 .. MEM - 1
  BY <1>4, PlaceOf
<1>8. toSend[1].len = LiveDesc(1).len
  BY <1>4, <1>6 DEF Matched
<1>9. toSend[1] \in Frame /\ toSend'[1] = toSend[1]
  BY <1>5, SentAfter DEF OnWire, Sending
<1>10. Reading' => LiveDesc(1)' = LiveDesc(1)
  <2>1. SUFFICES ASSUME Reading' PROVE LiveDesc(1)' = LiveDesc(1)
    OBVIOUS
  <2>2. Dropped = 0
    BY <2>1 DEF Dropped
  <2>3. \A k \in 1 .. Live - Dropped : LiveDesc(k)' = LiveDesc(k + Dropped)
    BY LiveAfter
  <2>4. 1 \in 1 .. Live - Dropped /\ 1 + Dropped = 1
    BY <1>4, <2>2
  <2>5. QED
    BY <2>3, <2>4
<1>11. QED
  BY <1>4, <1>5, <1>6, <1>7, <1>8, <1>9, <1>10

\* The FSM starts with the first of them.
LEMMA FirstStarts ==
    ASSUME Sound, Tick, FsmClock, f.state = "IDLE", ~ pf1.empty
    PROVE  /\ LiveDesc(1)' = pf1.tag /\ pf1.tag.len \in 0 .. MEM - 1 /\ pf1.tag.ptr \in 0 .. MEM - 1
           /\ f'.state = "TXPREAMBLE" /\ f'.cnt = 0 /\ f'.mii_cnt = 1
           /\ f'.rptr = pf1.tag.ptr /\ f'.frlen = pf1.tag.len
           /\ f'.t_dt = Preamble /\ f'.crc_init /\ ~ f'.crc_calc
<1> USE DEF Sound, Kept
<1>1. /\ Bits(deq) /\ Handshake(deq) /\ pf1.tag \in Descriptor /\ FsmTyped
  BY BitsOf DEF Crossed, CrossTyped, Handshakes, PfTyped
<1>2. ~ OnItsWay(deq)
  BY <1>1, OnItsWayEnds DEF Crossed, Ending
<1>3. q.fifo_level > 0 /\ pf1.tag = Desc(1)
  BY DEF Shown, Ending
<1>4. q.fifo_level \in Nat
  BY PfRanges, LinkAssumption DEF Queued
<1>5. Live \in Nat /\ Live > 0 /\ LiveDesc(1) = Desc(1)
  BY <1>2, <1>3, <1>4 DEF Live, Read, Count, LiveDesc
<1>6. Dropped = 0
  BY DEF Dropped, Reading
<1>7. \A k \in 1 .. Live - Dropped : LiveDesc(k)' = LiveDesc(k + Dropped)
  BY LiveAfter
<1>8. 1 \in 1 .. Live - Dropped /\ 1 + Dropped = 1
  BY <1>5, <1>6
<1>9. LiveDesc(1)' = pf1.tag
  BY <1>3, <1>5, <1>7, <1>8
<1>10. QED
  BY <1>1, <1>9, IdleMoves DEF Hands, Goes, Descriptor, Addr

\* The place of the FSM in the frame after an action.
LEMMA FollowingAfter ==
    ASSUME Sound, Following, Tick
    PROVE  Following'
<1> USE TxLinkAssumption
<1>1. FsmTyped /\ Paced /\ pf1.tag \in Descriptor
  BY DEF Sound, Crossed, PfTyped
<1>2. /\ f.cnt \in Nat /\ f.mii_cnt \in 0 .. 3 /\ f.rptr \in 0 .. MEM - 1 /\ f.frlen \in 0 .. MEM - 1
  BY <1>1, FsmRanges DEF Addr
<1>3. SUFFICES ASSUME Reading'
               PROVE  (/\ f.frlen <= LiveDesc(1).len
                       /\ f.state # "TXDATA" => f.frlen = LiveDesc(1).len
                       /\ f.rptr = Wrap(LiveDesc(1).ptr + (LiveDesc(1).len - f.frlen)))'
  BY DEF Following
<1>4. CASE ClkTick
  <2>1. f' = f
    BY <1>4, ClkTickIs DEF Sound, Crossed
  <2>2. Reading
    BY <1>3, <2>1 DEF Reading
  <2>3. LiveDesc(1)' = LiveDesc(1)
    BY <1>3, <2>2, FirstStays
  <2>4. QED
    BY <2>1, <2>2, <2>3 DEF Following, Wrap
<1>5. CASE RefTick \/ BothTick
  <2>1. FsmClock
    BY <1>5, RefSideIs DEF Sound, Crossed
  <2>2. CASE f.state = "IDLE" /\ ~ pf1.empty
    <3>1. /\ LiveDesc(1)' = pf1.tag /\ pf1.tag.len \in 0 .. MEM - 1 /\ pf1.tag.ptr \in 0 .. MEM - 1
          /\ f'.rptr = pf1.tag.ptr /\ f'.frlen = pf1.tag.len
      BY <2>1, <2>2, FirstStarts
    <3>2. f'.rptr = Wrap(pf1.tag.ptr + (pf1.tag.len - f'.frlen))
      BY <3>1 DEF Wrap
    <3>3. QED
      BY <3>1, <3>2 DEF Wrap
  <2>3. CASE Reading
    <3>1. PICK p \in Addr, len \in 1 .. MEM - 1 :
            /\ p = LiveDesc(1).ptr /\ len = LiveDesc(1).len
            /\ p = LiveDesc(1)'.ptr /\ len = LiveDesc(1)'.len
      BY <1>3, <2>3, FirstStays
    <3>2. /\ f.frlen <= len
          /\ f.state # "TXDATA" => f.frlen = len
          /\ f.rptr = Wrap(p + (len - f.frlen))
      BY <2>3, <3>1 DEF Following
    <3>3. f'.frlen <= len /\ (f'.state # "TXDATA" => f'.frlen = len)
          /\ f'.rptr = Wrap(p + (len - f'.frlen))
      <4>1. CASE f.state = "TXPREAMBLE"
        <5>1. f'.rptr = f.rptr /\ f'.frlen = f.frlen
          BY <1>1, <2>1, <4>1, PreambleMoves DEF Unread
        <5>2. QED
          BY <3>2, <4>1, <5>1
      <4>2. CASE f.state = "TXSFD_D5"
        <5>1. f'.rptr = f.rptr /\ f'.frlen = f.frlen
          BY <1>1, <2>1, <4>2, SfdMoves DEF Unread
        <5>2. QED
          BY <3>2, <4>2, <5>1
      <4>3. CASE f.state = "TXDATA"
        <5>1. f'.state = "TXDATA"
          <6>1. f'.state = "TXDATA" \/ f'.state = "TXFCS"
            BY <1>1, <2>1, <4>3, DataMoves DEF Goes
          <6>2. QED
            BY <1>3, <6>1 DEF Reading
        <5>2. CASE ~ f.mii_strobe \/ f.cnt < 3
          <6>1. f'.rptr = f.rptr /\ f'.frlen = f.frlen
            BY <1>1, <2>1, <4>3, <5>2, DataMoves
          <6>2. QED
            BY <3>2, <5>1, <6>1
        <5>3. CASE f.mii_strobe /\ ~ (f.cnt < 3)
          <6>1. f'.rptr = (f.rptr + 1) % MEM /\ f'.frlen = ((f.frlen - 1) + MEM) % MEM
            BY <1>1, <2>1, <4>3, <5>3, DataMoves
          <6>2. f.frlen > 0
            BY <1>1, <1>2, <4>3, <5>3 DEF Paced
          <6>3. f'.frlen = f.frlen - 1
            <7>1. f.frlen - 1 + MEM \in 0 .. 2 * MEM - 1
              BY <1>2
            <7>2. (f.frlen - 1 + MEM) % MEM = Wrap(f.frlen - 1 + MEM)
              BY <7>1, WrapIs
            <7>3. Wrap(f.frlen - 1 + MEM) = f.frlen - 1
              BY <1>2, <6>2 DEF Wrap
            <7>4. QED
              BY <6>1, <7>2, <7>3
          <6>4. f'.rptr = Wrap(f.rptr + 1)
            <7>1. f.rptr + 1 \in 0 .. 2 * MEM - 1
              BY <1>2
            <7>2. QED
              BY <6>1, <7>1, WrapIs
          <6>5. PICK j \in 0 .. len - 1 : j = len - f.frlen
            BY <1>2, <3>1, <3>2, <6>2
          <6>6. Wrap(Wrap(p + j) + 1) = Wrap(p + (j + 1))
            <7>1. p \in 0 .. MEM - 1
              BY <3>1 DEF Addr
            <7>2. QED
              BY <7>1 DEF Wrap
          <6>7. f'.rptr = Wrap(p + (j + 1))
            BY <3>2, <6>4, <6>5, <6>6
          <6>8. len - f'.frlen = j + 1 /\ f'.frlen <= len
            BY <1>2, <6>3, <6>5
          <6>9. QED
            BY <5>1, <6>7, <6>8
        <5>4. QED
          BY <5>2, <5>3
      <4>4. QED
        BY <2>3, <4>1, <4>2, <4>3 DEF Reading
    <3>4. QED
      BY <3>1, <3>3 DEF Wrap
  <2>4. QED
    BY <1>1, <1>3, <2>1, <2>2, <2>3, ReadsOn
<1>6. QED
  BY <1>4, <1>5 DEF Tick

\* The words read after an action.
LEMMA FetchedAfter ==
    ASSUME Sound, Following, Fetched, Tick
    PROVE  Fetched'
<1> USE TxLinkAssumption
<1>1. FsmTyped /\ Paced /\ pf1.tag \in Descriptor
  BY DEF Sound, Crossed, PfTyped
<1>2. /\ f.cnt \in Nat /\ f.mii_cnt \in 0 .. 3 /\ f.frlen \in 0 .. MEM - 1
  BY <1>1, FsmRanges DEF Addr
<1>3. SUFFICES ASSUME f'.state = "TXDATA"
               PROVE  (/\ f.mii_cnt # 1 => f.m_rstrobe
                       /\ f.mii_cnt \in {3, 0} => ram2.rstrobe /\ ram2.addr = f.rptr
                       /\ f.mii_cnt = 0 => ram2.rdt = <<toSend[1].id, LiveDesc(1).len - f.frlen>>)'
  BY DEF Fetched
<1>4. Reading'
  BY <1>3 DEF Reading
<1>5. CASE ClkTick
  <2>1. f' = f /\ ram2' = ram2
    BY <1>5, ClkTickIs DEF Sound, Crossed
  <2>2. Reading
    BY <1>4, <2>1 DEF Reading
  <2>3. LiveDesc(1)' = LiveDesc(1) /\ toSend'[1] = toSend[1]
    BY <1>4, <2>2, FirstStays
  <2>4. QED
    BY <1>3, <2>1, <2>3 DEF Fetched
<1>6. CASE RefTick \/ BothTick
  <2>1. FsmClock /\ ReadPort
    BY <1>6, RefSideIs DEF Sound, Crossed
  <2>2. /\ ram2'.addr = f.rptr /\ ram2'.rstrobe = f.m_rstrobe
        /\ ram2'.rdt = IF ram2.rstrobe THEN memory[ram2.addr] ELSE ram2.rdt
    BY <2>1 DEF ReadPort
  <2>3. (f.state = "TXSFD_D5" /\ f.mii_cnt = 0) \/ f.state = "TXDATA"
    <3>1. f.state = "IDLE" => f'.state \in {"IDLE", "TXPREAMBLE"}
      BY <1>1, <2>1, Went DEF Goes
    <3>2. f.state = "TXPREAMBLE" => f'.state \in {"TXPREAMBLE", "TXSFD_D5"}
      BY <1>1, <2>1, Went DEF Goes
    <3>3. f.state = "TXSFD_D5" /\ f.mii_cnt # 0 => f'.state = "TXSFD_D5"
      BY <1>1, <2>1, Went DEF Goes
    <3>4. f.state = "TXFCS" => f'.state \in {"TXFCS", "IGAP"}
      BY <1>1, <2>1, Went DEF Goes
    <3>5. f.state = "IGAP" => f'.state \in {"IGAP", "IDLE"}
      BY <1>1, <2>1, Went DEF Goes
    <3>6. QED
      BY <1>1, <1>3, <3>1, <3>2, <3>3, <3>4, <3>5, InSomeState
  <2>4. CASE f.state = "TXSFD_D5" /\ f.mii_cnt = 0
    <3>1. f'.mii_cnt = 1
      BY <1>1, <2>1, <2>4, Went DEF NextMii
    <3>2. QED
      BY <3>1
  <2>5. CASE f.state = "TXDATA"
    <3>1. Reading
      BY <2>5 DEF Reading
    <3>2. PICK p \in Addr, len \in 1 .. MEM - 1, frame \in Frame :
            /\ p = LiveDesc(1).ptr /\ len = LiveDesc(1).len
            /\ len = LiveDesc(1)'.len
            /\ frame = toSend[1] /\ frame = toSend'[1] /\ frame = LiveFrame(1)
      BY <1>4, <3>1, FirstStays
    <3>3. f.frlen <= len /\ f.rptr = Wrap(p + (len - f.frlen))
      BY <3>1, <3>2 DEF Following
    <3>4. /\ f.mii_cnt # 1 => f.m_rstrobe
          /\ f.mii_cnt \in {3, 0} => ram2.rstrobe /\ ram2.addr = f.rptr
          /\ f.mii_cnt = 0 => ram2.rdt = <<frame.id, len - f.frlen>>
      BY <2>5, <3>2 DEF Fetched
    <3>5. f'.mii_cnt = NextMii
      BY <1>1, <2>1, <2>5, Went
    <3>6. f.mii_strobe <=> f.mii_cnt = 0
      BY <1>1, <2>5 DEF Paced
    <3>7. CASE f.mii_cnt = 0
      <4>1. f'.mii_cnt = 1
        BY <3>5, <3>7 DEF NextMii
      <4>2. QED
        BY <4>1
    <3>8. CASE f.mii_cnt # 0
      <4>1. f'.m_rstrobe /\ f'.rptr = f.rptr /\ f'.frlen = f.frlen /\ f.frlen # 0
        BY <1>1, <1>3, <2>1, <2>5, <3>6, <3>8, DataMoves DEF Goes
      <4>2. f'.mii_cnt \in {3, 0} => ram2'.rstrobe /\ ram2'.addr = f'.rptr
        BY <1>2, <2>2, <3>4, <3>5, <4>1 DEF NextMii
      <4>3. ASSUME f'.mii_cnt = 0
            PROVE  ram2'.rdt = <<frame.id, len - f'.frlen>>
        <5>1. f.mii_cnt = 3
          BY <1>2, <3>5, <4>3 DEF NextMii
        <5>2. ram2'.rdt = memory[Wrap(p + (len - f.frlen))]
          BY <2>2, <3>3, <3>4, <5>1
        <5>3. PICK j \in 0 .. len - 1 : j = len - f.frlen
          BY <1>2, <3>3, <4>1
        <5>4. memory[Wrap(p + j)] = <<frame.id, j>>
          BY <3>1, <3>2, <5>3, ReadsWhole DEF Sound, Kept
        <5>5. QED
          BY <4>1, <5>2, <5>3, <5>4
      <4>4. QED
        BY <3>2, <4>1, <4>2, <4>3
    <3>9. QED
      BY <3>7, <3>8
  <2>6. QED
    BY <2>3, <2>4, <2>5
<1>7. QED
  BY <1>5, <1>6 DEF Tick

----------------------------------------------------------------------------
(* The place of every byte in its frame                                     *)

\* The place, in a frame of len words, of the byte in t_dt.
Handed(len) ==
    IF f.state = "TXPREAMBLE" THEN f.cnt
    ELSE IF f.state = "TXSFD_D5" THEN 6
    ELSE IF f.state = "TXDATA" THEN 7 + 4 * (len - f.frlen) + f.cnt
    ELSE IF f.state = "TXFCS" THEN 7 + 4 * len + f.cnt
    ELSE IF f.state = "IGAP" THEN 11 + 4 * len + (IGAP_LEN - 1 - f.cnt)
    ELSE 12 + 4 * len

\* The FSM has as many words of the frame left as it may have.
Within(len) ==
    /\ f.frlen \in 0 .. MEM - 1
    /\ Reading => f.frlen <= len /\ (f.state # "TXDATA" => f.frlen = len)

\* The bytes of a frame.
LEMMA WireByteIs ==
    ASSUME NEW frame \in Frame, NEW n \in Nat
    PROVE  /\ n < 7 => WireByte(frame, n) = Preamble
           /\ n = 7 => WireByte(frame, n) = Sfd
           /\ \A j \in 0 .. frame.len - 1 : \A c \in 0 .. 3 :
                n = 8 + 4 * j + c => WireByte(frame, n) = DataByte(<<frame.id, j>>, c)
           /\ \A k \in Nat : n = 8 + 4 * frame.len + k =>
                WireByte(frame, n) = FcsByte(DataOf(frame), k)
<1>1. PICK len \in 1 .. MEM - 1 : len = frame.len
  BY DEF Frame
<1>2. ASSUME NEW j \in 0 .. len - 1, NEW c \in 0 .. 3, n = 8 + 4 * j + c
      PROVE  WireByte(frame, n) = DataByte(<<frame.id, j>>, c)
  <2>1. 4 * j + c + 1 \in 1 .. 4 * len
    BY <1>1, <1>2, TxLinkAssumption
  <2>2. ~ (n < 7) /\ n # 7 /\ n < 8 + 4 * len /\ n - 7 = 4 * j + c + 1
    BY <1>1, <1>2, TxLinkAssumption
  <2>3. WireByte(frame, n) = DataOf(frame)[4 * j + c + 1]
    BY <1>1, <2>2 DEF WireByte
  <2>4. DataOf(frame)[4 * j + c + 1]
          = DataByte(<<frame.id, ((4 * j + c + 1) - 1) \div 4>>, ((4 * j + c + 1) - 1) % 4)
    BY <1>1, <2>1 DEF DataOf
  <2>5. ((4 * j + c + 1) - 1) \div 4 = j /\ ((4 * j + c + 1) - 1) % 4 = c
    BY <1>2
  <2>6. QED
    BY <2>3, <2>4, <2>5
<1>3. ASSUME NEW k \in Nat, n = 8 + 4 * len + k
      PROVE  WireByte(frame, n) = FcsByte(DataOf(frame), k)
  <2>1. ~ (n < 7) /\ n # 7 /\ ~ (n < 8 + 4 * len) /\ n - 8 - 4 * len = k
    BY <1>1, <1>3
  <2>2. QED
    BY <1>1, <2>1 DEF WireByte
<1>4. n < 7 => WireByte(frame, n) = Preamble
  BY DEF WireByte
<1>5. n = 7 => WireByte(frame, n) = Sfd
  BY DEF WireByte
<1>6. QED
  BY <1>1, <1>2, <1>3, <1>4, <1>5

\* Each fourth edge of the FSM moves it one byte on.
LEMMA HandedAfter ==
    ASSUME FsmTyped, Paced, FsmClock, pf1.tag \in Descriptor, RmiiTyped, Serial,
           NEW len \in 1 .. MEM - 1, Within(len), OnWire, f.state # "IDLE"
    PROVE  /\ Handed(len) \in 0 .. 12 + 4 * len
           /\ Handed(len)' = IF f.mii_cnt = 0 THEN Handed(len) + 1 ELSE Handed(len)
<1> USE TxLinkAssumption
<1>1. /\ f.cnt \in Nat /\ f.mii_cnt \in 0 .. 3 /\ f.frlen \in 0 .. MEM - 1
  BY FsmRanges DEF Within
<1>2. /\ f.state \notin {"IDLE", "TXDATA"} /\ f.mii_cnt # 0 => Goes(f.state, f.cnt)
      /\ f.state = "TXPREAMBLE" /\ f.mii_cnt = 0 =>
           IF f.cnt = 5 THEN Goes("TXSFD_D5", 5) ELSE Goes("TXPREAMBLE", f.cnt + 1)
      /\ f.state = "TXSFD_D5" /\ f.mii_cnt = 0 => Goes("TXDATA", 0)
      /\ f.state = "TXDATA" /\ f.mii_cnt = 0 => Goes("TXDATA", IF f.cnt < 3 THEN f.cnt + 1 ELSE 0)
      /\ f.state = "TXDATA" /\ f.mii_cnt # 0 /\ f.frlen # 0 => Goes("TXDATA", f.cnt)
      /\ f.state = "TXDATA" /\ f.mii_cnt # 0 /\ f.frlen = 0 => Goes("TXFCS", 0)
      /\ f.state = "TXFCS" /\ f.mii_cnt = 0 =>
           IF f.cnt = 3 THEN Goes("IGAP", IGAP_LEN - 1) ELSE Goes("TXFCS", f.cnt + 1)
      /\ f.state = "IGAP" /\ f.mii_cnt = 0 =>
           IF f.cnt = 0 THEN Goes("IDLE", 0) ELSE Goes("IGAP", f.cnt - 1)
  BY Went
<1>3. CASE f.state = "TXPREAMBLE"
  BY <1>1, <1>2, <1>3 DEF Paced, Handed, Goes
<1>4. CASE f.state = "TXSFD_D5"
  <2>1. f.frlen = len
    BY <1>4 DEF Within, Reading
  <2>2. f'.frlen = f.frlen
    BY <1>4, SfdMoves DEF Unread
  <2>3. QED
    BY <1>1, <1>2, <1>4, <2>1, <2>2 DEF Handed, Goes
<1>5. CASE f.state = "TXDATA"
  <2>1. f.frlen <= len /\ f.cnt \in 0 .. 3
    BY <1>5 DEF Within, Reading, Paced
  <2>2. /\ f.mii_strobe <=> f.mii_cnt = 0
        /\ f.frlen = 0 => f.cnt = 0 /\ f.mii_cnt = 1
    BY <1>5 DEF Paced
  <2>3. CASE f.mii_cnt # 0
    <3>1. f'.frlen = f.frlen
      BY <1>5, <2>2, <2>3, DataMoves
    <3>2. QED
      BY <1>1, <1>2, <1>5, <2>1, <2>2, <2>3, <3>1 DEF Handed, Goes
  <2>4. CASE f.mii_cnt = 0
    <3>1. f.frlen > 0
      BY <1>1, <2>2, <2>4
    <3>2. f'.frlen = IF f.cnt < 3 THEN f.frlen ELSE ((f.frlen - 1) + MEM) % MEM
      BY <1>5, <2>1, <2>2, <2>4, DataMoves
    <3>3. ((f.frlen - 1) + MEM) % MEM = f.frlen - 1
      <4>1. f.frlen - 1 + MEM \in 0 .. 2 * MEM - 1
        BY <1>1, <3>1
      <4>2. (f.frlen - 1 + MEM) % MEM = Wrap(f.frlen - 1 + MEM)
        BY <4>1, WrapIs
      <4>3. QED
        BY <1>1, <3>1, <4>2 DEF Wrap
    <3>4. f'.frlen = IF f.cnt < 3 THEN f.frlen ELSE f.frlen - 1
      BY <3>2, <3>3
    <3>5. QED
      BY <1>1, <1>2, <1>5, <2>1, <2>4, <3>1, <3>4 DEF Handed, Goes
  <2>5. QED
    BY <2>3, <2>4
<1>6. CASE f.state = "TXFCS"
  BY <1>1, <1>2, <1>6 DEF Paced, Handed, Goes
<1>7. CASE f.state = "IGAP"
  <2>1. s.en
    BY <1>7 DEF OnWire, Sending, Reading
  <2>2. /\ f.cnt = IGAP_LEN - 1 \/ (f.cnt = IGAP_LEN - 2 /\ f.mii_cnt = 1)
        /\ f.cnt \in 0 .. IGAP_LEN - 1
    BY <1>7, <2>1 DEF Serial, Sending, Reading, LastByte, Paced
  <2>3. QED
    BY <1>1, <1>2, <1>7, <2>2 DEF Handed, Goes
<1>8. QED
  BY <1>3, <1>4, <1>5, <1>6, <1>7, InSomeState

----------------------------------------------------------------------------
(* What the CRC has been fed                                                *)

\* The first n data bytes of a frame.
Prefix(frame, n) == [i \in 1 .. n |-> DataByte(<<frame.id, (i - 1) \div 4>>, (i - 1) % 4)]

\* Those the CRC has been fed: all that were handed over but one just handed over.
Fed(len) ==
    IF f.state = "TXDATA"
    THEN IF f.mii_cnt = 1 /\ Handed(len) > 7 THEN Handed(len) - 8 ELSE Handed(len) - 7
    ELSE IF f.state = "TXFCS" THEN 4 * len ELSE 0

\* When the FSM resets the CRC and when it feeds it.
CrcPaced(len) ==
    /\ f.crc_init => f.state = "IDLE" \/ First
    /\ First => f.crc_init
    /\ f.state = "TXDATA" /\ f.mii_cnt = 1 => (f.crc_calc <=> Handed(len) > 7)
    /\ f.state \in {"TXPREAMBLE", "TXSFD_D5", "TXFCS"} => ~ f.crc_calc

\* What the CRC holds.
Covers(frame) ==
    /\ Sending /\ ~ First => crc.fed = Prefix(frame, Fed(frame.len))
    /\ f.state = "TXFCS" =>
         /\ crc.shifted = IF f.mii_cnt = 1 THEN f.cnt - 1 ELSE f.cnt
         /\ crc.byte = FcsByte(crc.fed, crc.shifted)

\* The bytes of the frame on the wire, in t_dt and in the serialiser.
Places(frame) ==
    /\ s.en => /\ pos = 4 * Handed(frame.len) + Phase
               /\ s.byte = WireByte(frame, IF f.mii_cnt = 1 THEN Handed(frame.len) - 1
                                           ELSE Handed(frame.len))
    /\ Sending \/ LastByte => f.t_dt = WireByte(frame, Handed(frame.len))

CrcClock == crc' = CrcStep(crc, FALSE, f.t_dt, f.crc_init, f.crc_calc, f.t_str_dt)

\* The length of a sequence from its domain.
LEMMA LenOfDomain ==
    ASSUME NEW S, NEW m \in Nat, NEW x \in Seq(S), DOMAIN x = 1 .. m
    PROVE  Len(x) = m
<1>1. PICK k \in Nat : k = Len(x) /\ 1 .. k = 1 .. m
  BY LenProperties
<1>2. \A i \in Nat : (1 <= i /\ i <= k) <=> (1 <= i /\ i <= m)
  BY <1>1
<1>3. k = m
  BY <1>2
<1>4. QED
  BY <1>1, <1>3

\* A prefix goes on with the next byte.
LEMMA PrefixGrows ==
    ASSUME NEW frame, NEW n \in Nat, NEW byte,
           byte = DataByte(<<frame.id, n \div 4>>, n % 4)
    PROVE  Append(Prefix(frame, n), byte) = Prefix(frame, n + 1)
<1> DEFINE P == Prefix(frame, n)
           Q == Prefix(frame, n + 1)
           S == {Q[i] : i \in 1 .. n + 1}
<1>1. Q = [i \in 1 .. n + 1 |-> DataByte(<<frame.id, (i - 1) \div 4>>, (i - 1) % 4)]
  BY DEF Prefix
<1>2. P = [i \in 1 .. n |-> DataByte(<<frame.id, (i - 1) \div 4>>, (i - 1) % 4)]
  BY DEF Prefix
<1>3. n + 1 \in Nat /\ n + 1 \in 1 .. n + 1 /\ (n + 1) - 1 = n
  OBVIOUS
<1>4. \A i \in 1 .. n : i \in 1 .. n + 1 /\ P[i] = Q[i]
  BY <1>1, <1>2
<1>5. Q[n + 1] = byte
  BY <1>1, <1>3, Zenon
<1>6. Q \in Seq(S)
  <2>1. \A i \in 1 .. n + 1 : Q[i] \in S
    OBVIOUS
  <2>2. Q = [i \in 1 .. n + 1 |-> Q[i]]
    BY <1>1
  <2> HIDE DEF Q, S
  <2>3. Q \in [1 .. n + 1 -> S]
    BY <2>1, <2>2
  <2>4. QED
    BY <1>3, <2>3, SeqDef
<1>7. P \in Seq(S)
  <2>1. \A i \in 1 .. n : P[i] \in S
    BY <1>4
  <2>2. P = [i \in 1 .. n |-> P[i]]
    BY <1>2
  <2> HIDE DEF P, S
  <2>3. P \in [1 .. n -> S]
    BY <2>1, <2>2
  <2>4. QED
    BY <2>3, SeqDef
<1>8. Len(P) = n /\ Len(Q) = n + 1
  <2>1. DOMAIN P = 1 .. n /\ DOMAIN Q = 1 .. n + 1
    BY <1>1, <1>2
  <2> HIDE DEF P, Q, S
  <2>2. QED
    BY <1>3, <1>6, <1>7, <2>1, LenOfDomain
<1>9. byte \in S
  BY <1>3, <1>5
<1> HIDE DEF P, Q, S
<1>10. /\ Append(P, byte) \in Seq(S) /\ Len(Append(P, byte)) = Len(P) + 1
       /\ \A i \in 1 .. Len(P) : Append(P, byte)[i] = P[i]
       /\ Append(P, byte)[Len(P) + 1] = byte
  BY <1>7, <1>9, AppendProperties
<1>11. \A i \in 1 .. n + 1 : Append(P, byte)[i] = Q[i]
  <2>1. TAKE i \in 1 .. n + 1
  <2>2. i \in 1 .. n \/ i = n + 1
    OBVIOUS
  <2>3. QED
    BY <1>4, <1>5, <1>8, <1>10, <2>2
<1>12. Append(P, byte) = Q
  BY <1>6, <1>8, <1>10, <1>11, SeqEqual
<1>13. QED
  BY <1>12 DEF P, Q

\* What an edge does to the CRC.
LEMMA CrcIs ==
    ASSUME CrcClock, f.crc_init \in BOOLEAN, f.crc_calc \in BOOLEAN, f.t_str_dt \in BOOLEAN
    PROVE  /\ f.crc_init => crc'.fed = << >>
           /\ ~ f.crc_init /\ ~ f.t_str_dt => crc' = crc
           /\ ~ f.crc_init /\ f.t_str_dt /\ f.crc_calc =>
                /\ crc'.fed = Append(crc.fed, f.t_dt) /\ crc'.shifted = 0
                /\ crc'.byte = FcsByte(crc'.fed, crc'.shifted)
           /\ ~ f.crc_init /\ f.t_str_dt /\ ~ f.crc_calc =>
                /\ crc'.fed = crc.fed
                /\ crc.fed # << >> => crc'.shifted = crc.shifted + 1
                /\ crc'.byte = FcsByte(crc'.fed, crc'.shifted)
<1>1. CASE f.crc_init
  BY <1>1 DEF CrcClock, CrcStep
<1>2. CASE ~ f.crc_init /\ ~ f.t_str_dt
  BY <1>2 DEF CrcClock, CrcStep
<1>3. CASE ~ f.crc_init /\ f.t_str_dt /\ f.crc_calc
  <2>1. PICK fed : fed = Append(crc.fed, f.t_dt)
    OBVIOUS
  <2>2. crc' = [fed |-> fed, shifted |-> 0, byte |-> FcsByte(fed, 0)]
    BY <1>3, <2>1, Zenon DEF CrcClock, CrcStep
  <2>3. QED
    BY <1>3, <2>1, <2>2
<1>4. CASE ~ f.crc_init /\ f.t_str_dt /\ ~ f.crc_calc
  <2>1. PICK n : n = IF crc.fed = << >> THEN 0 ELSE crc.shifted + 1
    OBVIOUS
  <2>2. crc' = [fed |-> crc.fed, shifted |-> n, byte |-> FcsByte(crc.fed, n)]
    BY <1>4, <2>1, Zenon DEF CrcClock, CrcStep
  <2>3. QED
    BY <1>4, <2>1, <2>2
<1>5. QED
  BY <1>1, <1>2, <1>3, <1>4

\* When the FSM resets and feeds the CRC after an edge.
LEMMA CrcPacedAfter ==
    ASSUME FsmTyped, Paced, FsmClock, pf1.tag \in Descriptor, RmiiTyped, Serial,
           NEW len \in 1 .. MEM - 1, Within(len), CrcPaced(len),
           f.state # "IDLE", Handed(len)' = IF f.mii_cnt = 0 THEN Handed(len) + 1 ELSE Handed(len)
    PROVE  CrcPaced(len)'
<1> USE TxLinkAssumption
<1>1. /\ f.cnt \in Nat /\ f.mii_cnt \in 0 .. 3 /\ f.frlen \in 0 .. MEM - 1
  BY FsmRanges DEF Within
<1>2. /\ f.state # "IDLE" => f'.mii_cnt = NextMii
      /\ f.state \notin {"IDLE", "TXDATA"} /\ f.mii_cnt # 0 => Goes(f.state, f.cnt)
      /\ f.state = "TXPREAMBLE" /\ f.mii_cnt = 0 =>
           IF f.cnt = 5 THEN Goes("TXSFD_D5", 5) ELSE Goes("TXPREAMBLE", f.cnt + 1)
      /\ f.state = "TXSFD_D5" /\ f.mii_cnt = 0 => Goes("TXDATA", 0)
      /\ f.state = "TXDATA" /\ f.mii_cnt = 0 => Goes("TXDATA", IF f.cnt < 3 THEN f.cnt + 1 ELSE 0)
      /\ f.state = "TXDATA" /\ f.mii_cnt # 0 /\ f.frlen # 0 => Goes("TXDATA", f.cnt)
      /\ f.state = "TXDATA" /\ f.mii_cnt # 0 /\ f.frlen = 0 => Goes("TXFCS", 0)
      /\ f.state = "TXFCS" /\ f.mii_cnt = 0 =>
           IF f.cnt = 3 THEN Goes("IGAP", IGAP_LEN - 1) ELSE Goes("TXFCS", f.cnt + 1)
      /\ f.state = "IGAP" /\ f.mii_cnt = 0 =>
           IF f.cnt = 0 THEN Goes("IDLE", 0) ELSE Goes("IGAP", f.cnt - 1)
  BY Went
<1>3. ~ f'.crc_init
  BY InSomeState, PreambleMoves, SfdMoves, DataMoves, FcsMoves, GapMoves DEF NoCrc
<1>4. CASE f.state = "TXPREAMBLE"
  <2>1. ~ f'.crc_calc
    BY <1>4, PreambleMoves DEF NoCrc
  <2>2. QED
    BY <1>1, <1>2, <1>3, <1>4, <2>1 DEF CrcPaced, First, Goes, NextMii, Paced
<1>5. CASE f.state = "TXSFD_D5"
  <2>1. ~ f'.crc_calc
    BY <1>5, SfdMoves DEF NoCrc
  <2>2. Handed(len)' = IF f.mii_cnt = 0 THEN 7 ELSE 6
    BY <1>5 DEF Handed
  <2>3. QED
    BY <1>1, <1>2, <1>3, <1>5, <2>1, <2>2 DEF CrcPaced, First, Goes, NextMii
<1>6. CASE f.state = "TXDATA"
  <2>1. /\ f.mii_strobe => f'.crc_calc
        /\ ~ f.mii_strobe /\ f.frlen = 0 => ~ f'.crc_calc
    BY <1>6, DataMoves
  <2>2. /\ f.mii_strobe <=> f.mii_cnt = 0
        /\ f.frlen = 0 => f.mii_cnt = 1
        /\ f.frlen <= len /\ f.cnt \in 0 .. 3
    BY <1>6 DEF Paced, Within, Reading
  <2>3. Handed(len) >= 7 /\ Handed(len) \in Int
    BY <1>1, <1>6, <2>2 DEF Handed
  <2>4. f.mii_cnt = 0 => Handed(len)' > 7
    BY <2>3
  <2>5. QED
    BY <1>1, <1>2, <1>3, <1>6, <2>1, <2>2, <2>4 DEF CrcPaced, First, Goes, NextMii
<1>7. CASE f.state = "TXFCS"
  <2>1. ~ f'.crc_calc
    BY <1>7, FcsMoves DEF NoCrc
  <2>2. QED
    BY <1>1, <1>2, <1>3, <1>7, <2>1 DEF CrcPaced, First, Goes, NextMii
<1>8. CASE f.state = "IGAP"
  <2>1. ~ f'.crc_calc
    BY <1>8, GapMoves DEF NoCrc
  <2>2. QED
    BY <1>1, <1>2, <1>3, <1>8, <2>1 DEF CrcPaced, First, Goes, NextMii
<1>9. QED
  BY <1>4, <1>5, <1>6, <1>7, <1>8, InSomeState

\* Which prefix is empty.
LEMMA PrefixEmpty ==
    ASSUME NEW frame
    PROVE  /\ Prefix(frame, 0) = << >>
           /\ \A n \in Nat : n > 0 => Prefix(frame, n) # << >>
<1>1. Prefix(frame, 0) = << >>
  <2>1. Prefix(frame, 0) = [i \in 1 .. 0 |-> DataByte(<<frame.id, (i - 1) \div 4>>, (i - 1) % 4)]
    BY DEF Prefix
  <2>2. 1 .. 0 = {} /\ DOMAIN << >> = {}
    OBVIOUS
  <2>3. QED
    BY <2>1, <2>2
<1>2. ASSUME NEW n \in Nat, n > 0 PROVE Prefix(frame, n) # << >>
  <2>1. 1 \in DOMAIN Prefix(frame, n)
    BY <1>2 DEF Prefix
  <2>2. DOMAIN << >> = {}
    OBVIOUS
  <2>3. QED
    BY <2>1, <2>2
<1>3. QED
  BY <1>1, <1>2

\* The data byte in t_dt is the next one for the CRC.
LEMMA NextForCrc ==
    ASSUME NEW frame \in Frame, NEW h \in Nat, 7 < h, h < 8 + 4 * frame.len,
           f.t_dt = WireByte(frame, h)
    PROVE  Append(Prefix(frame, h - 8), f.t_dt) = Prefix(frame, h - 7)
<1>1. PICK len \in 1 .. MEM - 1 : len = frame.len
  BY DEF Frame
<1>2. PICK n \in Nat : n = h - 8
  OBVIOUS
<1>3. n + 1 \in 1 .. 4 * len /\ h - 7 = n + 1
  BY <1>1, <1>2, TxLinkAssumption
<1>4. WireByte(frame, h) = DataOf(frame)[n + 1]
  <2>1. ~ (h < 7) /\ h # 7
    OBVIOUS
  <2>2. QED
    BY <1>3, <2>1 DEF WireByte
<1>5. DataOf(frame)[n + 1] = DataByte(<<frame.id, ((n + 1) - 1) \div 4>>, ((n + 1) - 1) % 4)
  BY <1>1, <1>3 DEF DataOf
<1>6. (n + 1) - 1 = n
  BY <1>2
<1>7. f.t_dt = DataByte(<<frame.id, n \div 4>>, n % 4)
  BY <1>4, <1>5, <1>6
<1>8. Append(Prefix(frame, n), f.t_dt) = Prefix(frame, n + 1)
  BY <1>7, PrefixGrows
<1>9. QED
  BY <1>2, <1>3, <1>8

\* What the CRC holds after an edge.
LEMMA CoversAfter ==
    ASSUME FsmTyped, Paced, FsmClock, pf1.tag \in Descriptor, CrcClock,
           NEW frame \in Frame, Within(frame.len), CrcPaced(frame.len),
           Covers(frame), Places(frame), f.state # "IDLE",
           Handed(frame.len)' = IF f.mii_cnt = 0 THEN Handed(frame.len) + 1 ELSE Handed(frame.len)
    PROVE  Covers(frame)'
<1> USE TxLinkAssumption
<1>1. PICK len \in 1 .. MEM - 1 : len = frame.len
  BY DEF Frame
<1>2. /\ f.cnt \in Nat /\ f.mii_cnt \in 0 .. 3 /\ f.frlen \in 0 .. MEM - 1
      /\ f.crc_init \in BOOLEAN /\ f.crc_calc \in BOOLEAN /\ f.t_str_dt \in BOOLEAN
  BY FsmRanges DEF Within
<1>3. /\ f.state # "IDLE" => f'.mii_cnt = NextMii
      /\ f.state \notin {"IDLE", "TXDATA"} /\ f.mii_cnt # 0 => Goes(f.state, f.cnt)
      /\ f.state = "TXPREAMBLE" /\ f.mii_cnt = 0 =>
           IF f.cnt = 5 THEN Goes("TXSFD_D5", 5) ELSE Goes("TXPREAMBLE", f.cnt + 1)
      /\ f.state = "TXSFD_D5" /\ f.mii_cnt = 0 => Goes("TXDATA", 0)
      /\ f.state = "TXDATA" /\ f.mii_cnt = 0 => Goes("TXDATA", IF f.cnt < 3 THEN f.cnt + 1 ELSE 0)
      /\ f.state = "TXDATA" /\ f.mii_cnt # 0 /\ f.frlen # 0 => Goes("TXDATA", f.cnt)
      /\ f.state = "TXDATA" /\ f.mii_cnt # 0 /\ f.frlen = 0 => Goes("TXFCS", 0)
      /\ f.state = "TXFCS" /\ f.mii_cnt = 0 =>
           IF f.cnt = 3 THEN Goes("IGAP", IGAP_LEN - 1) ELSE Goes("TXFCS", f.cnt + 1)
      /\ f.state = "IGAP" /\ f.mii_cnt = 0 =>
           IF f.cnt = 0 THEN Goes("IDLE", 0) ELSE Goes("IGAP", f.cnt - 1)
  BY Went
<1>4. /\ f.crc_init => crc'.fed = << >>
      /\ ~ f.crc_init /\ ~ f.t_str_dt => crc' = crc
      /\ ~ f.crc_init /\ f.t_str_dt /\ f.crc_calc =>
           /\ crc'.fed = Append(crc.fed, f.t_dt) /\ crc'.shifted = 0
           /\ crc'.byte = FcsByte(crc'.fed, crc'.shifted)
      /\ ~ f.crc_init /\ f.t_str_dt /\ ~ f.crc_calc =>
           /\ crc'.fed = crc.fed
           /\ crc.fed # << >> => crc'.shifted = crc.shifted + 1
           /\ crc'.byte = FcsByte(crc'.fed, crc'.shifted)
  BY <1>2, CrcIs
<1>5. CASE f.state = "TXPREAMBLE"
  <2>1. ~ f.crc_calc /\ Sending /\ (f.crc_init <=> First)
    BY <1>5 DEF CrcPaced, Sending, Reading
  <2>2. Fed(len) = 0
    BY <1>5 DEF Fed
  <2>3. Fed(len)' = 0 /\ f'.state # "TXFCS"
    BY <1>2, <1>3, <1>5 DEF Fed, Goes
  <2>4. crc'.fed = Prefix(frame, 0)
    <3>1. CASE First
      BY <1>4, <2>1, <3>1, PrefixEmpty
    <3>2. CASE ~ First
      <4>1. crc.fed = Prefix(frame, 0)
        BY <1>1, <2>1, <2>2, <3>2 DEF Covers
      <4>2. QED
        BY <1>2, <1>4, <2>1, <3>2, <4>1
    <3>3. QED
      BY <3>1, <3>2
  <2>5. QED
    BY <1>1, <2>3, <2>4 DEF Covers
<1>6. CASE f.state = "TXSFD_D5"
  <2>1. ~ f.crc_calc /\ Sending /\ ~ First /\ ~ f.crc_init
    BY <1>6 DEF CrcPaced, Sending, Reading, First
  <2>2. Fed(len) = 0 /\ Handed(len) = 6
    BY <1>6 DEF Fed, Handed
  <2>3. Fed(len)' = 0 /\ f'.state # "TXFCS"
    <3>1. CASE f.mii_cnt = 0
      <4>1. f'.state = "TXDATA" /\ f'.mii_cnt = 1
        BY <1>3, <1>6, <3>1 DEF Goes, NextMii
      <4>2. Handed(len)' = 7
        BY <1>1, <2>2, <3>1
      <4>3. QED
        BY <4>1, <4>2 DEF Fed
    <3>2. CASE f.mii_cnt # 0
      BY <1>3, <1>6, <3>2 DEF Goes, Fed
    <3>3. QED
      BY <3>1, <3>2
  <2>4. crc.fed = Prefix(frame, 0)
    BY <1>1, <2>1, <2>2 DEF Covers
  <2>5. crc'.fed = Prefix(frame, 0)
    BY <1>2, <1>4, <2>1, <2>4
  <2>6. QED
    BY <1>1, <2>3, <2>5 DEF Covers
<1>7. CASE f.state = "TXDATA"
  <2>1. Sending /\ ~ First /\ ~ f.crc_init
    BY <1>7 DEF CrcPaced, Sending, Reading, First
  <2>2. /\ f.t_str_dt <=> f.mii_cnt = 1
        /\ f.frlen = 0 => f.cnt = 0 /\ f.mii_cnt = 1
        /\ f.frlen <= len /\ f.cnt \in 0 .. 3
    BY <1>1, <1>7, <2>1 DEF Paced, Within, Reading, LastByte
  <2>3. PICK h \in Nat : /\ h = Handed(len) /\ h = 7 + 4 * (len - f.frlen) + f.cnt
                         /\ 7 <= h /\ h < 8 + 4 * len
                         /\ (f.frlen = 0 => h = 7 + 4 * len)
    BY <1>2, <1>7, <2>2 DEF Handed
  <2>4. Handed(len)' = IF f.mii_cnt = 0 THEN h + 1 ELSE h
    BY <1>1, <2>3
  <2>5. crc.fed = Prefix(frame, IF f.mii_cnt = 1 /\ h > 7 THEN h - 8 ELSE h - 7)
    BY <1>1, <1>7, <2>1, <2>3 DEF Covers, Fed
  <2>6. f.t_dt = WireByte(frame, h)
    BY <1>1, <2>1, <2>3 DEF Places
  <2>7. f.mii_cnt = 1 => (f.crc_calc <=> h > 7)
    BY <1>1, <1>7, <2>3 DEF CrcPaced
  <2>8. CASE f.mii_cnt = 1 /\ h > 7
    <3>1. crc'.fed = Append(Prefix(frame, h - 8), f.t_dt) /\ crc'.shifted = 0
          /\ crc'.byte = FcsByte(crc'.fed, crc'.shifted)
      BY <1>4, <2>1, <2>2, <2>5, <2>7, <2>8
    <3>2. Append(Prefix(frame, h - 8), f.t_dt) = Prefix(frame, h - 7)
      BY <1>1, <2>3, <2>6, <2>8, NextForCrc
    <3>3. f'.mii_cnt = 2
      BY <1>3, <1>7, <2>8 DEF NextMii
    <3>4. Fed(len)' = h - 7 /\ (f'.state = "TXFCS" => f'.cnt = 0)
      BY <1>1, <1>2, <1>3, <1>7, <2>3, <2>4, <2>8, <3>3 DEF Goes, Fed
    <3>5. QED
      BY <1>1, <3>1, <3>2, <3>3, <3>4 DEF Covers
  <2>9. CASE f.mii_cnt = 1 /\ h = 7
    <3>1. f.frlen # 0
      BY <2>3, <2>9, <1>1
    <3>2. f'.state = "TXDATA" /\ f'.mii_cnt = 2
      BY <1>3, <1>7, <2>9, <3>1 DEF Goes, NextMii
    <3>3. crc'.fed = Prefix(frame, 0)
      BY <1>4, <2>1, <2>2, <2>5, <2>7, <2>9
    <3>4. Fed(len)' = 0
      BY <2>4, <2>9, <3>2 DEF Fed
    <3>5. QED
      BY <1>1, <3>2, <3>3, <3>4 DEF Covers
  <2>10. CASE f.mii_cnt # 1
    <3>1. f.frlen # 0
      BY <2>2, <2>10
    <3>2. f'.state = "TXDATA" /\ (f'.mii_cnt = 1 <=> f.mii_cnt = 0)
      BY <1>2, <1>3, <1>7, <2>10, <3>1 DEF Goes, NextMii
    <3>3. crc' = crc
      BY <1>4, <2>1, <2>2, <2>10
    <3>4. Fed(len)' = h - 7
      BY <2>3, <2>4, <3>2 DEF Fed
    <3>5. QED
      BY <1>1, <2>5, <2>10, <3>2, <3>3, <3>4 DEF Covers
  <2>11. QED
    BY <2>3, <2>8, <2>9, <2>10
<1>8. CASE f.state = "TXFCS"
  <2>1. Sending /\ ~ First /\ ~ f.crc_init /\ ~ f.crc_calc
    BY <1>8 DEF CrcPaced, Sending, Reading, First
  <2>2. /\ f.t_str_dt <=> f.mii_cnt = 1
        /\ f.cnt = 0 => f.mii_cnt # 1
    BY <1>8, <2>1 DEF Paced, LastByte
  <2>3. crc.fed = Prefix(frame, 4 * len) /\ crc.fed # << >>
    <3>1. crc.fed = Prefix(frame, 4 * len)
      BY <1>1, <1>8, <2>1 DEF Covers, Fed
    <3>2. 4 * len \in Nat /\ 4 * len > 0
      OBVIOUS
    <3>3. QED
      BY <3>1, <3>2, PrefixEmpty
  <2>4. crc'.fed = Prefix(frame, 4 * len)
    BY <1>2, <1>4, <2>1, <2>3
  <2>5. f'.state = "TXFCS" => /\ crc'.shifted = (IF f'.mii_cnt = 1 THEN f'.cnt - 1 ELSE f'.cnt)
                              /\ crc'.byte = FcsByte(crc'.fed, crc'.shifted)
    <3>1. /\ crc.shifted = IF f.mii_cnt = 1 THEN f.cnt - 1 ELSE f.cnt
          /\ crc.byte = FcsByte(crc.fed, crc.shifted)
      BY <1>8 DEF Covers
    <3>2. CASE f.mii_cnt = 1
      <4>1. /\ crc'.shifted = crc.shifted + 1
            /\ crc'.byte = FcsByte(crc'.fed, crc'.shifted)
        BY <1>4, <2>1, <2>2, <2>3, <3>2
      <4>2. f'.cnt = f.cnt /\ f'.mii_cnt = 2
        BY <1>3, <1>8, <3>2 DEF Goes, NextMii
      <4>3. QED
        BY <1>2, <3>1, <3>2, <4>1, <4>2
    <3>3. CASE f.mii_cnt # 1
      <4>1. crc' = crc
        BY <1>4, <2>1, <2>2, <3>3
      <4>2. f'.state = "TXFCS" => f.cnt = IF f'.mii_cnt = 1 THEN f'.cnt - 1 ELSE f'.cnt
        BY <1>2, <1>3, <1>8, <3>3 DEF Goes, NextMii
      <4>3. QED
        BY <3>1, <3>3, <4>1, <4>2
    <3>4. QED
      BY <3>2, <3>3
  <2>6. Fed(len)' = 4 * len \/ ~ Sending'
    BY <1>2, <1>3, <1>8 DEF Goes, Fed, Sending, Reading
  <2>7. QED
    BY <1>1, <2>4, <2>5, <2>6 DEF Covers
<1>9. CASE f.state = "IGAP"
  <2>1. f'.state = "IGAP" \/ f'.state = "IDLE"
    BY <1>3, <1>9 DEF Goes
  <2>2. QED
    BY <2>1 DEF Covers, Sending, Reading
<1>10. QED
  BY <1>5, <1>6, <1>7, <1>8, <1>9, InSomeState

----------------------------------------------------------------------------
(* Every byte goes where it belongs                                         *)

\* The word the FSM has read is the one it is about to send.
Reads(frame) ==
    f.state = "TXDATA" /\ f.mii_cnt = 0 => ram2.rdt = <<frame.id, frame.len - f.frlen>>

\* The byte in t_dt after an edge.
LEMMA ByteAfter ==
    ASSUME FsmTyped, Paced, FsmClock, pf1.tag \in Descriptor,
           NEW frame \in Frame, Within(frame.len), Covers(frame), Places(frame), Reads(frame),
           f.state # "IDLE", Sending' \/ LastByte',
           Handed(frame.len)' = IF f.mii_cnt = 0 THEN Handed(frame.len) + 1 ELSE Handed(frame.len)
    PROVE  f'.t_dt = WireByte(frame, Handed(frame.len)')
<1> USE TxLinkAssumption
<1>1. PICK len \in 1 .. MEM - 1 : len = frame.len
  BY DEF Frame
<1>2. /\ f.cnt \in Nat /\ f.mii_cnt \in 0 .. 3 /\ f.frlen \in 0 .. MEM - 1
      /\ f.mii_strobe <=> f.mii_cnt = 0
  BY FsmRanges DEF Within, Paced
<1>3. Handed(len)' = IF f.mii_cnt = 0 THEN Handed(len) + 1 ELSE Handed(len)
  BY <1>1
<1>4. SUFFICES f'.t_dt = WireByte(frame, Handed(len)')
  BY <1>1
<1>5. CASE f.state = "IGAP"
  <2>1. /\ Silent /\ f.cnt \in 0 .. IGAP_LEN - 1
        /\ ~ f.mii_strobe => Goes(f.state, f.cnt)
        /\ f.mii_strobe => Goes("IDLE", f.cnt) \/ Goes(f.state, f.cnt - 1)
    BY <1>5, GapMoves DEF Paced
  <2>2. LastByte /\ f.mii_cnt # 0
    BY <1>2, <1>5, <2>1 DEF Goes, Sending, Reading, LastByte
  <2>3. f.t_dt = WireByte(frame, Handed(len))
    BY <1>1, <2>2 DEF Places
  <2>4. QED
    BY <1>3, <2>1, <2>2, <2>3 DEF Silent
<1>6. CASE f.state # "IGAP" /\ f.mii_cnt # 0
  <2>1. Silent
    BY <1>2, <1>6, InSomeState, PreambleMoves, SfdMoves, DataMoves, FcsMoves
  <2>2. f.t_dt = WireByte(frame, Handed(len))
    BY <1>1, <1>6, InSomeState DEF Places, Sending, Reading
  <2>3. QED
    BY <1>3, <1>6, <2>1, <2>2 DEF Silent
<1>7. CASE f.mii_cnt = 0 /\ f.state = "TXPREAMBLE"
  <2>1. f'.t_dt = Preamble /\ f.cnt \in 0 .. 5
    BY <1>2, <1>7, PreambleMoves DEF Hands, Paced
  <2>2. PICK n \in Nat : n = Handed(len)' /\ n < 7
    BY <1>3, <1>7, <2>1 DEF Handed
  <2>3. QED
    BY <2>1, <2>2, WireByteIs
<1>8. CASE f.mii_cnt = 0 /\ f.state = "TXSFD_D5"
  <2>1. f'.t_dt = Sfd
    BY <1>2, <1>8, SfdMoves DEF Hands
  <2>2. Handed(len)' = 7
    BY <1>3, <1>8 DEF Handed
  <2>3. QED
    BY <2>1, <2>2, WireByteIs
<1>9. CASE f.mii_cnt = 0 /\ f.state = "TXDATA"
  <2>1. /\ f.frlen = 0 => f.mii_cnt = 1
        /\ f.frlen <= len /\ f.cnt \in 0 .. 3
    BY <1>1, <1>9 DEF Paced, Within, Reading
  <2>2. PICK j \in 0 .. frame.len - 1 : j = len - f.frlen
    BY <1>1, <1>2, <1>9, <2>1
  <2>3. ram2.rdt = <<frame.id, j>>
    BY <1>1, <1>9, <2>2 DEF Reads
  <2>4. f'.t_dt = DataByte(<<frame.id, j>>, f.cnt)
    BY <1>2, <1>9, <2>3, DataMoves DEF Hands
  <2>5. PICK n \in Nat : n = Handed(len)' /\ n = 8 + 4 * j + f.cnt
    BY <1>1, <1>2, <1>3, <1>9, <2>1, <2>2 DEF Handed
  <2>6. WireByte(frame, n) = DataByte(<<frame.id, j>>, f.cnt)
    BY <2>1, <2>5, WireByteIs
  <2>7. QED
    BY <2>4, <2>5, <2>6
<1>10. CASE f.mii_cnt = 0 /\ f.state = "TXFCS"
  <2>1. crc.fed = DataOf(frame) /\ crc.shifted = f.cnt /\ crc.byte = FcsByte(crc.fed, crc.shifted)
    <3>1. Sending /\ ~ First
      BY <1>10 DEF Sending, First
    <3>2. crc.fed = Prefix(frame, 4 * frame.len)
      BY <1>10, <3>1 DEF Covers, Fed
    <3>3. Prefix(frame, 4 * frame.len) = DataOf(frame)
      BY DEF Prefix, DataOf
    <3>4. QED
      BY <1>10, <3>2, <3>3 DEF Covers
  <2>2. f'.t_dt = FcsByte(DataOf(frame), f.cnt)
    BY <1>2, <1>10, <2>1, FcsMoves DEF Hands
  <2>3. PICK n \in Nat : n = Handed(len)' /\ n = 8 + 4 * frame.len + f.cnt
    BY <1>1, <1>2, <1>3, <1>10 DEF Handed
  <2>4. WireByte(frame, n) = FcsByte(DataOf(frame), f.cnt)
    BY <1>2, <2>3, WireByteIs
  <2>5. QED
    BY <2>2, <2>3, <2>4
<1>11. QED
  BY <1>5, <1>6, <1>7, <1>8, <1>9, <1>10, InSomeState

\* The serialiser and the count of the dibits after an edge.
LEMMA PlacesAfter ==
    ASSUME FsmTyped, Paced, FsmClock, pf1.tag \in Descriptor, RmiiTyped, Serial, RmiiClock, Phy,
           NEW frame \in Frame, Within(frame.len), Covers(frame), Places(frame), Reads(frame),
           f.state # "IDLE", OnWire
    PROVE  Places(frame)'
<1> USE TxLinkAssumption
<1>1. PICK len \in 1 .. MEM - 1 : len = frame.len
  BY DEF Frame
<1>2. /\ f.cnt \in Nat /\ f.mii_cnt \in 0 .. 3 /\ f.t_dv \in BOOLEAN /\ f.t_str_dt \in BOOLEAN
  BY FsmRanges
<1>3. PICK h \in 0 .. 12 + 4 * len :
        h = Handed(len) /\ Handed(len)' = IF f.mii_cnt = 0 THEN h + 1 ELSE h
  BY <1>1, HandedAfter
<1>4. f'.mii_cnt = NextMii
  BY Went
<1>5. Sending' \/ LastByte' => f'.t_dt = WireByte(frame, Handed(len)')
  BY <1>1, <1>3, ByteAfter
<1>6. s'.en => /\ pos' = 4 * Handed(len)' + Phase'
               /\ s'.byte = WireByte(frame, IF f'.mii_cnt = 1 THEN Handed(len)' - 1 ELSE Handed(len)')
  <2>1. SUFFICES ASSUME s'.en
                 PROVE  /\ pos' = 4 * Handed(len)' + Phase'
                        /\ s'.byte = WireByte(frame, IF f'.mii_cnt = 1 THEN Handed(len)' - 1
                                                     ELSE Handed(len)')
    OBVIOUS
  <2>2. /\ f.t_str_dt /\ (s.en \/ f.t_dv) => s'.byte = f.t_dt
        /\ ~ s.en /\ ~ (f.t_str_dt /\ f.t_dv) => ~ s'.en
        /\ s.en /\ ~ f.t_str_dt =>
             /\ s'.byte = s.byte
             /\ s'.dv = IF s.dv > 0 THEN s.dv - 1 ELSE 0
             /\ s'.en <=> f.t_dv \/ s'.dv # 0
    BY <1>2, RmiiIs
  <2>3. s.en \in BOOLEAN
    BY DEF RmiiTyped
  <2>4. pos' = IF ~ s.en THEN 0 ELSE IF pos < MAX_DIBITS THEN pos + 1 ELSE pos
    BY DEF Phy
  <2>5. /\ f.t_str_dt <=> (Sending \/ LastByte) /\ f.mii_cnt = 1
        /\ f.t_dv <=> Sending \/ (LastByte /\ f.mii_cnt = 1)
    BY DEF Paced
  <2>6. CASE ~ s.en
    <3>1. First /\ f.mii_cnt = 1 /\ f.t_str_dt /\ f.t_dv /\ h = 0
      <4>1. Sending
        BY <2>6 DEF OnWire
      <4>2. First
        BY <2>6, <4>1 DEF Serial
      <4>3. QED
        BY <1>3, <2>5, <4>1, <4>2 DEF First, Handed
    <3>2. f.t_dt = WireByte(frame, h)
      BY <1>1, <1>3, <3>1 DEF Places, First, Sending, Reading
    <3>3. f'.mii_cnt = 2
      BY <1>4, <3>1 DEF NextMii
    <3>4. QED
      BY <1>3, <2>2, <2>4, <2>6, <3>1, <3>2, <3>3 DEF Phase
  <2>7. CASE s.en /\ f.mii_cnt = 1
    <3>1. Sending \/ LastByte
      <4>1. SUFFICES ASSUME ~ (Sending \/ LastByte) PROVE FALSE
        OBVIOUS
      <4>2. s.dv = 1 /\ ~ f.t_str_dt /\ ~ f.t_dv
        BY <2>5, <2>7, <4>1 DEF Serial
      <4>3. QED
        BY <2>1, <2>2, <2>7, <4>2
    <3>2. f.t_str_dt /\ f.t_dt = WireByte(frame, h)
      BY <1>1, <1>3, <2>5, <2>7, <3>1 DEF Places
    <3>3. pos = 4 * h - 1
      BY <1>1, <1>3, <2>7 DEF Places, Phase
    <3>4. pos < MAX_DIBITS
      BY <1>3, <3>3 DEF MAX_DIBITS
    <3>5. f'.mii_cnt = 2
      BY <1>4, <2>7 DEF NextMii
    <3>6. QED
      BY <1>3, <2>2, <2>4, <2>7, <3>2, <3>3, <3>4, <3>5 DEF Phase
  <2>8. CASE s.en /\ f.mii_cnt # 1
    <3>1. pos = 4 * h + Phase /\ s.byte = WireByte(frame, h)
      BY <1>1, <1>3, <2>8 DEF Places
    <3>2. ~ f.t_str_dt
      BY <2>5, <2>8
    <3>3. h <= 11 + 4 * len
      <4>1. CASE f.state = "IGAP"
        <5>1. f.cnt = IGAP_LEN - 1
          BY <2>8, <4>1 DEF Serial, Sending, Reading, LastByte
        <5>2. QED
          BY <1>3, <4>1, <5>1 DEF Handed
      <4>2. CASE f.state = "TXDATA"
        BY <1>1, <1>2, <1>3, <4>2 DEF Handed, Paced, Within
      <4>3. CASE f.state \in {"TXPREAMBLE", "TXSFD_D5", "TXFCS"}
        BY <1>2, <1>3, <4>3 DEF Handed, Paced
      <4>4. QED
        BY <4>1, <4>2, <4>3, InSomeState
    <3>4. pos < MAX_DIBITS /\ pos \in Int
      BY <1>2, <1>3, <2>8, <3>1, <3>3 DEF MAX_DIBITS, Phase
    <3>5. s'.byte = WireByte(frame, h) /\ pos' = pos + 1
      <4>1. s'.byte = s.byte
        BY <2>2, <2>8, <3>2, Zenon
      <4>2. pos' = pos + 1
        BY <2>4, <2>8, <3>4, Zenon
      <4>3. QED
        BY <3>1, <4>1, <4>2
    <3>6. CASE f.mii_cnt = 0
      <4>1. f'.mii_cnt = 1 /\ Handed(len)' = h + 1 /\ pos = 4 * h + 2
        BY <1>3, <1>4, <3>1, <3>6 DEF NextMii, Phase
      <4>2. Handed(len)' - 1 = h
        BY <1>3, <4>1
      <4>3. QED
        BY <1>3, <3>5, <4>1, <4>2 DEF Phase
    <3>7. CASE f.mii_cnt \in {2, 3}
      <4>1. f'.mii_cnt # 1 /\ Phase' = Phase + 1 /\ Handed(len)' = h /\ Phase \in Int
        BY <1>3, <1>4, <3>7 DEF NextMii, Phase
      <4>2. QED
        BY <1>3, <3>1, <3>5, <4>1
    <3>8. QED
      BY <1>2, <2>8, <3>6, <3>7
  <2>9. QED
    BY <2>3, <2>6, <2>7, <2>8
<1>7. QED
  BY <1>1, <1>5, <1>6 DEF Places

----------------------------------------------------------------------------
(* The frame on the wire                                                    *)

\* Where the frame on the wire stands: its bytes, its CRC and the pace of its CRC.
Placed ==
    OnWire => Places(toSend[1]) /\ Covers(toSend[1]) /\ CrcPaced(toSend[1].len)

\* When the serialiser falls silent, and when a frame begins.
LEMMA WireAfter ==
    ASSUME FsmTyped, Paced, FsmClock, pf1.tag \in Descriptor, RmiiTyped, Serial, RmiiClock
    PROVE  /\ s.en /\ ~ s'.en => /\ f.mii_cnt = 1
                                 /\ f.state # "IDLE" => ~ OnWire'
                                 /\ \/ f.state = "IGAP" /\ f.cnt = IGAP_LEN - 2
                                    \/ f.state = "IDLE"
           /\ (~ OnWire \/ f.state = "IDLE") /\ OnWire' =>
                f.state = "IDLE" /\ ~ pf1.empty /\ ~ s'.en
<1>1. /\ f.cnt \in Nat /\ f.mii_cnt \in 0 .. 3 /\ f.t_dv \in BOOLEAN /\ f.t_str_dt \in BOOLEAN
  BY FsmRanges
<1>2. /\ f.t_str_dt /\ (s.en \/ f.t_dv) => s'.en
      /\ ~ s.en /\ ~ (f.t_str_dt /\ f.t_dv) => ~ s'.en
      /\ s.en /\ ~ f.t_str_dt => /\ s'.dv = IF s.dv > 0 THEN s.dv - 1 ELSE 0
                                 /\ s'.en <=> f.t_dv \/ s'.dv # 0
  BY <1>1, RmiiIs
<1>3. /\ f.t_str_dt <=> (Sending \/ LastByte) /\ f.mii_cnt = 1
      /\ f.t_dv <=> Sending \/ (LastByte /\ f.mii_cnt = 1)
      /\ f.state = "IGAP" => f.cnt \in 0 .. IGAP_LEN - 1
  BY DEF Paced
<1>4. /\ s.en \in BOOLEAN /\ s'.en \in BOOLEAN
      /\ s.en => s.dv = 4 - (IF f.mii_cnt = 1 THEN 3 ELSE Phase)
      /\ s.en /\ f.state = "IDLE" => f.mii_cnt = 1
      /\ s.en /\ ~ Sending /\ ~ LastByte =>
           \/ f.state = "IGAP" /\ f.cnt = IGAP_LEN - 2 /\ f.mii_cnt = 1
           \/ f.state = "IDLE"
      /\ LastByte \/ (Sending /\ ~ First) => s.en
  BY <1>1, RmiiIs DEF Serial, RmiiTyped
<1>5. f.state \notin {"IDLE", "TXDATA"} /\ f.mii_cnt # 0 => Goes(f.state, f.cnt)
  BY Went
<1>6. ASSUME s.en, ~ s'.en
      PROVE  /\ ~ Sending /\ ~ LastByte /\ f.mii_cnt = 1
             /\ \/ f.state = "IGAP" /\ f.cnt = IGAP_LEN - 2
                \/ f.state = "IDLE"
  <2>1. ~ f.t_str_dt /\ ~ f.t_dv /\ s'.dv = 0
    BY <1>1, <1>2, <1>6
  <2>2. ~ Sending
    BY <1>3, <2>1
  <2>3. s.dv <= 1
    BY <1>1, <1>2, <1>4, <1>6, <2>1 DEF Phase
  <2>4. f.mii_cnt = 1
    BY <1>1, <1>4, <1>6, <2>3 DEF Phase
  <2>5. ~ LastByte
    BY <1>3, <2>1, <2>4
  <2>6. QED
    BY <1>4, <1>6, <2>2, <2>4, <2>5
<1>7. ASSUME s.en, ~ s'.en, f.state = "IGAP"
      PROVE  ~ OnWire'
  <2>1. f'.state = "IGAP"
    BY <1>5, <1>6, <1>7 DEF Goes
  <2>2. QED
    BY <1>7, <2>1 DEF OnWire, Sending, Reading
<1>8. ASSUME ~ OnWire \/ f.state = "IDLE", OnWire'
      PROVE  f.state = "IDLE" /\ ~ pf1.empty /\ ~ s'.en
  <2>1. ~ Sending /\ ~ LastByte
    BY <1>4, <1>8 DEF OnWire, Sending, Reading, LastByte
  <2>2. ~ s'.en
    <3>1. ~ f.t_str_dt /\ ~ f.t_dv
      BY <1>3, <2>1
    <3>2. CASE ~ s.en
      BY <1>2, <3>1, <3>2
    <3>3. CASE s.en
      <4>1. f.mii_cnt = 1 /\ s.dv = 1
        BY <1>4, <1>8, <3>3 DEF OnWire
      <4>2. QED
        BY <1>2, <3>1, <3>3, <4>1
    <3>4. QED
      BY <1>4, <3>2, <3>3
  <2>3. Sending'
    BY <1>8, <2>2 DEF OnWire
  <2>4. f.state = "IDLE" \/ f.state = "IGAP"
    BY <2>1, InSomeState DEF Sending, Reading
  <2>5. f.state # "IGAP"
    <3>1. f.state = "IGAP" => f'.state = "IGAP" \/ f'.state = "IDLE"
      BY <1>1, Went DEF Goes
    <3>2. QED
      BY <2>3, <3>1 DEF Sending, Reading
  <2>6. ~ pf1.empty
    <3>1. f.state = "IDLE" /\ pf1.empty => f'.state = "IDLE"
      BY Went DEF Goes
    <3>2. QED
      BY <2>3, <2>4, <2>5, <3>1 DEF Sending, Reading
  <2>7. QED
    BY <2>2, <2>4, <2>5, <2>6
<1>9. QED
  BY <1>6, <1>7, <1>8

\* The frame on the wire after an action.
LEMMA PlacedAfter ==
    ASSUME Sound, Following, Fetched, Placed, Tick
    PROVE  Placed'
<1> USE TxLinkAssumption DEF Sound, Kept
<1>1. FsmTyped /\ Paced /\ pf1.tag \in Descriptor /\ Running
  BY DEF Crossed, PfTyped
<1>2. SUFFICES ASSUME OnWire'
               PROVE  (Places(toSend[1]) /\ Covers(toSend[1]) /\ CrcPaced(toSend[1].len))'
  BY DEF Placed
<1>3. CASE ClkTick
  <2>1. UNCHANGED <<f, s, crc, pos>>
    BY <1>3, ClkTickIs DEF Crossed
  <2>2. OnWire
    BY <1>2, <2>1 DEF OnWire, Sending, Reading
  <2>3. PICK frame : frame = toSend[1] /\ frame = toSend'[1]
    <3>1. Fell = 0
      BY <1>3, LeadAfter
    <3>2. QED
      BY <2>2, <3>1, SentAfter
  <2>4. Places(frame) /\ Covers(frame) /\ CrcPaced(frame.len)
    BY <2>2, <2>3 DEF Placed
  <2>5. Places(frame)'
    BY <2>1, <2>4 DEF Places, Handed, Phase, Sending, Reading, LastByte
  <2>6. Covers(frame)'
    BY <2>1, <2>4 DEF Covers, Fed, Handed, First, Sending, Reading
  <2>7. CrcPaced(frame.len)'
    BY <2>1, <2>4 DEF CrcPaced, Handed, First
  <2>8. QED
    BY <2>3, <2>5, <2>6, <2>7
<1>4. CASE RefTick \/ BothTick
  <2>1. FsmClock /\ RmiiClock /\ Phy /\ CrcClock
    BY <1>1, <1>4, RefSideIs DEF CrcClock
  <2>2. CASE ~ OnWire \/ f.state = "IDLE"
    <3>1. f.state = "IDLE" /\ ~ pf1.empty /\ ~ s'.en
      BY <1>1, <1>2, <2>1, <2>2, WireAfter
    <3>2. /\ f'.state = "TXPREAMBLE" /\ f'.cnt = 0 /\ f'.mii_cnt = 1
          /\ f'.t_dt = Preamble /\ f'.crc_init /\ ~ f'.crc_calc
      BY <2>1, <3>1, FirstStarts
    <3>3. PICK frame : frame = toSend'[1]
      OBVIOUS
    <3>4. Handed(frame.len)' = 0 /\ First'
      BY <3>2 DEF Handed, First
    <3>5. WireByte(frame, 0) = Preamble
      BY DEF WireByte
    <3>6. Places(frame)'
      BY <3>1, <3>2, <3>4, <3>5 DEF Places
    <3>7. Covers(frame)' /\ CrcPaced(frame.len)'
      BY <3>2, <3>4 DEF Covers, CrcPaced
    <3>8. QED
      BY <3>3, <3>6, <3>7
  <2>3. CASE OnWire /\ f.state # "IDLE"
    <3>1. Fell = 0
      <4>1. ~ (s.en /\ ~ s'.en)
        BY <1>1, <1>2, <2>1, <2>3, WireAfter
      <4>2. QED
        BY <4>1 DEF Fell
    <3>2. PICK frame \in Frame : frame = toSend[1] /\ frame = toSend'[1]
      BY <2>3, <3>1, SentAfter
    <3>3. frame.len \in 1 .. MEM - 1
      BY DEF Frame
    <3>4. Within(frame.len)
      <4>1. f.frlen \in 0 .. MEM - 1
        BY <1>1, FsmRanges DEF Addr
      <4>2. Reading => frame.len = LiveDesc(1).len
        BY <3>2, FirstStays
      <4>3. QED
        BY <4>1, <4>2 DEF Within, Following
    <3>5. Reads(frame)
      <4>1. f.state = "TXDATA" => frame.len = LiveDesc(1).len
        BY <3>2, FirstStays DEF Reading
      <4>2. QED
        BY <3>2, <4>1 DEF Reads, Fetched
    <3>6. Places(frame) /\ Covers(frame) /\ CrcPaced(frame.len)
      BY <2>3, <3>2 DEF Placed
    <3>7. Handed(frame.len)' = IF f.mii_cnt = 0 THEN Handed(frame.len) + 1 ELSE Handed(frame.len)
      BY <1>1, <2>1, <2>3, <3>3, <3>4, HandedAfter
    <3>8. Places(frame)'
      BY <1>1, <2>1, <2>3, <3>4, <3>5, <3>6, PlacesAfter
    <3>9. Covers(frame)'
      BY <1>1, <2>1, <2>3, <3>4, <3>6, <3>7, CoversAfter
    <3>10. CrcPaced(frame.len)'
      <4>1. PICK len \in 1 .. MEM - 1 : len = frame.len
        BY <3>3
      <4>2. Handed(len)' = IF f.mii_cnt = 0 THEN Handed(len) + 1 ELSE Handed(len)
        BY <3>7, <4>1
      <4>3. CrcPaced(len)'
        BY <1>1, <2>1, <2>3, <3>4, <3>6, <4>1, <4>2, CrcPacedAfter
      <4>4. QED
        BY <4>1, <4>3
    <3>11. QED
      BY <3>2, <3>8, <3>9, <3>10
  <2>4. QED
    BY <2>2, <2>3
<1>5. QED
  BY <1>3, <1>4 DEF Tick

----------------------------------------------------------------------------
(* The inductive invariant of the link                                      *)

\* What the edges keep while the reset input is off, and the whole without any reset.
Carried == Sound /\ Following /\ Fetched /\ Placed
NoReset == rst = FALSE /\ rmii_rst_1 = FALSE /\ rmii_rst = FALSE
Inv == NoReset /\ Quiet /\ Carried

\* What holds of the registers whatever a reset does to them.
Typed ==
    /\ FsmTyped /\ RmiiTyped /\ PfTyped /\ CrossTyped
    /\ q \in Pf!Registers
    /\ client \in ClientRegs({client.wdt})
    /\ DOMAIN memory = Addr /\ ram1.addr \in Addr /\ ram1.wstrobe \in BOOLEAN

\* Nothing is on its way anywhere: the state the board starts in and the one a reset leaves.
Still ==
    /\ Running
    /\ f.state = "IDLE" /\ f.cnt = 0 /\ f.mii_cnt = 0 /\ ~ f.mii_strobe
    /\ ~ f.fr_done /\ ~ f.t_dv /\ ~ f.t_str_dt
    /\ s = RmiiReset /\ pf1.empty
    /\ ~ deq.strobe_latch /\ ~ deq.strobe_tmp1 /\ ~ rf.strobe_latch /\ ~ rf.strobe_tmp1
    /\ client = Idle /\ q = Pf!ResetOn(q.memory) /\ ~ ram1.wstrobe
    /\ toSend = << >>

\* Then there is nothing to carry.
LEMMA NothingCarried == Typed /\ Still => Carried
<1> SUFFICES ASSUME Typed, Still PROVE Carried
  OBVIOUS
<1> USE TxLinkAssumption, LinkAssumption
<1>1. s = RmiiReset /\ client = Idle /\ toSend = << >>
  BY DEF Still
<1>2. /\ f.state = "IDLE" /\ f.cnt = 0 /\ f.mii_cnt = 0
      /\ ~ f.fr_done /\ ~ f.mii_strobe /\ ~ f.t_dv /\ ~ f.t_str_dt
  BY DEF Still
<1>3. ~ Reading /\ ~ Sending /\ ~ Ending /\ ~ LastByte /\ ~ First
  BY <1>2 DEF Reading, Sending, Ending, LastByte, First
<1>4. FsmTyped /\ RmiiTyped /\ PfTyped /\ CrossTyped
  BY DEF Typed
<1>5. Paced
  BY <1>2, <1>3 DEF Paced
<1>6. ~ s.en /\ s.shifts = 0 /\ s.dv = 0
  BY <1>1 DEF RmiiReset
<1>7. Serial
  BY <1>2, <1>3, <1>6 DEF Serial
<1>8. ~ OnWire
  BY <1>3, <1>6 DEF OnWire
<1>9. ~ OnItsWay(deq) /\ ~ OnItsWay(rf)
  BY DEF Still, OnItsWay, OnWay, Taking
<1>10. pf1.empty
  BY DEF Still
<1>11. Crossed
  <2>1. Running
    BY DEF Still
  <2>2. Handshakes
    BY DEF Still, Handshakes, Handshake, Crossing
  <2>3. QED
    BY <1>4, <1>5, <2>1, <2>2 DEF Crossed
<1>12. /\ client.state = "idle" /\ ~ client.pf_enq /\ ~ client.wstrobe /\ client.used = 0
       /\ client.base = 0
  BY <1>1 DEF Idle
<1>13. ClientTyped
  BY <1>12 DEF ClientTyped, Typed
<1>14. PfConsistent /\ q.fifo_level = 0
  <2>1. PICK memory0 : q = Pf!ResetOn(memory0)
    BY DEF Still
  <2>2. Pf!LevelIsDistance /\ Pf!HeadShown /\ q.fifo_level = 0
    BY <2>1 DEF Pf!ResetOn, Pf!LevelIsDistance, Pf!HeadShown
  <2>3. QED
    BY <2>2 DEF PfConsistent, Typed
<1>15. Queued /\ Shown
  BY <1>2, <1>3, <1>9, <1>10, <1>12, <1>14 DEF Queued, Shown
<1>16. Live = 0 /\ Lead = 0
  BY <1>8, <1>9, <1>12, <1>14 DEF Live, Lead, Count, Read
<1>17. Kept
  <2>1. Sized
    BY <1>1, <1>16, EmptySeq DEF Sized
  <2>2. Matched /\ Chained /\ Whole
    BY <1>16 DEF Matched, Chained, Whole
  <2>3. Roomy
    BY <1>9, <1>12, <1>16 DEF Roomy, Held, Writing, ToRelease
  <2>4. Written
    BY <1>12 DEF Written, Typed, Still
  <2>5. QED
    BY <2>1, <2>2, <2>3, <2>4 DEF Kept
<1>18. Following /\ Fetched /\ Placed
  BY <1>2, <1>3, <1>8 DEF Following, Fetched, Placed
<1>19. QED
  BY <1>4, <1>7, <1>11, <1>13, <1>15, <1>17, <1>18 DEF Carried, Sound

\* Everything is empty and still when the board starts.
LEMMA InitStill == Init => Typed /\ Still
<1> SUFFICES ASSUME Init PROVE Typed /\ Still
  OBVIOUS
<1> USE TxLinkAssumption, LinkAssumption
<1>1. f = FsmReset /\ s = RmiiReset /\ client = Idle /\ toSend = << >>
  BY DEF Init
<1>2. FsmTyped
  BY <1>1 DEF FsmTyped, FsmRegs, FsmReset, FsmStates, Addr
<1>3. RmiiTyped
  BY <1>1 DEF RmiiTyped, RmiiReset
<1>4. NoDescriptor \in Descriptor
  BY DEF NoDescriptor, Descriptor, Addr
<1>5. PfTyped /\ pf1.empty
  BY <1>4 DEF Init, PfTyped
<1>6. CrossTyped
  BY <1>4 DEF Init, CrossTyped, TransportRegs, Deq!PowerUp, Rf!PowerUp
<1>7. /\ ~ deq.strobe_latch /\ ~ deq.strobe_tmp1 /\ ~ rf.strobe_latch /\ ~ rf.strobe_tmp1
  BY DEF Init, Deq!PowerUp, Rf!PowerUp
<1>8. q \in Pf!Registers /\ q = Pf!ResetOn(q.memory)
  <2>1. PICK memory0 \in [Pf!Slots -> Descriptor] : q = Pf!ResetOn(memory0)
    BY <1>4 DEF Init
  <2>2. q \in Pf!Registers /\ q.memory = memory0
    BY <1>4, <2>1 DEF Pf!ResetOn, Pf!Registers, Pf!Slots
  <2>3. QED
    BY <2>1, <2>2
<1>9. client \in ClientRegs({client.wdt})
  BY <1>1, <1>4 DEF ClientRegs, Idle, Addr
<1>10. DOMAIN memory = Addr /\ ram1.addr \in Addr /\ ram1.wstrobe = FALSE
  BY DEF Init, Addr
<1>11. Typed
  BY <1>2, <1>3, <1>5, <1>6, <1>8, <1>9, <1>10 DEF Typed
<1>12. /\ f.state = "IDLE" /\ f.cnt = 0 /\ f.mii_cnt = 0 /\ ~ f.mii_strobe
       /\ ~ f.fr_done /\ ~ f.t_dv /\ ~ f.t_str_dt
  BY <1>1 DEF FsmReset
<1>13. Running
  BY DEF Init, Running
<1>14. QED
  BY <1>1, <1>5, <1>7, <1>8, <1>10, <1>11, <1>12, <1>13 DEF Still

\* So the invariant holds at the start.
LEMMA InitOK == Init => Inv
<1> SUFFICES ASSUME Init PROVE Inv
  OBVIOUS
<1>1. Carried
  BY InitStill, NothingCarried
<1>2. f.state = "IDLE" /\ low = 4 * IGAP_LEN /\ NoReset
  BY DEF Init, FsmReset, NoReset
<1>3. Quiet
  BY <1>2, TxLinkAssumption DEF Quiet
<1>4. QED
  BY <1>1, <1>2, <1>3 DEF Inv

\* The edges of clk leave the FSM and the serialiser alone.
LEMMA RefStill ==
    ASSUME UNCHANGED <<f, s>>
    PROVE  /\ FsmTyped => FsmTyped'
           /\ Paced => Paced'
           /\ RmiiTyped => RmiiTyped'
           /\ Serial => Serial'
<1>1. FsmTyped => FsmTyped'
  BY DEF FsmTyped, FsmRegs
<1>2. Paced => Paced'
  BY DEF Paced, Sending, Reading, LastByte
<1>3. RmiiTyped => RmiiTyped'
  BY DEF RmiiTyped
<1>4. Serial => Serial'
  BY DEF Serial, Sending, Reading, First, LastByte, Phase
<1>5. QED
  BY <1>1, <1>2, <1>3, <1>4

\* Every edge keeps what is carried.
LEMMA TickOK == Carried /\ Tick => Carried'
<1> SUFFICES ASSUME Carried, Tick PROVE Carried'
  OBVIOUS
<1> USE DEF Sound, Kept
<1>1. Sound /\ Following /\ Fetched /\ Placed /\ pf1.tag \in Descriptor
  BY DEF Carried, Crossed, PfTyped
<1>2. FsmTyped' /\ Paced' /\ RmiiTyped' /\ Serial'
  <2>1. CASE ClkTick
    <3>1. UNCHANGED <<f, s>>
      BY <1>1, <2>1, ClkTickIs DEF Crossed
    <3>2. QED
      BY <1>1, <3>1, RefStill DEF Crossed
  <2>2. CASE RefTick \/ BothTick
    <3>1. FsmClock /\ RmiiClock /\ Phy
      BY <1>1, <2>2, RefSideIs DEF Crossed
    <3>2. QED
      BY <1>1, <3>1, PacedAfter, SerialAfter DEF Crossed
  <2>3. QED
    BY <2>1, <2>2 DEF Tick
<1>3. Crossed'
  <2>1. CrossTyped' /\ Running' /\ Handshakes'
    BY <1>1, CrossingsAfter DEF Crossed, CrossAfter, Handshakes
  <2>2. PfTyped'
    BY <1>1, ShownAfter
  <2>3. QED
    BY <1>2, <2>1, <2>2 DEF Crossed
<1>4. Queued' /\ ClientTyped' /\ Shown'
  BY <1>1, QueuedAfter, ShownAfter
<1>5. Sized' /\ Matched' /\ Chained' /\ Roomy'
  BY <1>1, SentAfter, FramesAfter
<1>6. Written' /\ Whole'
  BY <1>1, WrittenAfter, WholeAfter
<1>7. Following' /\ Fetched' /\ Placed'
  BY <1>1, FollowingAfter, FetchedAfter, PlacedAfter
<1>8. QED
  BY <1>2, <1>3, <1>4, <1>5, <1>6, <1>7 DEF Carried

\* Without a reset an edge of the clocks is one of the steps above.
LEMMA NextIsTick ==
    ASSUME NoReset, Next
    PROVE  Tick /\ NoReset' /\ (RefEdge => RefTick) /\ (BothEdges => BothTick) /\ ~ Parked
<1>1. NoReset'
  BY DEF NoReset, Next, RefEdge, ClkEdge, BothEdges, RefSide, refRegs
<1>2. QED
  BY <1>1 DEF NoReset, Next, Tick, RefTick, ClkTick, BothTick, Parked

\* Every edge keeps the invariant.
LEMMA NextOK == Inv /\ Next => Inv'
<1> SUFFICES ASSUME Inv, Next PROVE Inv'
  OBVIOUS
<1>1. NoReset /\ Quiet /\ Carried
  BY DEF Inv
<1>2. Tick /\ NoReset' /\ (RefEdge => RefTick) /\ (BothEdges => BothTick)
  BY <1>1, NextIsTick
<1>3. Carried'
  BY <1>1, <1>2, TickOK
<1>4. Quiet'
  <2>1. CASE ClkEdge
    <3>1. f' = f /\ s' = s /\ low' = low
      BY <2>1 DEF ClkEdge, refRegs
    <3>2. QED
      BY <1>1, <3>1 DEF Quiet, Phase
  <2>2. CASE RefEdge \/ BothEdges
    <3>1. FsmClock /\ RmiiClock /\ Phy
      BY <1>1, <1>2, <2>2, RefSideIs DEF Carried, Sound, Crossed
    <3>2. QED
      BY <1>1, <3>1, QuietAfter DEF Carried, Sound, Crossed, PfTyped
  <2>3. QED
    BY <2>1, <2>2 DEF Next
<1>5. QED
  BY <1>2, <1>3, <1>4 DEF Inv

\* What is carried is about these registers only: the rest may move with them still.
LEMMA CarriedStill ==
    ASSUME Carried,
           f' = f, crc' = crc, s' = s, ram2' = ram2, pos' = pos, rst' = rst,
           q' = q, ram1' = ram1, memory' = memory, client' = client,
           deq' = deq, rf' = rf, toSend' = toSend,
           CrossTyped', PfTyped', Handshakes', Shown', f.fr_done => pf1' = pf1
    PROVE  Carried'
<1> USE DEF Sound, Kept
<1>1. Sound /\ Following /\ Fetched /\ Placed
  BY DEF Carried
<1>2. FsmTyped' /\ Paced' /\ RmiiTyped' /\ Serial'
  BY <1>1, RefStill DEF Crossed
<1>3. Reading' = Reading /\ Ending' = Ending /\ Sending' = Sending
  BY <1>1 DEF Reading, Ending, Sending
<1>4. OnItsWay(deq)' = OnItsWay(deq) /\ OnItsWay(rf)' = OnItsWay(rf)
  BY <1>1 DEF OnItsWay, OnWay, Taking
<1>5. Crossed'
  BY <1>1, <1>2 DEF Crossed, Running
<1>6. Count' = Count /\ \A i : Desc(i)' = Desc(i)
  BY <1>1 DEF Count, Desc, Pf!SlotOf
<1>7. PfConsistent'
  BY <1>1 DEF Queued, PfConsistent, Pf!LevelIsDistance, Pf!HeadShown
<1>8. Queued' /\ ClientTyped'
  <2>1. Queued'
    BY <1>1, <1>3, <1>4, <1>7 DEF Queued
  <2>2. ClientTyped'
    BY <1>1 DEF ClientTyped
  <2>3. QED
    BY <2>1, <2>2
<1>9. Live' = Live /\ Lead' = Lead /\ OnWire' = OnWire
  BY <1>1, <1>3, <1>4, <1>6 DEF Live, Read, Lead, OnWire
<1>10. \A k : LiveDesc(k)' = LiveDesc(k) /\ LiveFrame(k)' = LiveFrame(k) /\ Far(k)' = Far(k)
  BY <1>1, <1>4, <1>6, <1>9 DEF LiveDesc, LiveFrame, Far, Gap
<1>11. \A a : Landed(a)' = Landed(a)
  BY <1>1 DEF Landed
<1>12. Sized' /\ Matched' /\ Chained' /\ Roomy'
  <2>1. Sized'
    BY <1>1, <1>9 DEF Sized
  <2>2. Matched'
    BY <1>1, <1>9, <1>10 DEF Matched
  <2>3. Chained'
    BY <1>1, <1>9, <1>10 DEF Chained
  <2>4. Roomy'
    <3>1. Held' = Held /\ Writing' = Writing /\ ToRelease' = ToRelease
      BY <1>1, <1>4, <1>9, <1>10 DEF Held, Writing, ToRelease, OnItsWay
    <3>2. QED
      BY <1>1, <3>1 DEF Roomy
  <2>5. QED
    BY <2>1, <2>2, <2>3, <2>4
<1>13. Written' /\ Whole'
  <2>1. Written'
    BY <1>1, <1>11 DEF Written, Wrap
  <2>2. Whole'
    BY <1>1, <1>9, <1>10, <1>11 DEF Whole, Wrap
  <2>3. QED
    BY <2>1, <2>2
<1>14. Following' /\ Fetched'
  BY <1>1, <1>3, <1>10 DEF Following, Fetched, Wrap
<1>15. Placed'
  <2>1. SUFFICES ASSUME OnWire
                 PROVE  (Places(toSend[1]) /\ Covers(toSend[1]) /\ CrcPaced(toSend[1].len))'
    BY <1>9 DEF Placed
  <2>2. PICK frame : frame = toSend[1] /\ frame = toSend'[1]
    BY <1>1
  <2>3. Places(frame) /\ Covers(frame) /\ CrcPaced(frame.len)
    BY <1>1, <2>1, <2>2 DEF Placed
  <2>4. Handed(frame.len)' = Handed(frame.len)
    BY <1>1 DEF Handed
  <2>5. Places(frame)' /\ Covers(frame)' /\ CrcPaced(frame.len)'
    BY <1>1, <1>3, <2>3, <2>4 DEF Places, Covers, CrcPaced, Fed, First, LastByte, Phase
  <2>6. QED
    BY <2>2, <2>5
<1>16. QED
  BY <1>2, <1>5, <1>8, <1>12, <1>13, <1>14, <1>15 DEF Carried

\* Nothing that is carried is about the time.
LEMMA CarriedStays == Carried /\ UNCHANGED vars => Carried'
<1> SUFFICES ASSUME Carried, UNCHANGED vars PROVE Carried'
  OBVIOUS
<1>1. Sound
  BY DEF Carried
<1>2. /\ f' = f /\ crc' = crc /\ s' = s /\ ram2' = ram2 /\ pf1' = pf1 /\ rst' = rst /\ pos' = pos
      /\ q' = q /\ ram1' = ram1 /\ memory' = memory /\ client' = client
      /\ deq' = deq /\ rf' = rf /\ toSend' = toSend
      /\ aheadRef' = aheadRef /\ aheadClk' = aheadClk
  BY DEF vars, refRegs, clkRegs
<1>3. CrossTyped' /\ PfTyped'
  BY <1>1, <1>2 DEF Sound, Crossed, CrossTyped, PfTyped
<1>4. Ending' = Ending /\ Reading' = Reading /\ Since' = Since /\ Past' = Past
      /\ Count' = Count /\ \A i : Desc(i)' = Desc(i)
  BY <1>2 DEF Reading, Since, Past, Ending, Phase, Count, Desc, Pf!SlotOf
<1>5. OnItsWay(deq)' = OnItsWay(deq) /\ OnItsWay(rf)' = OnItsWay(rf)
  BY <1>2 DEF OnItsWay, OnWay, Taking
<1>6. Handshakes'
  BY <1>1, <1>2, <1>4, <1>5 DEF Sound, Crossed, Handshakes, Handshake, Crossing
<1>7. Shown'
  BY <1>1, <1>2, <1>4, <1>5 DEF Sound, Shown
<1>8. QED
  BY <1>2, <1>3, <1>6, <1>7, CarriedStill

\* Nothing in the invariant is about the time.
LEMMA StillOK == Inv /\ UNCHANGED vars => Inv'
<1> SUFFICES ASSUME Inv, UNCHANGED vars PROVE Inv'
  OBVIOUS
<1>1. Carried'
  BY CarriedStays DEF Inv
<1>2. f' = f /\ s' = s /\ low' = low /\ rst' = rst /\ rmii_rst_1' = rmii_rst_1 /\ rmii_rst' = rmii_rst
  BY DEF vars, refRegs
<1>3. NoReset' /\ Quiet'
  BY <1>2 DEF Inv, NoReset, Quiet, Phase
<1>4. QED
  BY <1>1, <1>3 DEF Inv

\* Every step keeps the whole invariant.
LEMMA StepOK == Inv /\ [Next]_vars => Inv'
BY NextOK, StillOK

\* The invariant holds for ever.
THEOREM LinkConsistent == Spec => []Inv
BY InitOK, StepOK, PTL DEF Spec

\* No strobe is lost on its way, nothing leaves its range.
LEMMA InvNoStrobeLost == Inv => NoStrobeLost
<1> SUFFICES ASSUME Inv PROVE NoStrobeLost
  OBVIOUS
<1> USE TxLinkAssumption, LinkAssumption DEF Inv, Carried, Sound, Kept, Crossed
<1>1. /\ f.state \in FsmStates /\ f.cnt \in Nat /\ f.mii_cnt \in 0 .. 3
      /\ f.rptr \in Addr /\ f.frlen \in Addr
  BY FsmRanges
<1>2. f.cnt \in 0 .. 15
  BY <1>1, InSomeState DEF Paced
<1>3. deq \in Deq!Registers /\ rf \in Rf!Registers
  BY DEF CrossTyped, TransportRegs, Deq!Registers, Rf!Registers
<1>4. client.used \in 0 .. MEM
  <2>1. Live \in Nat
    <3>1. OnItsWay(deq) => q.fifo_level > 0
      BY DEF Queued
    <3>2. QED
      BY <3>1, PfRanges DEF Live, Read, Count, Queued
  <2>2. Held \in Nat
    <3>1. CASE Live = 0
      BY <3>1 DEF Held
    <3>2. CASE Live # 0
      <4>1. 1 \in 1 .. Live
        BY <2>1, <3>2
      <4>2. LiveDesc(1).ptr \in Addr /\ client.base \in Addr
        BY <4>1, ClientRanges DEF Matched, Descriptor
      <4>3. Far(1) \in 1 .. MEM
        BY <4>2, GapRange DEF Far
      <4>4. QED
        BY <3>2, <4>3 DEF Held
    <3>3. QED
      BY <3>1, <3>2
  <2>3. Writing \in Nat
    BY ClientRanges DEF Writing
  <2>4. ToRelease \in Nat
    <3>1. pf1.tag \in Descriptor /\ rf.dt_latch \in Descriptor
      BY BitsOf DEF PfTyped, CrossTyped
    <3>2. pf1.tag.len \in Nat /\ rf.dt_latch.len \in Nat
      BY <3>1 DEF Descriptor, Addr
    <3>3. QED
      BY <3>2 DEF ToRelease
  <2>5. QED
    BY <2>2, <2>3, <2>4 DEF Roomy
<1>5. Deq!Strobe2(deq) => ~ q.fifo_empty
  <2>1. Deq!Strobe2(deq) <=> Taking(deq)
    BY EdgesAre
  <2>2. Taking(deq) => OnItsWay(deq)
    BY DEF OnItsWay, OnWay
  <2>3. QED
    BY <2>1, <2>2, PfRanges DEF Queued
<1>6. TypeOK
  BY <1>1, <1>2, <1>3, <1>4 DEF TypeOK, Queued, PfConsistent, CrossTyped
<1>7. QED
  BY <1>5, <1>6 DEF NoStrobeLost, Queued

\* The frame on the wire, with its length in step with the FSM.
LEMMA FrameOnWire ==
    ASSUME Carried, OnWire
    PROVE  /\ toSend # << >>
           /\ \E frame \in Frame : /\ frame = Head(toSend) /\ Within(frame.len) /\ Places(frame)
<1> USE TxLinkAssumption, LinkAssumption DEF Carried, Sound, Kept
<1>1. Live \in Nat /\ (Reading => Live > 0)
  <2>1. /\ OnItsWay(deq) \/ Reading => q.fifo_level > 0
        /\ q.fifo_level \in Nat
    BY PfRanges DEF Queued
  <2>2. Reading => ~ OnItsWay(deq)
    BY OnItsWayEnds, BitsOf DEF Crossed, CrossTyped, Handshakes, Reading, Ending
  <2>3. QED
    BY <2>1, <2>2 DEF Live, Read, Count
<1>2. toSend \in Seq(Frame) /\ Len(toSend) > 0
  BY <1>1 DEF Sized, Lead
<1>3. toSend # << >>
  BY <1>2, EmptySeq, LenProperties
<1>4. toSend[1] \in Frame /\ Head(toSend) = toSend[1]
  BY <1>2, <1>3, ElementOfSeq, LenProperties
<1>5. PICK frame \in Frame : frame = Head(toSend) /\ frame = toSend[1]
  BY <1>4
<1>6. Within(frame.len)
  <2>1. f.frlen \in 0 .. MEM - 1
    BY FsmRanges DEF Crossed, Addr
  <2>2. Reading => frame.len = LiveDesc(1).len
    BY <1>1, <1>5 DEF Matched, LiveFrame, Lead
  <2>3. QED
    BY <2>1, <2>2 DEF Within, Following
<1>7. QED
  BY <1>3, <1>5, <1>6 DEF Placed

\* What is on the wire is the place it has in its frame.
LEMMA WireIsCarried ==
    ASSUME Carried
    PROVE  WireCarriesOldestFrame
<1> SUFFICES ASSUME s.en, ~ InReset
             PROVE  /\ toSend # << >>
                    /\ pos < 4 * FrameBytes(Head(toSend))
                    /\ s.byte = WireByte(Head(toSend), pos \div 4)
                    /\ s.shifts = pos % 4
  BY DEF WireCarriesOldestFrame
<1> USE TxLinkAssumption
<1>1. /\ toSend # << >>
      /\ \E frame \in Frame : /\ frame = Head(toSend) /\ Within(frame.len) /\ Places(frame)
  BY FrameOnWire DEF OnWire
<1>2. PICK frame \in Frame : frame = Head(toSend) /\ Within(frame.len) /\ Places(frame)
  BY <1>1
<1>3. PICK len \in 1 .. MEM - 1 : len = frame.len
  BY DEF Frame
<1>4. FsmTyped /\ Paced /\ Serial
  BY DEF Carried, Sound, Crossed
<1>5. f.cnt \in Nat /\ f.mii_cnt \in 0 .. 3 /\ f.frlen \in 0 .. MEM - 1
  BY <1>2, <1>4, FsmRanges DEF Within
<1>6. /\ s.shifts = IF f.mii_cnt = 1 THEN 3 ELSE Phase
      /\ f.state = "IDLE" => f.mii_cnt = 1
      /\ f.state = "IGAP" => \/ f.cnt = IGAP_LEN - 1
                             \/ f.cnt = IGAP_LEN - 2 /\ f.mii_cnt = 1
      /\ ~ First
  BY <1>4 DEF Serial, Sending, Reading, LastByte, First
<1>7. PICK h \in 0 .. 12 + 4 * len :
        /\ h = Handed(len)
        /\ f.mii_cnt = 1 => h > 0
        /\ f.mii_cnt # 1 => h <= 11 + 4 * len
  <2>1. CASE f.state = "TXPREAMBLE"
    BY <1>4, <1>5, <1>6, <2>1 DEF Handed, Paced, First
  <2>2. CASE f.state = "TXSFD_D5"
    BY <2>2 DEF Handed
  <2>3. CASE f.state = "TXDATA"
    <3>1. f.frlen <= len /\ f.cnt \in 0 .. 3 /\ (f.frlen = 0 => f.cnt = 0)
      BY <1>2, <1>3, <1>4, <2>3 DEF Within, Reading, Paced
    <3>2. QED
      BY <1>5, <2>3, <3>1 DEF Handed
  <2>4. CASE f.state = "TXFCS"
    BY <1>4, <1>5, <2>4 DEF Handed, Paced
  <2>5. CASE f.state = "IGAP"
    BY <1>5, <1>6, <2>5 DEF Handed
  <2>6. CASE f.state = "IDLE"
    BY <1>6, <2>6 DEF Handed
  <2>7. QED
    BY <1>4, <2>1, <2>2, <2>3, <2>4, <2>5, <2>6, InSomeState
<1>8. /\ pos = 4 * h + Phase
      /\ s.byte = WireByte(frame, IF f.mii_cnt = 1 THEN h - 1 ELSE h)
  BY <1>2, <1>3, <1>7 DEF Places
<1>9. PICK n \in Nat, c \in 0 .. 3 :
        /\ n = IF f.mii_cnt = 1 THEN h - 1 ELSE h
        /\ c = s.shifts /\ pos = 4 * n + c /\ n < 12 + 4 * len
  BY <1>5, <1>6, <1>7, <1>8 DEF Phase
<1>10. pos \div 4 = n /\ pos % 4 = c
  <2>1. (4 * n + c) \div 4 = n /\ (4 * n + c) % 4 = c
    <3>1. n \in Nat /\ c \in 0 .. 3
      BY <1>9
    <3>2. QED
      BY <3>1
  <2>2. QED
    BY <1>9, <2>1
<1>11. FrameBytes(frame) = 12 + 4 * len
  BY <1>3 DEF FrameBytes
<1>12. pos < 4 * FrameBytes(frame)
  BY <1>9, <1>11
<1>13. s.byte = WireByte(frame, n)
  BY <1>8, <1>9
<1>14. QED
  BY <1>1, <1>2, <1>9, <1>10, <1>12, <1>13

\* The last dibit is the last dibit of the frame.
LEMMA WholeIsCarried ==
    ASSUME Carried, RefTick \/ BothTick, s.en, ~ s'.en
    PROVE  pos + 1 = 4 * FrameBytes(Head(toSend))
<1> USE TxLinkAssumption
<1>1. PICK frame \in Frame : frame = Head(toSend) /\ Within(frame.len) /\ Places(frame)
  BY FrameOnWire DEF OnWire
<1>2. PICK len \in 1 .. MEM - 1 : len = frame.len
  BY DEF Frame
<1>4. /\ FsmTyped /\ Paced /\ pf1.tag \in Descriptor /\ RmiiTyped /\ Serial
      /\ FsmClock /\ RmiiClock
  BY RefSideIs DEF Carried, Sound, Crossed, PfTyped
<1>5. /\ f.mii_cnt = 1
      /\ (f.state = "IGAP" /\ f.cnt = IGAP_LEN - 2) \/ f.state = "IDLE"
  BY <1>4, WireAfter
<1>6. Handed(len) = 12 + 4 * len
  BY <1>5 DEF Handed
<1>7. pos = 4 * Handed(len) - 1
  BY <1>1, <1>2, <1>5, <1>6 DEF Places, Phase
<1>8. QED
  BY <1>1, <1>2, <1>6, <1>7 DEF FrameBytes

\* Without a reset that is so in every step.
LEMMA InvWhole == Inv /\ [Next]_vars => FrameIsWhole
<1> SUFFICES ASSUME Inv, [Next]_vars, s.en, ~ s'.en
             PROVE  pos + 1 = 4 * FrameBytes(Head(toSend))
  BY DEF FrameIsWhole
<1>1. RefEdge \/ BothEdges
  <2>1. ~ UNCHANGED vars /\ ~ ClkEdge
    BY DEF vars, refRegs, ClkEdge
  <2>2. QED
    BY <2>1 DEF Next
<1>2. RefTick \/ BothTick
  BY <1>1 DEF Inv, NoReset, RefTick, BothTick
<1>3. QED
  BY <1>2, WholeIsCarried DEF Inv

\* When the wires wake they have been quiet for the gap.
LEMMA InvGap == Inv /\ [Next]_vars => (~ s.en /\ s'.en => low + 1 >= 4 * (IGAP_LEN - 1) + 1)
<1> SUFFICES ASSUME Inv, [Next]_vars, ~ s.en, s'.en
             PROVE  low + 1 >= 4 * (IGAP_LEN - 1) + 1
  OBVIOUS
<1>1. RefEdge \/ BothEdges
  <2>1. ~ UNCHANGED vars /\ ~ ClkEdge
    BY DEF vars, refRegs, ClkEdge
  <2>2. QED
    BY <2>1 DEF Next
<1>2. /\ FsmTyped /\ Paced /\ pf1.tag \in Descriptor /\ RmiiTyped /\ Serial /\ Quiet
      /\ FsmClock /\ RmiiClock /\ Phy
  <2>1. RefTick \/ BothTick
    BY <1>1 DEF Inv, NoReset, RefTick, BothTick
  <2>2. QED
    BY <2>1, RefSideIs DEF Inv, Carried, Sound, Crossed, PfTyped
<1>3. QED
  BY <1>2, QuietAfter

----------------------------------------------------------------------------
(* Resets.  The two clock domains drain one after the other while the input *)
(* is held: ref_clk two of its edges later, clk at its next edge; what one  *)
(* has already sent across is drained by the other.  When the input is      *)
(* released clk starts first, with ref_clk still at rest.                   *)

\* What has left ref_clk after so many of its edges in reset.
RefDrained ==
    /\ held >= 1 => rmii_rst_1
    /\ held >= 2 => rmii_rst
    /\ held >= 3 =>
         /\ f.state = "IDLE" /\ f.cnt = 0 /\ f.rptr = 0 /\ f.frlen = 0
         /\ ~ f.mii_strobe /\ f.mii_cnt = 0 /\ ~ f.m_rstrobe
         /\ s = RmiiReset /\ crc = CrcReset
         /\ ~ deq.strobe_latch /\ ~ rf.strobe_latch
    /\ held >= 4 =>
         /\ ~ f.fr_done /\ ~ f.crc_calc /\ f.crc_init
         /\ ram2 = [addr |-> 0, rstrobe |-> FALSE, rdt |-> ram2.rdt] /\ pos = 0
    /\ held >= RATIO + 2 => pf1.empty
    /\ held >= RATIO + 3 => ~ f.t_dv /\ ~ f.t_str_dt

\* And clk, which has had an edge in every RATIO of ref_clk.
HeldForClk == held - aheadRef
ClkDrained ==
    /\ HeldForClk >= 1 => client = Idle /\ q = Pf!ResetOn(q.memory)
    /\ HeldForClk >= 4 => ~ deq.strobe_tmp1 /\ ~ rf.strobe_tmp1
    /\ HeldForClk >= RATIO + 1 => ~ ram1.wstrobe
Draining == Typed /\ toSend = << >> /\ RefDrained /\ ClkDrained

\* From the end of a reset to the next edge of ref_clk the client has no time to fill the
\* queue.
Early ==
    /\ q.fifo_level = 0
    /\ client.state # "idle" => client.len \in LENS /\ client.next + 1 <= aheadClk
    /\ client.pf_enq => client.tag.len \in LENS /\ client.tag.len + 2 <= aheadClk

\* The end of a reset is on its way to ref_clk, or has arrived.
Waking ==
    /\ Carried
    /\ IF rmii_rst THEN AtRest /\ (rmii_rst_1 => Early) ELSE ~ rmii_rst_1

ResetInv ==
    /\ rst \in BOOLEAN /\ rmii_rst_1 \in BOOLEAN /\ rmii_rst \in BOOLEAN /\ held \in 0 .. HOLD
    /\ IF rst THEN Draining ELSE Waking

\* The registers have their types whatever is carried.
LEMMA CarriedTyped == Carried => Typed
BY DEF Carried, Sound, Crossed, Kept, Queued, PfConsistent, ClientTyped, Written, Typed

\* The FSM keeps its types without a reset.
LEMMA FsmStaysTyped ==
    ASSUME FsmTyped, FsmClock, pf1.tag \in Descriptor
    PROVE  FsmTyped'
<1>1. f.state \in FsmStates
  BY FsmRanges
<1>2. QED
  BY <1>1, IdleMoves, PreambleMoves, SfdMoves, DataMoves, FcsMoves, GapMoves DEF FsmStates

\* The clk1 side of a transport, in reset or not.
CrossIn(t, done, dt) ==
    IF rmii_rst THEN [t EXCEPT !.strobe_latch = FALSE] ELSE Edge1Of(t, done, dt)
LEMMA InsAre ==
    DeqIn = CrossIn(deq, f.fr_done, 0) /\ RfIn = CrossIn(rf, f.fr_done, pf1.tag)
BY DEF DeqIn, RfIn, CrossIn, Edge1Of, Deq!Edge1, Deq!Latch, Deq!DataLatch,
       Rf!Edge1, Rf!Latch, Rf!DataLatch

\* Its edges, in reset or not: a reset clears the latch, and then the strobe behind it.
LEMMA CrossInIs ==
    ASSUME NEW D, NEW t \in TransportRegs(D), NEW done \in BOOLEAN, NEW dt \in D
    PROVE  \E u \in TransportRegs(D) : /\ u = CrossIn(t, done, dt)
                                       /\ u.strobe_tmp1 = t.strobe_tmp1
                                       /\ rmii_rst => ~ u.strobe_latch
<1>1. CASE rmii_rst
  <2>1. PICK u : u = [t EXCEPT !.strobe_latch = FALSE]
    OBVIOUS
  <2>2. u \in TransportRegs(D) /\ u.strobe_tmp1 = t.strobe_tmp1 /\ ~ u.strobe_latch
    BY <2>1 DEF TransportRegs
  <2>3. u = CrossIn(t, done, dt)
    BY <1>1, <2>1 DEF CrossIn
  <2>4. QED
    BY <2>2, <2>3
<1>2. CASE ~ rmii_rst
  <2>1. PICK u \in TransportRegs(D) : u = Edge1Of(t, done, dt) /\ RefMoves(t, u, done, dt)
    BY Edge1Is
  <2>2. u.strobe_tmp1 = t.strobe_tmp1
    BY <2>1 DEF RefMoves, TransportRegs
  <2>3. u = CrossIn(t, done, dt)
    BY <1>2, <2>1 DEF CrossIn
  <2>4. QED
    BY <1>2, <2>1, <2>2, <2>3
<1>3. QED
  BY <1>1, <1>2

\* The edge of both clocks.
LEMMA CrossBothIs ==
    ASSUME NEW D, NEW t \in TransportRegs(D), NEW done \in BOOLEAN, NEW dt \in D,
           NEW d \in {t, CrossIn(t, done, dt)}
    PROVE  \E u \in TransportRegs(D) :
             /\ u = Edge2Of([CrossIn(t, done, dt) EXCEPT !.strobe_tmp1 = t.strobe_tmp1],
                            d.strobe_latch, d.dt_latch)
             /\ rmii_rst => ~ u.strobe_latch /\ (~ t.strobe_latch => ~ u.strobe_tmp1)
<1>1. PICK e \in TransportRegs(D) : /\ e = CrossIn(t, done, dt) /\ e.strobe_tmp1 = t.strobe_tmp1
                                    /\ rmii_rst => ~ e.strobe_latch
  BY CrossInIs
<1>2. PICK g : g = [e EXCEPT !.strobe_tmp1 = t.strobe_tmp1]
  OBVIOUS
<1>3. g \in TransportRegs(D) /\ g.strobe_latch = e.strobe_latch
  BY <1>2 DEF TransportRegs
<1>4. d = t \/ d = e
  BY <1>1
<1>5. PICK latch \in BOOLEAN, data \in D : latch = d.strobe_latch /\ data = d.dt_latch
  BY <1>4 DEF TransportRegs
<1>6. PICK u \in TransportRegs(D) :
        /\ u = Edge2Of(g, latch, data) /\ u.strobe_latch = g.strobe_latch /\ u.strobe_tmp1 = latch
  BY <1>3, Edge2Is
<1>7. u = Edge2Of([CrossIn(t, done, dt) EXCEPT !.strobe_tmp1 = t.strobe_tmp1],
                  d.strobe_latch, d.dt_latch)
  BY <1>1, <1>2, <1>5, <1>6
<1>8. rmii_rst => ~ u.strobe_latch /\ (~ t.strobe_latch => ~ u.strobe_tmp1)
  BY <1>1, <1>3, <1>4, <1>5, <1>6
<1>9. QED
  BY <1>7, <1>8

\* What each action does to one of the two.
Empties(t) ==
    /\ RefEdge => t'.strobe_tmp1 = t.strobe_tmp1 /\ (rmii_rst => ~ t'.strobe_latch)
    /\ ClkEdge => t'.strobe_latch = t.strobe_latch /\ t'.strobe_tmp1 = t.strobe_latch
    /\ BothEdges /\ rmii_rst => ~ t'.strobe_latch /\ (~ t.strobe_latch => ~ t'.strobe_tmp1)

\* The dequeue.
LEMMA DeqEmpties ==
    ASSUME CrossTyped, f.fr_done \in BOOLEAN, Next
    PROVE  deq' \in TransportRegs({0}) /\ Empties(deq)
<1>1. deq \in TransportRegs({0}) /\ 0 \in {0} /\ aheadRef \in Nat /\ aheadClk \in Nat
  BY LinkAssumption DEF CrossTyped
<1>2. deq.strobe_latch \in BOOLEAN /\ deq.dt_latch \in {0}
  BY <1>1, BitsOf DEF Bits
<1>3. CASE RefEdge
  <2>1. PICK u \in TransportRegs({0}) : /\ u = CrossIn(deq, f.fr_done, 0)
                                        /\ u.strobe_tmp1 = deq.strobe_tmp1
                                        /\ rmii_rst => ~ u.strobe_latch
    BY <1>1, CrossInIs
  <2>2. deq' = u
    BY <1>3, <2>1, InsAre DEF RefEdge
  <2>3. ~ ClkEdge /\ ~ BothEdges
    BY <1>1, <1>3 DEF RefEdge, ClkEdge, BothEdges
  <2>4. QED
    BY <2>1, <2>2, <2>3 DEF Empties
<1>4. CASE ClkEdge
  <2>1. PICK latch \in BOOLEAN, data \in {0} : latch = deq.strobe_latch /\ data = deq.dt_latch
    BY <1>2
  <2>2. PICK u \in TransportRegs({0}) :
          /\ u = Edge2Of(deq, latch, data) /\ u.strobe_latch = deq.strobe_latch
          /\ u.strobe_tmp1 = latch
    BY <1>1, Edge2Is
  <2>3. deq' = u
    BY <1>4, <2>1, <2>2, EdgesAre DEF ClkEdge
  <2>4. ~ RefEdge /\ ~ BothEdges
    BY <1>1, <1>4 DEF RefEdge, ClkEdge, BothEdges
  <2>5. QED
    BY <2>1, <2>2, <2>3, <2>4 DEF Empties
<1>5. CASE BothEdges
  <2>1. PICK d \in {deq, CrossIn(deq, f.fr_done, 0)} :
          deq' = Edge2Of([CrossIn(deq, f.fr_done, 0) EXCEPT !.strobe_tmp1 = deq.strobe_tmp1],
                         d.strobe_latch, d.dt_latch)
    BY <1>5, InsAre, EdgesAre DEF BothEdges
  <2>2. PICK u \in TransportRegs({0}) :
          /\ u = Edge2Of([CrossIn(deq, f.fr_done, 0) EXCEPT !.strobe_tmp1 = deq.strobe_tmp1],
                         d.strobe_latch, d.dt_latch)
          /\ rmii_rst => ~ u.strobe_latch /\ (~ deq.strobe_latch => ~ u.strobe_tmp1)
    BY <1>1, CrossBothIs
  <2>3. ~ RefEdge /\ ~ ClkEdge
    BY <1>1, <1>5 DEF RefEdge, ClkEdge, BothEdges
  <2>4. QED
    BY <2>1, <2>2, <2>3 DEF Empties
<1>6. QED
  BY <1>3, <1>4, <1>5 DEF Next

\* The strobe to the client.
LEMMA RfEmpties ==
    ASSUME CrossTyped, pf1.tag \in Descriptor, f.fr_done \in BOOLEAN, Next
    PROVE  rf' \in TransportRegs(Descriptor) /\ Empties(rf)
<1>1. rf \in TransportRegs(Descriptor) /\ pf1.tag \in Descriptor /\ aheadRef \in Nat /\ aheadClk \in Nat
  BY LinkAssumption DEF CrossTyped
<1>2. rf.strobe_latch \in BOOLEAN /\ rf.dt_latch \in Descriptor
  BY <1>1, BitsOf DEF Bits
<1>3. CASE RefEdge
  <2>1. PICK u \in TransportRegs(Descriptor) :
          /\ u = CrossIn(rf, f.fr_done, pf1.tag)
          /\ u.strobe_tmp1 = rf.strobe_tmp1
          /\ rmii_rst => ~ u.strobe_latch
    BY <1>1, CrossInIs
  <2>2. rf' = u
    BY <1>3, <2>1, InsAre DEF RefEdge
  <2>3. ~ ClkEdge /\ ~ BothEdges
    BY <1>1, <1>3 DEF RefEdge, ClkEdge, BothEdges
  <2>4. QED
    BY <2>1, <2>2, <2>3 DEF Empties
<1>4. CASE ClkEdge
  <2>1. PICK latch \in BOOLEAN, data \in Descriptor : latch = rf.strobe_latch /\ data = rf.dt_latch
    BY <1>2
  <2>2. PICK u \in TransportRegs(Descriptor) :
          /\ u = Edge2Of(rf, latch, data) /\ u.strobe_latch = rf.strobe_latch
          /\ u.strobe_tmp1 = latch
    BY <1>1, Edge2Is
  <2>3. rf' = u
    BY <1>4, <2>1, <2>2, EdgesAre DEF ClkEdge
  <2>4. ~ RefEdge /\ ~ BothEdges
    BY <1>1, <1>4 DEF RefEdge, ClkEdge, BothEdges
  <2>5. QED
    BY <2>1, <2>2, <2>3, <2>4 DEF Empties
<1>5. CASE BothEdges
  <2>1. PICK d \in {rf, CrossIn(rf, f.fr_done, pf1.tag)} :
          rf' = Edge2Of([CrossIn(rf, f.fr_done, pf1.tag) EXCEPT !.strobe_tmp1 = rf.strobe_tmp1],
                         d.strobe_latch, d.dt_latch)
    BY <1>5, InsAre, EdgesAre DEF BothEdges
  <2>2. PICK u \in TransportRegs(Descriptor) :
          /\ u = Edge2Of([CrossIn(rf, f.fr_done, pf1.tag) EXCEPT !.strobe_tmp1 = rf.strobe_tmp1],
                         d.strobe_latch, d.dt_latch)
          /\ rmii_rst => ~ u.strobe_latch /\ (~ rf.strobe_latch => ~ u.strobe_tmp1)
    BY <1>1, CrossBothIs
  <2>3. ~ RefEdge /\ ~ ClkEdge
    BY <1>1, <1>5 DEF RefEdge, ClkEdge, BothEdges
  <2>4. QED
    BY <2>1, <2>2, <2>3 DEF Empties
<1>6. QED
  BY <1>3, <1>4, <1>5 DEF Next

\* Whatever the FSM was doing, an edge of ref_clk in reset goes on emptying its side.
LEMMA RefDrains ==
    ASSUME Typed, RefDrained, ClkDrained, rst = TRUE, rmii_rst_1 \in BOOLEAN,
           rmii_rst \in BOOLEAN, held \in 0 .. HOLD, RefSide, aheadRef < RATIO,
           HeldForClk >= 1 => pf1'.empty,
           rmii_rst => ~ deq'.strobe_latch /\ ~ rf'.strobe_latch
    PROVE  /\ FsmTyped' /\ RmiiTyped' /\ RefDrained'
           /\ rmii_rst_1' = TRUE /\ rmii_rst' \in BOOLEAN /\ held' \in 0 .. HOLD
           /\ \A n \in Nat : held' >= n + 1 => held >= n
<1> USE LinkAssumption
<1>1. /\ FsmTyped /\ RmiiTyped /\ PfTyped /\ aheadRef \in 0 .. RATIO
      /\ pf1.empty \/ pf1.tag \in Descriptor
  BY DEF Typed, CrossTyped, PfTyped
<1>2. rmii_rst_1' = rst /\ rmii_rst' = rmii_rst_1 /\ held' = IF held < HOLD THEN held + 1 ELSE held
  BY DEF RefSide
<1>3. held' \in 0 .. HOLD /\ \A n \in Nat : held' >= n + 1 => held >= n
  BY <1>2
<1>4. CASE rmii_rst
  <2>1. FsmClears /\ s' = RmiiReset /\ crc' = CrcReset
    BY <1>4 DEF RefSide, FsmClears, RmiiStep, CrcStep
  <2>2. /\ FsmTyped'
        /\ f'.state = "IDLE" /\ f'.cnt = 0 /\ f'.rptr = 0 /\ f'.frlen = 0
        /\ ~ f'.mii_strobe /\ f'.mii_cnt = 0 /\ ~ f'.m_rstrobe
        /\ f.state = "IDLE" => /\ ~ f'.fr_done /\ ~ f'.crc_calc /\ f'.crc_init
                               /\ pf1.empty => ~ f'.t_dv /\ ~ f'.t_str_dt /\ f'.t_dt = f.t_dt
    BY <1>1, <2>1, ResetStep
  <2>3. RmiiTyped'
    BY <2>1 DEF RmiiTyped, RmiiReset
  <2>4. held >= 3 => /\ f.state = "IDLE" /\ f.rptr = 0 /\ f.m_rstrobe = FALSE /\ ~ s.en
    BY <1>1, FsmRanges DEF RefDrained, RmiiReset
  <2>5. held >= 3 => ram2' = [addr |-> 0, rstrobe |-> FALSE, rdt |-> ram2'.rdt] /\ pos' = 0
    BY <2>4 DEF RefSide, ReadPort, Phy
  <2>6. /\ held' >= 2 => held >= 1
        /\ held' >= 4 => held >= 3
        /\ held' >= RATIO + 2 => HeldForClk >= 1
        /\ held' >= RATIO + 3 => held >= 3 /\ held >= RATIO + 2
    BY <1>1, <1>2 DEF HeldForClk
  <2>7. held' >= 1 => rmii_rst_1'
    BY <1>2
  <2>8. held' >= 2 => rmii_rst'
    BY <1>2, <2>6 DEF RefDrained
  <2>9. held' >= RATIO + 3 => ~ f'.t_dv /\ ~ f'.t_str_dt
    BY <2>2, <2>4, <2>6 DEF RefDrained
  <2>10. ~ deq'.strobe_latch /\ ~ rf'.strobe_latch
    BY <1>4
  <2>11. RefDrained'
    BY <2>1, <2>2, <2>4, <2>5, <2>6, <2>7, <2>8, <2>9, <2>10 DEF RefDrained
  <2>12. QED
    BY <1>2, <1>3, <2>2, <2>3, <2>11
<1>5. CASE ~ rmii_rst
  <2>1. rmii_rst = FALSE /\ held < 2
    BY <1>5 DEF RefDrained
  <2>2. FsmClock /\ RmiiClock
    BY <2>1 DEF RefSide, FsmClock, RmiiClock
  <2>3. FsmTyped' /\ RmiiTyped'
    <3>1. f.t_dv \in BOOLEAN /\ (pf1.tag \in Descriptor)
      BY <1>1, FsmRanges DEF PfTyped
    <3>2. QED
      BY <1>1, <2>2, <3>1, FsmStaysTyped, RmiiIs
  <2>4. held' < 3 /\ held' < RATIO + 2 /\ (held' >= 2 => held >= 1)
    BY <1>2, <2>1
  <2>5. /\ ~ held' >= 3 /\ ~ held' >= 4 /\ ~ held' >= RATIO + 2 /\ ~ held' >= RATIO + 3
    BY <1>3, <2>4
  <2>6. RefDrained'
    BY <1>2, <2>4, <2>5 DEF RefDrained
  <2>7. QED
    BY <1>2, <1>3, <2>3, <2>6
<1>6. QED
  BY <1>4, <1>5

\* An edge of clk in reset stops the client and empties the FIFO.
LEMMA ClkDrains ==
    ASSUME Typed, rst = TRUE, ClkSide
    PROVE  /\ client' = Idle /\ client' \in ClientRegs({client'.wdt})
           /\ q' \in Pf!Registers /\ q' = Pf!ResetOn(q'.memory)
           /\ DOMAIN memory' = Addr /\ ram1'.addr \in Addr /\ ram1'.wstrobe \in BOOLEAN
           /\ client = Idle => ~ ram1'.wstrobe
<1> USE TxLinkAssumption, LinkAssumption
<1>1. /\ q \in Pf!Registers /\ client \in ClientRegs({client.wdt}) /\ DOMAIN memory = Addr
      /\ ram1.addr \in Addr
  BY DEF Typed
<1>2. client' = Idle
  BY DEF ClkSide
<1>3. NoDescriptor \in Descriptor
  BY DEF NoDescriptor, Descriptor, Addr
<1>4. client' \in ClientRegs({client'.wdt})
  BY <1>2, <1>3 DEF ClientRegs, Idle, Addr
<1>5. /\ q' = Pf!ResetOn(q'.memory) /\ q' \in Pf!Registers
  <2>1. PICK v : v = Pf!Transfer(q, client.pf_enq, client.tag, Deq!Strobe2(deq))
    OBVIOUS
  <2>2. v.memory \in [Pf!Slots -> Descriptor]
    <3>1. client.tag \in Descriptor
      BY <1>1 DEF ClientRegs
    <3>2. q.memory \in [Pf!Slots -> Descriptor]
      BY <1>1 DEF Pf!Registers
    <3>3. [q.memory EXCEPT ![q.wptr] = client.tag] \in [Pf!Slots -> Descriptor]
      BY <3>1, <3>2
    <3>4. v.memory = IF Pf!Stored(q, client.pf_enq) THEN [q.memory EXCEPT ![q.wptr] = client.tag]
                     ELSE q.memory
      BY <2>1 DEF Pf!Transfer
    <3>5. QED
      BY <3>2, <3>3, <3>4
  <2>3. PICK memory0 \in [Pf!Slots -> Descriptor] : q' = Pf!ResetOn(memory0)
    BY <2>1, <2>2 DEF ClkSide, Pf!FifoStep
  <2>4. q'.memory = memory0 /\ q' \in Pf!Registers
    BY <1>3, <2>3 DEF Pf!ResetOn, Pf!Registers, Pf!Slots
  <2>5. QED
    BY <2>3, <2>4
<1>6. DOMAIN memory' = Addr
  BY <1>1 DEF ClkSide, WritePort
<1>7. ram1'.addr = client.addr /\ ram1'.wstrobe = client.wstrobe
  BY DEF ClkSide, WritePort
<1>8. client.addr \in Addr /\ client.wstrobe \in BOOLEAN
  BY <1>1 DEF ClientRegs
<1>9. client = Idle => ~ client.wstrobe
  BY DEF Idle
<1>10. QED
  BY <1>2, <1>4, <1>5, <1>6, <1>7, <1>8, <1>9

\* The edges of clk in the reset follow those of ref_clk.
LEMMA HeldCounts ==
    \A a, b, n, r \in Nat : b <= a + 1 =>
        /\ \A k \in Nat : b - (n + 1) >= k => a - n >= k
        /\ n < r => (b >= r + 1 => a - n >= 1)
        /\ b >= 4 => a >= 3 /\ a >= 2
OBVIOUS

\* In reset every edge goes on emptying the link.
LEMMA DrainingAfter ==
    ASSUME Draining, Next, rst = TRUE, rmii_rst_1 \in BOOLEAN, rmii_rst \in BOOLEAN,
           held \in 0 .. HOLD
    PROVE  /\ Draining' /\ rst' = TRUE
           /\ rmii_rst_1' \in BOOLEAN /\ rmii_rst' \in BOOLEAN /\ held' \in 0 .. HOLD
<1> USE LinkAssumption
<1>1. /\ Typed /\ RefDrained /\ ClkDrained /\ toSend = << >>
      /\ CrossTyped /\ PfTyped /\ aheadRef \in 0 .. RATIO /\ aheadClk \in 0 .. RATIO
  BY DEF Draining, Typed, CrossTyped
<1>2. pf1.tag \in Descriptor /\ f.fr_done \in BOOLEAN
  BY <1>1, FsmRanges DEF PfTyped, Typed
<1>3. /\ deq' \in TransportRegs({0}) /\ Empties(deq)
      /\ rf' \in TransportRegs(Descriptor) /\ Empties(rf)
  BY <1>1, <1>2, DeqEmpties, RfEmpties
<1>4. /\ q.fifo_empty \in BOOLEAN /\ q.deq_data \in Descriptor
      /\ HeldForClk >= 1 => q.fifo_empty
  BY <1>1 DEF Typed, Pf!Registers, ClkDrained, Pf!ResetOn
<1>5. held >= 3 => ~ deq.strobe_latch /\ ~ rf.strobe_latch
  BY <1>1 DEF RefDrained
<1>6. CASE RefEdge
  <2>1. /\ RefSide /\ aheadRef < RATIO /\ aheadRef' = aheadRef + 1 /\ aheadClk' = 0 /\ rst' = rst
        /\ q' = q /\ ram1' = ram1 /\ memory' = memory /\ client' = client
        /\ pf1' = [empty |-> q.fifo_empty, tag |-> q.deq_data] /\ toSend' = LeftAfterPhy
    BY <1>6 DEF RefEdge, clkRegs, PfAcross
  <2>2. /\ deq'.strobe_tmp1 = deq.strobe_tmp1 /\ rf'.strobe_tmp1 = rf.strobe_tmp1
        /\ rmii_rst => ~ deq'.strobe_latch /\ ~ rf'.strobe_latch
    BY <1>3, <1>6 DEF Empties
  <2>3. PfTyped' /\ pf1'.empty = q.fifo_empty
    BY <1>4, <2>1 DEF PfTyped
  <2>4. /\ FsmTyped' /\ RmiiTyped' /\ RefDrained'
        /\ rmii_rst_1' = TRUE /\ rmii_rst' \in BOOLEAN /\ held' \in 0 .. HOLD
        /\ \A n \in Nat : held' >= n + 1 => held >= n
    BY <1>1, <1>4, <2>1, <2>2, <2>3, RefDrains
  <2>5. CrossTyped'
    BY <1>1, <1>3, <2>1 DEF CrossTyped
  <2>6. Typed'
    BY <1>1, <2>1, <2>3, <2>4, <2>5 DEF Typed
  <2>7. held' <= held + 1
    BY <2>1 DEF RefSide
  <2>8. /\ HeldForClk' >= 1 => HeldForClk >= 1
        /\ HeldForClk' >= 4 => HeldForClk >= 4
        /\ HeldForClk' >= RATIO + 1 => HeldForClk >= RATIO + 1
    <3>1. HeldForClk' = held' - (aheadRef + 1) /\ HeldForClk = held - aheadRef
      BY <2>1 DEF HeldForClk
    <3>2. held \in Nat /\ held' \in Nat /\ aheadRef \in Nat /\ RATIO \in Nat
      BY <1>1, <2>4
    <3>3. \A k \in Nat : held' - (aheadRef + 1) >= k => held - aheadRef >= k
      BY <2>7, <3>2, HeldCounts, Zenon
    <3>4. 1 \in Nat /\ 4 \in Nat /\ RATIO + 1 \in Nat
      BY <3>2
    <3>5. QED
      BY <3>1, <3>3, <3>4, Zenon
  <2>9. ClkDrained'
    BY <1>1, <2>1, <2>2, <2>8 DEF ClkDrained
  <2>10. toSend' = << >>
    BY <1>1, <2>1 DEF LeftAfterPhy
  <2>11. QED
    BY <2>1, <2>4, <2>6, <2>9, <2>10 DEF Draining
<1>7. CASE ClkEdge
  <2>1. /\ ClkSide /\ aheadRef' = 0 /\ aheadClk < RATIO /\ aheadClk' = aheadClk + 1
        /\ rst' = rst /\ held' = held
        /\ f' = f /\ crc' = crc /\ s' = s /\ ram2' = ram2 /\ pf1' = pf1 /\ pos' = pos
        /\ rmii_rst_1' = rmii_rst_1 /\ rmii_rst' = rmii_rst
        /\ toSend' = toSend \o Enqueued
    BY <1>7 DEF ClkEdge, refRegs
  <2>2. /\ client' = Idle /\ client' \in ClientRegs({client'.wdt})
        /\ q' \in Pf!Registers /\ q' = Pf!ResetOn(q'.memory)
        /\ DOMAIN memory' = Addr /\ ram1'.addr \in Addr /\ ram1'.wstrobe \in BOOLEAN
        /\ client = Idle => ~ ram1'.wstrobe
    BY <1>1, <2>1, ClkDrains
  <2>3. /\ deq'.strobe_latch = deq.strobe_latch /\ deq'.strobe_tmp1 = deq.strobe_latch
        /\ rf'.strobe_latch = rf.strobe_latch /\ rf'.strobe_tmp1 = rf.strobe_latch
    BY <1>3, <1>7 DEF Empties
  <2>4. FsmTyped' /\ RmiiTyped' /\ PfTyped'
    BY <1>1, <2>1, RefStill DEF Typed, PfTyped
  <2>5. CrossTyped'
    BY <1>1, <1>3, <2>1 DEF CrossTyped
  <2>6. Typed'
    BY <2>2, <2>4, <2>5 DEF Typed
  <2>7. RefDrained'
    BY <1>1, <2>1, <2>3 DEF RefDrained
  <2>8. /\ HeldForClk' = held
        /\ held >= 4 => held >= 3
        /\ held >= RATIO + 1 => HeldForClk >= 1
    BY <1>1, <2>1 DEF HeldForClk
  <2>9. ClkDrained'
    BY <1>1, <1>5, <2>2, <2>3, <2>8 DEF ClkDrained
  <2>10. toSend' = << >>
    BY <1>1, <2>1, <2>2 DEF Enqueued, Idle
  <2>11. QED
    BY <2>1, <2>6, <2>7, <2>9, <2>10 DEF Draining
<1>8. CASE BothEdges
  <2>1. /\ RefSide /\ ClkSide /\ aheadRef < RATIO /\ aheadRef' = 0 /\ aheadClk' = 0 /\ rst' = rst
        /\ PfAcross(q) \/ PfAcross(q')
        /\ toSend' = LeftAfterPhy \o Enqueued
    BY <1>8 DEF BothEdges
  <2>2. /\ client' = Idle /\ client' \in ClientRegs({client'.wdt})
        /\ q' \in Pf!Registers /\ q' = Pf!ResetOn(q'.memory)
        /\ DOMAIN memory' = Addr /\ ram1'.addr \in Addr /\ ram1'.wstrobe \in BOOLEAN
        /\ client = Idle => ~ ram1'.wstrobe
    BY <1>1, <2>1, ClkDrains
  <2>3. rmii_rst => /\ ~ deq'.strobe_latch /\ ~ rf'.strobe_latch
                    /\ ~ deq.strobe_latch => ~ deq'.strobe_tmp1
                    /\ ~ rf.strobe_latch => ~ rf'.strobe_tmp1
    BY <1>3, <1>8 DEF Empties
  <2>4. q'.fifo_empty = TRUE /\ q'.deq_data \in Descriptor
    BY <2>2 DEF Pf!Registers, Pf!ResetOn
  <2>5. PfTyped' /\ (HeldForClk >= 1 => pf1'.empty)
    <3>1. CASE PfAcross(q)
      BY <1>4, <3>1 DEF PfTyped, PfAcross
    <3>2. CASE PfAcross(q')
      BY <2>4, <3>2 DEF PfTyped, PfAcross
    <3>3. QED
      BY <2>1, <3>1, <3>2
  <2>6. /\ FsmTyped' /\ RmiiTyped' /\ RefDrained'
        /\ rmii_rst_1' = TRUE /\ rmii_rst' \in BOOLEAN /\ held' \in 0 .. HOLD
        /\ \A n \in Nat : held' >= n + 1 => held >= n
    BY <1>1, <2>1, <2>3, <2>5, RefDrains
  <2>7. CrossTyped'
    BY <1>1, <1>3, <2>1 DEF CrossTyped
  <2>8. Typed'
    BY <2>2, <2>5, <2>6, <2>7 DEF Typed
  <2>9. held' <= held + 1
    BY <2>1 DEF RefSide
  <2>10. /\ HeldForClk' = held'
         /\ held' >= 4 => held >= 3 /\ held >= 2
         /\ held' >= RATIO + 1 => HeldForClk >= 1
    <3>1. HeldForClk' = held' /\ HeldForClk = held - aheadRef
      <4>1. held' \in Nat
        BY <2>6
      <4>2. HeldForClk' = held' - 0 /\ HeldForClk = held - aheadRef
        BY <2>1, Zenon DEF HeldForClk
      <4>3. \A a \in Nat : a - 0 = a
        OBVIOUS
      <4>4. QED
        BY <4>1, <4>2, <4>3, Zenon
    <3>2. held \in Nat /\ held' \in Nat /\ aheadRef \in Nat /\ aheadRef < RATIO /\ RATIO \in Nat
      BY <1>1, <2>1, <2>6
    <3>3. /\ held' >= RATIO + 1 => held - aheadRef >= 1
          /\ held' >= 4 => held >= 3 /\ held >= 2
      BY <2>9, <3>2, HeldCounts, Zenon
    <3>4. QED
      BY <3>1, <3>3, Zenon
  <2>11. ClkDrained'
    <3>1. held' >= 4 => ~ deq'.strobe_tmp1 /\ ~ rf'.strobe_tmp1
      BY <1>1, <1>5, <2>3, <2>10 DEF RefDrained
    <3>2. held' >= RATIO + 1 => ~ ram1'.wstrobe
      BY <1>1, <2>2, <2>10 DEF ClkDrained
    <3>3. QED
      BY <2>2, <2>10, <3>1, <3>2 DEF ClkDrained
  <2>12. toSend' = << >>
    BY <1>1, <2>1, <2>2 DEF LeftAfterPhy, Enqueued, Idle
  <2>13. QED
    BY <2>1, <2>6, <2>8, <2>11, <2>12 DEF Draining
<1>9. QED
  BY <1>6, <1>7, <1>8 DEF Next

\* Press finds the registers with their types; nothing need have left yet.
LEMMA PressOK ==
    ASSUME Waking, Press, rmii_rst_1 \in BOOLEAN, rmii_rst \in BOOLEAN
    PROVE  ResetInv'
<1> USE LinkAssumption
<1>1. Typed
  BY CarriedTyped DEF Waking
<1>2. /\ rst' = TRUE /\ held' = 0 /\ toSend' = << >>
      /\ f' = f /\ s' = s /\ pf1' = pf1 /\ deq' = deq /\ rf' = rf
      /\ q' = q /\ ram1' = ram1 /\ memory' = memory /\ client' = client
      /\ aheadRef' = aheadRef /\ aheadClk' = aheadClk
      /\ rmii_rst_1' = rmii_rst_1 /\ rmii_rst' = rmii_rst
  BY DEF Press, refRegs, clkRegs
<1>3. Typed'
  <2>1. FsmTyped' /\ RmiiTyped' /\ PfTyped' /\ CrossTyped'
    BY <1>1, <1>2, RefStill DEF Typed, PfTyped, CrossTyped
  <2>2. QED
    BY <1>1, <1>2, <2>1 DEF Typed
<1>4. RefDrained'
  <2>1. ~ held' >= 1 /\ ~ held' >= 2 /\ ~ held' >= 3 /\ ~ held' >= 4
        /\ ~ held' >= RATIO + 2 /\ ~ held' >= RATIO + 3
    BY <1>2
  <2>2. QED
    BY <2>1 DEF RefDrained
<1>5. ClkDrained'
  <2>1. aheadRef' \in Nat
    BY <1>1, <1>2 DEF Typed, CrossTyped
  <2>2. ~ HeldForClk' >= 1 /\ ~ HeldForClk' >= 4 /\ ~ HeldForClk' >= RATIO + 1
    BY <1>2, <2>1 DEF HeldForClk
  <2>3. QED
    BY <2>2 DEF ClkDrained
<1>6. QED
  BY <1>2, <1>3, <1>4, <1>5 DEF ResetInv, Draining

\* When the reset is released everything is still.
LEMMA ReleaseOK ==
    ASSUME Draining, Release, held \in 0 .. HOLD
    PROVE  Typed' /\ Still' /\ AtRest' /\ Early' /\ rmii_rst_1' = rmii_rst_1 /\ rmii_rst' = rmii_rst
           /\ rmii_rst_1 /\ rmii_rst /\ rst' = FALSE /\ held' = held
<1> USE LinkAssumption, ResetAssumption
<1>1. Typed /\ RefDrained /\ ClkDrained /\ toSend = << >> /\ aheadRef \in 0 .. RATIO
  BY DEF Draining, Typed, CrossTyped
<1>2. /\ rst' = FALSE /\ held' = held /\ held = HOLD /\ toSend' = toSend
      /\ f' = f /\ s' = s /\ crc' = crc /\ ram2' = ram2 /\ pos' = pos
      /\ pf1' = pf1 /\ deq' = deq /\ rf' = rf
      /\ q' = q /\ ram1' = ram1 /\ memory' = memory /\ client' = client
      /\ aheadRef' = aheadRef /\ aheadClk' = aheadClk
      /\ rmii_rst_1' = rmii_rst_1 /\ rmii_rst' = rmii_rst
  BY DEF Release, refRegs, clkRegs
<1>3. /\ held >= 1 /\ held >= 2 /\ held >= 3 /\ held >= 4
      /\ held >= RATIO + 2 /\ held >= RATIO + 3
      /\ HeldForClk >= 1 /\ HeldForClk >= 4 /\ HeldForClk >= RATIO + 1
  BY <1>1, <1>2 DEF HeldForClk
<1>4. /\ rmii_rst_1 /\ rmii_rst
      /\ f.state = "IDLE" /\ f.cnt = 0 /\ f.rptr = 0 /\ f.frlen = 0
      /\ ~ f.mii_strobe /\ f.mii_cnt = 0 /\ ~ f.m_rstrobe
      /\ s = RmiiReset /\ crc = CrcReset
      /\ ~ deq.strobe_latch /\ ~ rf.strobe_latch
      /\ ~ f.fr_done /\ ~ f.crc_calc /\ f.crc_init
      /\ ram2 = [addr |-> 0, rstrobe |-> FALSE, rdt |-> ram2.rdt] /\ pos = 0
      /\ pf1.empty /\ ~ f.t_dv /\ ~ f.t_str_dt
  BY <1>1, <1>3 DEF RefDrained
<1>5. /\ client = Idle /\ q = Pf!ResetOn(q.memory)
      /\ ~ deq.strobe_tmp1 /\ ~ rf.strobe_tmp1 /\ ~ ram1.wstrobe
  BY <1>1, <1>3 DEF ClkDrained
<1>6. Typed'
  <2>1. FsmTyped' /\ RmiiTyped' /\ PfTyped' /\ CrossTyped'
    BY <1>1, <1>2, RefStill DEF Typed, PfTyped, CrossTyped
  <2>2. QED
    BY <1>1, <1>2, <2>1 DEF Typed
<1>7. Still'
  BY <1>1, <1>2, <1>4, <1>5 DEF Still, Running
<1>8. f = RestOf(f.t_dt)
  BY <1>1, <1>4 DEF Typed, FsmTyped, FsmRegs, RestOf
<1>9. AtRest'
  BY <1>2, <1>4, <1>8 DEF AtRest
<1>10. Early'
  <2>1. client'.state = "idle" /\ client'.pf_enq = FALSE
    BY <1>2, <1>5 DEF Idle
  <2>2. q'.fifo_level = 0
    BY <1>2, <1>5 DEF Pf!ResetOn
  <2>3. QED
    BY <2>1, <2>2 DEF Early
<1>11. QED
  BY <1>2, <1>4, <1>6, <1>7, <1>9, <1>10

\* Before ref_clk has an edge no frame can be enqueued.
LEMMA NoneEarly ==
    ASSUME Early, aheadClk \in Nat, aheadClk < RATIO, client.pf_enq \in BOOLEAN
    PROVE  ~ client.pf_enq
<1> SUFFICES ASSUME client.pf_enq PROVE FALSE
  OBVIOUS
<1>1. PICK len \in LENS : len = client.tag.len /\ len + 2 <= aheadClk
  BY DEF Early
<1>2. len \in Nat /\ RATIO \in Nat
  BY TxLinkAssumption, LinkAssumption
<1>3. RATIO < len + 3
  BY ResetAssumption
<1>4. QED
  BY <1>1, <1>2, <1>3

\* So an edge of clk leaves the queue empty.
LEMMA EarlyEmpty ==
    ASSUME Carried, Early, aheadClk < RATIO, ClkSide
    PROVE  q'.fifo_level = 0 /\ q'.fifo_empty /\ ~ client.pf_enq
<1> USE DEF Carried, Sound, Crossed
<1>1. /\ PfConsistent' /\ q'.fifo_level = Count - Taken /\ (Taking(deq) => q.fifo_level > 0)
  BY DescriptorsAfter
<1>2. ~ client.pf_enq
  <2>1. aheadClk \in Nat /\ client.pf_enq \in BOOLEAN
    BY LinkAssumption DEF CrossTyped, ClientTyped, ClientRegs
  <2>2. QED
    BY <2>1, NoneEarly
<1>3. Count = 0 /\ Taken = 0
  BY <1>1, <1>2 DEF Early, Count, Taken
<1>4. QED
  BY <1>1, <1>2, <1>3, HeadAfter

\* And the client has got no further than it had edges.
LEMMA EarlyStays ==
    ASSUME Carried, Early, ClkEdge
    PROVE  Early'
<1> USE LinkAssumption, TxLinkAssumption DEF Carried, Sound, Crossed
<1>1. ClkSide /\ aheadClk < RATIO /\ aheadClk' = aheadClk + 1 /\ aheadClk \in Nat
  BY DEF ClkEdge, CrossTyped
<1>2. q'.fifo_level = 0 /\ ~ client.pf_enq
  BY <1>1, EarlyEmpty
<1>3. ClientMoves /\ ClientTyped'
  BY <1>1, ClientMovesAre DEF CrossTyped
<1>4. client.next \in Nat /\ client.len \in Nat
  BY DEF ClientTyped, ClientRegs, Addr
<1>5. CASE Waiting
  BY <1>2, <1>5 DEF Waiting, Early
<1>6. CASE Starting
  BY <1>1, <1>2, <1>6 DEF Starting, Early
<1>7. CASE WritingOne
  <2>1. client.len \in LENS /\ client.next + 1 <= aheadClk
    BY <1>7 DEF WritingOne, Early
  <2>2. client'.len = client.len /\ client'.next = client.next + 1 /\ ~ client'.pf_enq
    BY <1>2, <1>7 DEF WritingOne
  <2>3. client'.next + 1 <= aheadClk'
    BY <1>1, <1>4, <2>1, <2>2
  <2>4. QED
    BY <1>2, <2>1, <2>2, <2>3 DEF Early
<1>8. CASE Blocked
  <2>1. client.len \in LENS /\ client.next + 1 <= aheadClk
    BY <1>8 DEF Blocked, Early
  <2>2. client'.len = client.len /\ client'.next = client.next /\ ~ client'.pf_enq
    BY <1>2, <1>8 DEF Blocked
  <2>3. client'.next + 1 <= aheadClk'
    BY <1>1, <1>4, <2>1, <2>2
  <2>4. QED
    BY <1>2, <2>1, <2>2, <2>3 DEF Early
<1>9. CASE Queueing
  <2>1. client.len \in LENS /\ client.next + 1 <= aheadClk /\ client.next = client.len
    BY <1>9 DEF Queueing, Early, ClientTyped
  <2>2. client'.state = "idle" /\ client'.tag.len = client.len
    BY <1>9 DEF Queueing
  <2>3. client'.tag.len + 2 <= aheadClk'
    BY <1>1, <1>4, <2>1, <2>2
  <2>4. QED
    BY <1>2, <2>1, <2>2, <2>3 DEF Early
<1>10. QED
  BY <1>3, <1>5, <1>6, <1>7, <1>8, <1>9 DEF ClientMoves

\* While ref_clk is still in reset its edge shows the FSM the queue and moves nothing else.
LEMMA RestCarries ==
    ASSUME Carried, AtRest, rmii_rst = TRUE, RefEdge
    PROVE  Carried'
<1> USE LinkAssumption DEF Carried, Sound, Crossed
<1>1. RefSide /\ PfAcross(q) /\ aheadRef < RATIO
  BY DEF RefEdge
<1>2. /\ f' = f /\ s' = s /\ crc' = crc /\ ram2' = ram2 /\ pos' = pos
      /\ DeqIn = deq /\ RfIn = rf /\ LeftAfterPhy = toSend
      /\ f.state = "IDLE" /\ ~ f.fr_done
  BY <1>1, RestStays
<1>3. /\ q' = q /\ ram1' = ram1 /\ memory' = memory /\ client' = client /\ rst' = rst
      /\ aheadRef' = aheadRef + 1 /\ aheadClk' = 0
  BY DEF RefEdge, clkRegs
<1>4. deq' = deq /\ rf' = rf /\ toSend' = toSend
  BY <1>2 DEF RefEdge
<1>5. CrossTyped'
  BY <1>1, <1>3, <1>4 DEF CrossTyped
<1>6. /\ q.fifo_level \in 0 .. DEPTH /\ q.deq_data \in Descriptor /\ q.fifo_empty \in BOOLEAN
      /\ q.fifo_empty <=> q.fifo_level = 0
      /\ q.fifo_level > 0 => q.deq_data = Desc(1)
  BY PfRanges, HeadIs DEF Queued
<1>7. PfTyped' /\ pf1'.empty = q.fifo_empty /\ pf1'.tag = q.deq_data
  BY <1>1, <1>6 DEF PfTyped, PfAcross
<1>8. Handshakes'
  <2>1. ~ deq.strobe_latch /\ ~ rf.strobe_latch
    BY DEF AtRest
  <2>2. ~ Past
    BY <1>2 DEF Past, Ending
  <2>3. ~ deq.strobe_tmp1 /\ ~ rf.strobe_tmp1
    BY <2>2 DEF Handshakes, Handshake, Crossing
  <2>4. QED
    BY <1>4, <2>1, <2>3 DEF Handshakes, Handshake, Crossing
<1>9. Shown'
  <2>1. Desc(1)' = Desc(1) /\ q'.fifo_level = q.fifo_level
    BY <1>3 DEF Desc, Pf!SlotOf
  <2>2. pf1'.empty \/ (q'.fifo_level > 0 /\ pf1'.tag = Desc(1)')
    BY <1>6, <1>7, <2>1
  <2>3. ~ Reading' /\ ~ f'.fr_done
    BY <1>2 DEF Reading
  <2>4. QED
    BY <2>2, <2>3 DEF Shown
<1>10. QED
  BY <1>2, <1>3, <1>4, <1>5, <1>7, <1>8, <1>9, CarriedStill

\* After a reset the link wakes up without losing or inventing anything.
LEMMA WakingAfter ==
    ASSUME Waking, Next, rst = FALSE, rmii_rst_1 \in BOOLEAN, rmii_rst \in BOOLEAN,
           held \in 0 .. HOLD
    PROVE  /\ Waking' /\ rst' = FALSE
           /\ rmii_rst_1' \in BOOLEAN /\ rmii_rst' \in BOOLEAN /\ held' = held
<1>1. Carried /\ CrossTyped /\ aheadClk \in Nat
  BY LinkAssumption DEF Waking, Carried, Sound, Crossed, CrossTyped
<1>2. /\ rst' = FALSE /\ held' = held
      /\ RefEdge \/ BothEdges => rmii_rst_1' = FALSE /\ rmii_rst' = rmii_rst_1
      /\ ClkEdge => rmii_rst_1' = rmii_rst_1 /\ rmii_rst' = rmii_rst
  BY DEF Next, RefEdge, ClkEdge, BothEdges, RefSide, refRegs
<1>3. rmii_rst_1' \in BOOLEAN /\ rmii_rst' \in BOOLEAN
  BY <1>2 DEF Next
<1>4. CASE rmii_rst = FALSE
  <2>1. NoReset
    BY <1>4 DEF NoReset, Waking
  <2>2. Tick /\ NoReset'
    BY <2>1, NextIsTick
  <2>3. Carried'
    BY <1>1, <2>2, TickOK
  <2>4. Waking'
    BY <2>2, <2>3 DEF NoReset, Waking
  <2>5. QED
    BY <1>2, <1>3, <2>4
<1>5. CASE rmii_rst = TRUE
  <2>1. AtRest /\ (rmii_rst_1 => Early)
    BY <1>5 DEF Waking
  <2>2. Empties(deq) /\ Empties(rf)
    <3>1. pf1.tag \in Descriptor /\ f.fr_done \in BOOLEAN
      BY <1>1, FsmRanges DEF Carried, Sound, Crossed, PfTyped
    <3>2. QED
      BY <1>1, <3>1, DeqEmpties, RfEmpties
  <2>3. CASE ClkEdge
    <3>1. Carried'
      BY <1>1, <2>3, TickOK DEF Tick, ClkTick
    <3>2. /\ f' = f /\ s' = s /\ crc' = crc /\ pos' = pos /\ ram2' = ram2 /\ pf1' = pf1
          /\ deq'.strobe_latch = deq.strobe_latch /\ rf'.strobe_latch = rf.strobe_latch
      BY <2>2, <2>3 DEF ClkEdge, refRegs, Empties
    <3>3. AtRest'
      BY <2>1, <3>2 DEF AtRest
    <3>4. rmii_rst_1' => Early'
      BY <1>1, <1>2, <2>1, <2>3, EarlyStays
    <3>5. QED
      BY <1>2, <1>3, <1>5, <2>3, <3>1, <3>3, <3>4 DEF Waking
  <2>4. CASE BothEdges
    <3>1. Parked
      BY <1>5, <2>1, <2>4 DEF Parked
    <3>2. Carried'
      BY <1>1, <3>1, TickOK DEF Tick, ClkTick
    <3>3. ASSUME rmii_rst_1
          PROVE  AtRest'
      <4>1. /\ f' = f /\ s' = s /\ crc' = crc /\ pos' = pos /\ ram2' = ram2
        BY <1>1, <3>1, ClkTickIs DEF ClkTick
      <4>2. ~ deq'.strobe_latch /\ ~ rf'.strobe_latch
        BY <1>5, <2>2, <2>4 DEF Empties
      <4>3. pf1'.empty
        <5>1. Early /\ aheadClk < RATIO /\ ClkSide /\ (PfAcross(q) \/ PfAcross(q'))
          BY <2>1, <2>4, <3>3 DEF BothEdges
        <5>2. q'.fifo_empty
          BY <1>1, <5>1, EarlyEmpty
        <5>3. q.fifo_empty
          BY <1>1, <5>1, PfRanges DEF Early, Carried, Sound, Queued
        <5>4. QED
          BY <5>1, <5>2, <5>3 DEF PfAcross
      <4>4. QED
        BY <2>1, <4>1, <4>2, <4>3 DEF AtRest
    <3>4. QED
      BY <1>2, <1>3, <2>4, <3>2, <3>3 DEF Waking
  <2>5. CASE RefEdge
    <3>1. Carried'
      BY <1>1, <1>5, <2>1, <2>5, RestCarries
    <3>2. ASSUME rmii_rst_1
          PROVE  AtRest'
      <4>1. /\ f' = f /\ s' = s /\ crc' = crc /\ pos' = pos /\ ram2' = ram2
        BY <1>1, <1>5, <2>1, <2>5, RestStays DEF RefEdge
      <4>2. ~ deq'.strobe_latch /\ ~ rf'.strobe_latch
        BY <1>5, <2>2, <2>5 DEF Empties
      <4>3. pf1'.empty
        <5>1. q.fifo_empty
          BY <1>1, <2>1, <3>2, PfRanges DEF Early, Carried, Sound, Queued
        <5>2. QED
          BY <2>5, <5>1 DEF RefEdge, PfAcross
      <4>4. QED
        BY <2>1, <4>1, <4>2, <4>3 DEF AtRest
    <3>3. QED
      BY <1>2, <1>3, <2>5, <3>1, <3>2 DEF Waking
  <2>6. QED
    BY <2>3, <2>4, <2>5 DEF Next
<1>6. QED
  BY <1>4, <1>5

\* What a release leaves carries nothing.
Cleared ==
    /\ Typed /\ Still /\ AtRest /\ Early
    /\ rst = FALSE /\ rmii_rst_1 = TRUE /\ rmii_rst = TRUE /\ held \in 0 .. HOLD
LEMMA ReleasedWakes == Cleared => ResetInv
BY NothingCarried DEF Cleared, ResetInv, Waking

\* Nothing in it is about the time.
LEMMA ResetInvStays == ResetInv /\ UNCHANGED vars => ResetInv'
<1> SUFFICES ASSUME ResetInv, UNCHANGED vars PROVE ResetInv'
  OBVIOUS
<1>1. /\ f' = f /\ crc' = crc /\ s' = s /\ ram2' = ram2 /\ pf1' = pf1 /\ rst' = rst /\ pos' = pos
      /\ rmii_rst_1' = rmii_rst_1 /\ rmii_rst' = rmii_rst /\ held' = held
      /\ q' = q /\ ram1' = ram1 /\ memory' = memory /\ client' = client
      /\ deq' = deq /\ rf' = rf /\ toSend' = toSend
      /\ aheadRef' = aheadRef /\ aheadClk' = aheadClk
  BY DEF vars, refRegs, clkRegs
<1>2. CASE rst = TRUE
  <2>1. Typed /\ RefDrained /\ ClkDrained /\ toSend = << >>
    BY <1>2 DEF ResetInv, Draining
  <2>2. FsmTyped' /\ RmiiTyped' /\ PfTyped' /\ CrossTyped'
    BY <1>1, <2>1, RefStill DEF Typed, PfTyped, CrossTyped
  <2>3. Typed'
    BY <1>1, <2>1, <2>2 DEF Typed
  <2>4. RefDrained' /\ ClkDrained'
    BY <1>1, <2>1 DEF RefDrained, ClkDrained, HeldForClk
  <2>5. QED
    BY <1>1, <1>2, <2>1, <2>3, <2>4 DEF ResetInv, Draining
<1>3. CASE rst = FALSE
  <2>1. Waking
    BY <1>3 DEF ResetInv
  <2>2. Carried'
    BY <2>1, CarriedStays DEF Waking
  <2>3. (AtRest => AtRest') /\ (Early => Early')
    BY <1>1 DEF AtRest, Early
  <2>4. QED
    BY <1>1, <1>3, <2>1, <2>2, <2>3 DEF ResetInv, Waking
<1>4. QED
  BY <1>2, <1>3 DEF ResetInv

\* Every step keeps it.
LEMMA ResetStepOK == ResetInv /\ [NextWithResets]_vars => ResetInv' \/ Cleared'
<1> SUFFICES ASSUME ResetInv, NextWithResets PROVE ResetInv' \/ Cleared'
  BY ResetInvStays
<1>1. /\ rst \in BOOLEAN /\ rmii_rst_1 \in BOOLEAN /\ rmii_rst \in BOOLEAN /\ held \in 0 .. HOLD
      /\ rst = TRUE => Draining
      /\ rst = FALSE => Waking
  BY DEF ResetInv
<1>2. CASE Next /\ rst = TRUE
  BY <1>1, <1>2, DrainingAfter DEF ResetInv
<1>3. CASE Next /\ rst = FALSE
  BY <1>1, <1>3, WakingAfter DEF ResetInv
<1>4. CASE Press
  <2>1. rst = FALSE
    BY <1>1, <1>4 DEF Press
  <2>2. QED
    BY <1>1, <1>4, <2>1, PressOK
<1>5. CASE Release
  <2>1. Draining
    BY <1>1, <1>5 DEF Release
  <2>2. /\ Typed' /\ Still' /\ AtRest' /\ Early' /\ rmii_rst_1' = rmii_rst_1 /\ rmii_rst' = rmii_rst
        /\ rmii_rst_1 /\ rmii_rst /\ rst' = FALSE /\ held' = held
    BY <1>1, <1>5, <2>1, ReleaseOK
  <2>3. QED
    BY <1>1, <2>2 DEF Cleared
<1>6. QED
  BY <1>1, <1>2, <1>3, <1>4, <1>5 DEF NextWithResets

\* It holds when the board starts.
LEMMA ResetInitOK == Init => ResetInv
<1> SUFFICES ASSUME Init PROVE ResetInv
  OBVIOUS
<1>1. Carried
  BY InitStill, NothingCarried
<1>2. rst = FALSE /\ rmii_rst_1 = FALSE /\ rmii_rst = FALSE /\ held = 0
  BY DEF Init
<1>3. QED
  <2>1. 0 \in 0 .. HOLD
    BY LinkAssumption
  <2>2. QED
    BY <1>1, <1>2, <2>1 DEF ResetInv, Waking

\* And it says what must be on the wire.
LEMMA ResetInvWire == ResetInv => WireCarriesOldestFrame
<1> SUFFICES ASSUME ResetInv, ~ InReset PROVE WireCarriesOldestFrame
  BY DEF WireCarriesOldestFrame
<1>1. Carried
  BY DEF ResetInv, Waking, InReset
<1>2. QED
  BY <1>1, WireIsCarried

\* And that a frame ends where it should.
LEMMA ResetInvWhole == ResetInv /\ [NextWithResets]_vars => FrameIsWhole
<1> SUFFICES ASSUME ResetInv, [NextWithResets]_vars, s.en, ~ s'.en, ~ InReset
             PROVE  pos + 1 = 4 * FrameBytes(Head(toSend))
  BY DEF FrameIsWhole
<1>1. Carried /\ rmii_rst = FALSE
  BY DEF ResetInv, Waking, InReset
<1>2. RefEdge \/ BothEdges
  <2>1. ~ UNCHANGED vars /\ ~ ClkEdge /\ ~ Press /\ ~ Release
    BY DEF vars, refRegs, ClkEdge, Press, Release
  <2>2. QED
    BY <2>1 DEF NextWithResets, Next
<1>3. QED
  BY <1>1, <1>2, WholeIsCarried DEF RefTick, BothTick

----------------------------------------------------------------------------
(* The properties of the link                                               *)

\* The queue is never asked for a descriptor it does not have nor given one it drops,
\* and no register leaves its range, whatever the clocks do.
THEOREM NoStrobeIsLost == Spec => []NoStrobeLost
BY LinkConsistent, InvNoStrobeLost, PTL

\* Every dibit on the wires is the next one of the oldest frame enqueued and not yet sent.
THEOREM OldestFrameIsOnWire == Spec => []WireCarriesOldestFrame
<1>1. Inv => WireCarriesOldestFrame
  BY WireIsCarried DEF Inv
<1>2. QED
  BY <1>1, LinkConsistent, PTL

\* The transmitter stops after the last dibit of a frame only.
THEOREM OnlyWholeFrames == Spec => FramesAreWhole
<1>1. Inv /\ [Next]_vars => [FrameIsWhole]_vars
  BY InvWhole
<1>2. QED
  BY <1>1, LinkConsistent, PTL DEF Spec, FramesAreWhole

\* Between two frames the wires are quiet for the gap but one byte time.
THEOREM GapIsKept == Spec => GapBetweenFrames
<1>1. Inv /\ [Next]_vars => [~ s.en /\ s'.en => low + 1 >= 4 * (IGAP_LEN - 1) + 1]_vars
  BY InvGap
<1>2. QED
  BY <1>1, LinkConsistent, PTL DEF Spec, GapBetweenFrames

\* The invariant with resets holds for ever.
THEOREM ResetConsistent == SpecWithResets => []ResetInv
BY ResetInitOK, ResetStepOK, ReleasedWakes, PTL DEF SpecWithResets

\* Once a reset has passed through both domains the wire carries the oldest frame enqueued
\* since, and whole frames only.
THEOREM LinkCleanAfterReset == SpecWithResets => CleanAfterReset
<1>1. ResetInv => WireCarriesOldestFrame
  BY ResetInvWire
<1>2. ResetInv /\ [NextWithResets]_vars => FrameIsWhole
  BY ResetInvWhole
<1>3. QED
  BY <1>1, <1>2, ResetConsistent, PTL DEF SpecWithResets, CleanAfterReset
=============================================================================
