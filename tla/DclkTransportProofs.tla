------------------------ MODULE DclkTransportProofs ------------------------
(***************************************************************************)
(* Proof that a strobe crosses exactly once, with its data, for every      *)
(* ratio of the two clocks, as long as the user leaves the gap.            *)
(***************************************************************************)
EXTENDS DclkTransport, TLAPS

\* A strobe is on its way while the latch is up and clk2 has not seen it.
Underway == t.strobe_latch /\ ~ t.strobe_tmp1

\* What is owed is what is on its way or just being presented.
OwedIsUnderway == owed # << >> <=> Underway \/ Strobe2(t)

\* The datum on its way is the one in the latch, and no clk2 edge has come since.
LatchHoldsOwed == Underway => quiet <= ahead1 /\ owed = <<t.dt_latch>>

\* The first clk1 edge after clk2 has seen the latch clears it.
LatchIsCleared == t.strobe_latch /\ t.strobe_tmp1 => ahead1 = 0 /\ quiet <= RATIO

\* The handshake is over before the user's gap is.
HandshakeEnds == t.strobe_tmp1 => quiet <= RATIO + 1 + ahead1

IInv ==
    /\ TypeOK
    /\ OwedIsUnderway
    /\ LatchHoldsOwed
    /\ LatchIsCleared
    /\ HandshakeEnds
    /\ DataWithStrobe

\* What the assumptions say of the numbers.
LEMMA Bounds ==
    /\ RATIO \in Nat /\ RATIO > 0
    /\ GAP \in Nat /\ GAP > 2 * RATIO
BY TransportAssumption

\* The reset state has no strobe on its way.
LEMMA InitOK == Init => IInv
<1> SUFFICES ASSUME Init PROVE IInv
  OBVIOUS
<1>1. /\ t = PowerUp /\ quiet = GAP /\ ahead1 = 0 /\ ahead2 = 0
      /\ owed = << >> /\ torn = FALSE
  BY DEF Init
<1>2. t \in Registers /\ ~ t.strobe_latch /\ ~ t.strobe_tmp1
  BY <1>1, TransportAssumption DEF PowerUp, Registers
<1>3. TypeOK
  <2>1. quiet \in 0 .. GAP /\ ahead1 \in 0 .. RATIO /\ ahead2 \in 0 .. RATIO
    BY <1>1, Bounds
  <2>2. owed \in {<< >>} \cup {<<d>> : d \in Data}
    BY <1>1
  <2>3. QED
    BY <1>1, <1>2, <2>1, <2>2 DEF TypeOK
<1>4. OwedIsUnderway /\ LatchHoldsOwed /\ LatchIsCleared /\ HandshakeEnds /\ DataWithStrobe
  BY <1>1, <1>2 DEF OwedIsUnderway, Underway, Strobe2, LatchHoldsOwed, LatchIsCleared,
                    HandshakeEnds, DataWithStrobe
<1>5. QED
  BY <1>3, <1>4 DEF IInv

\* The user may strobe only when no handshake is going on.
LEMMA StrobeFindsIdle ==
    ASSUME IInv, NEW p \in Ports1, p.strobe1, ahead1 < RATIO
    PROVE  ~ t.strobe_latch /\ ~ t.strobe_tmp1 /\ owed = << >>
<1>1. quiet = GAP
  <2>1. p.strobe1 \in IF quiet < GAP THEN {FALSE} ELSE BOOLEAN
    BY DEF Ports1
  <2>2. ~ (quiet < GAP)
    BY <2>1
  <2>3. QED
    BY <2>2, Bounds DEF IInv, TypeOK
<1>2. ahead1 \in Nat /\ t \in Registers
  BY DEF IInv, TypeOK
<1>3. ~ t.strobe_tmp1
  BY <1>1, <1>2, Bounds DEF IInv, HandshakeEnds
<1>4. ~ t.strobe_latch
  BY <1>1, <1>2, <1>3, Bounds DEF IInv, LatchHoldsOwed, Underway
<1>5. QED
  BY <1>3, <1>4 DEF IInv, OwedIsUnderway, Underway, Strobe2

\* Taking the one datum owed leaves none.
LEMMA UnpaidOK ==
    ASSUME NEW queue \in {<< >>} \cup {<<d>> : d \in Data}
    PROVE  Unpaid(queue) = IF Strobe2(t) THEN << >> ELSE queue
<1>1. CASE queue = << >>
  BY <1>1 DEF Unpaid
<1>2. CASE queue # << >>
  <2>1. PICK d \in Data : queue = <<d>>
    BY <1>2
  <2>2. Tail(queue) = << >>
    BY <2>1
  <2>3. QED
    BY <1>2, <2>2 DEF Unpaid
<1>3. QED
  BY <1>1, <1>2

\* An edge of clk1 alone.
LEMMA Clk1OK == ASSUME IInv, NEW p \in Ports1, Clk1(p) PROVE IInv'
<1>1. /\ p.rst1 \in BOOLEAN /\ p.strobe1 \in BOOLEAN /\ p.dt1 \in Data
  BY DEF Ports1
<1>2. /\ t \in Registers
      /\ quiet \in 0 .. GAP /\ ahead1 \in 0 .. RATIO /\ ahead2 \in 0 .. RATIO
      /\ owed \in {<< >>} \cup {<<d>> : d \in Data}
      /\ torn \in BOOLEAN
  BY DEF IInv, TypeOK
<1>3. /\ ahead1 < RATIO
      /\ t' = Edge1(t, p.rst1, p.strobe1, p.dt1)
      /\ quiet' = QuietAfter1(p)
      /\ ahead1' = ahead1 + 1 /\ ahead2' = 0
      /\ owed' = OwedAfter1(p)
      /\ torn' = torn
  BY DEF Clk1
<1>4. /\ t' \in Registers
      /\ t'.strobe_tmp1 = t.strobe_tmp1 /\ t'.strobe_tmp2 = t.strobe_tmp2 /\ t'.dt2 = t.dt2
  BY <1>1, <1>2, <1>3 DEF Edge1, Registers, Latch, DataLatch
<1>5. CASE p.rst1
  <2>1. /\ ~ t'.strobe_latch
        /\ quiet' = 0
        /\ owed' = IF Strobe2(t) THEN owed ELSE << >>
    BY <1>2, <1>3, <1>4, <1>5 DEF Edge1, Registers, QuietAfter1, OwedAfter1, Strobe2
  <2>2. QED
    BY <1>2, <1>3, <1>4, <2>1, Bounds
       DEF IInv, TypeOK, OwedIsUnderway, Underway, LatchHoldsOwed, LatchIsCleared,
           HandshakeEnds, DataWithStrobe, Strobe2
<1>6. CASE ~ p.rst1 /\ p.strobe1
  <2>1. ~ t.strobe_latch /\ ~ t.strobe_tmp1 /\ owed = << >>
    BY <1>3, <1>6, StrobeFindsIdle
  <2>2. t'.strobe_latch /\ t'.dt_latch = p.dt1
    BY <1>1, <1>2, <1>3, <1>6 DEF Edge1, Latch, DataLatch, Registers
  <2>3. quiet' = 0
    BY <1>3, <1>6 DEF QuietAfter1
  <2>4. owed' = <<p.dt1>>
    BY <1>1, <1>3, <1>6, <2>1 DEF OwedAfter1
  <2>5. QED
    BY <1>1, <1>2, <1>3, <1>4, <2>1, <2>2, <2>3, <2>4, Bounds
       DEF IInv, TypeOK, OwedIsUnderway, Underway, LatchHoldsOwed, LatchIsCleared,
           HandshakeEnds, DataWithStrobe, Strobe2
<1>7. CASE ~ p.rst1 /\ ~ p.strobe1
  <2>1. /\ t'.strobe_latch <=> t.strobe_latch /\ ~ t.strobe_tmp1
        /\ t'.dt_latch = t.dt_latch
        /\ owed' = owed
    BY <1>2, <1>3, <1>7 DEF Edge1, Latch, DataLatch, Registers, OwedAfter1
  <2>2. quiet' \in 0 .. GAP /\ quiet' <= quiet + 1
    BY <1>1, <1>2, <1>3, <1>7, Bounds DEF QuietAfter1
  <2>3. QED
    BY <1>2, <1>3, <1>4, <2>1, <2>2, Bounds
       DEF IInv, TypeOK, OwedIsUnderway, Underway, LatchHoldsOwed, LatchIsCleared,
           HandshakeEnds, DataWithStrobe, Strobe2
<1>8. QED
  BY <1>1, <1>5, <1>6, <1>7

\* An edge of clk2 alone.
LEMMA Clk2OK == ASSUME IInv, Clk2 PROVE IInv'
<1>1. /\ t \in Registers
      /\ quiet \in 0 .. GAP /\ ahead1 \in 0 .. RATIO /\ ahead2 \in 0 .. RATIO
      /\ owed \in {<< >>} \cup {<<d>> : d \in Data}
  BY DEF IInv, TypeOK
<1>2. /\ ahead2 < RATIO
      /\ ahead1' = 0 /\ ahead2' = ahead2 + 1
      /\ owed' = Unpaid(owed)
      /\ torn' = FALSE
      /\ quiet' = quiet
  BY DEF Clk2
<1>3. /\ t' \in Registers
      /\ t'.strobe_latch = t.strobe_latch /\ t'.dt_latch = t.dt_latch
      /\ t'.strobe_tmp1 = t.strobe_latch /\ t'.strobe_tmp2 = t.strobe_tmp1
      /\ t'.dt2 = t.dt_latch
  BY <1>1 DEF Clk2, Edge2, Registers
<1>4. owed' = IF Strobe2(t) THEN << >> ELSE owed
  BY <1>1, <1>2, UnpaidOK
<1>5. TypeOK'
  <2>1. owed' \in {<< >>} \cup {<<d>> : d \in Data}
    BY <1>1, <1>4
  <2>2. ahead1' \in 0 .. RATIO /\ ahead2' \in 0 .. RATIO
    BY <1>1, <1>2, Bounds
  <2>3. QED
    BY <1>1, <1>2, <1>3, <2>1, <2>2 DEF TypeOK
<1>6. OwedIsUnderway'
  BY <1>3, <1>4 DEF IInv, OwedIsUnderway, Underway, Strobe2
<1>7. LatchHoldsOwed' /\ LatchIsCleared' /\ HandshakeEnds'
  BY <1>1, <1>2, <1>3, Bounds
     DEF IInv, Underway, LatchHoldsOwed, LatchIsCleared, HandshakeEnds
<1>8. DataWithStrobe'
  BY <1>3, <1>4 DEF IInv, LatchHoldsOwed, Underway, DataWithStrobe, Strobe2
<1>9. QED
  BY <1>5, <1>6, <1>7, <1>8 DEF IInv

\* Both edges together.
LEMMA TogetherOK == ASSUME IInv, NEW p \in Ports1, Together(p) PROVE IInv'
<1>1. /\ p.rst1 \in BOOLEAN /\ p.strobe1 \in BOOLEAN /\ p.dt1 \in Data
  BY DEF Ports1
<1>2. /\ t \in Registers
      /\ quiet \in 0 .. GAP /\ ahead1 \in 0 .. RATIO /\ ahead2 \in 0 .. RATIO
      /\ owed \in {<< >>} \cup {<<d>> : d \in Data}
  BY DEF IInv, TypeOK
<1> DEFINE s == Edge1(t, p.rst1, p.strobe1, p.dt1)
<1>3. s \in Registers
  BY <1>1, <1>2 DEF Edge1, Registers, Latch, DataLatch
<1>4. PICK latch \in {t.strobe_latch, s.strobe_latch}, data \in {t.dt_latch, s.dt_latch} :
        /\ t' = Edge2([s EXCEPT !.strobe_tmp1 = t.strobe_tmp1], latch, data)
        /\ torn' = (<<latch, data>> \notin {<<t.strobe_latch, t.dt_latch>>,
                                           <<s.strobe_latch, s.dt_latch>>})
  BY DEF Together
<1>5. /\ ahead1 < RATIO
      /\ quiet' = QuietAfter1(p)
      /\ ahead1' = 0 /\ ahead2' = 0
      /\ owed' = IF Strobe2(t) /\ p.rst1 THEN << >> ELSE Unpaid(OwedAfter1(p))
  BY DEF Together
<1>6. latch \in BOOLEAN /\ data \in Data
  BY <1>2, <1>3, <1>4 DEF Registers
<1> HIDE DEF s
<1>7. /\ t' \in Registers
      /\ t'.strobe_latch = s.strobe_latch /\ t'.dt_latch = s.dt_latch
      /\ t'.strobe_tmp1 = latch /\ t'.strobe_tmp2 = t.strobe_tmp1
      /\ t'.dt2 = data
  BY <1>2, <1>3, <1>4, <1>6 DEF Edge2, Registers
<1>8. torn' \in BOOLEAN
  BY <1>4
<1>9. CASE p.rst1
  <2>1. ~ s.strobe_latch /\ s.dt_latch = t.dt_latch
    BY <1>2, <1>9 DEF s, Edge1, Registers
  <2>2. quiet' = 0
    BY <1>5, <1>9 DEF QuietAfter1
  <2>3. owed' = IF latch /\ ~ t.strobe_tmp1 THEN owed ELSE << >>
    <3>1. OwedAfter1(p) = IF latch /\ ~ t.strobe_tmp1 THEN owed ELSE << >>
      BY <1>7, <1>9 DEF OwedAfter1, Strobe2
    <3>2. Unpaid(OwedAfter1(p)) = IF Strobe2(t) THEN << >> ELSE OwedAfter1(p)
      BY <1>2, <3>1, UnpaidOK
    <3>3. CASE Strobe2(t)
      BY <1>5, <1>9, <3>3 DEF Strobe2
    <3>4. CASE ~ Strobe2(t)
      BY <1>5, <1>9, <3>1, <3>2, <3>4
    <3>5. QED
      BY <3>3, <3>4
  <2>4. latch => t.strobe_latch
    BY <1>4, <2>1
  <2>5. TypeOK'
    <3>1. owed' \in {<< >>} \cup {<<d>> : d \in Data}
      BY <1>2, <2>3
    <3>2. QED
      BY <1>5, <1>7, <1>8, <2>2, <3>1, Bounds DEF TypeOK
  <2>6. OwedIsUnderway'
    BY <1>6, <1>7, <2>1, <2>3, <2>4 DEF IInv, OwedIsUnderway, Underway, Strobe2
  <2>7. LatchHoldsOwed' /\ LatchIsCleared' /\ HandshakeEnds'
    BY <1>5, <1>7, <2>1, <2>2, Bounds
       DEF Underway, LatchHoldsOwed, LatchIsCleared, HandshakeEnds
  <2>8. DataWithStrobe'
    <3>1. data = t.dt_latch
      BY <1>4, <2>1
    <3>2. QED
      BY <1>7, <2>3, <2>4, <3>1
         DEF IInv, LatchHoldsOwed, Underway, DataWithStrobe, Strobe2
  <2>9. QED
    BY <2>5, <2>6, <2>7, <2>8 DEF IInv
<1>10. CASE ~ p.rst1 /\ p.strobe1
  <2>1. ~ t.strobe_latch /\ ~ t.strobe_tmp1 /\ owed = << >>
    BY <1>5, <1>10, StrobeFindsIdle
  <2>2. s.strobe_latch /\ s.dt_latch = p.dt1
    BY <1>1, <1>2, <1>10 DEF s, Edge1, Latch, DataLatch, Registers
  <2>3. quiet' = 0
    BY <1>5, <1>10 DEF QuietAfter1
  <2>4. owed' = <<p.dt1>>
    <3>1. OwedAfter1(p) = <<p.dt1>>
      BY <1>1, <1>10, <2>1 DEF OwedAfter1
    <3>2. ~ Strobe2(t)
      BY <2>1 DEF Strobe2
    <3>3. QED
      BY <1>5, <1>10, <3>1, <3>2 DEF Unpaid
  <2>5. TypeOK'
    <3>1. owed' \in {<< >>} \cup {<<d>> : d \in Data}
      BY <1>1, <2>4
    <3>2. QED
      BY <1>5, <1>7, <1>8, <2>3, <3>1, Bounds DEF TypeOK
  <2>6. OwedIsUnderway'
    BY <1>6, <1>7, <2>1, <2>2, <2>4 DEF OwedIsUnderway, Underway, Strobe2
  <2>7. LatchHoldsOwed'
    <3>1. quiet' <= ahead1'
      BY <1>5, <2>3
    <3>2. owed' = <<t'.dt_latch>>
      BY <1>7, <2>2, <2>4
    <3>3. QED
      BY <3>1, <3>2 DEF LatchHoldsOwed
  <2>8. LatchIsCleared' /\ HandshakeEnds'
    BY <1>5, <2>3, Bounds DEF LatchIsCleared, HandshakeEnds
  <2>9. DataWithStrobe'
    BY <1>4, <1>7, <2>1, <2>2, <2>4 DEF DataWithStrobe, Strobe2
  <2>10. QED
    BY <2>5, <2>6, <2>7, <2>8, <2>9 DEF IInv
<1>11. CASE ~ p.rst1 /\ ~ p.strobe1
  <2>1. /\ s.strobe_latch <=> t.strobe_latch /\ ~ t.strobe_tmp1
        /\ s.dt_latch = t.dt_latch
    BY <1>1, <1>2, <1>11 DEF s, Edge1, Latch, DataLatch, Registers
  <2>2. quiet' \in 0 .. GAP /\ quiet' <= quiet + 1
    BY <1>1, <1>2, <1>5, <1>11, Bounds DEF QuietAfter1
  <2>3. owed' = IF Strobe2(t) THEN << >> ELSE owed
    <3>1. OwedAfter1(p) = owed
      BY <1>11 DEF OwedAfter1
    <3>2. QED
      BY <1>2, <1>5, <1>11, <3>1, UnpaidOK
  <2>4. /\ latch => t.strobe_latch
        /\ ~ t.strobe_tmp1 => (latch <=> t.strobe_latch)
        /\ data = t.dt_latch
    BY <1>2, <1>3, <1>4, <2>1 DEF Registers
  <2>5. TypeOK'
    <3>1. owed' \in {<< >>} \cup {<<d>> : d \in Data}
      BY <1>2, <2>3
    <3>2. QED
      BY <1>5, <1>7, <1>8, <2>2, <3>1, Bounds DEF TypeOK
  <2>6. OwedIsUnderway'
    BY <1>6, <1>7, <2>1, <2>3, <2>4 DEF IInv, OwedIsUnderway, Underway, Strobe2
  <2>7. ~ Underway'
    BY <1>7, <2>1, <2>4 DEF Underway
  <2>8. LatchIsCleared' /\ HandshakeEnds'
    <3>1. t'.strobe_tmp1 => quiet' <= RATIO + 1
      <4>1. ASSUME latch, ~ t.strobe_tmp1 PROVE quiet' <= RATIO + 1
        BY <1>2, <1>5, <2>2, <2>4, <4>1, Bounds DEF IInv, LatchHoldsOwed, Underway
      <4>2. ASSUME latch, t.strobe_tmp1 PROVE quiet' <= RATIO + 1
        BY <1>2, <1>5, <2>2, <2>4, <4>2, Bounds DEF IInv, LatchIsCleared
      <4>3. QED
        BY <1>7, <4>1, <4>2
    <3>2. t'.strobe_latch => quiet' <= RATIO
      BY <1>2, <1>5, <1>7, <2>1, <2>2, Bounds DEF IInv, LatchHoldsOwed, Underway
    <3>3. QED
      BY <1>2, <1>5, <2>2, <3>1, <3>2, Bounds DEF LatchIsCleared, HandshakeEnds
  <2>9. LatchHoldsOwed'
    BY <2>7 DEF LatchHoldsOwed
  <2>10. DataWithStrobe'
    BY <1>7, <2>3, <2>4 DEF IInv, LatchHoldsOwed, Underway, DataWithStrobe, Strobe2
  <2>11. QED
    BY <2>5, <2>6, <2>8, <2>9, <2>10 DEF IInv
<1>12. QED
  BY <1>1, <1>9, <1>10, <1>11

\* An edge of either clock, or of both, keeps the invariant.
LEMMA StepOK == IInv /\ [Next]_vars => IInv'
<1> SUFFICES ASSUME IInv, [Next]_vars PROVE IInv'
  OBVIOUS
<1>1. CASE \E p \in Ports1 : Clk1(p)
  BY <1>1, Clk1OK
<1>2. CASE Clk2
  BY <1>2, Clk2OK
<1>3. CASE \E p \in Ports1 : Together(p)
  BY <1>3, TogetherOK
<1>4. CASE UNCHANGED vars
  BY <1>4 DEF vars, IInv, TypeOK, OwedIsUnderway, Underway, Strobe2, LatchHoldsOwed,
              LatchIsCleared, HandshakeEnds, DataWithStrobe
<1>5. QED
  BY <1>1, <1>2, <1>3, <1>4 DEF Next

\* The handshake of the latch is in one of its stages, in every reachable state.
THEOREM Consistent == Spec => []IInv
BY InitOK, StepOK, PTL DEF Spec

\* The registers keep their ranges and at most one datum is owed: strobes that are
\* GAP edges apart are never merged, whatever the two clocks do.
THEOREM TypeCorrect == Spec => []TypeOK
<1>1. IInv => TypeOK
  BY DEF IInv
<1>2. QED
  BY <1>1, Consistent, PTL

\* A strobe that clk2 presents is one that clk1 made and clk2 has not presented yet.
THEOREM StrobesAreReal == Spec => []NoGhostStrobe
<1>1. IInv => NoGhostStrobe
  BY DEF IInv, OwedIsUnderway, NoGhostStrobe
<1>2. QED
  BY <1>1, Consistent, PTL

\* It comes with its own data, unless the edge tore the data from the latch.
THEOREM DataArrivesWithStrobe == Spec => []DataWithStrobe
<1>1. IInv => DataWithStrobe
  BY DEF IInv
<1>2. QED
  BY <1>1, Consistent, PTL
============================================================================
