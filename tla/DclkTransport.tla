--------------------------- MODULE DclkTransport ---------------------------
(***************************************************************************)
(* dclk_transport.vhd: a strobe and its data cross from the clk1 domain to *)
(* the clk2 domain.  t is the record of the registers of both domains.     *)
(*                                                                         *)
(* The clocks are independent: the only assumption is that at most RATIO   *)
(* edges of one pass between two edges of the other.  The edges may also   *)
(* fall together; clk2 then samples strobe_latch and dt_latch while they   *)
(* change, and catches each of the two old or new on its own.              *)
(***************************************************************************)
EXTENDS Integers, Sequences

CONSTANTS
    Data,       \* values of dt1
    Zero,       \* the power-up contents of the data registers
    RATIO,      \* bound on edges of one clock between two edges of the other
    GAP         \* clk1 edges the user leaves between two strobes

ASSUME TransportAssumption ==
    /\ Zero \in Data
    /\ RATIO \in Nat \ {0}
    /\ GAP \in Nat /\ GAP > 2 * RATIO

Registers ==
    [strobe_latch : BOOLEAN, dt_latch : Data,
     strobe_tmp1 : BOOLEAN, strobe_tmp2 : BOOLEAN, dt2 : Data]

PowerUp == [strobe_latch |-> FALSE, dt_latch |-> Zero,
            strobe_tmp1 |-> FALSE, strobe_tmp2 |-> FALSE, dt2 |-> Zero]

\* strobe2 is the first clk2 cycle in which the latch is seen set.
Strobe2Level(t) == t.strobe_tmp1
Strobe2(t) == t.strobe_tmp1 /\ ~ t.strobe_tmp2

\* rising_edge(clk1): the latch is set by a strobe and cleared once clk2 has it.
LatchForgetful(t, strobe1) == strobe1
LatchSticky(t, strobe1) == strobe1 \/ (t.strobe_latch /\ ~ t.strobe_tmp2)
Latch(t, strobe1) == strobe1 \/ (t.strobe_latch /\ ~ t.strobe_tmp1)
DataFollowing(t, strobe1, dt1) == dt1
DataLatch(t, strobe1, dt1) == IF strobe1 THEN dt1 ELSE t.dt_latch
Edge1(t, rst1, strobe1, dt1) ==
    IF rst1 THEN [t EXCEPT !.strobe_latch = FALSE]
    ELSE [t EXCEPT !.strobe_latch = Latch(t, strobe1),
                   !.dt_latch = DataLatch(t, strobe1, dt1)]

\* rising_edge(clk2), sampling the latch and the data as it finds them.
Edge2(t, latch, data) ==
    [t EXCEPT !.dt2 = data, !.strobe_tmp1 = latch, !.strobe_tmp2 = t.strobe_tmp1]

----------------------------------------------------------------------------
VARIABLES
    t,          \* the registers
    quiet,      \* clk1 edges since the last strobe or reset, capped at GAP
    ahead1,     \* clk1 edges since the last clk2 edge
    ahead2,     \* clk2 edges since the last clk1 edge
    owed,       \* data strobed in clk1 and not yet taken in clk2, oldest first
    torn        \* whether clk2 last caught one of strobe and data old, one new

vars == <<t, quiet, ahead1, ahead2, owed, torn>>

Init ==
    /\ t = PowerUp
    /\ quiet = GAP
    /\ ahead1 = 0
    /\ ahead2 = 0
    /\ owed = << >>
    /\ torn = FALSE

\* What the clk1 side may put on its ports: the user strobes after a gap.
Ports1 == [rst1 : BOOLEAN, strobe1 : IF quiet < GAP THEN {FALSE} ELSE BOOLEAN, dt1 : Data]

\* A reset takes back what clk2 is not about to take.
OwedAfter1(p) ==
    IF p.rst1 THEN (IF Strobe2(t') THEN owed ELSE << >>)
    ELSE IF p.strobe1 THEN Append(owed, p.dt1) ELSE owed

QuietAfter1(p) ==
    IF p.rst1 \/ p.strobe1 THEN 0 ELSE IF quiet < GAP THEN quiet + 1 ELSE GAP

\* The user's register in clk2 takes dt2 at the edge that ends a strobe2 cycle.
Unpaid(queue) == IF Strobe2(t) /\ queue # << >> THEN Tail(queue) ELSE queue

Clk1(p) ==
    /\ ahead1 < RATIO
    /\ t' = Edge1(t, p.rst1, p.strobe1, p.dt1)
    /\ quiet' = QuietAfter1(p)
    /\ ahead1' = ahead1 + 1
    /\ ahead2' = 0
    /\ owed' = OwedAfter1(p)
    /\ UNCHANGED torn

Clk2 ==
    /\ ahead2 < RATIO
    /\ t' = Edge2(t, t.strobe_latch, t.dt_latch)
    /\ ahead1' = 0
    /\ ahead2' = ahead2 + 1
    /\ owed' = Unpaid(owed)
    /\ torn' = FALSE
    /\ UNCHANGED quiet

\* Both edges at once: clk1 acts on the registers as they were, clk2 catches
\* each of the two crossing signals either before or after they change.
Together(p) ==
    /\ ahead1 < RATIO
    /\ ahead2 < RATIO
    /\ LET s == Edge1(t, p.rst1, p.strobe1, p.dt1)
       IN  \E latch \in {t.strobe_latch, s.strobe_latch}, data \in {t.dt_latch, s.dt_latch} :
             /\ t' = Edge2([s EXCEPT !.strobe_tmp1 = t.strobe_tmp1], latch, data)
             /\ torn' = (<<latch, data>> \notin {<<t.strobe_latch, t.dt_latch>>,
                                                <<s.strobe_latch, s.dt_latch>>})
    /\ quiet' = QuietAfter1(p)
    /\ ahead1' = 0
    /\ ahead2' = 0
    /\ owed' = IF Strobe2(t) /\ p.rst1 THEN << >> ELSE Unpaid(OwedAfter1(p))

Next ==
    \/ \E p \in Ports1 : Clk1(p)
    \/ Clk2
    \/ \E p \in Ports1 : Together(p)

Spec == Init /\ [][Next]_vars

\* Both clocks run for ever.
FairSpec ==
    /\ Spec
    /\ WF_vars(\E p \in Ports1 : Clk1(p) \/ Together(p))
    /\ WF_vars(Clk2 \/ \E p \in Ports1 : Together(p))

----------------------------------------------------------------------------
\* Type correctness.  One datum at most is owed: no strobe is merged with the
\* next one, because the user's gap lets the handshake of the latch finish
\* before the latch is set again.
TypeOK ==
    /\ t \in Registers
    /\ quiet \in 0 .. GAP
    /\ ahead1 \in 0 .. RATIO
    /\ ahead2 \in 0 .. RATIO
    /\ owed \in {<< >>} \cup {<<d>> : d \in Data}
    /\ torn \in BOOLEAN

\* A strobe that clk2 presents is one that clk1 made and that has not been
\* presented before: the latch staying up for several edges gives one pulse.
NoGhostStrobe == Strobe2(t) => owed # << >>

\* The data presented with the strobe is the data strobed ("state signal ->
\* simple crossing ok"), unless clk2 caught the latch and its data apart: the two
\* registers have no synchroniser and rise at the same edge.
DataWithStrobe == Strobe2(t) /\ ~ torn => owed = <<t.dt2>>

\* Every strobe reaches clk2 (or is taken back by a reset).
EveryStrobeArrives == (owed # << >>) ~> (owed = << >>)
============================================================================
