--------------------------------- MODULE Nco ---------------------------------
(***************************************************************************)
(* The numerically controlled oscillator that mixes the signal down, as    *)
(* nco_model.cpp gives it: the bit-true model of the core, in its six      *)
(* architectures.                                                          *)
(*                                                                         *)
(* All of it is about the phase: it is accumulated for several channels in *)
(* turn, dithered, modulated, cut to an address, and the address is folded *)
(* into an octant or a quadrant.  So a sample is not the value of a sine   *)
(* but the pair of table entries, with their signs, that the code picks    *)
(* for sine and cosine, and the angle the entries stand for.               *)
(***************************************************************************)
EXTENDS Integers, Sequences

CONSTANTS
    Setups,         \* records of the arguments of Sncomodel()
    Increments,     \* of phi_inc_i and freq_mod_i
    Phases,         \* of phase_mod_i
    FINE,           \* bits of an angle, no fewer than of any phase
    N               \* samples

VARIABLES
    setup,
    i,              \* samples made
    phi_acc, phi_acc_held,
    sample,         \* [sin, cos: <<sign, table>>, angle], the last one
    total, wanted   \* what was asked for: of each channel so far, and for the last sample

vars == <<setup, i, phi_acc, phi_acc_held, sample, total, wanted>>

apr == setup.apr
apri == setup.apri
aprp == setup.aprp
aprid == apri + 5
max_acc == 2 ^ apr

\* The phase modulation is no coarser than the address: where it is, ROM addresses without
\* dither add it at the wrong end (line 371), and the others do not.
NcoAssumption ==
    \A s \in Setups : /\ s.aprp >= s.apri /\ s.apr >= s.apri /\ s.numch \in 1 .. 8
                      /\ FINE >= s.apr /\ FINE >= s.aprp /\ FINE > s.apri + 5

----------------------------------------------------------------------------
(* The dither: a shift register of 16 bits                                  *)

Xor(a, b) == (a + b) % 2

\* reg after n samples.
Reg[n \in 0 .. N + 2] ==
    IF n = 0 THEN <<1, 0, 1, 1, 1, 0, 1, 1, 0, 1, 0, 1, 1, 0, 0, 1>>
    ELSE LET old == Reg[n - 1]
         IN  <<Xor(Xor(old[16], old[15]), Xor(old[13], old[4]))>> \o SubSeq(old, 1, 15)

\* Its last dpri bits, the highest of which is a sign.
ditherSequence(n) ==
    LET dpri == setup.dpri
        Bits[k \in 0 .. dpri] == IF k = 0 THEN 0 ELSE Bits[k - 1] + Reg[n][16 - dpri + k] * 2 ^ (k - 1)
    IN  Bits[dpri] - (IF Reg[n][16] = 1 THEN 2 ^ dpri - 1 ELSE 0)

----------------------------------------------------------------------------
(* From the phase to an address                                             *)

\* x, of that many bits a turn, with so many bits a turn.
Scaled(x, from, to) == IF to >= from THEN x * 2 ^ (to - from) ELSE x \div 2 ^ (from - to)

Dithered ==
    LET addr == Scaled(phi_acc, apr, aprid) + ditherSequence(i + setup.wantFmod)
    IN  IF addr < 0 THEN addr + 2 ^ aprid ELSE addr

\* The address, of so many bits; ROMs have apri of them, the CORDIC one more.
Address(bits, phase_mod) ==
    LET width == IF setup.dpri > 0 THEN aprid ELSE bits
        addr == IF setup.dpri > 0 THEN Dithered ELSE Scaled(phi_acc, apr, bits)
    IN  (IF setup.wantPmod = 1 THEN Scaled(Scaled(addr, width, aprp) + phase_mod, aprp, bits)
         ELSE Scaled(addr, width, bits)) % 2 ^ bits

\* The accumulators of the channels go round in phi_acc_held; more than one turn may have
\* been added, and one is taken off.
AccumulateMixed(added) ==
    LET sum == phi_acc + added
    IN  <<sum, <<sum>> \o SubSeq(phi_acc_held, 1, setup.numch - 1)>>
Accumulate(added) ==
    LET sum == phi_acc + added
        held == IF setup.numch = 1 THEN phi_acc_held
                ELSE <<sum>> \o SubSeq(phi_acc_held, 1, setup.numch - 1)
    IN  <<IF setup.numch = 1 THEN sum ELSE held[setup.numch], held>>

Accumulated(added) ==
    /\ phi_acc' = LET x == Accumulate(added)[1] IN IF x >= max_acc THEN x - max_acc ELSE x
    /\ phi_acc_held' = Accumulate(added)[2]
AccumulatedModulo(added) ==
    /\ phi_acc' = Accumulate(added)[1] % max_acc
    /\ phi_acc_held' = Accumulate(added)[2]
\* SerialCordic and the half-rate expansion have one channel.
AccumulatedAlone(added) ==
    /\ phi_acc' = (phi_acc + added) % max_acc
    /\ UNCHANGED phi_acc_held

----------------------------------------------------------------------------
(* From the address to a sample                                             *)

\* The eight cases of the table of an octant.
Octant(segment) ==
    LET swapped == segment \in {1, 2, 5, 6}
        below == segment >= 4
        left == segment \in 2 .. 5
    IN  [sin |-> <<IF below THEN -1 ELSE 1, IF swapped THEN "cos" ELSE "sin">>,
         cos |-> <<IF left THEN -1 ELSE 1, IF swapped THEN "sin" ELSE "cos">>]

Picked(pair, angle) == sample' = [sin |-> pair.sin, cos |-> pair.cos, angle |-> angle]

\* Octants with an odd number are read backwards.
Folded(addr) ==
    LET max_addr == 2 ^ (apri - 3)
        segment == addr \div max_addr
        back == addr % max_addr
    IN  Picked(Octant(segment),
               Scaled(IF segment % 2 = 0 THEN back ELSE max_addr - back - 1, apri, FINE))

Straight == [sin |-> <<1, "sin">>, cos |-> <<1, "cos">>]

\* Two tables, one of coarse and one of fine angles, whose sine and cosine are expanded.
Expanded(addr) ==
    LET max_addr_lsb == 2 ^ ((apri + 1) \div 2)
        max_addr_msb == 2 ^ (apri \div 2)
        addr_lsb == addr % max_addr_lsb
        addr_msb == (addr \div max_addr_lsb) % max_addr_msb
    IN  Picked(Straight, Scaled(addr_msb, apri \div 2, FINE) + Scaled(addr_lsb, apri, FINE))

\* The vector after the first k rotations: <<what is left of the angle, the angle turned>>.
Rotated(a, rom_cordic) ==
    LET R[k \in 0 .. Len(rom_cordic)] ==
            IF k = 0 THEN <<a, 0>>
            ELSE LET by == IF R[k - 1][1] >= 0 THEN rom_cordic[k] ELSE -rom_cordic[k]
                 IN  <<R[k - 1][1] - by, R[k - 1][2] + by>>
    IN  R[Len(rom_cordic)]

\* y and x of the vector, given to sine and cosine by the quadrant.
Quadrant(q) ==
    CASE q = 0 -> [sin |-> <<1, "sin">>, cos |-> <<1, "cos">>]
      [] q = 1 -> [sin |-> <<1, "cos">>, cos |-> <<-1, "sin">>]
      [] q = 2 -> [sin |-> <<-1, "sin">>, cos |-> <<-1, "cos">>]
      [] q = 3 -> [sin |-> <<-1, "cos">>, cos |-> <<1, "sin">>]
Turned(addr) ==
    LET half_max_addr == 2 ^ (apri - 1)
    IN  Picked(Quadrant(addr \div half_max_addr),
               Rotated(addr % half_max_addr, setup.rom_cordic)[2] * 2 ^ (FINE - apri - 1))

----------------------------------------------------------------------------
Init ==
    /\ setup \in Setups
    /\ i = 0 /\ phi_acc = 0 /\ phi_acc_held = [k \in 1 .. setup.numch |-> 0]
    /\ sample = [sin |-> <<1, "sin">>, cos |-> <<1, "cos">>, angle |-> 0]
    /\ total = [c \in 0 .. setup.numch - 1 |-> 0] /\ wanted = 0

\* What the caller asks of a sample, in angles of FINE bits.
Asked(added, phase_mod) ==
    LET c == i % setup.numch
        turn == IF setup.wantPmod = 1 THEN Scaled(phase_mod, aprp, FINE) ELSE 0
    IN  /\ wanted' = (Scaled(total[c], apr, FINE) + turn) % 2 ^ FINE
        /\ total' = [total EXCEPT ![c] = (@ + added) % max_acc]
        /\ i' = i + 1 /\ UNCHANGED setup

SmallRom(added, phase_mod) ==
    /\ setup.arch = 0
    /\ Folded(Address(apri, phase_mod)) /\ Accumulated(added)

LargeRom(added, phase_mod) ==
    /\ setup.arch = 1
    /\ Picked(Straight, Scaled(Address(apri, phase_mod), apri, FINE))
    /\ Accumulated(added)

TrigExpansion(added, phase_mod) ==
    /\ setup.arch = 2
    /\ Expanded(Address(apri, phase_mod)) /\ Accumulated(added)

\* The architecture 2.5 of the code.
HalfExpansion(added, phase_mod) ==
    /\ setup.arch = 25
    /\ Expanded(Address(apri, phase_mod)) /\ AccumulatedAlone(added)

ParallelCordic(added, phase_mod) ==
    /\ setup.arch = 3
    /\ Turned(Address(apri + 1, phase_mod)) /\ AccumulatedModulo(added)

SerialCordic(added, phase_mod) ==
    /\ setup.arch = 4
    /\ Turned(Address(apri + 1, phase_mod)) /\ AccumulatedAlone(added)

Sample(added, phase_mod) ==
    \/ SmallRom(added, phase_mod) \/ LargeRom(added, phase_mod)
    \/ TrigExpansion(added, phase_mod) \/ HalfExpansion(added, phase_mod)
    \/ ParallelCordic(added, phase_mod) \/ SerialCordic(added, phase_mod)

Next ==
    \E phi_inc, freq_mod \in Increments, phase_mod \in Phases :
        /\ i < N /\ phi_inc < max_acc /\ freq_mod < max_acc /\ phase_mod < 2 ^ aprp
        /\ Sample(phi_inc + freq_mod, phase_mod)
        /\ Asked(phi_inc + freq_mod, phase_mod)

Spec == Init /\ [][Next]_vars

----------------------------------------------------------------------------
(* Properties                                                               *)

\* The pair a whole turn's quarter q and an angle of sign s give: what sine and cosine of
\* q * 90 degrees + s * angle are.
Pair(q, s) ==
    CASE q = 0 -> <<<<s, "sin">>, <<1, "cos">>>>
      [] q = 1 -> <<<<1, "cos">>, <<-s, "sin">>>>
      [] q = 2 -> <<<<-s, "sin">>, <<-1, "cos">>>>
      [] q = 3 -> <<<<-1, "cos">>, <<s, "sin">>>>

\* Sample and request are this far apart, or less, on the circle.
Within(angle, distance) ==
    \E d \in -distance .. distance : (angle + d) % 2 ^ FINE = wanted

\* Steps of the address the sample may be off by: the phase is cut to an address, once
\* more when it is modulated, and an octant read backwards starts at its last entry.  The
\* CORDIC's address is finer, and its last angles are cut to nothing.
StepsOff == 1 + setup.wantPmod

\* Every channel gets its own tone: sine and cosine belong to one angle, and it is the sum
\* of the channel's increments plus the modulation, to within a step of the address and
\* the dither, whatever the architecture and however often the phase has gone round.
InPhase ==
    \E q \in 0 .. 3, s \in {-1, 1} :
        /\ Pair(q, s) = <<sample.sin, sample.cos>>
        /\ Within(q * 2 ^ (FINE - 2) + s * sample.angle,
                  StepsOff * 2 ^ (FINE - apri)
                    + (IF setup.dpri = 0 THEN 0 ELSE 2 ^ (setup.dpri - 1 + FINE - aprid)))
==============================================================================
