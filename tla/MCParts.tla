------------------------------- MODULE MCParts -------------------------------
(***************************************************************************)
(* The parts of the soft processor's board support, and of the receiver's  *)
(* filter and oscillator, that share nothing: Spi, EpcsFlash, Irq, Alarms, *)
(* Files, Cic, CicStreams and Nco.  One is chosen at the start, and the    *)
(* others stay as they are.                                                *)
(* Names without a ! before them are those of Spi, EpcsFlash, Irq, Files   *)
(* and Alarms.                                                             *)
(***************************************************************************)
EXTENDS Spi, EpcsFlash, Irq, Files, Alarms

VARIABLES
    part,
    filter_type, rounding_type, input, data, stage,
    streams_type, file, reset_start, current_rate, rates, step, at, output,
    setup, samples, phi_acc, phi_acc_held, sample, total, wanted

cicVars == <<filter_type, rounding_type, input, data, stage>>
streamVars == <<streams_type, file, reset_start, current_rate, rates, step, at, output>>
ncoVars == <<setup, samples, phi_acc, phi_acc_held, sample, total, wanted>>
mcVars == <<part, vars, flashVars, irqVars, alarmVars, fileVars, cicVars, streamVars, ncoVars>>

ASSUME SpiAssumption

\* Data for the flash chip that is not aligned to its pages.
MCData == {<<{}, {}, {0}>>}

Cic == INSTANCE Cic WITH
    N_stages <- 2, D_Delay <- 1, rate <- 2, WIDTH <- 6, B_in <- 2, B_out <- 3, LENGTH <- 8,
    i <- stage

\* Periods of up to seven cycles for four channels: some get one sample more than others.
Streams == INSTANCE CicStreams WITH
    N_stages <- 1, interfaces <- 2, channels <- 2, RATES <- {2, 3}, LINES <- 7,
    filter_type <- streams_type

\* Every architecture; phases of more and of fewer bits than a dithered address has; one
\* channel or two.
Setup(arch, apr, aprp, dpri, wantFmod, wantPmod, numch) ==
    [arch |-> arch, apr |-> apr, apri |-> 5, aprp |-> aprp, dpri |-> dpri,
     wantFmod |-> wantFmod, wantPmod |-> wantPmod, numch |-> numch,
     rom_cordic |-> <<8, 4, 2, 1, 0, 0>>]      \* arc tangents of 2^-k, of 64 to a turn
Setups ==
    {Setup(a, r, p, d[1], d[2], m, c) :
        a \in 0 .. 3, r \in {7, 11}, p \in {6, 11}, d \in {<<0, 0>>, <<4, 0>>, <<4, 2>>},
        m \in {0, 1}, c \in {1, 2}}
    \cup {Setup(a, r, p, d[1], d[2], m, 1) :
        a \in {4, 25}, r \in {7, 11}, p \in {6, 11}, d \in {<<0, 0>>, <<4, 1>>}, m \in {0, 1}}
Nco == INSTANCE Nco WITH
    Increments <- {3, 125}, Phases <- {0, 37}, FINE <- 12, N <- 3, i <- samples
ASSUME Nco!NcoAssumption

----------------------------------------------------------------------------
Idles(p) ==
    /\ p # "spi" => ~ rrdy
    /\ p # "flash" => chip.kind = "EPCS1"
    /\ p # "streams" => streams_type = "Decimator"
    /\ p # "nco" => setup = Setup(0, 7, 6, 0, 0, 0, 1)

MCInit ==
    /\ part \in {"spi", "flash", "irq", "alarms", "files", "cic", "streams", "nco"}
    /\ Init /\ FlashInit /\ IrqInit /\ AlarmsInit /\ FilesInit /\ Streams!Init /\ Nco!Init
    /\ IF part = "cic" THEN Cic!Init
       ELSE /\ filter_type = "Decimator" /\ rounding_type = "TRUNCATE" /\ stage = 0
            /\ input = [n \in 0 .. 7 |-> 0] /\ data = input
    /\ Idles(part)

InSpi == Next /\ UNCHANGED <<flashVars, irqVars, alarmVars, fileVars, cicVars, streamVars, ncoVars>>
InFlash == FlashNext /\ UNCHANGED <<vars, irqVars, alarmVars, fileVars, cicVars, streamVars, ncoVars>>
InIrq == IrqNext /\ UNCHANGED <<vars, flashVars, alarmVars, fileVars, cicVars, streamVars, ncoVars>>
InAlarms == AlarmsNext /\ UNCHANGED <<vars, flashVars, irqVars, fileVars, cicVars, streamVars, ncoVars>>
InFiles == FilesNext /\ UNCHANGED <<vars, flashVars, irqVars, alarmVars, cicVars, streamVars, ncoVars>>
InCic == Cic!Next /\ UNCHANGED <<vars, flashVars, irqVars, alarmVars, fileVars, streamVars, ncoVars>>
InStreams == Streams!Next /\ UNCHANGED <<vars, flashVars, irqVars, alarmVars, fileVars, cicVars, ncoVars>>
InNco == Nco!Next /\ UNCHANGED <<vars, flashVars, irqVars, alarmVars, fileVars, cicVars, streamVars>>

\* execute_CIC, the program around it, or Sncomodel is over.
Over ==
    /\ part = "cic" => stage > 2 * 2
    /\ part = "streams" => step \in {"done", "aborted"}
    /\ part = "nco" => samples = 3
    /\ UNCHANGED <<vars, flashVars, irqVars, alarmVars, fileVars, cicVars, streamVars, ncoVars>>

MCNext ==
    /\ UNCHANGED part
    /\ \/ part = "spi" /\ InSpi
       \/ part = "flash" /\ InFlash
       \/ part = "irq" /\ InIrq
       \/ part = "alarms" /\ InAlarms
       \/ part = "files" /\ InFiles
       \/ part = "cic" /\ InCic
       \/ part = "streams" /\ InStreams
       \/ part = "nco" /\ InNco
       \/ part \in {"cic", "streams", "nco"} /\ Over

\* The fairness of each part's FairSpec; only the flash driver has something to do at
\* the start.
MCSpec ==
    /\ MCInit /\ [][MCNext]_mcVars
    /\ WF_vars(Load) /\ WF_vars(Shifted) /\ WF_vars(Continues)
    /\ WF_flashVars(Done) /\ WF_flashVars(part = "flash" /\ FlashContinues)
    /\ WF_irqVars(IrqContinues)
    /\ WF_alarmVars(Skip \/ CallBack)

----------------------------------------------------------------------------
\* Every SPI command, every call of the flash driver and every alt_tick comes to its end,
\* and the interrupt of the highest priority is served.
EveryCallReturns ==
    LET underWay == UnderWay \/ (part = "flash" /\ FlashUnderWay) \/ TickUnderWay \/ FirstWaits
    IN  underWay ~> ~ underWay

\* Of Cic: wrapping sums are exact in words wide enough, and rounding is to the nearest.
FilterExact == Cic!WrapsRight /\ (part = "cic" => Cic!RoundsToNearest)

\* Of CicStreams: every channel is filtered apart and takes its turn at the output.
StreamsApart == Streams!StreamsApart

\* Of Nco: every channel gets the tone it asked for, in every architecture.
InPhase == part = "nco" => Nco!InPhase
==============================================================================
