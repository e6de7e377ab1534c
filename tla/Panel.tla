------------------------------- MODULE Panel -------------------------------
(***************************************************************************)
(* The front panel, ua3reo.ino, and the FPGA's command loop, NiosMain, at  *)
(* the two ends of a UART.                                                 *)
(*                                                                         *)
(* main      setup() and loop(): they send a command, read the answer and  *)
(*           repeat it until the answer is the value wanted                *)
(* Rotated, Clicked   the interrupts of the encoder and its button: they   *)
(*           write what main reads, between any two accesses of main       *)
(* up, down  bytes under way to the FPGA, characters under way to the      *)
(*           panel; each may lose some                                     *)
(*                                                                         *)
(* Frequencies are counted in steps; PER is the phrase of a step (the code *)
(* computes freq / 50000000 * 2^22 and back in floating point).            *)
(***************************************************************************)
EXTENDS NiosMain, Integers

CONSTANTS
    PER,            \* phrase of one step of frequency
    FMAX,           \* bound on the frequency
    STEPS,          \* what a turn adds under MENU_FREQ_HZ, _KHZ and _MHZ
    TURNS,          \* bound on the turns of the encoder
    LOST_UP,        \* bound on bytes lost on the way to the FPGA
    LOST_DOWN,      \* bound on characters lost on the way to the panel
    RX_SIZE         \* characters the panel's receive buffer holds

ASSUME PanelAssumption ==
    /\ {PER, FMAX, TURNS, LOST_UP, LOST_DOWN, RX_SIZE} \subseteq Nat
    /\ PER > 0 /\ FMAX > 0 /\ PER * FMAX \in Phrases
    /\ RX_SIZE >= 5     \* the longest answer the panel waits for
    /\ STEPS \in [1 .. 3 -> Nat \ {0}]

VARIABLES
    pc, call,               \* where main is; the command it is carrying out
    freq, freq_phrase, freq_phrase_new,
    mode, mode_new,
    menu_control_current,
    up, down,
    fpga,                   \* the registers of NiosMain
    turns, lost             \* turns so far; characters lost so far

mainVars == <<pc, call>>
panelVars == <<freq, freq_phrase, freq_phrase_new, mode, mode_new, menu_control_current>>
vars == <<mainVars, panelVars, up, down, fpga, turns, lost>>

MENU_MODE == 4
Phrase(f) == PER * f
FrequencyFromPhrase(phrase) == phrase \div PER

\* A command: what is still to be sent, the string read so far, the answer.
NewCall(kind, bytes) == [kind |-> kind, out |-> bytes, in |-> << >>, answer |-> 0]
GetFrequency == NewCall("getFrequency", <<5>>)
GetMode == NewCall("getMode", <<7>>)
SetFrequency(phrase) == NewCall("setFrequency", <<6>> \o Bytes(phrase))
SetMode(m) == NewCall("setMode", <<8, m>>)

\* The panel starts, alone or together with the FPGA.
Init ==
    /\ pc = "send" /\ call = GetFrequency
    /\ freq = 1 /\ freq_phrase = Phrase(1) /\ freq_phrase_new = Phrase(1)
    /\ mode = 1 /\ mode_new = 1
    /\ menu_control_current = 1
    /\ up = << >> /\ down = << >>
    /\ \E f \in 0 .. FMAX, m \in 0 .. 1 : fpga = NiosBoot(Phrase(f), m)
    /\ turns = 0 /\ lost = [up |-> 0, down |-> 0]

----------------------------------------------------------------------------
(* The commands: FPGASerial.write, readUARTString, readUARTByte             *)

Send ==
    /\ pc = "send"
    /\ up' = Append(up, Head(call.out))
    /\ call' = [call EXCEPT !.out = Tail(call.out)]
    /\ pc' = IF Len(call.out) > 1 THEN "send" ELSE "read"
    /\ UNCHANGED <<panelVars, down, fpga, turns, lost>>

ReadsString == call.kind \in {"getFrequency", "setFrequency"}

\* strtol(..., 16): the value of the hexadecimal digits the string starts with, or the
\* highest one there is; "TIMEOUT" has none, and "command not defined" has one, c.
HexStringToInt(string) ==
    LET ends == {i \in DOMAIN string : string[i][1] # "hex"}
        digits == IF ends = {} THEN string
                  ELSE SubSeq(string, 1, (CHOOSE i \in ends : \A j \in ends : i <= j) - 1)
        FromLast(k) == IF k < Len(digits) THEN digits[Len(digits) - k][2] ELSE 0
    IN  IF string # << >> /\ string[1][1] = "text" THEN 12
        ELSE IF \E i \in 1 .. Len(digits) - 4 : digits[i][2] # 0 THEN MaxPhrase
        ELSE PhraseOf(<<FromLast(3), FromLast(2), FromLast(1), FromLast(0)>>)

Read ==
    /\ pc = "read" /\ down # << >>
    /\ down' = Tail(down)
    /\ IF ReadsString /\ Head(down) # NL
       THEN call' = [call EXCEPT !.in = Append(call.in, Head(down))] /\ pc' = pc
       ELSE /\ pc' = call.kind
            /\ call' = [call EXCEPT !.in = << >>, !.answer =
                          IF ReadsString THEN HexStringToInt(call.in)
                          ELSE IF Head(down)[1] = "raw" THEN Head(down)[2] ELSE BYTE - 2]
    /\ UNCHANGED <<panelVars, up, fpga, turns, lost>>

\* uart_timeout is far longer than an answer takes: it passes when none is coming.
\* The answer is then the value of "TIMEOUT", or of read() = -1.
TimedOut == IF ReadsString THEN 0 ELSE BYTE - 1

Timeout ==
    /\ pc = "read" /\ down = << >> /\ up = << >>
    /\ pc' = call.kind
    /\ call' = [call EXCEPT !.in = << >>, !.answer = TimedOut]
    /\ UNCHANGED <<panelVars, up, down, fpga, turns, lost>>

----------------------------------------------------------------------------
(* setup() after the answers                                                *)

GotFrequency ==
    /\ pc = "getFrequency"
    /\ freq_phrase' = call.answer
    /\ pc' = "setup_new"
    /\ UNCHANGED <<call, freq, freq_phrase_new, mode, mode_new, menu_control_current>>

SetupNew ==
    /\ pc = "setup_new"
    /\ freq_phrase_new' = freq_phrase
    /\ pc' = "setup_freq"
    /\ UNCHANGED <<call, freq, freq_phrase, mode, mode_new, menu_control_current>>

SetupFreq ==
    /\ pc = "setup_freq"
    /\ freq' = FrequencyFromPhrase(freq_phrase)
    /\ call' = GetMode
    /\ pc' = "send"
    /\ UNCHANGED <<freq_phrase, freq_phrase_new, mode, mode_new, menu_control_current>>

\* getMode() returns res, which nothing has assigned the answer to.
GotMode ==
    /\ pc = "getMode"
    /\ mode' = 0
    /\ pc' = "loop"
    /\ UNCHANGED <<call, freq, freq_phrase, freq_phrase_new, mode_new, menu_control_current>>

----------------------------------------------------------------------------
(* loop(): every access to a variable the interrupts write is a step        *)

Loop ==
    /\ pc = "loop"
    /\ pc' = IF freq_phrase # freq_phrase_new THEN "call_frequency" ELSE "loop_mode"
    /\ UNCHANGED <<call, panelVars>>

CallFrequency ==
    /\ pc = "call_frequency"
    /\ call' = SetFrequency(freq_phrase_new)
    /\ pc' = "send"
    /\ UNCHANGED panelVars

AnsweredOld == call.answer = freq_phrase
\* while (freq_from_uart != freq_phrase_new)
Answered == call.answer = freq_phrase_new

FrequencyAnswered ==
    /\ pc = "setFrequency"
    /\ pc' = IF Answered THEN "store_frequency" ELSE "call_frequency"
    /\ UNCHANGED <<call, panelVars>>

StoreFrequency ==
    /\ pc = "store_frequency"
    /\ freq_phrase' = freq_phrase_new
    /\ pc' = "loop_mode"
    /\ UNCHANGED <<call, freq, freq_phrase_new, mode, mode_new, menu_control_current>>

LoopMode ==
    /\ pc = "loop_mode"
    /\ pc' = IF mode # mode_new THEN "call_mode" ELSE "loop"
    /\ UNCHANGED <<call, panelVars>>

CallMode ==
    /\ pc = "call_mode"
    /\ call' = SetMode(mode_new)
    /\ pc' = "send"
    /\ UNCHANGED panelVars

ModeAnswered ==
    /\ pc = "setMode"
    /\ pc' = IF call.answer = mode_new THEN "store_mode" ELSE "call_mode"
    /\ UNCHANGED <<call, panelVars>>

StoreMode ==
    /\ pc = "store_mode"
    /\ mode' = mode_new
    /\ pc' = "loop"
    /\ UNCHANGED <<call, freq, freq_phrase, freq_phrase_new, mode_new, menu_control_current>>

Main ==
    \/ Send \/ Read \/ Timeout
    \/ /\ \/ GotFrequency \/ SetupNew \/ SetupFreq \/ GotMode
          \/ Loop \/ CallFrequency \/ FrequencyAnswered \/ StoreFrequency
          \/ LoopMode \/ CallMode \/ ModeAnswered \/ StoreMode
       /\ UNCHANGED <<up, down, fpga, turns, lost>>

----------------------------------------------------------------------------
(* The interrupts                                                           *)

\* mode_new is a byte: 0 - 1 is 255, which is then above 1 and never below 0.
TurnedMode(direction) ==
    LET m == (mode + direction) % BYTE IN IF m > 1 THEN 0 ELSE m

Rotated(direction) ==
    /\ turns < TURNS
    /\ turns' = turns + 1
    /\ IF menu_control_current = MENU_MODE
       THEN /\ mode_new' = TurnedMode(direction)
            /\ UNCHANGED <<freq, freq_phrase_new>>
       ELSE LET turned == freq + direction * STEPS[menu_control_current]
            IN  /\ turned <= FMAX
                /\ freq' = IF turned < 0 THEN 0 ELSE turned
                /\ freq_phrase_new' = Phrase(freq')
                /\ UNCHANGED mode_new
    /\ UNCHANGED <<mainVars, freq_phrase, mode, menu_control_current, up, down, fpga, lost>>

\* A click that debouncing lets through.
Clicked ==
    /\ turns < TURNS
    /\ menu_control_current' = (menu_control_current % 4) + 1
    /\ UNCHANGED <<mainVars, freq, freq_phrase, freq_phrase_new, mode, mode_new, up, down,
                   fpga, turns, lost>>

----------------------------------------------------------------------------
(* The other end and the wires                                              *)

\* The receive buffer drops what it has no room for.
Nios ==
    /\ up # << >>
    /\ LET step == NiosStep(fpga, Head(up))
           sent == down \o step.say
       IN  /\ fpga' = step.to
           /\ down' = SubSeq(sent, 1, IF Len(sent) < RX_SIZE THEN Len(sent) ELSE RX_SIZE)
    /\ up' = Tail(up)
    /\ UNCHANGED <<mainVars, panelVars, turns, lost>>

LoseUp ==
    /\ up # << >> /\ lost.up < LOST_UP
    /\ up' = Tail(up)
    /\ lost' = [lost EXCEPT !.up = lost.up + 1]
    /\ UNCHANGED <<mainVars, panelVars, down, fpga, turns>>

LoseDown ==
    /\ down # << >> /\ lost.down < LOST_DOWN
    /\ down' = Tail(down)
    /\ lost' = [lost EXCEPT !.down = lost.down + 1]
    /\ UNCHANGED <<mainVars, panelVars, up, fpga, turns>>

Next ==
    \/ Main \/ Nios
    \/ \E direction \in {-1, 1} : Rotated(direction)
    \/ Clicked \/ LoseUp \/ LoseDown

Spec == Init /\ [][Next]_vars

\* Both processors go on running; the operator and the noise need not go on.
FairSpec == Spec /\ WF_vars(Main) /\ WF_vars(Nios)

----------------------------------------------------------------------------
(* Properties                                                               *)

Idle == pc \in {"loop", "loop_mode"}

TypeOK ==
    /\ freq \in 0 .. FMAX /\ freq_phrase \in Phrases /\ freq_phrase_new \in Phrases
    /\ mode \in 0 .. 1 /\ mode_new \in 0 .. 1 /\ menu_control_current \in 1 .. 4
    /\ up \in Seq(0 .. BYTE - 1) /\ Len(down) <= RX_SIZE
    /\ fpga.phrase \in Phrases /\ fpga.mode \in 0 .. 1
    /\ fpga.got \in Seq(0 .. BYTE - 1) /\ Len(fpga.got) < 4

\* Command and answer stay in step: between two commands nothing is under way and
\* the FPGA waits for a command, however the interrupts fall.  Losing characters of
\* answers does not upset this; losing bytes of commands does.
InStep == (pc \notin {"send", "read"}) => up = << >> /\ down = << >> /\ fpga.wait = "command"

\* InStep until a byte of a command is lost; every variable keeps its range whatever is.
InStepWithoutLosses == TypeOK /\ (lost.up = 0 => InStep)

\* A frequency the panel is about to store as the current one is held by the FPGA
\* then, and so is a mode: no stale, cut or timed out answer passes for the one that
\* was waited for.
AcceptedIsHeld ==
    /\ pc = "setFrequency" /\ Answered => fpga.phrase = freq_phrase_new
    /\ pc = "setMode" /\ call.answer = mode_new => fpga.mode = mode_new

\* AcceptedIsHeld until something is lost: a cut answer may be what the encoder was
\* turned to meanwhile.
AcceptedIsHeldWithoutLosses == lost = [up |-> 0, down |-> 0] => AcceptedIsHeld

\* The panel retries until the FPGA has what the operator last chose: once the
\* turning stops, loop() comes to rest with nothing left to send.
ComesToRest == <>[](Idle /\ freq_phrase = freq_phrase_new /\ mode = mode_new)

\* When loop() has nothing to send, the FPGA is tuned to what the panel shows.
TunedToWhatIsShown ==
    pc = "loop" /\ freq_phrase = freq_phrase_new /\ mode = mode_new =>
      fpga.phrase = freq_phrase /\ fpga.mode = mode
============================================================================
