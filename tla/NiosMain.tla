------------------------------ MODULE NiosMain ------------------------------
(***************************************************************************)
(* main.c of ua3reo_nios: the command loop of the soft processor in the    *)
(* FPGA.  It takes one byte at a time from the UART and answers; nothing   *)
(* in the protocol marks where a command starts.  A byte is a number below *)
(* BYTE, four of them make a phrase.  A character of an answer is          *)
(* <<"hex", d>> or <<"nl", 0>> of the %x\n answers, <<"raw", b>> of the %c *)
(* ones, and <<"text", 0>>, which stands for "command not defined".        *)
(***************************************************************************)
EXTENDS Naturals, Sequences

CONSTANT BYTE       \* 256 in the code; 16 is enough for the commands

ASSUME NiosAssumption == BYTE \in Nat /\ BYTE >= 16

MaxPhrase == BYTE * BYTE * BYTE * BYTE - 1
Phrases == 0 .. MaxPhrase

\* The bytes of a phrase, highest first, and the phrase of four bytes.
Bytes(phrase) ==
    LET above4 == phrase \div BYTE
        above3 == above4 \div BYTE
        above2 == above3 \div BYTE
    IN  <<above2 % BYTE, above3 % BYTE, above4 % BYTE, phrase % BYTE>>
PhraseOf(b) == BYTE * (BYTE * (BYTE * b[1] + b[2]) + b[3]) + b[4]

NL == <<"nl", 0>>
\* alt_printf("%x\n", phrase), of alt_printf.c: no leading zeros.  (One digit stands for a byte.)
Hex(phrase) ==
    LET b == Bytes(phrase)
        first == CHOOSE i \in 1 .. 4 :
                   (b[i] # 0 \/ i = 4) /\ \A j \in 1 .. i - 1 : b[j] = 0
    IN  [i \in 1 .. 5 - first |-> <<"hex", b[first + i - 1]>>] \o <<NL>>
RawLine(b) == << <<"raw", b>>, NL>>
Raw(b) == << <<"raw", b>> >>
NotDefined == << <<"text", 0>>, NL>>

\* What the loop is waiting for, and the two outputs it drives.
NiosBoot(phrase, mode) == [wait |-> "command", got |-> << >>, phrase |-> phrase, mode |-> mode]

SetEchoed(m, phrase) == [m EXCEPT !.wait = "command", !.got = << >>]
Set(m, phrase) == [m EXCEPT !.wait = "command", !.got = << >>, !.phrase = phrase]

\* The switch, and the further alt_getchar() calls of its cases.
Command(m, byte) ==
    CASE byte = 5 -> [to |-> m, say |-> Hex(m.phrase)]
      [] byte = 6 -> [to |-> [m EXCEPT !.wait = "phrase"], say |-> << >>]
      [] byte = 7 -> [to |-> m, say |-> Raw(m.mode)]
      [] byte = 8 -> [to |-> [m EXCEPT !.wait = "mode"], say |-> << >>]
      [] OTHER -> [to |-> m, say |-> NotDefined]

PhraseByte(m, byte) ==
    LET got == Append(m.got, byte)
    IN  IF Len(got) < 4 THEN [to |-> [m EXCEPT !.got = got], say |-> << >>]
        ELSE [to |-> Set(m, PhraseOf(got)), say |-> Hex(PhraseOf(got))]

Limited(byte) == IF byte > 1 THEN 0 ELSE byte

ModeByte(m, byte) ==
    [to |-> [m EXCEPT !.wait = "command", !.mode = Limited(byte)], say |-> Raw(Limited(byte))]

NiosStep(m, byte) ==
    CASE m.wait = "command" -> Command(m, byte)
      [] m.wait = "phrase" -> PhraseByte(m, byte)
      [] m.wait = "mode" -> ModeByte(m, byte)
============================================================================
