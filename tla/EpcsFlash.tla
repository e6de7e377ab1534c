------------------------------ MODULE EpcsFlash ------------------------------
(***************************************************************************)
(* The driver of the serial flash the soft processor boots from:           *)
(* altera_avalon_epcs_flash_controller.c over epcs_commands.c.             *)
(*                                                                         *)
(* A call is a sequence of commands to the chip, one SPI command a step    *)
(* (module Spi shows that such a command is one exchange).  The chip is    *)
(* external: it is busy for a while after an erase or a program command    *)
(* and hears nothing but status requests then, obeys an erase or a program *)
(* command only after a write enable, and takes addresses of three bytes   *)
(* or, once told so, of four.  It keeps all that when the processor is     *)
(* restarted in the middle of a call, and loses it with the power.         *)
(***************************************************************************)
EXTENDS Naturals, Integers, Sequences

CONSTANTS
    CHIPS,      \* chips of the catalogue the board may have
    BLOCKS,     \* blocks of the chip that are modelled
    SCALE,      \* kilobytes that count as one byte
    PAGE,       \* page_size, 256 in the code; a power of 2
    CHUNK,      \* chunk_size of the comparison, 32 in the code
    BITS,       \* bits of a byte: a byte is the set of those that are 1
    DATA,       \* the callers' data, sequences of bytes
    FAILURES    \* bound on restarts and power failures

VARIABLES
    chip,       \* kind; memory; write enable latch; address mode; what is pending; header
    drv,        \* next step of the call; commands still to be sent; the call's locals
    asked,      \* the call, as its caller sees it
    failures    \* so far

flashVars == <<chip, drv, asked, failures>>

Byte == SUBSET BITS
Erased == BITS
Least(a, b) == IF a < b THEN a ELSE b

----------------------------------------------------------------------------
(* alt_epcs_flash_query: geometry by electronic signature or device id      *)

Device(blocks, kilobytes, by, four_bytes_mode) ==
    [blocks |-> blocks, kilobytes |-> kilobytes, by |-> by, four |-> four_bytes_mode]

Catalogue == [
    EPCS1   |-> Device(4, 32, "signature", FALSE),
    EPCS4   |-> Device(8, 64, "signature", FALSE),
    EPCS8   |-> Device(16, 64, "signature", FALSE),
    EPCS16  |-> Device(32, 64, "signature", FALSE),
    EPCS64  |-> Device(128, 64, "signature", FALSE),
    EPCQ16  |-> Device(32, 64, "device id", FALSE),
    EPCQ32  |-> Device(64, 64, "device id", FALSE),
    EPCQ64  |-> Device(128, 64, "device id", FALSE),
    EPCQ128 |-> Device(256, 64, "device id", FALSE),
    EPCS128 |-> Device(64, 256, "device id", FALSE),
    EPCQ256 |-> Device(512, 64, "device id", TRUE),
    EPCQ512 |-> Device(1024, 64, "device id", TRUE),
    EPCQ1024 |-> Device(2048, 64, "device id", TRUE)]

four_bytes_mode == Catalogue[chip.kind].four
BlockSize(kind) == Catalogue[kind].kilobytes \div SCALE
Size(kind) == Least(Catalogue[kind].blocks, BLOCKS) * BlockSize(kind)
Cells(kind) == 0 .. Size(kind) - 1
size == Size(chip.kind)

\* Blocks consist of whole pages.
ASSUME FlashAssumption ==
    /\ CHIPS \subseteq DOMAIN Catalogue
    /\ {BLOCKS, SCALE, PAGE, CHUNK} \subseteq Nat \ {0} /\ FAILURES \in Nat
    /\ \A kind \in CHIPS : BlockSize(kind) > 0 /\ BlockSize(kind) % PAGE = 0
    /\ DATA \subseteq Seq(Byte)

BlockOf(a) == (a \div BlockSize(chip.kind)) * BlockSize(chip.kind)
Block(a) == {x \in Cells(chip.kind) : BlockOf(x) = BlockOf(a)}

----------------------------------------------------------------------------
(* The chip                                                                 *)

Busy == chip.pending # << >>

\* Later bytes of a page overwrite earlier ones once the end of the page is reached.
Programmed(c, a, bytes) ==
    LET page == (a \div PAGE) * PAGE
        last(x) == {k \in 1 .. Len(bytes) : page + ((a + k - 1) % PAGE) = x}
    IN  [x \in {y \in page .. page + PAGE - 1 : last(y) # {}} |->
            c.data[x] \intersect bytes[CHOOSE k \in last(x) : \A l \in last(x) : l <= k]]

\* An address of the wrong width is any address.
Where(c, cmd) == IF cmd.four = c.four THEN {cmd.at} ELSE Cells(c.kind)

\* What a chip that is not busy makes of a command.  Without the flag that merges them,
\* data would not follow its header.
Obeys(c, cmd) ==
    LET deselected == [c EXCEPT !.header = << >>]
    IN  CASE cmd.op = "wren" -> {[deselected EXCEPT !.wel = TRUE]}
          [] cmd.op \in {"en4b", "dis4b"} ->
               {IF c.wel THEN [deselected EXCEPT !.four = (cmd.op = "en4b"), !.wel = FALSE]
                ELSE deselected}
          [] cmd.op = "se" ->
               {IF c.wel THEN [deselected EXCEPT !.wel = FALSE,
                                                 !.pending = [x \in Block(a) |-> Erased]]
                ELSE deselected : a \in Where(c, cmd)}
          [] cmd.op = "pp" -> {[c EXCEPT !.header = <<cmd>>]}
          [] cmd.op = "data" ->
               {IF c.header # << >> /\ c.wel /\ cmd.bytes # << >>
                THEN [deselected EXCEPT !.wel = FALSE, !.pending = Programmed(c, a, cmd.bytes)]
                ELSE deselected : a \in Where(c, IF c.header = << >> THEN cmd ELSE c.header[1])}
          [] OTHER -> {deselected}

\* The operation the chip is busy with is done.
Done ==
    /\ Busy
    /\ chip' = [chip EXCEPT !.pending = << >>,
                  !.data = [a \in Cells(chip.kind) |->
                              IF a \in DOMAIN chip.pending THEN chip.pending[a] ELSE chip.data[a]]]
    /\ UNCHANGED <<drv, asked, failures>>

----------------------------------------------------------------------------
(* epcs_commands.c: the commands each function sends                        *)

Command(op) == [op |-> op, at |-> 0, four |-> chip.four, bytes |-> << >>, length |-> 0]
Addressed(op, a, len) ==
    [op |-> op, at |-> a, four |-> four_bytes_mode, bytes |-> << >>, length |-> len]
Data(bytes) == [Command("data") EXCEPT !.bytes = bytes]

write_enable == <<Command("wren")>>
await_wip_not == << >>
await_wip_released == <<Command("rdsr")>>
enter_4_bytes_protected == IF four_bytes_mode THEN <<Command("en4b")>> ELSE << >>
enter_4_bytes_mode == IF four_bytes_mode THEN write_enable \o <<Command("en4b")>> ELSE << >>
exit_4_bytes_mode == IF four_bytes_mode THEN write_enable \o <<Command("dis4b")>> ELSE << >>

sector_erase(a) ==
    enter_4_bytes_mode \o write_enable \o <<Addressed("se", a, 0)>>
    \o await_wip_released \o exit_4_bytes_mode

read_buffer(a, len) ==
    enter_4_bytes_mode \o await_wip_released \o <<Addressed("read", a, len)>>
    \o exit_4_bytes_mode

write_buffer(a, bytes) ==
    enter_4_bytes_mode \o write_enable \o <<Addressed("pp", a, 0)>> \o <<Data(bytes)>>
    \o await_wip_released \o exit_4_bytes_mode

----------------------------------------------------------------------------
(* The driver                                                               *)

Boot == [at |-> "boot", op |-> "none", script |-> << >>, got |-> << >>,
         offset |-> 0, src |-> << >>, cur |-> 0, ret |-> 0]
DriverIdle == [Boot EXCEPT !.at = "idle"]

Nothing == [op |-> "none", offset |-> 0, src |-> << >>, sectors |-> {}, clean |-> FALSE]

FlashInit ==
    /\ \E kind \in CHIPS :
         chip = [kind |-> kind, data |-> [a \in Cells(kind) |-> Erased], wel |-> FALSE,
                 four |-> FALSE, pending |-> << >>, header |-> << >>]
    /\ drv = Boot
    /\ asked = Nothing
    /\ failures = 0

OnlyDriver == UNCHANGED <<chip, asked, failures>>
Runs(at) == drv.at = at /\ drv.script = << >>

\* A busy chip does not hear the request, and what is read is nobody's signature or id.
ReadSignature ==
    /\ Runs("boot")
    /\ drv' = IF ~ Busy /\ Catalogue[chip.kind].by = "signature" THEN DriverIdle
              ELSE [drv EXCEPT !.at = "rdid"]
    /\ OnlyDriver

ReadDeviceId ==
    /\ Runs("rdid")
    /\ drv' = IF ~ Busy /\ Catalogue[chip.kind].by = "device id" THEN DriverIdle
              ELSE [drv EXCEPT !.at = "absent"]
    /\ OnlyDriver

\* A command of the script, alt_avalon_spi_command; a status request is repeated
\* until WIP is low.  Reads go on from address 0 at the end of the chip.
SendCommand ==
    /\ drv.script # << >>
    /\ LET cmd == Head(drv.script)
       IN  /\ cmd.op = "rdsr" => ~ Busy
           /\ IF Busy THEN UNCHANGED chip ELSE chip' \in Obeys(chip, cmd)
           /\ \E a \in IF cmd.op = "read" THEN Where(chip, cmd) ELSE {0} :
                drv' = [drv EXCEPT !.script = Tail(drv.script),
                          !.got = IF cmd.op # "read" THEN drv.got
                                  ELSE [k \in 1 .. cmd.length |-> chip.data[(a + k - 1) % size]]]
    /\ UNCHANGED <<asked, failures>>

\* offset > last_device_address: the comparison is unsigned.
TestAddress(offset) == offset \in 0 .. size - 1

\* A caller gives an offset and data (for a read, as many bytes as it wants); a bare
\* block write stays in one block.
CallDriver(op, at) ==
    /\ Runs("idle")
    /\ \E offset \in -1 .. size, src \in DATA :
         LET range == offset .. offset + Len(src) - 1
             valid == TestAddress(offset) \/ op = "write"
         IN  /\ op = "write_block" => \A a \in range : BlockOf(a) = BlockOf(offset)
             /\ drv' = [DriverIdle EXCEPT !.at = IF valid THEN at ELSE "done", !.op = op,
                          !.offset = offset, !.src = src, !.ret = IF valid THEN 0 ELSE -1]
             /\ asked' = [op |-> op, offset |-> offset, src |-> src,
                          sectors |-> CASE op = "read" -> {}
                                         [] op = "erase" -> {BlockOf(offset)}
                                         [] OTHER -> {BlockOf(a) : a \in range},
                          clean |-> op = "write" \/ \A a \in range \intersect Cells(chip.kind) :
                                                      chip.data[a] = Erased]
    /\ UNCHANGED <<chip, failures>>

\* alt_epcs_flash_read and alt_epcs_flash_erase_block
ReadBuffer ==
    /\ Runs("read")
    /\ drv' = [drv EXCEPT !.at = "done", !.script = read_buffer(drv.offset, Len(drv.src))]
    /\ OnlyDriver

EraseBlock ==
    /\ Runs("erase")
    /\ drv' = [drv EXCEPT !.at = "done", !.script = sector_erase(drv.offset)]
    /\ OnlyDriver

\* alt_epcs_flash_write: the part of the data that is in the block of its first byte.
data_to_write == Least(BlockOf(drv.offset) + BlockSize(chip.kind) - drv.offset, Len(drv.src))

\* No region has the offset, or no block is left: the call returns 0.
WriteBlocks ==
    /\ Runs("write")
    /\ drv' = [drv EXCEPT !.at = IF TestAddress(drv.offset) THEN "compare" ELSE "done"]
    /\ OnlyDriver

\* alt_epcs_flash_memcmp, chunk by chunk; a difference erases the block.
this_chunk_size == Least(CHUNK, data_to_write - drv.cur)

Compare ==
    /\ Runs("compare")
    /\ drv' = IF drv.cur >= data_to_write THEN [drv EXCEPT !.at = "next"]
              ELSE [drv EXCEPT !.at = "compared",
                               !.script = read_buffer(drv.offset + drv.cur, this_chunk_size)]
    /\ OnlyDriver

Compared ==
    /\ Runs("compared")
    /\ drv' = IF drv.got = SubSeq(drv.src, drv.cur + 1, drv.cur + this_chunk_size)
              THEN [drv EXCEPT !.at = "compare", !.cur = drv.cur + this_chunk_size, !.got = << >>]
              ELSE [drv EXCEPT !.at = "pages", !.cur = 0, !.got = << >>,
                               !.script = sector_erase(BlockOf(drv.offset))]
    /\ OnlyDriver

\* alt_epcs_flash_write_block: one write for each page.
limit == IF drv.op = "write" THEN data_to_write ELSE Len(drv.src)
NextPageAway(a) == a + PAGE
NextPageStart(a) == ((a + PAGE) \div PAGE) * PAGE
length_of_current_write ==
    Least(limit - drv.cur, NextPageStart(drv.offset + drv.cur) - (drv.offset + drv.cur))

WritePage ==
    /\ Runs("pages")
    /\ drv' = IF drv.cur = limit THEN [drv EXCEPT !.at = "next"]
              ELSE [drv EXCEPT !.cur = drv.cur + length_of_current_write,
                      !.script = write_buffer(drv.offset + drv.cur,
                          SubSeq(drv.src, drv.cur + 1, drv.cur + length_of_current_write))]
    /\ OnlyDriver

NextBlock ==
    /\ Runs("next")
    /\ drv' = IF Len(drv.src) = limit THEN [drv EXCEPT !.at = "done"]
              ELSE [drv EXCEPT !.at = "write",
                               !.offset = BlockOf(drv.offset) + BlockSize(chip.kind),
                               !.src = SubSeq(drv.src, limit + 1, Len(drv.src)), !.cur = 0]
    /\ OnlyDriver

ReturnToCaller ==
    /\ Runs("done")
    /\ drv' = DriverIdle /\ asked' = Nothing
    /\ UNCHANGED <<chip, failures>>

FlashContinues ==
    \/ ReadSignature \/ ReadDeviceId \/ SendCommand \/ ReadBuffer \/ EraseBlock
    \/ WriteBlocks \/ Compare \/ Compared \/ WritePage \/ NextBlock \/ ReturnToCaller

Calls ==
    \/ CallDriver("read", "read") \/ CallDriver("erase", "erase") \/ CallDriver("write", "write")
    \/ CallDriver("write_block", "pages")

----------------------------------------------------------------------------
(* Failures                                                                 *)

\* A start that did not find the chip is always followed by another.
Fails ==
    /\ failures < FAILURES \/ drv.at = "absent"
    /\ failures' = Least(failures + 1, FAILURES)
    /\ drv' = Boot /\ asked' = [Nothing EXCEPT !.sectors = asked.sectors]

\* The reset leaves the chip as it is.  Bytes of a page it has been sent already it
\* programs when it is deselected.
Restart ==
    /\ Fails
    /\ IF drv.script # << >> /\ Head(drv.script).op = "data" /\ ~ Busy
       THEN \E n \in 0 .. Len(Head(drv.script).bytes) :
              chip' \in Obeys(chip, Data(SubSeq(Head(drv.script).bytes, 1, n)))
       ELSE chip' = [chip EXCEPT !.header = << >>]

\* An operation that is cut short is done in part.
PowerFailure ==
    /\ Fails
    /\ \E done \in SUBSET DOMAIN chip.pending :
         chip' = [chip EXCEPT !.pending = << >>, !.header = << >>, !.wel = FALSE, !.four = FALSE,
                    !.data = [a \in Cells(chip.kind) |->
                                IF a \in done THEN chip.pending[a] ELSE chip.data[a]]]

FlashNext == Done \/ Calls \/ FlashContinues \/ Restart \/ PowerFailure

FlashSpec == FlashInit /\ [][FlashNext]_flashVars

\* The chip gets done and the processor runs; nobody need make a call.
FlashFairSpec == FlashSpec /\ WF_flashVars(Done) /\ WF_flashVars(FlashContinues)

----------------------------------------------------------------------------
(* Properties                                                               *)

FlashTypeOK ==
    /\ chip.kind \in CHIPS /\ chip.data \in [Cells(chip.kind) -> Byte]
    /\ {chip.wel, chip.four} \subseteq BOOLEAN
    /\ DOMAIN chip.pending \subseteq Cells(chip.kind)
    /\ chip.header \in {<< >>} \union {<<Addressed("pp", a, 0)>> : a \in Cells(chip.kind)}
    /\ drv.at \in {"boot", "rdid", "absent", "idle", "read", "erase", "write", "compare",
                   "compared", "pages", "next", "done"}
    /\ drv.cur \in 0 .. Len(drv.src) /\ drv.ret \in {0, -1}
    /\ failures \in 0 .. FAILURES

Returned == Runs("done") /\ drv.ret = 0

\* A call that returns 0 has done what it was asked: what was to be written is there (by
\* a bare block write, if the cells were erased) as far as the chip reaches, whatever
\* was there before and however earlier calls ended; the sector is erased; or the
\* caller has the bytes of the chip, from the start again after its end.
DoneAsAsked ==
    Returned /\ TestAddress(asked.offset) =>
        \A k \in 1 .. Len(asked.src) :
          LET a == asked.offset + k - 1
          IN  CASE asked.op = "read" -> drv.got[k] = chip.data[a % size]
                [] asked.op = "erase" -> \A x \in Block(asked.offset) : chip.data[x] = Erased
                [] OTHER -> asked.clean /\ a \in Cells(chip.kind) => chip.data[a] = asked.src[k]

\* Nothing outside the sectors of a call changes, not even when the call was
\* broken off by a restart or a power failure and the chip was left in the middle.
OtherSectorsKept ==
    [][\A a \in Cells(chip.kind) : chip'.data[a] # chip.data[a] => BlockOf(a) \in asked.sectors]_flashVars

\* Nothing but a status request is ever sent to a busy chip, after a restart either:
\* it would not be heard.
NothingUnheard == drv.script # << >> /\ Head(drv.script).op # "rdsr" => ~ Busy

\* "we'll place the device into 4-byte address mode when we need to, and take it back
\* out when we're done": also after a call that follows one that was broken off.
LeftInThreeByteMode == Returned /\ TestAddress(asked.offset) /\ asked.src # << >> => ~ chip.four

\* What each call promises, also after a call that was cut short.
DoesWhatWasAsked == FlashTypeOK /\ DoneAsAsked /\ NothingUnheard /\ LeftInThreeByteMode

\* Every call returns, and the start ends with a device or without.
FlashUnderWay == drv.at \notin {"idle", "absent"}
CallsReturn == FlashUnderWay ~> ~ FlashUnderWay
==============================================================================
