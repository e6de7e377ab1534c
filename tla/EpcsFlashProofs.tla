--------------------------- MODULE EpcsFlashProofs ---------------------------
(***************************************************************************)
(* Theorems about the serial flash driver of EpcsFlash, for every chip of  *)
(* the catalogue, any number and size of blocks, pages and chunks, all     *)
(* data and any number of restarts and power failures.                     *)
(*                                                                         *)
(* The inductive invariant FlashInv says what is left of the commands of a *)
(* function of epcs_commands.c, read from the last one back, so that it is *)
(* the same whether or not the chip's mode is changed first; which of them *)
(* the chip may be busy after and which need the write enable latch; and   *)
(* how much of a call's data is in the memory, counting what is pending.   *)
(* Of the chip after a failure it says what a new start relies on: what is *)
(* pending lies in the sectors of the call that was broken off.            *)
(***************************************************************************)
EXTENDS Spi, EpcsFlash, SequenceTheorems, TLAPS
----------------------------------------------------------------------------
(* Arithmetic                                                               *)

\* Quotient and remainder.
LEMMA Division ==
    ASSUME NEW b \in Nat \ {0}, NEW a \in Int
    PROVE  a \div b \in Int /\ a % b \in 0 .. b - 1 /\ a = b * (a \div b) + (a % b)
OBVIOUS

\* There is one quotient and one remainder.
LEMMA Quotient ==
    ASSUME NEW b \in Nat \ {0}, NEW a \in Int, NEW q \in Int, NEW r \in 0 .. b - 1, a = b * q + r
    PROVE  a \div b = q /\ a % b = r
<1>1. a \div b \in Int /\ a % b \in 0 .. b - 1 /\ a = b * (a \div b) + (a % b)
  BY Division
<1>2. PICK d \in Int : d = q - (a \div b)
  BY <1>1
<1>3. b * d = (a % b) - r
  BY <1>1, <1>2
<1>4. d = 0
  <2>1. -b < b * d /\ b * d < b
    BY <1>1, <1>3
  <2>2. CASE d >= 1
    <3>1. b * d >= b
      BY <2>2, <1>2
    <3>2. QED
      BY <3>1, <2>1
  <2>3. CASE d <= -1
    <3>1. b * d <= -b
      BY <2>3, <1>2
    <3>2. QED
      BY <3>1, <2>1
  <2>4. QED
    BY <2>2, <2>3, <1>2
<1>5. QED
  BY <1>1, <1>2, <1>3, <1>4

\* The start of the interval of n numbers, from a multiple of n on, that a is in.
StartOf(a, n) == (a \div n) * n

\* It is the only one.
LEMMA StartIs ==
    ASSUME NEW n \in Nat \ {0}, NEW a \in Int
    PROVE  /\ StartOf(a, n) \in Int /\ StartOf(a, n) <= a /\ a < StartOf(a, n) + n
           /\ a % n = a - StartOf(a, n)
           /\ \A x \in Int : StartOf(a, n) <= x /\ x < StartOf(a, n) + n <=> StartOf(x, n) = StartOf(a, n)
<1>1. PICK q \in Int : q = a \div n
  BY Division
<1>2. a = n * q + (a % n) /\ a % n \in 0 .. n - 1
  BY <1>1, Division
<1>3. n * q \in Int /\ StartOf(a, n) = n * q
  BY <1>1 DEF StartOf
<1>4. ASSUME NEW x \in Int, n * q <= x, x < n * q + n
      PROVE  StartOf(x, n) = n * q
  <2>1. PICK r \in 0 .. n - 1 : x = n * q + r
    BY <1>3, <1>4
  <2>2. x \div n = q
    BY <2>1, Quotient
  <2>3. QED
    BY <2>2 DEF StartOf
<1>5. ASSUME NEW x \in Int, StartOf(x, n) = n * q
      PROVE  n * q <= x /\ x < n * q + n
  <2>1. PICK p \in Int : p = x \div n
    BY Division
  <2>2. x = n * p + (x % n) /\ x % n \in 0 .. n - 1
    BY <2>1, Division
  <2>3. n * p = n * q
    BY <1>5, <2>1 DEF StartOf
  <2>4. QED
    BY <2>2, <2>3, <1>3
<1>6. QED
  BY <1>2, <1>3, <1>4, <1>5

\* Multiples of n are their own start; n more starts the next interval.
LEMMA StartOfMultiple ==
    ASSUME NEW n \in Nat \ {0}, NEW a \in Int
    PROVE  /\ StartOf(StartOf(a, n), n) = StartOf(a, n)
           /\ StartOf(a + n, n) = StartOf(a, n) + n
           /\ StartOf(StartOf(a, n) + n, n) = StartOf(a, n) + n
<1>1. PICK q \in Int : q = a \div n
  BY Division
<1>2. a = n * q + (a % n) /\ a % n \in 0 .. n - 1
  BY <1>1, Division
<1>3. n * q \in Int /\ StartOf(a, n) = n * q
  BY <1>1 DEF StartOf
<1>4. n * (q + 1) = n * q + n
  BY <1>1
<1>5. a + n = n * (q + 1) + (a % n) /\ a + n \in Int
  BY <1>2, <1>3, <1>4
<1>6. (a + n) \div n = q + 1
  <2>1. PICK r \in 0 .. n - 1 : r = a % n
    BY <1>2
  <2>2. a + n = n * (q + 1) + r /\ q + 1 \in Int
    BY <1>5, <2>1, <1>1
  <2>3. QED
    BY <2>2, <1>5, Quotient
<1>7. (n * q) \div n = q
  <2>1. n * q = n * q + 0 /\ 0 \in 0 .. n - 1
    BY <1>3
  <2>2. QED
    BY <2>1, <1>3, Quotient
<1>8. (n * q + n) \div n = q + 1
  <2>1. n * q + n = n * (q + 1) + 0 /\ 0 \in 0 .. n - 1 /\ n * q + n \in Int
    BY <1>3, <1>4
  <2>2. QED
    BY <2>1, Quotient
<1>9. QED
  BY <1>1, <1>3, <1>4, <1>6, <1>7, <1>8 DEF StartOf

\* Intervals of n numbers lie within those of m * n.
LEMMA StartWithin ==
    ASSUME NEW n \in Nat \ {0}, NEW m \in Nat \ {0}, NEW a \in Int
    PROVE  /\ m * n \in Nat \ {0}
           /\ StartOf(a, m * n) <= StartOf(a, n)
           /\ StartOf(a, n) + n <= StartOf(a, m * n) + m * n
<1>1. m * n \in Nat \ {0}
  OBVIOUS
<1>2. PICK q \in Int : q = a \div n
  BY Division
<1>3. PICK p \in Int : p = a \div (m * n)
  BY <1>1, Division
<1>4. n * q \in Int /\ n * q <= a /\ a < n * q + n /\ StartOf(a, n) = n * q
  BY <1>2, StartIs DEF StartOf
<1>5. /\ (m * n) * p \in Int /\ (m * n) * p <= a /\ a < (m * n) * p + m * n
      /\ StartOf(a, m * n) = (m * n) * p
  <2>1. PICK k \in Nat \ {0} : k = m * n
    BY <1>1
  <2>2. StartOf(a, k) \in Int /\ StartOf(a, k) <= a /\ a < StartOf(a, k) + k /\ StartOf(a, k) = p * k
    BY <2>1, <1>3, StartIs DEF StartOf
  <2>3. p * k = k * p
    BY <2>1
  <2>4. QED
    BY <2>1, <2>2, <2>3
<1>6. PICK s \in Int : s = m * p
  OBVIOUS
<1>7. (m * n) * p = n * s /\ m * n = n * m
  BY <1>6
<1>8. s <= q
  <2>1. SUFFICES ASSUME s >= q + 1 PROVE FALSE
    BY <1>2, <1>6
  <2>2. n * s >= n * (q + 1) /\ n * (q + 1) = n * q + n
    BY <2>1, <1>2, <1>6
  <2>3. QED
    BY <2>2, <1>4, <1>5, <1>7
<1>9. q + 1 <= s + m
  <2>1. SUFFICES ASSUME q >= s + m PROVE FALSE
    BY <1>2, <1>6
  <2>2. n * q >= n * (s + m) /\ n * (s + m) = n * s + n * m
    BY <2>1, <1>2, <1>6
  <2>3. QED
    BY <2>2, <1>4, <1>5, <1>7
<1>10. n * s <= n * q
  BY <1>8, <1>2, <1>6
<1>11. n * (q + 1) <= n * (s + m) /\ n * (q + 1) = n * q + n /\ n * (s + m) = n * s + n * m
  BY <1>9, <1>2, <1>6
<1>12. QED
  BY <1>1, <1>4, <1>5, <1>7, <1>10, <1>11

----------------------------------------------------------------------------
(* The geometry of the chips                                                *)

Devices == [blocks : Nat \ {0}, kilobytes : Nat, by : {"signature", "device id"}, four : BOOLEAN]

\* The catalogue lists devices.
LEMMA CatalogueTyped ==
    ASSUME NEW kind \in CHIPS
    PROVE  Catalogue[kind] \in Devices
<1>1. kind \in {"EPCS1", "EPCS4", "EPCS8", "EPCS16", "EPCS64", "EPCQ16", "EPCQ32", "EPCQ64",
                "EPCQ128", "EPCS128", "EPCQ256", "EPCQ512", "EPCQ1024"}
  BY FlashAssumption DEF Catalogue
<1>2. /\ Catalogue["EPCS1"] \in Devices
      /\ Catalogue["EPCS4"] \in Devices
      /\ Catalogue["EPCS8"] \in Devices
      /\ Catalogue["EPCS16"] \in Devices
      /\ Catalogue["EPCS64"] \in Devices
      /\ Catalogue["EPCQ16"] \in Devices
      /\ Catalogue["EPCQ32"] \in Devices
      /\ Catalogue["EPCQ64"] \in Devices
      /\ Catalogue["EPCQ128"] \in Devices
      /\ Catalogue["EPCS128"] \in Devices
      /\ Catalogue["EPCQ256"] \in Devices
      /\ Catalogue["EPCQ512"] \in Devices
      /\ Catalogue["EPCQ1024"] \in Devices
  BY DEF Catalogue, Device, Devices
<1>3. QED
  BY <1>1, <1>2

\* Chips have whole blocks, and blocks whole pages.
LEMMA Geometry ==
    ASSUME NEW kind \in CHIPS
    PROVE  /\ BlockSize(kind) \in Nat \ {0}
           /\ PAGE \in Nat \ {0}
           /\ \E m \in Nat \ {0} : BlockSize(kind) = m * PAGE
           /\ \E n \in Nat \ {0} : Size(kind) = n * BlockSize(kind)
           /\ Catalogue[kind].four \in BOOLEAN
<1>1. /\ Catalogue[kind].blocks \in Nat \ {0} /\ Catalogue[kind].kilobytes \in Nat
      /\ Catalogue[kind].four \in BOOLEAN
  BY CatalogueTyped DEF Devices
<1>2. PAGE \in Nat \ {0} /\ SCALE \in Nat \ {0} /\ BLOCKS \in Nat \ {0}
  BY FlashAssumption
<1>3. BlockSize(kind) \in Nat \ {0}
  <2>1. PICK s \in Nat \ {0}, k \in Nat : s = SCALE /\ k = Catalogue[kind].kilobytes
    BY <1>1, <1>2
  <2>2. k \div s \in Int
    BY Division
  <2>3. BlockSize(kind) \in Int
    BY <2>1, <2>2 DEF BlockSize
  <2>4. BlockSize(kind) > 0
    BY FlashAssumption
  <2>5. QED
    BY <2>3, <2>4
<1>4. \E m \in Nat \ {0} : BlockSize(kind) = m * PAGE
  <2>1. PICK b \in Nat \ {0} : b = BlockSize(kind)
    BY <1>3
  <2>2. b % PAGE = 0
    BY <2>1, FlashAssumption
  <2>3. PICK m \in Int : m = b \div PAGE
    BY <1>2, Division
  <2>4. b = PAGE * m
    BY <1>2, <2>2, <2>3, Division
  <2>5. m > 0
    <3>1. SUFFICES ASSUME m <= 0 PROVE FALSE
      BY <2>3
    <3>2. PAGE * m <= 0
      BY <3>1, <1>2
    <3>3. QED
      BY <3>2, <2>1, <2>4
  <2>6. m \in Nat \ {0} /\ b = m * PAGE
    BY <2>4, <2>5, <1>2
  <2>7. QED
    BY <2>1, <2>6
<1>5. \E n \in Nat \ {0} : Size(kind) = n * BlockSize(kind)
  <2>1. Least(Catalogue[kind].blocks, BLOCKS) \in Nat \ {0}
    BY <1>1, <1>2 DEF Least
  <2>2. QED
    BY <2>1 DEF Size
<1>6. QED
  BY <1>1, <1>2, <1>3, <1>4, <1>5

----------------------------------------------------------------------------
(* The blocks and pages of the chip that is on the board                    *)

\* A block is an interval of cells.
LEMMA BlockIs ==
    ASSUME chip.kind \in CHIPS, NEW a \in Int
    PROVE  /\ BlockSize(chip.kind) \in Nat \ {0}
           /\ BlockOf(a) \in Int /\ BlockOf(a) <= a /\ a < BlockOf(a) + BlockSize(chip.kind)
           /\ \A x \in Int : BlockOf(a) <= x /\ x < BlockOf(a) + BlockSize(chip.kind) <=>
                             BlockOf(x) = BlockOf(a)
           /\ BlockOf(BlockOf(a)) = BlockOf(a)
           /\ BlockOf(BlockOf(a) + BlockSize(chip.kind)) = BlockOf(a) + BlockSize(chip.kind)
<1>1. PICK b \in Nat \ {0} : b = BlockSize(chip.kind)
  BY Geometry
<1>2. \A x : BlockOf(x) = StartOf(x, b)
  BY <1>1 DEF BlockOf, StartOf
<1>3. QED
  BY <1>1, <1>2, StartIs, StartOfMultiple

\* The cells are whole blocks.
LEMMA BlockInCells ==
    ASSUME chip.kind \in CHIPS
    PROVE  /\ size \in Nat \ {0} /\ Cells(chip.kind) \subseteq Nat
           /\ \A a : a \in Cells(chip.kind) <=> a \in Int /\ 0 <= a /\ a < size
           /\ \A a : a \in Cells(chip.kind) <=> TestAddress(a)
           /\ \A a \in Cells(chip.kind) :
                0 <= BlockOf(a) /\ BlockOf(a) + BlockSize(chip.kind) <= size
<1>1. PICK b \in Nat \ {0} : b = BlockSize(chip.kind)
  BY Geometry
<1>2. PICK n \in Nat \ {0} : size = n * b
  BY <1>1, Geometry DEF size
<1>3. n * b \in Nat \ {0}
  BY <1>1, <1>2
<1>4. ASSUME NEW a \in Int, 0 <= a, a < n * b
      PROVE  0 <= StartOf(a, b) /\ StartOf(a, b) + b <= n * b
  <2>1. PICK k \in Nat \ {0} : k = n * b
    BY <1>3
  <2>2. a = k * 0 + a /\ a \in 0 .. k - 1
    BY <2>1, <1>4
  <2>3. a \div k = 0
    BY <2>1, <2>2, Quotient
  <2>4. StartOf(a, n * b) = 0
    BY <2>1, <2>3 DEF StartOf
  <2>5. StartOf(a, b) \in Int
    BY <1>4, StartIs
  <2>6. QED
    BY <2>4, <2>5, <1>4, <1>3, StartWithin
<1>5. QED
  BY <1>1, <1>2, <1>3, <1>4 DEF Cells, TestAddress, size, BlockOf, StartOf

\* A page is an interval of cells that lies in one block.
LEMMA PageIs ==
    ASSUME chip.kind \in CHIPS, NEW a \in Int
    PROVE  /\ PAGE \in Nat \ {0}
           /\ StartOf(a, PAGE) \in Int /\ StartOf(a, PAGE) <= a /\ a < StartOf(a, PAGE) + PAGE
           /\ a % PAGE = a - StartOf(a, PAGE)
           /\ NextPageStart(a) = StartOf(a, PAGE) + PAGE
           /\ \A x \in StartOf(a, PAGE) .. StartOf(a, PAGE) + PAGE - 1 :
                StartOf(x, PAGE) = StartOf(a, PAGE) /\ BlockOf(x) = BlockOf(a)
<1>1. PICK b \in Nat \ {0}, m \in Nat \ {0} : b = BlockSize(chip.kind) /\ b = m * PAGE
  BY Geometry
<1>2. PAGE \in Nat \ {0}
  BY Geometry
<1>3. PICK s \in Int : s = StartOf(a, PAGE)
  BY <1>2, StartIs
<1>4. s <= a /\ a < s + PAGE /\ a % PAGE = a - s
  BY <1>2, <1>3, StartIs
<1>5. NextPageStart(a) = s + PAGE
  BY <1>2, <1>3, StartOfMultiple DEF NextPageStart, StartOf
<1>6. BlockOf(a) <= s /\ s + PAGE <= BlockOf(a) + b
  <2>1. StartOf(a, m * PAGE) <= s /\ s + PAGE <= StartOf(a, m * PAGE) + m * PAGE
    BY <1>2, <1>3, StartWithin
  <2>2. QED
    BY <2>1, <1>1 DEF BlockOf, StartOf
<1>7. ASSUME NEW x \in s .. s + PAGE - 1
      PROVE  StartOf(x, PAGE) = s /\ BlockOf(x) = BlockOf(a)
  <2>1. x \in Int /\ s <= x /\ x < s + PAGE
    BY <1>2
  <2>2. StartOf(x, PAGE) = s
    BY <2>1, <1>2, <1>3, StartIs
  <2>3. BlockOf(a) \in Int
    BY BlockIs
  <2>4. BlockOf(a) <= x /\ x < BlockOf(a) + b
    BY <2>1, <2>3, <1>6, <1>1, <1>2
  <2>5. QED
    BY <2>1, <2>2, <2>4, <1>1, BlockIs
<1>8. QED
  BY <1>2, <1>3, <1>4, <1>5, <1>7

----------------------------------------------------------------------------
(* What the invariant says                                                  *)

CommandOps == {"wren", "en4b", "dis4b", "se", "pp", "data", "rdsr", "read"}
Commands == [op : CommandOps, at : Int, four : BOOLEAN, bytes : Seq(Byte), length : Nat]
CallOps == {"none", "read", "erase", "write", "write_block"}
Steps == {"boot", "rdid", "absent", "idle", "read", "erase", "write", "compare", "compared",
          "pages", "next", "done"}

ChipRegs(p, h) ==
    [kind : CHIPS, data : [Cells(chip.kind) -> Byte], wel : BOOLEAN, four : BOOLEAN,
     pending : {p}, header : {h}]
DriverLocals(g) ==
    [at : Steps, op : CallOps, script : Seq(Commands), got : {g}, offset : Int, src : Seq(Byte),
     cur : Nat, ret : {0, -1}]
CallerSees ==
    [op : CallOps, offset : Int, src : Seq(Byte), sectors : SUBSET Int, clean : BOOLEAN]
Typed ==
    /\ chip \in ChipRegs(chip.pending, chip.header)
    /\ chip.header \in {<< >>} \union {<<Addressed("pp", a, 0)>> : a \in Cells(chip.kind)}
    /\ drv \in DriverLocals(drv.got) /\ drv.cur <= Len(drv.src)
    /\ asked \in CallerSees
    /\ failures \in 0 .. FAILURES

Starting == drv.at \in {"boot", "rdid", "absent"}
Writes == drv.op \in {"write", "write_block"}

\* Commands that take the chip out of four-byte mode, and how many are left before them.
Ends == IF four_bytes_mode THEN 2 ELSE 0
Left == Len(drv.script) - Ends
Cmd(p) == drv.script[Left + 1 - p]

\* What each function of epcs_commands.c sends, the last command first, to a chip whose
\* mode is changed.
ReadOps == <<"dis4b", "wren", "read", "rdsr", "en4b", "wren">>
EraseOps == <<"dis4b", "wren", "rdsr", "se", "wren", "en4b", "wren">>
WriteOps == <<"dis4b", "wren", "rdsr", "data", "pp", "wren", "en4b", "wren">>

\* The script is the rest of such a sequence; the mode is right as soon as it is set.
Follows(ops) ==
    /\ Left <= Len(ops) - 4 + Ends
    /\ \A p \in 1 - Ends .. Left : Cmd(p).op = ops[p + 2]
    /\ Left <= Len(ops) - 4 => (chip.four <=> four_bytes_mode /\ drv.script # << >>)

Reading(a, len) == Follows(ReadOps) /\ (Left >= 1 => Cmd(1) = Addressed("read", a, len))
Erasing(a) == Follows(EraseOps) /\ (Left >= 2 => Cmd(2) = Addressed("se", a, 0))

\* The bytes of a page that the chip has not got yet, and where they go.
Unsent == IF drv.cur > 0 /\ Left >= 2 THEN Len(Cmd(2).bytes) ELSE 0
From == drv.offset + (drv.cur - Unsent)
Writing ==
    /\ Follows(WriteOps)
    /\ Left >= 3 => Cmd(3) = Addressed("pp", From, 0)
    /\ Left = 2 => chip.header = <<Addressed("pp", From, 0)>>
    /\ Left >= 2 =>
         /\ Unsent \in 1 .. drv.cur
         /\ From + Unsent <= NextPageStart(From)
         /\ Cmd(2).bytes = SubSeq(drv.src, drv.cur - Unsent + 1, drv.cur)

\* Which script belongs to which step.
Scripted ==
    /\ drv.at \in {"boot", "rdid", "absent", "idle", "read", "erase", "write", "compare", "next"} =>
         drv.script = << >>
    /\ Starting \/ drv.at = "idle" => drv = [Boot EXCEPT !.at = drv.at]
    /\ drv.at = "done" /\ (Writes \/ drv.ret # 0) => drv.script = << >>
    /\ drv.at = "done" /\ drv.op = "read" /\ drv.ret = 0 => Reading(drv.offset, Len(drv.src))
    /\ drv.at = "done" /\ drv.op = "erase" /\ drv.ret = 0 => Erasing(drv.offset)
    /\ drv.at = "compared" => Reading(drv.offset + drv.cur, this_chunk_size)
    /\ drv.at = "pages" /\ drv.cur = 0 /\ drv.op = "write" => Erasing(BlockOf(drv.offset))
    /\ drv.at = "pages" /\ drv.cur = 0 /\ drv.op # "write" => drv.script = << >>
    /\ drv.at = "pages" /\ drv.cur > 0 => Writing

\* The chip is busy only while its status is being asked for, and enabled for what
\* needs it.
Heard ==
    /\ Busy => Starting \/ (drv.script # << >> /\ Head(drv.script).op = "rdsr")
    /\ drv.script # << >> /\ Head(drv.script).op \in {"en4b", "dis4b", "se", "pp", "data"} =>
         chip.wel

\* A command that changes the mode has been sent, and the one that changes it back.
Closed ==
    \/ drv.at = "compare" /\ drv.cur > 0
    \/ drv.at = "next" /\ drv.src # << >>
    \/ drv.at = "write" /\ drv.offset # asked.offset
    \/ drv.at = "done" /\ Writes /\ TestAddress(asked.offset) /\ asked.src # << >>
Mode == (chip.four => four_bytes_mode) /\ (Closed => ~ chip.four)

\* The driver's locals are about the part of the call that is left.
Base == drv.offset - asked.offset
Rest ==
    /\ drv.op = asked.op
    /\ Base >= 0 /\ Len(drv.src) = Len(asked.src) - Base
    /\ \A k \in 1 .. Len(drv.src) : drv.src[k] = asked.src[Base + k]
    /\ asked.src # << >> => drv.src # << >>
    /\ drv.op # "write" => Base = 0
    /\ Base > 0 => BlockOf(drv.offset) = drv.offset
    /\ drv.op = "write_block" /\ drv.ret = 0 =>
         \A k \in 1 .. Len(drv.src) : BlockOf(drv.offset + k - 1) = BlockOf(drv.offset)
Sectors ==
    /\ Writes => \A k \in 1 .. Len(asked.src) : BlockOf(asked.offset + k - 1) \in asked.sectors
    /\ drv.op = "erase" => BlockOf(asked.offset) \in asked.sectors
    /\ drv.op = "write" => asked.clean
Within ==
    /\ drv.at \in {"read", "erase", "compare", "compared", "pages", "next"} => TestAddress(drv.offset)
    /\ drv.at = "done" /\ drv.op # "write" /\ drv.ret = 0 => TestAddress(drv.offset)
    /\ drv.at # "done" \/ drv.op = "write" => drv.ret = 0
    /\ drv.at = "done" => drv.op # "none"
    /\ drv.at = "read" => drv.op = "read"
    /\ drv.at = "erase" => drv.op = "erase"
    /\ drv.at \in {"write", "compare", "compared"} => drv.op = "write"
    /\ drv.at \in {"pages", "next"} => Writes
    /\ drv.at \in {"compare", "compared", "pages"} => drv.cur \in 0 .. limit
    /\ drv.at = "compared" => drv.cur < limit
    /\ drv.at = "write" => drv.cur = 0
    /\ drv.at = "pages" /\ drv.op = "write" => 0 < limit

\* What a cell holds when the chip is done.
Will(a) == IF a \in DOMAIN chip.pending THEN chip.pending[a] ELSE chip.data[a]

\* What the chip is busy with lies in the sectors of the call, or of the call that was
\* broken off.
Pending ==
    \A a \in DOMAIN chip.pending :
      a \in Cells(chip.kind) /\ BlockOf(a) \in asked.sectors /\ chip.pending[a] \in Byte

\* The first n bytes of the call are where they belong.
WrittenTo(n) ==
    asked.clean => \A k \in 1 .. n : asked.offset + k - 1 \in Cells(chip.kind) =>
                      Will(asked.offset + k - 1) = asked.src[k]

\* The cells of the block after the first n, up to what is to be written, are erased.
ErasedFrom(n) ==
    asked.clean => \A k \in n + 1 .. limit : Will(drv.offset + k - 1) = Erased

Kept ==
    /\ drv.at = "write" => WrittenTo(Base)
    /\ drv.at \in {"compare", "compared"} => WrittenTo(Base + drv.cur)
    /\ drv.at = "pages" => WrittenTo(Base + (drv.cur - Unsent))
    /\ drv.at = "pages" /\ (drv.cur > 0 \/ Left <= 1) => ErasedFrom(drv.cur - Unsent)
    /\ drv.at = "next" => WrittenTo(Base + limit)
    /\ drv.at = "done" /\ Writes /\ TestAddress(asked.offset) => WrittenTo(Len(asked.src))

Answered ==
    /\ drv.at = "done" /\ drv.op = "erase" /\ drv.ret = 0 /\ Left <= 1 =>
         \A x \in Block(drv.offset) : Will(x) = Erased
    /\ drv.at = "done" /\ drv.op = "read" /\ drv.ret = 0 /\ Left <= 0 =>
         \A k \in 1 .. Len(drv.src) : drv.got[k] = chip.data[(drv.offset + k - 1) % size]
    /\ drv.at = "compared" /\ Left <= 0 =>
         \A k \in 1 .. this_chunk_size : drv.got[k] = chip.data[drv.offset + drv.cur + k - 1]

FlashInv ==
    /\ Typed /\ Scripted /\ Heard /\ Mode
    /\ Rest /\ Sectors /\ Within /\ Pending /\ Kept /\ Answered

----------------------------------------------------------------------------
(* The chip, and what a command does to it                                  *)

\* The geometry stays.
LEMMA SameGeometry ==
    ASSUME chip'.kind = chip.kind
    PROVE  /\ \A a : BlockOf(a)' = BlockOf(a) /\ Block(a)' = Block(a)
           /\ Cells(chip.kind)' = Cells(chip.kind) /\ size' = size
           /\ \A a : TestAddress(a)' = TestAddress(a)
           /\ four_bytes_mode' = four_bytes_mode /\ Ends' = Ends
           /\ \A op, a, len : Addressed(op, a, len)' = Addressed(op, a, len)
BY DEF BlockOf, Block, Cells, size, Size, TestAddress, four_bytes_mode, Ends, Addressed

\* The modes are Booleans.
LEMMA ModeTyped ==
    ASSUME chip.kind \in CHIPS
    PROVE  four_bytes_mode \in BOOLEAN /\ Ends \in {0, 2} /\ (Ends = 2 <=> four_bytes_mode)
BY Geometry DEF four_bytes_mode, Ends

\* What an obedient chip makes of a command.
LEMMA Obeyed ==
    ASSUME chip \in ChipRegs(chip.pending, chip.header),
           NEW cmd \in Commands, NEW c \in Obeys(chip, cmd)
    PROVE  /\ c \in ChipRegs(c.pending, c.header) /\ c.kind = chip.kind /\ c.data = chip.data
           /\ cmd.op \notin {"se", "data"} => c.pending = chip.pending
           /\ cmd.op \notin {"en4b", "dis4b"} => c.four = chip.four
           /\ cmd.op \in {"en4b", "dis4b"} /\ chip.wel => (c.four <=> cmd.op = "en4b")
           /\ cmd.op = "wren" => c.wel
           /\ cmd.op = "pp" => c.wel = chip.wel /\ c.header = <<cmd>>
           /\ cmd.op # "pp" => c.header = << >>
<1> USE DEF Obeys, ChipRegs
<1>0. PICK d : d = [chip EXCEPT !.header = << >>]
  OBVIOUS
<1>1. /\ d \in ChipRegs(chip.pending, << >>) /\ d.kind = chip.kind /\ d.data = chip.data
      /\ d.pending = chip.pending /\ d.four = chip.four /\ d.wel = chip.wel /\ d.header = << >>
  BY <1>0
<1>2. CASE cmd.op = "wren"
  <2>1. c = [d EXCEPT !.wel = TRUE]
    BY <1>0, <1>2
  <2>2. QED
    BY <2>1, <1>1, <1>2
<1>3. CASE cmd.op \in {"en4b", "dis4b"}
  <2>1. c = IF chip.wel THEN [d EXCEPT !.four = (cmd.op = "en4b"), !.wel = FALSE] ELSE d
    BY <1>0, <1>3
  <2>2. CASE chip.wel
    <3>1. c = [d EXCEPT !.four = (cmd.op = "en4b"), !.wel = FALSE]
      BY <2>1, <2>2
    <3>2. QED
      BY <3>1, <1>1, <1>3
  <2>3. CASE ~ chip.wel
    BY <2>1, <2>3, <1>1, <1>3
  <2>4. QED
    BY <2>2, <2>3, <1>1
<1>4. CASE cmd.op = "se"
  <2>1. PICK a \in Where(chip, cmd) :
          c = IF chip.wel THEN [d EXCEPT !.wel = FALSE, !.pending = [x \in Block(a) |-> Erased]] ELSE d
    BY <1>0, <1>4
  <2>2. CASE chip.wel
    <3>1. c = [d EXCEPT !.wel = FALSE, !.pending = [x \in Block(a) |-> Erased]]
      BY <2>1, <2>2
    <3>2. QED
      BY <3>1, <1>1, <1>4
  <2>3. CASE ~ chip.wel
    BY <2>1, <2>3, <1>1, <1>4
  <2>4. QED
    BY <2>2, <2>3
<1>5. CASE cmd.op = "pp"
  <2>1. c = [chip EXCEPT !.header = <<cmd>>]
    BY <1>5
  <2>2. QED
    BY <2>1, <1>5
<1>6. CASE cmd.op = "data"
  <2>1. PICK a : \/ c = [d EXCEPT !.wel = FALSE, !.pending = Programmed(chip, a, cmd.bytes)]
                 \/ c = d
    BY <1>0, <1>6
  <2>2. CASE c = [d EXCEPT !.wel = FALSE, !.pending = Programmed(chip, a, cmd.bytes)]
    BY <2>2, <1>1, <1>6
  <2>3. CASE c = d
    BY <2>3, <1>1, <1>6
  <2>4. QED
    BY <2>1, <2>2, <2>3
<1>7. CASE cmd.op \in {"rdsr", "read"}
  <2>1. c = d
    BY <1>0, <1>7
  <2>2. QED
    BY <2>1, <1>1, <1>7
<1>8. QED
  BY <1>2, <1>3, <1>4, <1>5, <1>6, <1>7 DEF Commands, CommandOps

\* An erase command in the right mode, to a chip that is enabled for it.
LEMMA ObeyedErase ==
    ASSUME chip \in ChipRegs(chip.pending, chip.header),
           NEW a \in Int, chip.four = four_bytes_mode, chip.wel,
           NEW c \in Obeys(chip, Addressed("se", a, 0))
    PROVE  c.pending = [x \in Block(a) |-> Erased]
<1>1. PICK cmd : cmd = Addressed("se", a, 0)
  OBVIOUS
<1>2. cmd.op = "se" /\ cmd.four = chip.four /\ cmd.at = a
  BY <1>1 DEF Addressed
<1>3. Where(chip, cmd) = {a}
  BY <1>2 DEF Where
<1>4. PICK d : d = [chip EXCEPT !.header = << >>]
  OBVIOUS
<1>5. d \in ChipRegs(chip.pending, << >>)
  BY <1>4 DEF ChipRegs
<1>6. c = [d EXCEPT !.wel = FALSE, !.pending = [x \in Block(a) |-> Erased]]
  BY <1>1, <1>2, <1>3, <1>4 DEF Obeys
<1>7. QED
  BY <1>5, <1>6 DEF ChipRegs

\* Data in the right mode, after their header.
LEMMA ObeyedData ==
    ASSUME chip \in ChipRegs(chip.pending, chip.header),
           NEW a \in Int, chip.four = four_bytes_mode, chip.wel,
           chip.header = <<Addressed("pp", a, 0)>>,
           NEW cmd, cmd.op = "data",
           NEW c \in Obeys(chip, cmd)
    PROVE  /\ cmd.bytes # << >> => c.pending = Programmed(chip, a, cmd.bytes)
           /\ cmd.bytes = << >> => c.pending = chip.pending
<1>1. PICK h : h = Addressed("pp", a, 0)
  OBVIOUS
<1>2. h.four = chip.four /\ h.at = a /\ chip.header # << >> /\ chip.header[1] = h
  BY <1>1 DEF Addressed
<1>3. Where(chip, h) = {a}
  BY <1>2 DEF Where
<1>4. PICK d : d = [chip EXCEPT !.header = << >>]
  OBVIOUS
<1>5. d \in ChipRegs(chip.pending, << >>) /\ d.pending = chip.pending
  BY <1>4 DEF ChipRegs
<1>6. c = IF cmd.bytes # << >>
          THEN [d EXCEPT !.wel = FALSE, !.pending = Programmed(chip, a, cmd.bytes)] ELSE d
  BY <1>2, <1>3, <1>4 DEF Obeys
<1>7. QED
  BY <1>5, <1>6 DEF ChipRegs

\* The bytes are programmed into the cells from a on, which are in its block.
InPage(p, a, bytes) ==
    /\ DOMAIN p = a .. a + Len(bytes) - 1
    /\ \A k \in 1 .. Len(bytes) : p[a + k - 1] = chip.data[a + k - 1] \intersect bytes[k]
    /\ \A x \in DOMAIN p : x \in Cells(chip.kind) /\ BlockOf(x) = BlockOf(a) /\ p[x] \in Byte

\* What is programmed from a on, when it does not reach beyond the end of the page.
LEMMA ProgrammedIs ==
    ASSUME chip \in ChipRegs(chip.pending, chip.header),
           NEW a \in Cells(chip.kind), NEW bytes \in Seq(Byte), NEW p, p = Programmed(chip, a, bytes),
           a + Len(bytes) <= NextPageStart(a)
    PROVE  InPage(p, a, bytes)
<1>0. chip.kind \in CHIPS /\ chip.data \in [Cells(chip.kind) -> Byte]
  BY DEF ChipRegs
<1>1. a \in Nat /\ Cells(chip.kind) \subseteq Int
  BY <1>0, BlockInCells
<1>2. PAGE \in Nat \ {0}
  BY <1>0, <1>1, PageIs
<1>3. PICK page \in Int : page = StartOf(a, PAGE)
  BY <1>0, <1>1, PageIs
<1>4. page <= a /\ a + Len(bytes) <= page + PAGE /\ a < page + PAGE
  BY <1>0, <1>1, <1>3, PageIs
<1>5. Len(bytes) \in Nat
  OBVIOUS
<1>6. ASSUME NEW k \in 1 .. Len(bytes)
      PROVE  (a + k - 1) % PAGE = a + k - 1 - page
  <2>1. PICK x \in Int : x = a + k - 1
    BY <1>1, <1>5
  <2>2. x \in page .. page + PAGE - 1
    BY <2>1, <1>1, <1>2, <1>4, <1>5
  <2>3. StartOf(x, PAGE) = page
    BY <2>2, <1>0, <1>1, <1>3, PageIs
  <2>4. x % PAGE = x - page
    BY <2>3, <1>2, StartIs
  <2>5. QED
    BY <2>1, <2>4, <1>1, <1>2, <1>5
<1>7. p = [x \in {y \in page .. page + PAGE - 1 :
                     {k \in 1 .. Len(bytes) : page + ((a + k - 1) % PAGE) = y} # {}} |->
             chip.data[x] \intersect
               bytes[CHOOSE k \in {j \in 1 .. Len(bytes) : page + ((a + j - 1) % PAGE) = x} :
                       \A l \in {j \in 1 .. Len(bytes) : page + ((a + j - 1) % PAGE) = x} : l <= k]]
  BY <1>3 DEF Programmed, StartOf
<1>8. ASSUME NEW x \in Int
      PROVE  {k \in 1 .. Len(bytes) : page + ((a + k - 1) % PAGE) = x} =
             IF x \in a .. a + Len(bytes) - 1 THEN {x - a + 1} ELSE {}
  <2>1. \A k \in 1 .. Len(bytes) : page + ((a + k - 1) % PAGE) = a + k - 1
    BY <1>6, <1>1, <1>5
  <2>2. \A k \in 1 .. Len(bytes) : page + ((a + k - 1) % PAGE) = x <=> k = x - a + 1
    BY <2>1, <1>1, <1>5
  <2>3. x - a + 1 \in 1 .. Len(bytes) <=> x \in a .. a + Len(bytes) - 1
    BY <1>1, <1>5
  <2>4. QED
    BY <2>2, <2>3
<1>9. DOMAIN p = a .. a + Len(bytes) - 1
  <2>1. DOMAIN p = {y \in page .. page + PAGE - 1 :
                     {k \in 1 .. Len(bytes) : page + ((a + k - 1) % PAGE) = y} # {}}
    BY <1>7
  <2>2. \A y \in page .. page + PAGE - 1 : y \in DOMAIN p <=> y \in a .. a + Len(bytes) - 1
    <3>1. \A y \in page .. page + PAGE - 1 :
            y \in DOMAIN p <=> {k \in 1 .. Len(bytes) : page + ((a + k - 1) % PAGE) = y} # {}
      BY <2>1
    <3>2. \A y \in page .. page + PAGE - 1 : y \in Int
      BY <1>2
    <3>3. ASSUME NEW y \in page .. page + PAGE - 1
          PROVE  {k \in 1 .. Len(bytes) : page + ((a + k - 1) % PAGE) = y} # {} <=>
                 y \in a .. a + Len(bytes) - 1
      BY <3>2, <1>8
    <3>4. QED
      BY <3>1, <3>3
  <2>3. DOMAIN p \subseteq page .. page + PAGE - 1
    BY <2>1
  <2>4. a .. a + Len(bytes) - 1 \subseteq page .. page + PAGE - 1
    BY <1>1, <1>2, <1>4, <1>5
  <2>5. QED
    BY <2>2, <2>3, <2>4
<1>10. ASSUME NEW x \in a .. a + Len(bytes) - 1
       PROVE  p[x] = chip.data[x] \intersect bytes[x - a + 1]
  <2>1. {k \in 1 .. Len(bytes) : page + ((a + k - 1) % PAGE) = x} = {x - a + 1}
    BY <1>8, <1>1
  <2>2. (CHOOSE k \in {x - a + 1} : \A l \in {x - a + 1} : l <= k) = x - a + 1
    BY <1>1
  <2>3. x \in DOMAIN p
    BY <1>9
  <2>4. QED
    BY <1>7, <2>1, <2>2, <2>3
<1>11. \A x \in a .. a + Len(bytes) - 1 : BlockOf(x) = BlockOf(a) /\ x \in Cells(chip.kind)
  <2>1. ASSUME NEW x \in a .. a + Len(bytes) - 1
        PROVE  BlockOf(x) = BlockOf(a) /\ x \in Cells(chip.kind)
    <3>1. x \in page .. page + PAGE - 1 /\ x \in Int
      BY <1>1, <1>2, <1>4, <1>5
    <3>2. BlockOf(x) = BlockOf(a)
      BY <3>1, <1>0, <1>1, <1>3, PageIs
    <3>3. /\ BlockOf(x) <= x /\ x < BlockOf(x) + BlockSize(chip.kind)
          /\ BlockSize(chip.kind) \in Nat /\ BlockOf(x) \in Int
      BY <3>1, <1>0, BlockIs
    <3>4. 0 <= BlockOf(a) /\ BlockOf(a) + BlockSize(chip.kind) <= size /\ size \in Nat
      BY <1>0, BlockInCells
    <3>5. QED
      BY <3>1, <3>2, <3>3, <3>4, <1>0, BlockInCells
  <2>2. QED
    BY <2>1
<1>12. \A k \in 1 .. Len(bytes) : p[a + k - 1] = chip.data[a + k - 1] \intersect bytes[k]
  <2>1. ASSUME NEW k \in 1 .. Len(bytes)
        PROVE  p[a + k - 1] = chip.data[a + k - 1] \intersect bytes[k]
    <3>1. PICK x \in a .. a + Len(bytes) - 1 : x = a + k - 1
      BY <1>1, <1>5
    <3>2. x - a + 1 = k
      BY <3>1, <1>1, <1>5
    <3>3. QED
      BY <3>1, <3>2, <1>10
  <2>2. QED
    BY <2>1
<1>13. ASSUME NEW x \in a .. a + Len(bytes) - 1
       PROVE  p[x] \in Byte
  <2>1. chip.data[x] \in Byte
    BY <1>0, <1>11
  <2>2. p[x] \subseteq chip.data[x]
    BY <1>10
  <2>3. QED
    BY <2>1, <2>2 DEF Byte
<1>14. QED
  BY <1>9, <1>11, <1>12, <1>13 DEF InPage

----------------------------------------------------------------------------
(* A command of the script                                                  *)

\* The sequences: who enables what, and when the status is asked for.
LEMMA OpsAre ==
    ASSUME NEW ops \in {ReadOps, EraseOps, WriteOps}
    PROVE  /\ Len(ops) \in 6 .. 8
           /\ \A i \in 1 .. Len(ops) : ops[i] \in CommandOps
           /\ ops[1] = "dis4b" /\ ops[2] = "wren"
           /\ ops[Len(ops) - 1] = "en4b" /\ ops[Len(ops)] = "wren"
           /\ \A i \in 2 .. Len(ops) - 2 : ops[i] \notin {"en4b", "dis4b"}
           /\ \A i \in 1 .. Len(ops) - 1 : ops[i] \in {"en4b", "dis4b", "se", "pp", "data"} =>
                ops[i + 1] \in {"wren", "pp"}
           /\ \A i \in 1 .. Len(ops) : ops[i] \in {"se", "data"} => i = 4 /\ ops[3] = "rdsr"
<1>1. CASE ops = ReadOps
  BY <1>1 DEF ReadOps, CommandOps
<1>2. CASE ops = EraseOps
  BY <1>2 DEF EraseOps, CommandOps
<1>3. CASE ops = WriteOps
  BY <1>3 DEF WriteOps, CommandOps
<1>4. QED
  BY <1>1, <1>2, <1>3

\* A script that is not over, and its next command.
LEMMA NextCommand ==
    ASSUME Typed, drv.script # << >>
    PROVE  /\ Head(drv.script) = Cmd(Left) /\ Head(drv.script) \in Commands
           /\ Left \in Int /\ Left >= 1 - Ends /\ Len(drv.script) = Left + Ends
           /\ Ends \in {0, 2} /\ (Ends = 2 <=> four_bytes_mode) /\ four_bytes_mode \in BOOLEAN
<1>1. drv.script \in Seq(Commands) /\ chip.kind \in CHIPS
  BY DEF Typed, DriverLocals, ChipRegs
<1>2. Len(drv.script) \in Nat /\ Len(drv.script) >= 1 /\ Head(drv.script) = drv.script[1]
      /\ drv.script[1] \in Commands
  BY <1>1
<1>3. Ends \in {0, 2} /\ (Ends = 2 <=> four_bytes_mode) /\ four_bytes_mode \in BOOLEAN
  BY <1>1, ModeTyped
<1>4. Left \in Int /\ Left >= 1 - Ends /\ Len(drv.script) = Left + Ends
  BY <1>2, <1>3 DEF Left
<1>5. Left + 1 - Left = 1
  BY <1>4
<1>6. QED
  BY <1>2, <1>3, <1>4, <1>5 DEF Cmd

\* The rest of the script after a command.
LEMMA ShiftedBack ==
    ASSUME Typed, drv.script # << >>, drv'.script = Tail(drv.script), chip'.kind = chip.kind
    PROVE  /\ Left' = Left - 1 /\ Ends' = Ends
           /\ \A p \in 1 - Ends .. Left - 1 : Cmd(p)' = Cmd(p)
           /\ drv'.script = << >> <=> Left = 1 - Ends
           /\ drv'.script # << >> => Head(drv.script)' = Cmd(Left - 1)
           /\ drv'.script \in Seq(Commands)
<1>1. drv.script \in Seq(Commands) /\ chip.kind \in CHIPS
  BY DEF Typed, DriverLocals, ChipRegs
<1>2. /\ Left \in Int /\ Left >= 1 - Ends /\ Len(drv.script) = Left + Ends /\ Ends \in {0, 2}
  BY NextCommand
<1>3. Ends' = Ends
  BY SameGeometry
<1>4. drv'.script \in Seq(Commands) /\ Len(drv'.script) = Len(drv.script) - 1
      /\ \A i \in 1 .. Len(drv.script) - 1 : drv'.script[i] = drv.script[i + 1]
  BY <1>1
<1>5. Left' = Left - 1
  BY <1>2, <1>3, <1>4 DEF Left
<1>6. ASSUME NEW p \in 1 - Ends .. Left - 1
      PROVE  Cmd(p)' = Cmd(p)
  <2>1. PICK i \in 1 .. Len(drv.script) - 1 : i = Left - p
    BY <1>2
  <2>2. Cmd(p)' = drv'.script[i] /\ Cmd(p) = drv.script[i + 1]
    <3>1. (Left - 1) + 1 - p = i /\ Left + 1 - p = i + 1
      BY <1>2, <2>1
    <3>2. QED
      BY <3>1, <1>5 DEF Cmd
  <2>3. QED
    BY <2>2, <1>4
<1>7. drv'.script = << >> <=> Left = 1 - Ends
  <2>1. drv'.script = << >> <=> Len(drv'.script) = 0
    BY <1>4, EmptySeq
  <2>2. Len(drv'.script) = Left + Ends - 1
    BY <1>2, <1>4
  <2>3. Left + Ends - 1 = 0 <=> Left = 1 - Ends
    BY <1>2
  <2>4. QED
    BY <2>1, <2>2, <2>3
<1>8. ASSUME drv'.script # << >>
      PROVE  Head(drv.script)' = Cmd(Left - 1)
  <2>1. Left - 1 >= 1 - Ends /\ Left - 1 \in Int
    BY <1>2, <1>7, <1>8
  <2>2. Head(drv'.script) = drv'.script[1] /\ 1 \in 1 .. Len(drv.script) - 1
    BY <1>4, <1>8
  <2>3. drv'.script[1] = drv.script[2]
    BY <1>4, <2>2
  <2>4. Left + 1 - (Left - 1) = 2
    BY <1>2
  <2>5. QED
    BY <2>2, <2>3, <2>4 DEF Cmd
<1>9. QED
  BY <1>3, <1>4, <1>5, <1>6, <1>7, <1>8

\* A chip that is sent a command hears it.
LEMMA Sent ==
    ASSUME Typed, Scripted, Heard, SendCommand
    PROVE  /\ drv.script # << >> /\ drv'.script = Tail(drv.script)
           /\ drv'.at = drv.at /\ drv'.op = drv.op /\ drv'.offset = drv.offset
           /\ drv'.src = drv.src /\ drv'.cur = drv.cur /\ drv'.ret = drv.ret
           /\ drv' \in DriverLocals(drv'.got)
           /\ asked' = asked /\ failures' = failures
           /\ ~ Busy /\ chip' \in Obeys(chip, Head(drv.script))
           /\ chip' \in ChipRegs(chip.pending, chip.header)'
           /\ chip'.kind = chip.kind /\ chip'.data = chip.data
           /\ Head(drv.script).op = "read" =>
                \E a \in Where(chip, Head(drv.script)) :
                  drv'.got = [k \in 1 .. Head(drv.script).length |-> chip.data[(a + k - 1) % size]]
           /\ Head(drv.script).op # "read" => drv'.got = drv.got
           /\ ~ Starting
<1>1. drv \in DriverLocals(drv.got) /\ chip \in ChipRegs(chip.pending, chip.header)
  BY DEF Typed
<1>2. drv.script # << >> /\ UNCHANGED <<asked, failures>>
  BY DEF SendCommand
<1>3. Head(drv.script) \in Commands /\ drv.script \in Seq(Commands)
  BY <1>1, <1>2, NextCommand DEF DriverLocals
<1>4. Tail(drv.script) \in Seq(Commands)
  BY <1>2, <1>3
<1>5. PICK g : drv' = [drv EXCEPT !.script = Tail(drv.script), !.got = g]
  BY DEF SendCommand
<1>6. /\ drv'.script = Tail(drv.script) /\ drv'.got = g
      /\ drv'.at = drv.at /\ drv'.op = drv.op /\ drv'.offset = drv.offset
      /\ drv'.src = drv.src /\ drv'.cur = drv.cur /\ drv'.ret = drv.ret
      /\ drv' \in DriverLocals(drv'.got)
  BY <1>1, <1>4, <1>5 DEF DriverLocals
<1>7. ~ Starting
  BY <1>2 DEF Scripted, Starting
<1>8. ~ Busy
  BY <1>2, <1>7 DEF Heard, SendCommand
<1>9. chip' \in Obeys(chip, Head(drv.script))
  BY <1>8 DEF SendCommand
<1>10. chip' \in ChipRegs(chip'.pending, chip'.header) /\ chip'.kind = chip.kind /\ chip'.data = chip.data
  BY <1>1, <1>3, <1>9, Obeyed
<1>11. chip' \in ChipRegs(chip.pending, chip.header)'
  BY <1>10, SameGeometry DEF ChipRegs
<1>12. Head(drv.script).op = "read" =>
         \E a \in Where(chip, Head(drv.script)) :
           drv'.got = [k \in 1 .. Head(drv.script).length |-> chip.data[(a + k - 1) % size]]
  <2>1. ASSUME Head(drv.script).op = "read"
        PROVE  \E a \in Where(chip, Head(drv.script)) :
                 drv' = [drv EXCEPT !.script = Tail(drv.script),
                           !.got = [k \in 1 .. Head(drv.script).length |-> chip.data[(a + k - 1) % size]]]
    BY <2>1 DEF SendCommand
  <2>2. QED
    BY <2>1, <1>1 DEF DriverLocals
<1>13. Head(drv.script).op # "read" => drv'.got = drv.got
  <2>1. ASSUME Head(drv.script).op # "read"
        PROVE  drv' = [drv EXCEPT !.script = Tail(drv.script), !.got = drv.got]
    BY <2>1 DEF SendCommand
  <2>2. QED
    BY <2>1, <1>1 DEF DriverLocals
<1>14. QED
  BY <1>2, <1>6, <1>7, <1>8, <1>9, <1>10, <1>11, <1>12, <1>13

\* The mode, and what the chip is enabled for and busy with, after a command of one of
\* the sequences.
LEMMA FollowsOn ==
    ASSUME Typed, Scripted, Heard, Mode, SendCommand,
           NEW ops \in {ReadOps, EraseOps, WriteOps}, Follows(ops)
    PROVE  /\ Follows(ops)' /\ Heard'
           /\ chip'.four => four_bytes_mode'
           /\ Left \in Int /\ Left >= 1 - Ends /\ Left <= Len(ops) - 4 + Ends
           /\ Head(drv.script).op = ops[Left + 2]
<1> DEFINE cmd == Head(drv.script)
<1>1. /\ drv.script # << >> /\ drv'.script = Tail(drv.script) /\ ~ Busy /\ chip' \in Obeys(chip, cmd)
      /\ chip'.kind = chip.kind /\ ~ Starting /\ chip \in ChipRegs(chip.pending, chip.header)
  BY Sent DEF Typed
<1>2. /\ cmd = Cmd(Left) /\ cmd \in Commands /\ Left \in Int /\ Left >= 1 - Ends
      /\ Ends \in {0, 2} /\ (Ends = 2 <=> four_bytes_mode) /\ four_bytes_mode \in BOOLEAN
  BY <1>1, NextCommand
<1>3. /\ Left' = Left - 1 /\ Ends' = Ends /\ four_bytes_mode' = four_bytes_mode
      /\ \A p \in 1 - Ends .. Left - 1 : Cmd(p)' = Cmd(p)
      /\ drv'.script = << >> <=> Left = 1 - Ends
      /\ drv'.script # << >> => Head(drv.script)' = Cmd(Left - 1)
  BY <1>1, ShiftedBack, SameGeometry
<1>0. PICK n \in 6 .. 8 : n = Len(ops)
  BY OpsAre
<1>4. /\ Left <= Len(ops) - 4 + Ends
      /\ \A p \in 1 - Ends .. Left : Cmd(p).op = ops[p + 2]
      /\ Left <= Len(ops) - 4 => (chip.four <=> four_bytes_mode)
  BY <1>1, OpsAre DEF Follows
<1>5. cmd.op = ops[Left + 2] /\ Left + 2 \in 1 .. Len(ops)
  BY <1>2, <1>4
<1>6. /\ cmd.op \notin {"se", "data"} => chip'.pending = chip.pending
      /\ cmd.op \notin {"en4b", "dis4b"} => chip'.four = chip.four
      /\ cmd.op \in {"en4b", "dis4b"} /\ chip.wel => (chip'.four <=> cmd.op = "en4b")
      /\ cmd.op = "wren" => chip'.wel
      /\ cmd.op = "pp" => chip'.wel = chip.wel
      /\ cmd.op \in {"en4b", "dis4b", "se", "pp", "data"} => chip.wel
      /\ chip.four \in BOOLEAN /\ chip'.four \in BOOLEAN
  BY <1>1, <1>2, Obeyed, Sent DEF Heard, ChipRegs
<1>7. (chip'.four => four_bytes_mode) /\
      (Left - 1 <= Len(ops) - 4 => (chip'.four <=> four_bytes_mode /\ drv'.script # << >>))
  <2>1. CASE Left = -1
    <3>1. cmd.op = "dis4b" /\ Ends = 2
      BY <2>1, <1>2, <1>5, OpsAre
    <3>2. QED
      BY <3>1, <2>1, <1>3, <1>6
  <2>2. CASE Left = Len(ops) - 3
    <3>1. Left = n - 3 /\ Left + 2 = n - 1
      BY <1>0, <2>2
    <3>2. cmd.op = "en4b"
      BY <1>0, <3>1, <1>5, OpsAre
    <3>3. Ends = 2 /\ drv'.script # << >>
      BY <1>0, <3>1, <1>2, <1>3, <1>4
    <3>4. QED
      BY <3>2, <3>3, <1>2, <1>6
  <2>3. CASE Left # -1 /\ Left <= Len(ops) - 4
    <3>1. Left + 2 \in 2 .. Len(ops) - 2
      BY <2>3, <1>2, <1>4
    <3>2. cmd.op \notin {"en4b", "dis4b"}
      BY <3>1, <1>5, OpsAre
    <3>3. drv'.script = << >> => ~ four_bytes_mode
      BY <2>3, <1>2, <1>3
    <3>4. QED
      BY <2>3, <3>2, <3>3, <1>4, <1>6
  <2>4. CASE Left = Len(ops) - 2
    <3>1. cmd.op = "wren"
      <4>1. Left + 2 = Len(ops)
        BY <2>4, <1>4
      <4>2. QED
        BY <4>1, <1>5, OpsAre
    <3>2. QED
      BY <3>1, <2>4, <1>4, <1>6 DEF Mode
  <2>5. QED
    BY <2>1, <2>2, <2>3, <2>4, <1>2, <1>4
<1>8. Follows(ops)'
  <2>1. \A p \in 1 - Ends .. Left - 1 : Cmd(p)'.op = ops[p + 2]
    BY <1>2, <1>3, <1>4
  <2>2. QED
    BY <2>1, <1>2, <1>3, <1>4, <1>7 DEF Follows
<1>9. ASSUME drv'.script # << >>
      PROVE  Head(drv.script)'.op = ops[Left + 1] /\ Left + 1 \in 1 .. Len(ops) - 1
  <2>1. Left - 1 \in 1 - Ends .. Left
    BY <1>2, <1>3, <1>9
  <2>2. Cmd(Left - 1).op = ops[(Left - 1) + 2]
    BY <2>1, <1>4
  <2>3. (Left - 1) + 2 = Left + 1 /\ Left + 1 \in 1 .. Len(ops) - 1
    BY <2>1, <1>2, <1>4
  <2>4. QED
    BY <2>2, <2>3, <1>3, <1>9
<1>10. ASSUME Busy'
       PROVE  drv'.script # << >> /\ Head(drv.script)'.op = "rdsr"
  <2>1. cmd.op \in {"se", "data"}
    BY <1>1, <1>6, <1>10 DEF Busy
  <2>2. Left = 2 /\ ops[3] = "rdsr"
    <3>1. PICK i \in 1 .. Len(ops) : i = Left + 2 /\ ops[i] \in {"se", "data"}
      BY <2>1, <1>5
    <3>2. i = 4 /\ ops[3] = "rdsr"
      BY <3>1, OpsAre
    <3>3. QED
      BY <3>1, <3>2, <1>2
  <2>3. drv'.script # << >>
    BY <2>2, <1>2, <1>3
  <2>4. QED
    BY <2>2, <2>3, <1>9
<1>11. ASSUME drv'.script # << >>, Head(drv.script)'.op \in {"en4b", "dis4b", "se", "pp", "data"}
       PROVE  chip'.wel
  <2>1. PICK i \in 1 .. Len(ops) - 1 : i = Left + 1 /\ ops[i] \in {"en4b", "dis4b", "se", "pp", "data"}
    BY <1>9, <1>11
  <2>2. i + 1 = Left + 2 /\ ops[i + 1] \in {"wren", "pp"}
    BY <2>1, <1>2, OpsAre
  <2>3. QED
    BY <2>2, <1>5, <1>6
<1>12. Heard'
  BY <1>10, <1>11 DEF Heard, Busy
<1>13. QED
  BY <1>2, <1>3, <1>4, <1>5, <1>7, <1>8, <1>12

----------------------------------------------------------------------------
(* A command of each of the three functions                                 *)

\* What is left of a call does not depend on the script.
LEMMA SamePlace ==
    ASSUME drv'.at = drv.at, drv'.op = drv.op, drv'.offset = drv.offset, drv'.src = drv.src,
           drv'.cur = drv.cur, drv'.ret = drv.ret, asked' = asked, chip'.kind = chip.kind
    PROVE  /\ Rest => Rest'
           /\ Sectors => Sectors'
           /\ Within => Within'
           /\ limit' = limit /\ this_chunk_size' = this_chunk_size /\ Base' = Base
           /\ Writes' = Writes /\ Starting' = Starting /\ Closed' = Closed
<1>1. /\ \A a : BlockOf(a)' = BlockOf(a)
      /\ \A a : TestAddress(a)' = TestAddress(a)
      /\ BlockSize(chip.kind)' = BlockSize(chip.kind)
  BY SameGeometry DEF BlockSize
<1>2. /\ BlockOf(drv.offset)' = BlockOf(drv.offset) /\ TestAddress(drv.offset)' = TestAddress(drv.offset)
      /\ TestAddress(asked.offset)' = TestAddress(asked.offset)
      /\ BlockOf(asked.offset)' = BlockOf(asked.offset)
      /\ \A k : BlockOf(drv.offset + k - 1)' = BlockOf(drv.offset + k - 1)
      /\ \A k : BlockOf(asked.offset + k - 1)' = BlockOf(asked.offset + k - 1)
  BY SameGeometry DEF BlockOf, TestAddress
<1>3. data_to_write' = data_to_write
  BY <1>1, <1>2 DEF data_to_write
<1>4. /\ limit' = limit /\ this_chunk_size' = this_chunk_size /\ Base' = Base /\ Writes' = Writes
      /\ Starting' = Starting /\ Closed' = Closed
  BY <1>2, <1>3 DEF limit, this_chunk_size, Base, Writes, Starting, Closed
<1>5. Rest => Rest'
  BY <1>2, <1>4 DEF Rest
<1>6. Sectors => Sectors'
  BY <1>2, <1>4 DEF Sectors
<1>7. Within => Within'
  BY <1>2, <1>4 DEF Within
<1>8. QED
  BY <1>4, <1>5, <1>6, <1>7

\* The part of the data that goes to the block of its first byte.
LEMMA LimitIs ==
    ASSUME Typed, Rest, Writes, drv.ret = 0, TestAddress(drv.offset)
    PROVE  /\ limit \in Nat /\ limit <= Len(drv.src) /\ Len(drv.src) \in Nat
           /\ drv.offset \in Cells(chip.kind)
           /\ \A k \in 1 .. limit : drv.offset + k - 1 \in Cells(chip.kind) /\
                                    BlockOf(drv.offset + k - 1) = BlockOf(drv.offset)
           /\ drv.src # << >> => limit > 0
           /\ limit < Len(drv.src) =>
                drv.op = "write" /\ drv.offset + limit = BlockOf(drv.offset) + BlockSize(chip.kind)
<1>1. /\ chip.kind \in CHIPS /\ drv.offset \in Int /\ drv.src \in Seq(Byte) /\ Len(drv.src) \in Nat
  BY DEF Typed, ChipRegs, DriverLocals
<1>2. PICK b \in Nat \ {0}, s \in Int : b = BlockSize(chip.kind) /\ s = BlockOf(drv.offset)
  BY <1>1, BlockIs
<1>3. s <= drv.offset /\ drv.offset < s + b /\ drv.offset \in Cells(chip.kind)
  BY <1>1, <1>2, BlockIs, BlockInCells
<1>4. 0 <= s /\ s + b <= size /\ size \in Nat
  BY <1>1, <1>2, <1>3, BlockInCells
<1>5. ASSUME NEW x \in Int, BlockOf(x) = s
      PROVE  x \in Cells(chip.kind)
  <2>1. s <= x /\ x < s + b
    BY <1>1, <1>2, <1>5, BlockIs
  <2>2. QED
    BY <2>1, <1>1, <1>2, <1>4, BlockInCells
<1>6. drv.src # << >> => Len(drv.src) > 0
  BY <1>1, EmptySeq
<1>7. CASE drv.op = "write"
  <2>1. limit = Least(s + b - drv.offset, Len(drv.src))
    BY <1>2, <1>7 DEF limit, data_to_write
  <2>2. limit \in Nat /\ limit <= Len(drv.src) /\ limit <= s + b - drv.offset
        /\ (limit < Len(drv.src) => drv.offset + limit = s + b)
        /\ (drv.src # << >> => limit > 0)
    BY <2>1, <1>1, <1>2, <1>3, <1>6 DEF Least
  <2>3. ASSUME NEW k \in 1 .. limit
        PROVE  BlockOf(drv.offset + k - 1) = s
    <3>1. PICK x \in Int : x = drv.offset + k - 1 /\ s <= x /\ x < s + b
      BY <2>2, <1>1, <1>2, <1>3
    <3>2. s <= x /\ x < s + b <=> BlockOf(x) = s
      BY <1>1, <1>2, BlockIs
    <3>3. QED
      BY <3>1, <3>2
  <2>4. QED
    BY <2>2, <2>3, <1>1, <1>2, <1>3, <1>5, <1>7
<1>8. CASE drv.op = "write_block"
  <2>1. limit = Len(drv.src)
    BY <1>8 DEF limit
  <2>2. \A k \in 1 .. limit : BlockOf(drv.offset + k - 1) = s
    BY <2>1, <1>2, <1>8 DEF Rest
  <2>3. QED
    BY <2>1, <2>2, <1>1, <1>2, <1>3, <1>5, <1>6
<1>9. QED
  BY <1>7, <1>8 DEF Writes

\* A command of read_buffer.
LEMMA SendReading ==
    ASSUME Typed, Scripted, Heard, Mode, SendCommand,
           NEW a \in Int, NEW len \in Nat, Reading(a, len)
    PROVE  /\ Reading(a, len)' /\ chip'.pending = chip.pending /\ chip'.header = << >>
           /\ Left = 1 => drv'.got = [k \in 1 .. len |-> chip.data[(a + k - 1) % size]]
           /\ Left <= 0 => drv'.got = drv.got
<1> DEFINE cmd == Head(drv.script)
<1>1. /\ Follows(ReadOps)' /\ Left \in Int /\ Left >= 1 - Ends /\ Left <= 2 + Ends
      /\ cmd.op = ReadOps[Left + 2]
  <2>1. Follows(ReadOps) /\ Len(ReadOps) = 6
    BY DEF Reading, ReadOps
  <2>2. /\ Follows(ReadOps)' /\ Left \in Int /\ Left >= 1 - Ends /\ Left <= Len(ReadOps) - 4 + Ends
        /\ Head(drv.script).op = ReadOps[Left + 2]
    BY <2>1, FollowsOn
  <2>3. Ends \in {0, 2}
    BY Sent, NextCommand
  <2>4. QED
    BY <2>1, <2>2, <2>3
<1>2. /\ drv.script # << >> /\ drv'.script = Tail(drv.script) /\ chip'.kind = chip.kind
      /\ chip' \in Obeys(chip, cmd) /\ chip \in ChipRegs(chip.pending, chip.header)
  BY Sent DEF Typed
<1>3. cmd = Cmd(Left) /\ cmd \in Commands /\ Ends \in {0, 2}
  BY <1>2, NextCommand
<1>4. /\ Left' = Left - 1 /\ \A p \in 1 - Ends .. Left - 1 : Cmd(p)' = Cmd(p)
      /\ Addressed("read", a, len)' = Addressed("read", a, len)
  BY <1>2, ShiftedBack, SameGeometry
<1>5. Left' >= 1 => Cmd(1)' = Addressed("read", a, len)'
  BY <1>1, <1>3, <1>4 DEF Reading
<1>6. Left + 2 \in 1 .. 6
  BY <1>1, <1>3
<1>7. cmd.op \in {"dis4b", "wren", "read", "rdsr", "en4b"}
  BY <1>1, <1>6 DEF ReadOps
<1>8. chip'.pending = chip.pending /\ chip'.header = << >>
  BY <1>2, <1>3, <1>7, Obeyed
<1>9. ASSUME Left = 1
      PROVE  drv'.got = [k \in 1 .. len |-> chip.data[(a + k - 1) % size]]
  <2>1. cmd = Addressed("read", a, len)
    BY <1>3, <1>9 DEF Reading
  <2>2. chip.four = four_bytes_mode
    BY <1>2, <1>9, NextCommand DEF Reading, Follows, ReadOps, Typed, ChipRegs
  <2>3. cmd.op = "read" /\ Where(chip, cmd) = {a} /\ cmd.length = len
    BY <2>1, <2>2 DEF Addressed, Where
  <2>4. QED
    BY <2>3, Sent
<1>10. ASSUME Left <= 0
       PROVE  drv'.got = drv.got
  <2>1. Left + 2 \in {1, 2}
    BY <1>1, <1>6, <1>10
  <2>2. cmd.op # "read"
    BY <2>1, <1>1 DEF ReadOps
  <2>3. QED
    BY <2>2, Sent
<1>11. QED
  BY <1>1, <1>5, <1>8, <1>9, <1>10 DEF Reading

\* A command of sector_erase.
LEMMA SendErasing ==
    ASSUME Typed, Scripted, Heard, Mode, SendCommand, NEW a \in Int, Erasing(a)
    PROVE  /\ Erasing(a)' /\ chip'.header = << >> /\ Left' = Left - 1 /\ Left \in Int
           /\ Left # 2 => chip'.pending = chip.pending
           /\ Left = 2 => chip'.pending = [x \in Block(a) |-> Erased]
<1> DEFINE cmd == Head(drv.script)
<1>1. /\ Follows(EraseOps)' /\ Left \in Int /\ Left >= 1 - Ends /\ Left <= 3 + Ends
      /\ cmd.op = EraseOps[Left + 2]
  <2>1. Follows(EraseOps) /\ Len(EraseOps) = 7
    BY DEF Erasing, EraseOps
  <2>2. /\ Follows(EraseOps)' /\ Left \in Int /\ Left >= 1 - Ends /\ Left <= Len(EraseOps) - 4 + Ends
        /\ Head(drv.script).op = EraseOps[Left + 2]
    BY <2>1, FollowsOn
  <2>3. Ends \in {0, 2}
    BY Sent, NextCommand
  <2>4. QED
    BY <2>1, <2>2, <2>3
<1>2. /\ drv.script # << >> /\ drv'.script = Tail(drv.script) /\ chip'.kind = chip.kind
      /\ chip' \in Obeys(chip, cmd) /\ chip \in ChipRegs(chip.pending, chip.header)
  BY Sent DEF Typed
<1>3. cmd = Cmd(Left) /\ cmd \in Commands /\ Ends \in {0, 2}
  BY <1>2, NextCommand
<1>4. /\ Left' = Left - 1 /\ \A p \in 1 - Ends .. Left - 1 : Cmd(p)' = Cmd(p)
      /\ Addressed("se", a, 0)' = Addressed("se", a, 0)
  BY <1>2, ShiftedBack, SameGeometry
<1>5. Left' >= 2 => Cmd(2)' = Addressed("se", a, 0)'
  BY <1>1, <1>3, <1>4 DEF Erasing
<1>6. Left + 2 \in 1 .. 7
  BY <1>1, <1>3
<1>7. cmd.op \in {"dis4b", "wren", "se", "rdsr", "en4b"}
  BY <1>1, <1>6 DEF EraseOps
<1>8. chip'.header = << >>
  BY <1>2, <1>3, <1>7, Obeyed
<1>9. ASSUME Left = 2
      PROVE  chip'.pending = [x \in Block(a) |-> Erased]
  <2>1. cmd = Addressed("se", a, 0)
    BY <1>3, <1>9 DEF Erasing
  <2>2. chip.four = four_bytes_mode
    BY <1>2, <1>9, NextCommand DEF Erasing, Follows, EraseOps, Typed, ChipRegs
  <2>3. chip.wel
    BY <1>2, <2>1 DEF Heard, Addressed
  <2>4. QED
    BY <2>1, <2>2, <2>3, <1>2, ObeyedErase
<1>10. ASSUME Left # 2
       PROVE  chip'.pending = chip.pending
  <2>1. Left + 2 \in {1, 2, 3, 5, 6, 7}
    BY <1>1, <1>6, <1>10
  <2>2. cmd.op \notin {"se", "data"}
    BY <2>1, <1>1 DEF EraseOps
  <2>3. QED
    BY <2>2, <1>2, <1>3, Obeyed
<1>11. QED
  BY <1>1, <1>4, <1>5, <1>8, <1>9, <1>10 DEF Erasing

\* A command of write_buffer.
LEMMA SendWriting ==
    ASSUME Typed, Scripted, Heard, Mode, SendCommand, Writing, drv.cur > 0
    PROVE  /\ Writing' /\ Left' = Left - 1 /\ Left \in Int
           /\ Unsent' = (IF Left >= 3 THEN Unsent ELSE 0) /\ Unsent \in Nat
           /\ Left # 3 => chip'.header = << >>
           /\ Left = 3 => chip'.header = <<Addressed("pp", From, 0)>>
           /\ Left # 2 => chip'.pending = chip.pending
           /\ Left = 2 => chip'.pending = Programmed(chip, From, Cmd(2).bytes)
<1> DEFINE cmd == Head(drv.script)
<1>1. /\ Follows(WriteOps)' /\ Left \in Int /\ Left >= 1 - Ends /\ Left <= 4 + Ends
      /\ cmd.op = WriteOps[Left + 2]
  <2>1. Follows(WriteOps) /\ Len(WriteOps) = 8
    BY DEF Writing, WriteOps
  <2>2. /\ Follows(WriteOps)' /\ Left \in Int /\ Left >= 1 - Ends /\ Left <= Len(WriteOps) - 4 + Ends
        /\ Head(drv.script).op = WriteOps[Left + 2]
    BY <2>1, FollowsOn
  <2>3. Ends \in {0, 2}
    BY Sent, NextCommand
  <2>4. QED
    BY <2>1, <2>2, <2>3
<1>2. /\ drv.script # << >> /\ drv'.script = Tail(drv.script) /\ chip'.kind = chip.kind
      /\ drv'.offset = drv.offset /\ drv'.cur = drv.cur /\ drv'.src = drv.src
      /\ chip' \in Obeys(chip, cmd) /\ chip \in ChipRegs(chip.pending, chip.header)
  BY Sent DEF Typed
<1>3. cmd = Cmd(Left) /\ cmd \in Commands /\ Ends \in {0, 2}
  BY <1>2, NextCommand
<1>4. /\ Left' = Left - 1 /\ \A p \in 1 - Ends .. Left - 1 : Cmd(p)' = Cmd(p)
      /\ \A x : Addressed("pp", x, 0)' = Addressed("pp", x, 0)
  BY <1>2, ShiftedBack, SameGeometry
<1>5. Unsent' = (IF Left >= 3 THEN Unsent ELSE 0) /\ Unsent \in Nat
  <2>1. CASE Left >= 3
    <3>1. Left' >= 2 /\ Cmd(2)' = Cmd(2)
      BY <2>1, <1>1, <1>3, <1>4
    <3>2. Unsent' = Unsent
      BY <3>1, <2>1, <1>1, <1>2 DEF Unsent
    <3>3. Unsent \in 1 .. drv.cur
      BY <2>1, <1>1 DEF Writing
    <3>4. QED
      BY <3>2, <3>3, <2>1
  <2>2. CASE Left < 3
    <3>1. ~ (Left' >= 2)
      BY <2>2, <1>1, <1>4
    <3>2. Unsent' = 0
      BY <3>1 DEF Unsent
    <3>3. Left >= 2 => Unsent \in 1 .. drv.cur
      BY DEF Writing
    <3>4. QED
      BY <3>2, <3>3, <2>2, <1>1 DEF Unsent
  <2>3. QED
    BY <2>1, <2>2, <1>1
<1>6. Left + 2 \in 1 .. 8
  BY <1>1, <1>3
<1>7. ASSUME Left >= 3
      PROVE  /\ Unsent' = Unsent /\ From' = From /\ Cmd(2)' = Cmd(2)
             /\ Unsent' \in 1 .. drv'.cur /\ From' + Unsent' <= NextPageStart(From)'
             /\ Cmd(2)'.bytes = SubSeq(drv.src, drv.cur - Unsent + 1, drv.cur)'
             /\ Addressed("pp", From, 0)' = Addressed("pp", From, 0)
  <2>1. Unsent' = Unsent /\ Cmd(2)' = Cmd(2)
    BY <1>1, <1>3, <1>4, <1>5, <1>7
  <2>2. From' = From
    BY <2>1, <1>2 DEF From
  <2>3. NextPageStart(From)' = NextPageStart(From)
    BY <2>2 DEF NextPageStart
  <2>4. /\ Unsent \in 1 .. drv.cur /\ From + Unsent <= NextPageStart(From)
        /\ Cmd(2).bytes = SubSeq(drv.src, drv.cur - Unsent + 1, drv.cur)
    BY <1>1, <1>7 DEF Writing
  <2>5. Addressed("pp", From, 0)' = Addressed("pp", From, 0)
    BY <2>2, <1>2, SameGeometry DEF Addressed
  <2>6. QED
    BY <2>1, <2>2, <2>3, <2>4, <2>5, <1>2
<1>8. Left = 3 => chip'.header = <<Addressed("pp", From, 0)>>
  <2>1. ASSUME Left = 3 PROVE chip'.header = <<Addressed("pp", From, 0)>>
    <3>1. cmd = Addressed("pp", From, 0)
      BY <1>3, <2>1 DEF Writing
    <3>2. cmd.op = "pp"
      BY <3>1 DEF Addressed
    <3>3. QED
      BY <3>1, <3>2, <1>2, <1>3, Obeyed
  <2>2. QED
    BY <2>1
<1>9. ASSUME Left = 2
      PROVE  chip'.pending = Programmed(chip, From, Cmd(2).bytes)
  <2>1. chip.header = <<Addressed("pp", From, 0)>> /\ cmd = Cmd(2)
    BY <1>3, <1>9 DEF Writing
  <2>2. cmd.op = "data"
    BY <1>1, <1>9 DEF WriteOps
  <2>3. chip.four = four_bytes_mode
    BY <1>2, <1>9, NextCommand DEF Writing, Follows, WriteOps, Typed, ChipRegs
  <2>4. chip.wel
    BY <1>2, <2>2 DEF Heard
  <2>5. Unsent >= 1 /\ Unsent = Len(cmd.bytes) /\ From \in Int
    <3>1. Unsent \in 1 .. drv.cur /\ drv.cur \in Nat /\ drv.offset \in Int
      BY <1>9 DEF Writing, Typed, DriverLocals
    <3>2. QED
      BY <3>1, <2>1, <1>9 DEF Unsent, From
  <2>6. cmd.bytes # << >>
    BY <2>5
  <2>7. QED
    BY <2>1, <2>2, <2>3, <2>4, <2>5, <2>6, <1>2, ObeyedData
<1>10. ASSUME Left # 2
       PROVE  chip'.pending = chip.pending
  <2>1. Left + 2 \in {1, 2, 3, 5, 6, 7, 8}
    BY <1>1, <1>6, <1>10
  <2>2. cmd.op \notin {"se", "data"}
    BY <2>1, <1>1 DEF WriteOps
  <2>3. QED
    BY <2>2, <1>2, <1>3, Obeyed
<1>11. ASSUME Left # 3
       PROVE  chip'.header = << >>
  <2>1. Left + 2 \in {1, 2, 3, 4, 6, 7, 8}
    BY <1>1, <1>6, <1>11
  <2>2. cmd.op # "pp"
    BY <2>1, <1>1 DEF WriteOps
  <2>3. QED
    BY <2>2, <1>2, <1>3, Obeyed
<1>12. Writing'
  <2>1. Left' >= 3 => Cmd(3)' = Addressed("pp", From, 0)'
    <3>1. ASSUME Left' >= 3 PROVE Cmd(3)' = Cmd(3) /\ Cmd(3) = Addressed("pp", From, 0) /\ Left >= 3
      BY <3>1, <1>1, <1>3, <1>4 DEF Writing
    <3>2. QED
      BY <3>1, <1>7
  <2>2. Left' = 2 => chip'.header = <<Addressed("pp", From, 0)'>>
    BY <1>1, <1>4, <1>7, <1>8
  <2>3. Left' >= 2 => Left >= 3
    BY <1>1, <1>4
  <2>4. QED
    BY <2>1, <2>2, <2>3, <1>1, <1>7 DEF Writing
<1>13. QED
  BY <1>1, <1>4, <1>5, <1>8, <1>9, <1>10, <1>11, <1>12

----------------------------------------------------------------------------
(* A command of the script keeps the invariant                              *)

\* Nothing is programmed or erased.
LEMMA SameMemory ==
    ASSUME chip'.pending = chip.pending, chip'.data = chip.data, chip'.kind = chip.kind,
           asked' = asked
    PROVE  /\ \A a : Will(a)' = Will(a)
           /\ \A n : WrittenTo(n)' = WrittenTo(n)
           /\ Pending => Pending'
<1>1. \A a : BlockOf(a)' = BlockOf(a)
  BY SameGeometry
<1>2. \A a : Will(a)' = Will(a)
  BY DEF Will
<1>3. Cells(chip.kind)' = Cells(chip.kind)
  BY SameGeometry
<1>4. \A n : WrittenTo(n)' = WrittenTo(n)
  BY <1>2, <1>3 DEF WrittenTo
<1>5. Pending => Pending'
  BY <1>1, <1>3 DEF Pending
<1>6. QED
  BY <1>2, <1>4, <1>5

\* Which script it can be that a command is sent of.
LEMMA Scripts ==
    ASSUME Typed, Scripted, Within, drv.script # << >>
    PROVE  \/ drv.at = "done" /\ drv.op = "read" /\ drv.ret = 0 /\ Reading(drv.offset, Len(drv.src))
           \/ drv.at = "done" /\ drv.op = "erase" /\ drv.ret = 0 /\ Erasing(drv.offset)
           \/ drv.at = "compared" /\ drv.op = "write" /\ Reading(drv.offset + drv.cur, this_chunk_size)
           \/ drv.at = "pages" /\ drv.op = "write" /\ drv.cur = 0 /\ Erasing(BlockOf(drv.offset))
           \/ drv.at = "pages" /\ Writes /\ drv.cur > 0 /\ Writing
<1>1. drv.at \in Steps /\ drv.op \in CallOps /\ drv.cur \in Nat /\ drv.ret \in {0, -1}
  BY DEF Typed, DriverLocals
<1>2. CASE drv.at = "done"
  <2>1. ~ Writes /\ drv.ret = 0
    BY <1>2 DEF Scripted
  <2>2. drv.op # "none"
    BY <1>2 DEF Within
  <2>3. QED
    BY <2>1, <2>2, <1>1, <1>2 DEF Scripted, Writes, CallOps
<1>3. CASE drv.at = "compared"
  BY <1>3 DEF Scripted, Within
<1>4. CASE drv.at = "pages"
  <2>1. Writes
    BY <1>4 DEF Within
  <2>2. CASE drv.cur = 0
    BY <1>4, <2>1, <2>2 DEF Scripted
  <2>3. CASE drv.cur # 0
    BY <1>1, <1>4, <2>1, <2>3 DEF Scripted
  <2>4. QED
    BY <2>2, <2>3
<1>5. QED
  BY <1>1, <1>2, <1>3, <1>4 DEF Scripted, Steps

\* A command leaves the call where it is; the chip does not become deaf to the next one.
LEMMA SendPlaced ==
    ASSUME FlashInv, SendCommand,
           NEW ops \in {ReadOps, EraseOps, WriteOps}, Follows(ops),
           \/ chip'.header = << >>
           \/ \E a \in Cells(chip.kind) : chip'.header = <<Addressed("pp", a, 0)>>
    PROVE  /\ Typed' /\ Heard' /\ Mode' /\ Rest' /\ Sectors' /\ Within'
           /\ Left' = Left - 1 /\ Left \in Int
           /\ drv'.at = drv.at /\ drv'.op = drv.op /\ drv'.offset = drv.offset
           /\ drv'.src = drv.src /\ drv'.cur = drv.cur /\ drv'.ret = drv.ret
           /\ asked' = asked /\ chip'.kind = chip.kind /\ chip'.data = chip.data
           /\ chip.pending = << >>
<1>1. FlashInv
  OBVIOUS
<1>2. /\ drv.script # << >> /\ drv'.script = Tail(drv.script)
      /\ drv'.at = drv.at /\ drv'.op = drv.op /\ drv'.offset = drv.offset
      /\ drv'.src = drv.src /\ drv'.cur = drv.cur /\ drv'.ret = drv.ret
      /\ drv' \in DriverLocals(drv'.got)
      /\ asked' = asked /\ failures' = failures
      /\ chip' \in ChipRegs(chip.pending, chip.header)'
      /\ chip'.kind = chip.kind /\ chip'.data = chip.data
      /\ chip.pending = << >>
  BY <1>1, Sent DEF FlashInv, Busy
<1>3. Typed'
  <2>1. /\ Cells(chip.kind)' = Cells(chip.kind)
        /\ \A a : Addressed("pp", a, 0)' = Addressed("pp", a, 0)
    BY <1>2, SameGeometry
  <2>2. chip'.header \in {<< >>} \union {<<Addressed("pp", a, 0)'>> : a \in Cells(chip.kind)'}
    BY <2>1
  <2>3. QED
    BY <1>1, <1>2, <2>2 DEF FlashInv, Typed, DriverLocals, CallerSees
<1>4. Heard' /\ (chip'.four => four_bytes_mode')
  BY <1>1, FollowsOn DEF FlashInv
<1>5. Rest' /\ Sectors' /\ Within' /\ Closed' = Closed
  BY <1>1, <1>2, SamePlace DEF FlashInv
<1>6. ~ Closed
  BY <1>1, <1>2 DEF FlashInv, Scripted, Closed
<1>7. Mode'
  BY <1>4, <1>5, <1>6 DEF Mode
<1>8. Left' = Left - 1 /\ Left \in Int
  BY <1>1, <1>2, ShiftedBack, NextCommand DEF FlashInv
<1>9. QED
  BY <1>2, <1>3, <1>4, <1>5, <1>7, <1>8

\* A command that leaves the memory alone.
LEMMA SendQuietly ==
    ASSUME FlashInv, SendCommand, chip'.pending = chip.pending, chip'.header = << >>,
           NEW ops \in {ReadOps, EraseOps, WriteOps}, Follows(ops)
    PROVE  /\ Typed' /\ Heard' /\ Mode' /\ Rest' /\ Sectors' /\ Within' /\ Pending'
           /\ \A a : Will(a)' = Will(a)
           /\ \A n : WrittenTo(n)' = WrittenTo(n)
           /\ Left' = Left - 1 /\ Left \in Int
<1>1. /\ Typed' /\ Heard' /\ Mode' /\ Rest' /\ Sectors' /\ Within'
      /\ asked' = asked /\ chip'.kind = chip.kind /\ chip'.data = chip.data
      /\ Left' = Left - 1 /\ Left \in Int
  BY SendPlaced
<1>2. QED
  BY <1>1, SameMemory DEF FlashInv

\* Numbers below n are their own remainders.
LEMMA SmallRemainder ==
    ASSUME NEW n \in Nat \ {0}, NEW x \in 0 .. n - 1
    PROVE  x % n = x
<1>1. x = n * 0 + x /\ x \in Int
  OBVIOUS
<1>2. QED
  BY <1>1, Quotient

\* A read of the caller.
LEMMA SendRead ==
    ASSUME FlashInv, SendCommand, drv.at = "done", drv.op = "read", drv.ret = 0
    PROVE  FlashInv'
<1>1. FlashInv
  OBVIOUS
<1>2. Reading(drv.offset, Len(drv.src)) /\ Follows(ReadOps)
  BY <1>1 DEF FlashInv, Scripted, Reading
<1>3. drv.offset \in Int /\ Len(drv.src) \in Nat /\ drv.src \in Seq(Byte)
  BY <1>1 DEF FlashInv, Typed, DriverLocals
<1>4. /\ drv'.at = drv.at /\ drv'.op = drv.op /\ drv'.offset = drv.offset
      /\ drv'.src = drv.src /\ drv'.ret = drv.ret /\ chip'.data = chip.data
      /\ chip'.kind = chip.kind
  BY <1>1, Sent DEF FlashInv
<1>5. PICK a \in Int, len \in Nat : a = drv.offset /\ len = Len(drv.src)
  BY <1>3
<1>6. /\ Reading(a, len)' /\ chip'.pending = chip.pending /\ chip'.header = << >>
      /\ Left = 1 => drv'.got = [k \in 1 .. len |-> chip.data[(a + k - 1) % size]]
      /\ Left <= 0 => drv'.got = drv.got
  BY <1>1, <1>2, <1>5, SendReading DEF FlashInv
<1>7. Reading(drv.offset, Len(drv.src))'
  BY <1>4, <1>5, <1>6 DEF Reading, Addressed
<1>8. /\ Typed' /\ Heard' /\ Mode' /\ Rest' /\ Sectors' /\ Within' /\ Pending'
      /\ Left' = Left - 1 /\ Left \in Int
  BY <1>1, <1>2, <1>6, SendQuietly
<1>9. Scripted'
  BY <1>4, <1>7 DEF Scripted, Starting, Writes
<1>10. Kept'
  BY <1>4 DEF Kept, Writes
<1>11. Answered'
  <2>1. size' = size
    BY <1>4, SameGeometry
  <2>2. ASSUME Left' <= 0
        PROVE  \A k \in 1 .. len : drv'.got[k] = chip.data[(a + k - 1) % size]
    <3>1. CASE Left = 1
      BY <3>1, <1>6
    <3>2. CASE Left <= 0
      BY <3>2, <1>1, <1>5, <1>6 DEF FlashInv, Answered
    <3>3. QED
      BY <3>1, <3>2, <2>2, <1>8
  <2>3. QED
    BY <2>1, <2>2, <1>4, <1>5 DEF Answered
<1>12. QED
  BY <1>8, <1>9, <1>10, <1>11 DEF FlashInv

\* A read of the comparison.
LEMMA SendCompared ==
    ASSUME FlashInv, SendCommand, drv.at = "compared"
    PROVE  FlashInv'
<1>1. FlashInv
  OBVIOUS
<1>2. Reading(drv.offset + drv.cur, this_chunk_size) /\ Follows(ReadOps) /\ drv.op = "write"
  BY <1>1 DEF FlashInv, Scripted, Within, Reading
<1>3. drv.offset \in Int /\ drv.cur \in Nat /\ drv.cur < limit /\ TestAddress(drv.offset)
      /\ chip.kind \in CHIPS
  BY <1>1 DEF FlashInv, Typed, DriverLocals, Within, ChipRegs
<1>4. /\ drv'.at = drv.at /\ drv'.op = drv.op /\ drv'.offset = drv.offset /\ drv'.cur = drv.cur
      /\ drv'.src = drv.src /\ drv'.ret = drv.ret /\ chip'.data = chip.data
      /\ chip'.kind = chip.kind /\ asked' = asked
  BY <1>1, Sent DEF FlashInv
<1>5. limit \in Nat /\ \A k \in 1 .. limit : drv.offset + k - 1 \in Cells(chip.kind)
  BY <1>1, <1>2, <1>3, LimitIs DEF FlashInv, Writes, Within
<1>6. this_chunk_size \in Nat /\ drv.cur + this_chunk_size <= limit
  BY <1>2, <1>3, <1>5, FlashAssumption DEF this_chunk_size, limit, Least
<1>7. PICK a \in Int, len \in Nat : a = drv.offset + drv.cur /\ len = this_chunk_size
  BY <1>3, <1>6
<1>8. /\ Reading(a, len)' /\ chip'.pending = chip.pending /\ chip'.header = << >>
      /\ Left = 1 => drv'.got = [k \in 1 .. len |-> chip.data[(a + k - 1) % size]]
      /\ Left <= 0 => drv'.got = drv.got
  BY <1>1, <1>2, <1>7, SendReading DEF FlashInv
<1>9. this_chunk_size' = this_chunk_size /\ Base' = Base
  BY <1>4, SamePlace
<1>10. Reading(drv.offset + drv.cur, this_chunk_size)'
  BY <1>4, <1>7, <1>8, <1>9 DEF Reading, Addressed
<1>11. /\ Typed' /\ Heard' /\ Mode' /\ Rest' /\ Sectors' /\ Within' /\ Pending'
       /\ Left' = Left - 1 /\ Left \in Int
       /\ \A n : WrittenTo(n)' = WrittenTo(n)
  BY <1>1, <1>2, <1>8, SendQuietly
<1>12. Scripted'
  BY <1>4, <1>10 DEF Scripted, Starting
<1>13. Kept'
  <2>1. PICK n : n = Base + drv.cur
    OBVIOUS
  <2>2. WrittenTo(n)
    BY <1>1, <2>1 DEF FlashInv, Kept
  <2>3. WrittenTo(Base + drv.cur)'
    BY <2>1, <2>2, <1>4, <1>9, <1>11 DEF WrittenTo
  <2>4. QED
    BY <2>3, <1>4 DEF Kept
<1>14. Answered'
  <2>1. ASSUME NEW k \in 1 .. len
        PROVE  (a + k - 1) % size = a + k - 1
    <3>1. PICK x \in Int : x = a + k - 1 /\ x \in Cells(chip.kind)
      <4>1. drv.cur + k \in 1 .. limit
        BY <1>3, <1>5, <1>6, <1>7
      <4>2. drv.offset + (drv.cur + k) - 1 \in Cells(chip.kind)
        BY <4>1, <1>5
      <4>3. drv.offset + (drv.cur + k) - 1 = a + k - 1 /\ a + k - 1 \in Int
        BY <1>3, <1>7
      <4>4. QED
        BY <4>2, <4>3
    <3>2. size \in Nat \ {0} /\ x \in 0 .. size - 1
      BY <3>1, <1>3, BlockInCells
    <3>3. x % size = x
      BY <3>2, SmallRemainder
    <3>4. QED
      BY <3>1, <3>3
  <2>2. ASSUME Left' <= 0
        PROVE  \A k \in 1 .. len : drv'.got[k] = chip.data[a + k - 1]
    <3>1. CASE Left = 1
      BY <3>1, <1>8, <2>1
    <3>2. CASE Left <= 0
      BY <3>2, <1>1, <1>7, <1>8 DEF FlashInv, Answered
    <3>3. QED
      BY <3>1, <3>2, <2>2, <1>11
  <2>3. QED
    BY <2>2, <1>4, <1>7, <1>9 DEF Answered
<1>15. QED
  BY <1>11, <1>12, <1>13, <1>14 DEF FlashInv

\* What is to be written to the block goes to its cells and is the call's.
LEMMA CellAhead ==
    ASSUME FlashInv, Writes, drv.ret = 0, TestAddress(drv.offset), NEW i \in 0 .. limit - 1
    PROVE  drv.offset + i \in Cells(chip.kind) /\ BlockOf(drv.offset + i) \in asked.sectors
<1>1. FlashInv
  OBVIOUS
<1>2. /\ drv.offset \in Int /\ asked.offset \in Int /\ drv.src \in Seq(Byte) /\ asked.src \in Seq(Byte)
  BY <1>1 DEF FlashInv, Typed, DriverLocals, CallerSees
<1>3. PICK l \in Nat : l = limit
  BY <1>1, LimitIs DEF FlashInv
<1>4. PICK len \in Nat, all \in Nat : len = Len(drv.src) /\ all = Len(asked.src)
  BY <1>2
<1>5. PICK b \in Nat : b = Base /\ drv.offset = asked.offset + b /\ len = all - b /\ l <= len
  <2>1. Base \in Nat /\ drv.offset = asked.offset + Base
    BY <1>1, <1>2 DEF FlashInv, Rest, Base
  <2>2. len = all - Base
    BY <1>1, <1>4 DEF FlashInv, Rest
  <2>3. l <= len
    BY <1>1, <1>3, <1>4, LimitIs DEF FlashInv
  <2>4. QED
    BY <2>1, <2>2, <2>3
<1>6. PICK k \in 1 .. l : k = i + 1 /\ drv.offset + k - 1 = drv.offset + i
  BY <1>2, <1>3
<1>7. b + k \in 1 .. all /\ asked.offset + (b + k) - 1 = drv.offset + i
  BY <1>2, <1>5, <1>6
<1>8. drv.offset + k - 1 \in Cells(chip.kind)
  BY <1>1, <1>3, <1>6, LimitIs DEF FlashInv
<1>9. BlockOf(asked.offset + (b + k) - 1) \in asked.sectors
  BY <1>1, <1>4, <1>7 DEF FlashInv, Sectors
<1>10. QED
  BY <1>6, <1>7, <1>8, <1>9

\* A chip that is not busy holds what it will hold.
LEMMA WillBeData ==
    ASSUME chip.pending = << >>
    PROVE  \A a : Will(a) = chip.data[a]
<1>1. DOMAIN << >> = {}
  OBVIOUS
<1>2. QED
  BY <1>1 DEF Will

\* An erase starts.
LEMMA EraseStarts ==
    ASSUME NEW a, chip'.pending = [x \in Block(a) |-> Erased], chip'.data = chip.data,
           chip'.kind = chip.kind, chip.pending = << >>, asked' = asked,
           BlockOf(a) \in asked.sectors
    PROVE  /\ Pending'
           /\ \A x : Will(x)' = IF x \in Block(a) THEN Erased ELSE Will(x)
<1>1. /\ Cells(chip.kind)' = Cells(chip.kind)
      /\ \A x : BlockOf(x)' = BlockOf(x)
  BY SameGeometry
<1>2. DOMAIN chip'.pending = Block(a) /\ \A x \in Block(a) : chip'.pending[x] = Erased
  OBVIOUS
<1>3. Erased \in Byte
  BY DEF Erased, Byte
<1>4. \A x \in Block(a) : x \in Cells(chip.kind) /\ BlockOf(x) \in asked.sectors
  BY DEF Block
<1>5. Pending'
  BY <1>1, <1>2, <1>3, <1>4 DEF Pending
<1>6. \A x : Will(x)' = IF x \in Block(a) THEN Erased ELSE Will(x)
  BY <1>2, WillBeData DEF Will
<1>7. QED
  BY <1>5, <1>6

\* A command of the caller's erase.
LEMMA SendErase ==
    ASSUME FlashInv, SendCommand, drv.at = "done", drv.op = "erase", drv.ret = 0
    PROVE  FlashInv'
<1>1. FlashInv
  OBVIOUS
<1>2. Erasing(drv.offset) /\ Follows(EraseOps)
  BY <1>1 DEF FlashInv, Scripted, Erasing
<1>3. PICK a \in Int : a = drv.offset
  BY <1>1 DEF FlashInv, Typed, DriverLocals
<1>4. /\ Erasing(a)' /\ chip'.header = << >> /\ Left' = Left - 1 /\ Left \in Int
      /\ Left # 2 => chip'.pending = chip.pending
      /\ Left = 2 => chip'.pending = [x \in Block(a) |-> Erased]
  BY <1>1, <1>2, <1>3, SendErasing DEF FlashInv
<1>5. /\ Typed' /\ Heard' /\ Mode' /\ Rest' /\ Sectors' /\ Within'
      /\ drv'.at = drv.at /\ drv'.op = drv.op /\ drv'.offset = drv.offset
      /\ drv'.src = drv.src /\ drv'.ret = drv.ret
      /\ asked' = asked /\ chip'.kind = chip.kind /\ chip'.data = chip.data
      /\ chip.pending = << >>
  BY <1>2, <1>4, SendPlaced
<1>6. asked.offset = a /\ BlockOf(a) \in asked.sectors
  <2>1. Base = 0 /\ asked.offset \in Int /\ BlockOf(asked.offset) \in asked.sectors
    BY <1>1 DEF FlashInv, Rest, Sectors, Typed, CallerSees
  <2>2. asked.offset = a
    BY <2>1, <1>3 DEF Base
  <2>3. QED
    BY <2>1, <2>2
<1>7. Erasing(drv.offset)'
  BY <1>3, <1>4, <1>5 DEF Erasing, Addressed
<1>8. Scripted'
  BY <1>5, <1>7 DEF Scripted, Starting, Writes
<1>9. Kept'
  BY <1>5 DEF Kept, Writes
<1>10. Block(a)' = Block(a)
  BY <1>5, SameGeometry
<1>11. CASE Left = 2
  <2>1. Pending' /\ \A x \in Block(a) : Will(x)' = Erased
    BY <1>4, <1>5, <1>6, <1>11, EraseStarts
  <2>2. Answered'
    BY <2>1, <1>3, <1>5, <1>10 DEF Answered
  <2>3. QED
    BY <2>1, <2>2, <1>5, <1>8, <1>9 DEF FlashInv
<1>12. CASE Left # 2
  <2>1. Pending' /\ \A x : Will(x)' = Will(x)
    BY <1>1, <1>4, <1>5, <1>12, SameMemory DEF FlashInv
  <2>2. Left' <= 1 => Left <= 1
    BY <1>4, <1>12
  <2>3. Left <= 1 => \A x \in Block(a) : Will(x) = Erased
    BY <1>1, <1>3 DEF FlashInv, Answered
  <2>4. Answered'
    BY <2>1, <2>2, <2>3, <1>3, <1>5, <1>10 DEF Answered
  <2>5. QED
    BY <2>1, <2>4, <1>5, <1>8, <1>9 DEF FlashInv
<1>13. QED
  BY <1>11, <1>12

\* A command of the erase of a block that is to be written.
LEMMA SendBlockErase ==
    ASSUME FlashInv, SendCommand, drv.at = "pages", drv.op = "write", drv.cur = 0
    PROVE  FlashInv'
<1>1. FlashInv
  OBVIOUS
<1>2. Erasing(BlockOf(drv.offset)) /\ Follows(EraseOps)
  BY <1>1 DEF FlashInv, Scripted, Erasing
<1>3. /\ TestAddress(drv.offset) /\ drv.ret = 0 /\ 0 < limit
      /\ chip.kind \in CHIPS /\ drv.offset \in Int /\ asked.offset \in Int /\ Base \in Int
  BY <1>1 DEF FlashInv, Typed, ChipRegs, DriverLocals, CallerSees, Within, Base
<1>4. PICK a \in Int : a = BlockOf(drv.offset)
  BY <1>3, BlockIs
<1>5. BlockOf(a) = a /\ \A x : BlockOf(x) = BlockOf(a) <=> BlockOf(x) = BlockOf(drv.offset)
  BY <1>3, <1>4, BlockIs
<1>6. /\ Erasing(a)' /\ chip'.header = << >> /\ Left' = Left - 1 /\ Left \in Int
      /\ Left # 2 => chip'.pending = chip.pending
      /\ Left = 2 => chip'.pending = [x \in Block(a) |-> Erased]
  BY <1>1, <1>2, <1>4, SendErasing DEF FlashInv
<1>7. /\ Typed' /\ Heard' /\ Mode' /\ Rest' /\ Sectors' /\ Within'
      /\ drv'.at = drv.at /\ drv'.op = drv.op /\ drv'.offset = drv.offset
      /\ drv'.src = drv.src /\ drv'.cur = drv.cur /\ drv'.ret = drv.ret
      /\ asked' = asked /\ chip'.kind = chip.kind /\ chip'.data = chip.data
      /\ chip.pending = << >>
  BY <1>2, <1>6, SendPlaced
<1>8. /\ limit' = limit /\ Base' = Base /\ BlockOf(drv.offset)' = BlockOf(drv.offset)
      /\ \A x : BlockOf(x)' = BlockOf(x)
      /\ Cells(chip.kind)' = Cells(chip.kind)
  BY <1>7, SamePlace, SameGeometry DEF BlockOf
<1>9. Scripted'
  <2>1. Erasing(BlockOf(drv.offset))'
    BY <1>4, <1>6, <1>8 DEF Erasing, Addressed
  <2>2. QED
    BY <2>1, <1>7 DEF Scripted, Starting
<1>10. Answered'
  BY <1>7 DEF Answered
<1>11. Unsent = 0 /\ Unsent' = 0
  BY <1>7 DEF Unsent
<1>12. drv.cur - Unsent = 0 /\ (drv.cur - Unsent)' = 0 /\ Base + 0 = Base
  BY <1>3, <1>7, <1>11
<1>13. WrittenTo(Base)
  BY <1>1, <1>12 DEF FlashInv, Kept
<1>14. CASE Left = 2
  <2>1. /\ limit \in Nat
        /\ \A k \in 1 .. limit : drv.offset + k - 1 \in Cells(chip.kind) /\
                                 BlockOf(drv.offset + k - 1) = BlockOf(drv.offset)
    BY <1>1, <1>3, LimitIs DEF FlashInv, Writes
  <2>2. BlockOf(a) \in asked.sectors
    <3>1. 0 \in 0 .. limit - 1
      BY <1>3, <2>1
    <3>2. BlockOf(drv.offset + 0) \in asked.sectors
      BY <3>1, <1>1, <1>3, CellAhead DEF Writes
    <3>3. drv.offset + 0 = drv.offset
      BY <1>3
    <3>4. QED
      BY <3>2, <3>3, <1>4, <1>5
  <2>3. Pending' /\ \A x : Will(x)' = IF x \in Block(a) THEN Erased ELSE Will(x)
    BY <1>6, <1>7, <1>14, <2>2, EraseStarts
  <2>4. ASSUME NEW k \in 1 .. Base
        PROVE  asked.offset + k - 1 \notin Block(a)
    <3>1. BlockOf(drv.offset) = drv.offset
      BY <1>1, <1>3 DEF FlashInv, Rest
    <3>2. PICK x \in Int : x = asked.offset + k - 1 /\ x < a
      BY <3>1, <1>3, <1>4 DEF Base
    <3>3. BlockOf(x) <= x
      BY <1>3, BlockIs
    <3>4. BlockOf(x) # BlockOf(a)
      <4>1. BlockOf(x) \in Int
        BY <1>3, BlockIs
      <4>2. QED
        BY <4>1, <3>2, <3>3, <1>5
    <3>5. QED
      BY <3>2, <3>4 DEF Block
  <2>5. WrittenTo(Base)'
    BY <1>7, <1>8, <1>13, <2>3, <2>4 DEF WrittenTo
  <2>6. ASSUME NEW k \in 0 + 1 .. limit
        PROVE  Will(drv.offset + k - 1)' = Erased
    <3>1. drv.offset + k - 1 \in Block(a)
      BY <2>1, <1>4, <1>5 DEF Block
    <3>2. PICK x : x = drv.offset + k - 1
      OBVIOUS
    <3>3. Will(x)' = Erased
      BY <3>1, <3>2, <2>3
    <3>4. QED
      BY <3>2, <3>3, <1>7 DEF Will
  <2>7. ErasedFrom(0)'
    BY <2>6, <1>7, <1>8 DEF ErasedFrom, Will
  <2>8. Kept'
    BY <2>5, <2>7, <1>7, <1>8, <1>12 DEF Kept, WrittenTo, ErasedFrom
  <2>9. QED
    BY <2>3, <2>8, <1>7, <1>9, <1>10 DEF FlashInv
<1>15. CASE Left # 2
  <2>1. /\ Pending' /\ \A x : Will(x)' = Will(x)
        /\ \A n : WrittenTo(n)' = WrittenTo(n)
    BY <1>1, <1>6, <1>7, <1>15, SameMemory DEF FlashInv
  <2>2. Left' <= 1 => Left <= 1
    BY <1>6, <1>15
  <2>3. Left <= 1 => ErasedFrom(0)
    BY <1>1, <1>12 DEF FlashInv, Kept
  <2>4. ErasedFrom(0)' = ErasedFrom(0)
    BY <2>1, <1>7, <1>8 DEF ErasedFrom, Will
  <2>5. WrittenTo(Base)'
    BY <2>1, <1>8, <1>13 DEF WrittenTo
  <2>6. Kept'
    BY <2>2, <2>3, <2>4, <2>5, <1>7, <1>8, <1>12 DEF Kept, WrittenTo, ErasedFrom
  <2>7. QED
    BY <2>1, <2>6, <1>7, <1>9, <1>10 DEF FlashInv
<1>16. QED
  BY <1>14, <1>15

\* A piece of a sequence.
LEMMA Piece ==
    ASSUME NEW S, NEW q \in Seq(S), NEW i \in Nat, NEW n \in Nat, NEW len, len = Len(q), i + n <= len
    PROVE  /\ SubSeq(q, i + 1, i + n) \in Seq(S)
           /\ Len(SubSeq(q, i + 1, i + n)) = n
           /\ \A k \in 1 .. n : SubSeq(q, i + 1, i + n)[k] = q[i + k]
<1>1. len \in Nat /\ (i + n) - (i + 1) + 1 = n
  OBVIOUS
<1>2. \A k \in i + 1 .. i + n : k \in 1 .. len
  BY <1>1
<1>3. Len(SubSeq(q, i + 1, i + n)) = n
  BY <1>1, <1>2, SubSeqProperties
<1>4. \A k \in 1 .. n : SubSeq(q, i + 1, i + n)[k] = q[(i + 1) + k - 1] /\ (i + 1) + k - 1 = i + k
  BY <1>1, <1>2, <1>3, SubSeqProperties
<1>5. SubSeq(q, i + 1, i + n) \in Seq(S)
  BY <1>1, <1>2, SubSeqProperties
<1>6. QED
  BY <1>3, <1>4, <1>5

\* A command of the write of a page.
LEMMA SendPage ==
    ASSUME FlashInv, SendCommand, drv.at = "pages", Writes, drv.cur > 0
    PROVE  FlashInv'
<1>1. FlashInv
  OBVIOUS
<1>2. Writing /\ Follows(WriteOps)
  BY <1>1 DEF FlashInv, Scripted, Writing
<1>3. /\ TestAddress(drv.offset) /\ drv.ret = 0
      /\ drv.src \in Seq(Byte) /\ asked.src \in Seq(Byte)
  BY <1>1 DEF FlashInv, Within, Typed, DriverLocals, CallerSees
<1>4. PICK len \in Nat, all \in Nat : len = Len(drv.src) /\ all = Len(asked.src)
  BY <1>3
<1>5. PICK o \in Int, s \in Int, b \in Nat, c \in Nat, l \in Nat :
        /\ o = drv.offset /\ s = asked.offset /\ b = Base /\ c = drv.cur /\ l = limit
        /\ 0 < c /\ c <= l /\ l <= len /\ o = s + b /\ len = all - b
  <2>1. limit \in Nat /\ limit <= len /\ drv.cur <= limit
    BY <1>1, <1>3, <1>4, LimitIs DEF FlashInv, Within
  <2>2. drv.offset \in Int /\ asked.offset \in Int /\ drv.cur \in Nat
    BY <1>1 DEF FlashInv, Typed, DriverLocals, CallerSees
  <2>3. Base \in Nat /\ drv.offset = asked.offset + Base
    BY <1>1, <2>2 DEF FlashInv, Rest, Base
  <2>4. len = all - Base
    BY <1>1, <1>4 DEF FlashInv, Rest
  <2>5. QED
    BY <2>1, <2>2, <2>3, <2>4
<1>6. /\ Writing' /\ Left' = Left - 1 /\ Left \in Int
      /\ Unsent' = (IF Left >= 3 THEN Unsent ELSE 0) /\ Unsent \in Nat
      /\ Left # 3 => chip'.header = << >>
      /\ Left = 3 => chip'.header = <<Addressed("pp", From, 0)>>
      /\ Left # 2 => chip'.pending = chip.pending
      /\ Left = 2 => chip'.pending = Programmed(chip, From, Cmd(2).bytes)
  BY <1>1, <1>2, SendWriting DEF FlashInv
<1>7. PICK u \in Nat, m \in Nat, f \in Int :
        u = Unsent /\ c = m + u /\ f = From /\ f = o + m /\ m = drv.cur - Unsent
  <2>1. PICK u \in Nat : u = Unsent
    BY <1>6
  <2>2. Left >= 2 => u \in 1 .. c
    BY <1>2, <1>5, <2>1 DEF Writing
  <2>3. ~ (Left >= 2) => u = 0
    BY <2>1 DEF Unsent
  <2>4. u <= c
    BY <1>5, <2>1, <2>2, <2>3
  <2>5. c - u \in Nat /\ c = (c - u) + u /\ o + (c - u) \in Int /\ From = o + (c - u)
    BY <1>5, <2>1, <2>4 DEF From
  <2>6. QED
    BY <1>5, <2>1, <2>5
<1>8. ASSUME Left >= 2
      PROVE  /\ u \in 1 .. c /\ f + u <= NextPageStart(f) /\ u = Len(Cmd(2).bytes)
             /\ Cmd(2).bytes = SubSeq(drv.src, m + 1, m + u)
             /\ f \in Cells(chip.kind) /\ BlockOf(f) \in asked.sectors
  <2>1. /\ u \in 1 .. c /\ f + u <= NextPageStart(f)
        /\ Cmd(2).bytes = SubSeq(drv.src, m + 1, m + u)
        /\ u = Len(Cmd(2).bytes)
    BY <1>2, <1>5, <1>7, <1>8 DEF Writing, Unsent
  <2>2. m \in 0 .. limit - 1
    <3>1. u >= 1
      BY <2>1
    <3>2. QED
      BY <3>1, <1>5, <1>7
  <2>3. drv.offset + m \in Cells(chip.kind) /\ BlockOf(drv.offset + m) \in asked.sectors
    BY <2>2, <1>1, <1>3, CellAhead
  <2>4. f \in Cells(chip.kind) /\ BlockOf(f) \in asked.sectors
    BY <2>3, <1>5, <1>7
  <2>5. QED
    BY <2>1, <2>4
<1>9. /\ Typed' /\ Heard' /\ Mode' /\ Rest' /\ Sectors' /\ Within'
      /\ drv'.at = drv.at /\ drv'.op = drv.op /\ drv'.offset = drv.offset
      /\ drv'.src = drv.src /\ drv'.cur = drv.cur /\ drv'.ret = drv.ret
      /\ asked' = asked /\ chip'.kind = chip.kind /\ chip'.data = chip.data
      /\ chip.pending = << >>
  <2>1. \/ chip'.header = << >>
        \/ \E a \in Cells(chip.kind) : chip'.header = <<Addressed("pp", a, 0)>>
    <3>1. Left = 3 => f \in Cells(chip.kind)
      BY <1>6, <1>8
    <3>2. QED
      BY <3>1, <1>6, <1>7
  <2>2. QED
    BY <2>1, <1>2, SendPlaced
<1>10. /\ limit' = l /\ Base' = b
      /\ \A x : BlockOf(x)' = BlockOf(x)
      /\ Cells(chip.kind)' = Cells(chip.kind)
  BY <1>5, <1>9, SamePlace, SameGeometry
<1>11. Scripted' /\ Answered'
  BY <1>6, <1>9 DEF Scripted, Starting, Answered, Writes
<1>12. WrittenTo(b + m) /\ ErasedFrom(m)
  BY <1>1, <1>5, <1>7 DEF FlashInv, Kept
<1>13. PICK n \in Nat : n = (drv.cur - Unsent)' /\ (Left = 2 => n = c) /\ (Left # 2 => n = m)
  <2>1. CASE Left >= 3
    BY <2>1, <1>5, <1>6, <1>7, <1>9
  <2>2. CASE ~ (Left >= 3)
    <3>1. (drv.cur - Unsent)' = c
      BY <2>2, <1>5, <1>6, <1>9
    <3>2. Left # 2 => u = 0
      BY <2>2, <1>6, <1>7 DEF Unsent
    <3>3. QED
      BY <3>1, <3>2, <2>2, <1>7
  <2>3. QED
    BY <2>1, <2>2
<1>14. SUFFICES Pending' /\ WrittenTo(b + n)' /\ ErasedFrom(n)'
  <2>1. ASSUME WrittenTo(b + n)', ErasedFrom(n)' PROVE Kept'
    BY <2>1, <1>9, <1>10, <1>13 DEF Kept, WrittenTo, ErasedFrom
  <2>2. QED
    BY <2>1, <1>9, <1>11 DEF FlashInv
<1>15. CASE Left # 2
  <2>1. n = m
    BY <1>13, <1>15
  <2>2. /\ Pending' /\ \A x : Will(x)' = Will(x)
        /\ WrittenTo(b + m)' = WrittenTo(b + m)
    BY <1>1, <1>6, <1>9, <1>15, SameMemory DEF FlashInv
  <2>3. ErasedFrom(m)'
    <3>1. ASSUME asked.clean, NEW k \in m + 1 .. l, NEW x, x = o + k - 1
          PROVE  Will(x)' = Erased
      BY <3>1, <2>2, <1>5, <1>12 DEF ErasedFrom
    <3>2. QED
      BY <3>1, <1>5, <1>9, <1>10 DEF ErasedFrom, Will
  <2>4. QED
    BY <2>1, <2>2, <2>3, <1>12
<1>16. CASE Left = 2
  <2>1. /\ u \in 1 .. c /\ f + u <= NextPageStart(f)
        /\ f \in Cells(chip.kind) /\ BlockOf(f) \in asked.sectors /\ n = c
    BY <1>8, <1>13, <1>16
  <2>0. n = m + u /\ f = o + m /\ o = s + b /\ m + u <= l
    BY <1>5, <1>7, <2>1
  <2>2. PICK bytes : bytes = Cmd(2).bytes /\ u = Len(bytes) /\ bytes = SubSeq(drv.src, m + 1, m + u)
    <3>1. Left >= 2
      BY <1>16
    <3>2. Cmd(2).bytes = SubSeq(drv.src, m + 1, m + u) /\ u = Len(Cmd(2).bytes)
      BY <3>1, <1>8
    <3>3. QED
      BY <3>2
  <2>3. bytes \in Seq(Byte) /\ \A k \in 1 .. u : bytes[k] = drv.src[m + k]
    <3>1. m + u <= len
      BY <1>5, <1>7
    <3>2. /\ SubSeq(drv.src, m + 1, m + u) \in Seq(Byte)
          /\ \A k \in 1 .. u : SubSeq(drv.src, m + 1, m + u)[k] = drv.src[m + k]
      BY <3>1, <1>3, <1>4, Piece
    <3>3. QED
      BY <3>2, <2>2
  <2>4. PICK p : p = Programmed(chip, f, bytes)
    OBVIOUS
  <2>5. chip'.pending = p
    BY <2>2, <2>4, <1>6, <1>7, <1>16
  <2>6. /\ DOMAIN p = f .. f + u - 1
        /\ \A k \in 1 .. u : p[f + k - 1] = chip.data[f + k - 1] \intersect bytes[k]
        /\ \A x \in DOMAIN p : x \in Cells(chip.kind) /\ BlockOf(x) = BlockOf(f) /\ p[x] \in Byte
    <3>1. chip \in ChipRegs(chip.pending, chip.header)
      BY <1>1 DEF FlashInv, Typed
    <3>2. f + Len(bytes) <= NextPageStart(f)
      BY <2>1, <2>2
    <3>3. f \in Cells(chip.kind) /\ bytes \in Seq(Byte)
      BY <2>1, <2>3
    <3>4. InPage(p, f, bytes)
      BY <3>1, <3>2, <3>3, <2>4, ProgrammedIs, Zenon
    <3>5. QED
      BY <3>4, <2>2 DEF InPage
  <2>7. Pending'
    BY <2>1, <2>5, <2>6, <1>9, <1>10 DEF Pending
  <2>8. \A x : Will(x)' = IF x \in DOMAIN p THEN p[x] ELSE Will(x)
    BY <2>5, <1>9, WillBeData DEF Will
  <2>9. ASSUME asked.clean, NEW k \in 1 .. u, NEW x \in Int, x = f + k - 1
        PROVE  Will(x)' = asked.src[b + (m + k)]
    <3>1. x \in DOMAIN p
      BY <2>6, <2>9
    <3>2. PICK i \in m + 1 .. l : i = m + k /\ x = o + i - 1
      BY <2>9, <1>5, <1>7
    <3>3. Will(x) = Erased
      BY <3>2, <1>5, <1>12, <2>9 DEF ErasedFrom
    <3>4. p[x] = chip.data[x] \intersect bytes[k]
      BY <2>6, <2>9
    <3>5. Will(x)' = BITS \intersect bytes[k]
      BY <3>1, <3>3, <3>4, <1>9, <2>8, WillBeData DEF Erased
    <3>6. bytes[k] \in SUBSET BITS
      BY <2>2, <2>3 DEF Byte
    <3>7. i \in 1 .. len
      BY <3>2, <1>5, <1>7
    <3>8. drv.src[i] = asked.src[b + i]
      BY <3>7, <1>1, <1>4, <1>5 DEF FlashInv, Rest
    <3>9. BITS \intersect bytes[k] = bytes[k]
      BY <3>6
    <3>10. QED
      BY <3>2, <3>5, <3>8, <3>9, <2>3
  <2>10. WrittenTo(b + n)'
    <3>1. ASSUME asked.clean, NEW k \in 1 .. b + n, NEW x \in Int, x = s + k - 1,
                 x \in Cells(chip.kind)
          PROVE  Will(x)' = asked.src[k]
      <4>1. CASE k <= b + m
        <5>1. k \in 1 .. b + m
          BY <4>1, <3>1
        <5>2. Will(x) = asked.src[k]
          BY <5>1, <3>1, <1>5, <1>12 DEF WrittenTo
        <5>3. x < f
          BY <4>1, <3>1, <1>5, <1>7
        <5>4. x \notin DOMAIN p
          BY <5>3, <2>6
        <5>5. QED
          BY <5>2, <5>4, <2>8
      <4>2. CASE k > b + m
        <5>1. PICK i \in Int : i = k - (b + m)
          BY <3>1
        <5>2. k = b + (m + i) /\ k <= b + n /\ k > b + m
          BY <5>1, <4>2, <3>1
        <5>3. i \in 1 .. u
          BY <5>2, <2>0
        <5>4. x = f + i - 1
          BY <5>2, <3>1, <2>0
        <5>5. QED
          BY <5>2, <5>3, <5>4, <3>1, <2>9
      <4>3. QED
        BY <4>1, <4>2, <3>1
    <3>2. \A k \in 1 .. b + n : s + k - 1 \in Int
      OBVIOUS
    <3>3. QED
      BY <3>1, <3>2, <1>5, <1>9, <1>10 DEF WrittenTo, Will
  <2>11. ErasedFrom(n)'
    <3>1. ASSUME asked.clean, NEW k \in n + 1 .. l, NEW x \in Int, x = o + k - 1
          PROVE  Will(x)' = Erased
      <4>1. x >= f + u /\ k \in m + 1 .. l
        BY <3>1, <2>0
      <4>2. x \notin DOMAIN p
        BY <4>1, <2>6
      <4>3. Will(x) = Erased
        BY <4>1, <3>1, <1>5, <1>12 DEF ErasedFrom
      <4>4. QED
        BY <4>2, <4>3, <2>8
    <3>2. \A k \in n + 1 .. l : o + k - 1 \in Int
      OBVIOUS
    <3>3. QED
      <4>1. drv'.offset = o /\ asked'.clean = asked.clean /\ limit' = l
        BY <1>5, <1>9, <1>10
      <4>2. ASSUME asked.clean, NEW k \in n + 1 .. l
            PROVE  Will(drv.offset + k - 1)' = Erased
        BY <4>1, <4>2, <3>1, <3>2 DEF Will
      <4>3. QED
        BY <4>1, <4>2 DEF ErasedFrom
  <2>12. QED
    BY <2>7, <2>10, <2>11
<1>17. QED
  BY <1>15, <1>16

\* A command of a script.
LEMMA SendKeeps ==
    ASSUME FlashInv, SendCommand
    PROVE  FlashInv'
<1>1. FlashInv
  OBVIOUS
<1>2. drv.script # << >>
  BY DEF SendCommand
<1>3. \/ drv.at = "done" /\ drv.op = "read" /\ drv.ret = 0
      \/ drv.at = "done" /\ drv.op = "erase" /\ drv.ret = 0
      \/ drv.at = "compared"
      \/ drv.at = "pages" /\ drv.op = "write" /\ drv.cur = 0
      \/ drv.at = "pages" /\ Writes /\ drv.cur > 0
  BY <1>1, <1>2, Scripts DEF FlashInv
<1>4. QED
  BY <1>3, SendRead, SendErase, SendCompared, SendBlockErase, SendPage

----------------------------------------------------------------------------
(* Scripts as they begin                                                    *)

\* What read_buffer sends.
LEMMA ReadBegins ==
    ASSUME Typed, Mode, chip' = chip, NEW a \in Int, NEW len \in Nat,
           drv'.script = read_buffer(a, len)
    PROVE  /\ Reading(a, len)' /\ drv'.script \in Seq(Commands) /\ drv'.script # << >>
           /\ Left' \in Int /\ Left' >= 2 /\ Head(drv'.script).op \in {"wren", "rdsr"}
<1>1. chip.kind \in CHIPS /\ chip.four \in BOOLEAN
  BY DEF Typed, ChipRegs
<1>2. four_bytes_mode \in BOOLEAN /\ four_bytes_mode' = four_bytes_mode /\ Ends' = Ends
  BY <1>1, ModeTyped, SameGeometry
<1>3. PICK rdsr, read, wren, en, dis :
        /\ rdsr = Command("rdsr") /\ read = Addressed("read", a, len) /\ wren = Command("wren")
        /\ en = Command("en4b") /\ dis = Command("dis4b")
  OBVIOUS
<1>4. /\ {rdsr, read, wren, en, dis} \subseteq Commands
      /\ rdsr.op = "rdsr" /\ read.op = "read" /\ wren.op = "wren"
      /\ en.op = "en4b" /\ dis.op = "dis4b"
  <2>1. << >> \in Seq(Byte) /\ 0 \in Int /\ 0 \in Nat
    OBVIOUS
  <2>2. QED
    BY <1>1, <1>2, <1>3, <2>1 DEF Command, Addressed, Commands, CommandOps
<1>5. Addressed("read", a, len)' = read
  BY <1>2, <1>3 DEF Addressed
<1>6. CASE four_bytes_mode
  <2>1. drv'.script = (<<wren>> \o <<en>>) \o <<rdsr>> \o <<read>> \o (<<wren>> \o <<dis>>)
        /\ Ends = 2
    BY <1>3, <1>6 DEF read_buffer, enter_4_bytes_mode, exit_4_bytes_mode, write_enable,
                      await_wip_released, Ends
  <2>2. /\ Len(drv'.script) = 6 /\ drv'.script \in Seq(Commands)
        /\ drv'.script[1] = wren /\ drv'.script[2] = en /\ drv'.script[3] = rdsr
        /\ drv'.script[4] = read /\ drv'.script[5] = wren /\ drv'.script[6] = dis
    BY <2>1, <1>4
  <2>3. Left' = 4
    BY <2>1, <2>2, <1>2 DEF Left
  <2>4. /\ Cmd(-1)' = dis /\ Cmd(0)' = wren /\ Cmd(1)' = read /\ Cmd(2)' = rdsr
        /\ Cmd(3)' = en /\ Cmd(4)' = wren
    BY <2>2, <2>3 DEF Cmd
  <2>5. \A p \in 1 - Ends .. 4 : Cmd(p)'.op = ReadOps[p + 2]
    <3>1. \A p \in 1 - Ends .. 4 : p \in {-1, 0, 1, 2, 3, 4}
      BY <2>1
    <3>2. QED
      BY <3>1, <2>4, <1>4 DEF ReadOps
  <2>6. Follows(ReadOps)'
    BY <2>1, <2>2, <2>3, <2>5, <1>2 DEF Follows, ReadOps
  <2>7. Reading(a, len)'
    BY <2>6, <2>4, <1>5 DEF Reading
  <2>8. drv'.script # << >> /\ Head(drv'.script) = wren /\ Left' \in Int /\ Left' >= 2
    <3>1. drv'.script \in Seq(Commands) /\ Len(drv'.script) # 0 /\ drv'.script[1] = wren
      BY <2>2
    <3>2. QED
      BY <3>1, <2>3, EmptySeq
  <2>9. QED
    BY <2>2, <2>4, <2>7, <2>8, <1>4, <1>5
<1>7. CASE ~ four_bytes_mode
  <2>1. drv'.script = << >> \o <<rdsr>> \o <<read>> \o << >> /\ Ends = 0
    BY <1>3, <1>7 DEF read_buffer, enter_4_bytes_mode, exit_4_bytes_mode, write_enable,
                      await_wip_released, Ends
  <2>2. /\ Len(drv'.script) = 2 /\ drv'.script \in Seq(Commands)
        /\ drv'.script[1] = rdsr /\ drv'.script[2] = read
    BY <2>1, <1>4
  <2>3. Left' = 2
    BY <2>1, <2>2, <1>2 DEF Left
  <2>4. /\ Cmd(1)' = read /\ Cmd(2)' = rdsr
    BY <2>2, <2>3 DEF Cmd
  <2>5. \A p \in 1 - Ends .. 2 : Cmd(p)'.op = ReadOps[p + 2]
    <3>1. \A p \in 1 - Ends .. 2 : p \in {1, 2}
      BY <2>1
    <3>2. QED
      BY <3>1, <2>4, <1>4 DEF ReadOps
  <2>6. ~ chip'.four
    BY <1>7 DEF Mode
  <2>7. Follows(ReadOps)'
    BY <2>1, <2>2, <2>3, <2>5, <2>6, <1>2, <1>7 DEF Follows, ReadOps
  <2>8. Reading(a, len)'
    BY <2>7, <2>4, <1>5 DEF Reading
  <2>9. drv'.script # << >> /\ Head(drv'.script) = rdsr /\ Left' \in Int /\ Left' >= 2
    <3>1. drv'.script \in Seq(Commands) /\ Len(drv'.script) # 0 /\ drv'.script[1] = rdsr
      BY <2>2
    <3>2. QED
      BY <3>1, <2>3, EmptySeq
  <2>10. QED
    BY <2>2, <2>4, <2>8, <2>9, <1>4, <1>5
<1>8. QED
  BY <1>6, <1>7, <1>2

\* What sector_erase sends.
LEMMA EraseBegins ==
    ASSUME Typed, Mode, chip' = chip, NEW a \in Int,
           drv'.script = sector_erase(a)
    PROVE  /\ Erasing(a)' /\ drv'.script \in Seq(Commands) /\ drv'.script # << >>
           /\ Left' \in Int /\ Left' >= 3 /\ Head(drv'.script).op \in {"wren"}
<1>1. chip.kind \in CHIPS /\ chip.four \in BOOLEAN
  BY DEF Typed, ChipRegs
<1>2. four_bytes_mode \in BOOLEAN /\ four_bytes_mode' = four_bytes_mode /\ Ends' = Ends
  BY <1>1, ModeTyped, SameGeometry
<1>3. PICK rdsr, se, wren, en, dis :
        /\ rdsr = Command("rdsr") /\ se = Addressed("se", a, 0) /\ wren = Command("wren")
        /\ en = Command("en4b") /\ dis = Command("dis4b")
  OBVIOUS
<1>4. /\ {rdsr, se, wren, en, dis} \subseteq Commands
      /\ rdsr.op = "rdsr" /\ se.op = "se" /\ wren.op = "wren"
      /\ en.op = "en4b" /\ dis.op = "dis4b"
  <2>1. << >> \in Seq(Byte) /\ 0 \in Int /\ 0 \in Nat
    OBVIOUS
  <2>2. QED
    BY <1>1, <1>2, <1>3, <2>1 DEF Command, Addressed, Commands, CommandOps
<1>5. Addressed("se", a, 0)' = se
  BY <1>2, <1>3 DEF Addressed
<1>6. CASE four_bytes_mode
  <2>1. drv'.script = (<<wren>> \o <<en>>) \o <<wren>> \o <<se>> \o <<rdsr>> \o (<<wren>> \o <<dis>>)
        /\ Ends = 2
    BY <1>3, <1>6 DEF sector_erase, enter_4_bytes_mode, exit_4_bytes_mode, write_enable,
                      await_wip_released, Ends
  <2>2. /\ Len(drv'.script) = 7 /\ drv'.script \in Seq(Commands)
        /\ drv'.script[1] = wren /\ drv'.script[2] = en /\ drv'.script[3] = wren
        /\ drv'.script[4] = se /\ drv'.script[5] = rdsr /\ drv'.script[6] = wren
        /\ drv'.script[7] = dis
    BY <2>1, <1>4
  <2>3. Left' = 5
    BY <2>1, <2>2, <1>2 DEF Left
  <2>4. /\ Cmd(-1)' = dis /\ Cmd(0)' = wren /\ Cmd(1)' = rdsr /\ Cmd(2)' = se
        /\ Cmd(3)' = wren /\ Cmd(4)' = en /\ Cmd(5)' = wren
    BY <2>2, <2>3 DEF Cmd
  <2>5. \A p \in 1 - Ends .. 5 : Cmd(p)'.op = EraseOps[p + 2]
    <3>1. \A p \in 1 - Ends .. 5 : p \in {-1, 0, 1, 2, 3, 4, 5}
      BY <2>1
    <3>2. QED
      BY <3>1, <2>4, <1>4 DEF EraseOps
  <2>6. Follows(EraseOps)'
    BY <2>1, <2>2, <2>3, <2>5, <1>2 DEF Follows, EraseOps
  <2>7. Erasing(a)'
    BY <2>6, <2>4, <1>5 DEF Erasing
  <2>8. drv'.script # << >> /\ Head(drv'.script) = wren /\ Left' \in Int /\ Left' >= 3
    <3>1. drv'.script \in Seq(Commands) /\ Len(drv'.script) # 0 /\ drv'.script[1] = wren
      BY <2>2
    <3>2. QED
      BY <3>1, <2>3, EmptySeq
  <2>9. QED
    BY <2>2, <2>4, <2>7, <2>8, <1>4, <1>5
<1>7. CASE ~ four_bytes_mode
  <2>1. drv'.script = << >> \o <<wren>> \o <<se>> \o <<rdsr>> \o << >> /\ Ends = 0
    BY <1>3, <1>7 DEF sector_erase, enter_4_bytes_mode, exit_4_bytes_mode, write_enable,
                      await_wip_released, Ends
  <2>2. /\ Len(drv'.script) = 3 /\ drv'.script \in Seq(Commands)
        /\ drv'.script[1] = wren /\ drv'.script[2] = se /\ drv'.script[3] = rdsr
    BY <2>1, <1>4
  <2>3. Left' = 3
    BY <2>1, <2>2, <1>2 DEF Left
  <2>4. /\ Cmd(1)' = rdsr /\ Cmd(2)' = se /\ Cmd(3)' = wren
    BY <2>2, <2>3 DEF Cmd
  <2>5. \A p \in 1 - Ends .. 3 : Cmd(p)'.op = EraseOps[p + 2]
    <3>1. \A p \in 1 - Ends .. 3 : p \in {1, 2, 3}
      BY <2>1
    <3>2. QED
      BY <3>1, <2>4, <1>4 DEF EraseOps
  <2>6. ~ chip'.four
    BY <1>7 DEF Mode
  <2>7. Follows(EraseOps)'
    BY <2>1, <2>2, <2>3, <2>5, <2>6, <1>2, <1>7 DEF Follows, EraseOps
  <2>8. Erasing(a)'
    BY <2>7, <2>4, <1>5 DEF Erasing
  <2>9. drv'.script # << >> /\ Head(drv'.script) = wren /\ Left' \in Int /\ Left' >= 3
    <3>1. drv'.script \in Seq(Commands) /\ Len(drv'.script) # 0 /\ drv'.script[1] = wren
      BY <2>2
    <3>2. QED
      BY <3>1, <2>3, EmptySeq
  <2>10. QED
    BY <2>2, <2>4, <2>8, <2>9, <1>4, <1>5
<1>8. QED
  BY <1>6, <1>7, <1>2

\* What write_buffer sends.
LEMMA WriteBegins ==
    ASSUME Typed, Mode, chip' = chip, NEW a \in Int, NEW bytes \in Seq(Byte),
           drv'.script = write_buffer(a, bytes)
    PROVE  /\ Follows(WriteOps)' /\ drv'.script \in Seq(Commands) /\ drv'.script # << >>
           /\ Left' \in Int /\ Left' >= 4 /\ Cmd(3)' = Addressed("pp", a, 0)' /\ Cmd(2)'.bytes = bytes
           /\ Head(drv'.script).op \in {"wren"}
<1>1. chip.kind \in CHIPS /\ chip.four \in BOOLEAN
  BY DEF Typed, ChipRegs
<1>2. four_bytes_mode \in BOOLEAN /\ four_bytes_mode' = four_bytes_mode /\ Ends' = Ends
  BY <1>1, ModeTyped, SameGeometry
<1>3. PICK rdsr, pp, data, wren, en, dis :
        /\ rdsr = Command("rdsr") /\ pp = Addressed("pp", a, 0) /\ data = Data(bytes)
        /\ wren = Command("wren") /\ en = Command("en4b") /\ dis = Command("dis4b")
  OBVIOUS
<1>4. /\ {rdsr, pp, data, wren, en, dis} \subseteq Commands
      /\ rdsr.op = "rdsr" /\ pp.op = "pp" /\ data.op = "data" /\ wren.op = "wren"
      /\ en.op = "en4b" /\ dis.op = "dis4b"
      /\ data.bytes = bytes
  <2>1. << >> \in Seq(Byte) /\ 0 \in Int /\ 0 \in Nat
    OBVIOUS
  <2>2. QED
    BY <1>1, <1>2, <1>3, <2>1 DEF Command, Addressed, Data, Commands, CommandOps
<1>5. Addressed("pp", a, 0)' = pp
  BY <1>2, <1>3 DEF Addressed
<1>6. CASE four_bytes_mode
  <2>1. drv'.script = (<<wren>> \o <<en>>) \o <<wren>> \o <<pp>> \o <<data>> \o <<rdsr>> \o (<<wren>> \o <<dis>>)
        /\ Ends = 2
    BY <1>3, <1>6 DEF write_buffer, enter_4_bytes_mode, exit_4_bytes_mode, write_enable,
                      await_wip_released, Ends
  <2>2. /\ Len(drv'.script) = 8 /\ drv'.script \in Seq(Commands)
        /\ drv'.script[1] = wren /\ drv'.script[2] = en /\ drv'.script[3] = wren
        /\ drv'.script[4] = pp /\ drv'.script[5] = data /\ drv'.script[6] = rdsr
        /\ drv'.script[7] = wren /\ drv'.script[8] = dis
    BY <2>1, <1>4
  <2>3. Left' = 6
    BY <2>1, <2>2, <1>2 DEF Left
  <2>4. /\ Cmd(-1)' = dis /\ Cmd(0)' = wren /\ Cmd(1)' = rdsr /\ Cmd(2)' = data
        /\ Cmd(3)' = pp /\ Cmd(4)' = wren /\ Cmd(5)' = en /\ Cmd(6)' = wren
    BY <2>2, <2>3 DEF Cmd
  <2>5. \A p \in 1 - Ends .. 6 : Cmd(p)'.op = WriteOps[p + 2]
    <3>1. \A p \in 1 - Ends .. 6 : p \in {-1, 0, 1, 2, 3, 4, 5, 6}
      BY <2>1
    <3>2. QED
      BY <3>1, <2>4, <1>4 DEF WriteOps
  <2>6. Follows(WriteOps)'
    BY <2>1, <2>2, <2>3, <2>5, <1>2 DEF Follows, WriteOps
  <2>7. drv'.script # << >> /\ Head(drv'.script) = wren /\ Left' \in Int /\ Left' >= 4
    <3>1. drv'.script \in Seq(Commands) /\ Len(drv'.script) # 0 /\ drv'.script[1] = wren
      BY <2>2
    <3>2. QED
      BY <3>1, <2>3, EmptySeq
  <2>8. QED
    BY <2>2, <2>4, <2>6, <2>7, <1>4, <1>5
<1>7. CASE ~ four_bytes_mode
  <2>1. drv'.script = << >> \o <<wren>> \o <<pp>> \o <<data>> \o <<rdsr>> \o << >> /\ Ends = 0
    BY <1>3, <1>7 DEF write_buffer, enter_4_bytes_mode, exit_4_bytes_mode, write_enable,
                      await_wip_released, Ends
  <2>2. /\ Len(drv'.script) = 4 /\ drv'.script \in Seq(Commands)
        /\ drv'.script[1] = wren /\ drv'.script[2] = pp /\ drv'.script[3] = data
        /\ drv'.script[4] = rdsr
    BY <2>1, <1>4
  <2>3. Left' = 4
    BY <2>1, <2>2, <1>2 DEF Left
  <2>4. /\ Cmd(1)' = rdsr /\ Cmd(2)' = data /\ Cmd(3)' = pp /\ Cmd(4)' = wren
    BY <2>2, <2>3 DEF Cmd
  <2>5. \A p \in 1 - Ends .. 4 : Cmd(p)'.op = WriteOps[p + 2]
    <3>1. \A p \in 1 - Ends .. 4 : p \in {1, 2, 3, 4}
      BY <2>1
    <3>2. QED
      BY <3>1, <2>4, <1>4 DEF WriteOps
  <2>6. ~ chip'.four
    BY <1>7 DEF Mode
  <2>7. Follows(WriteOps)'
    BY <2>1, <2>2, <2>3, <2>5, <2>6, <1>2, <1>7 DEF Follows, WriteOps
  <2>8. drv'.script # << >> /\ Head(drv'.script) = wren /\ Left' \in Int /\ Left' >= 4
    <3>1. drv'.script \in Seq(Commands) /\ Len(drv'.script) # 0 /\ drv'.script[1] = wren
      BY <2>2
    <3>2. QED
      BY <3>1, <2>3, EmptySeq
  <2>9. QED
    BY <2>2, <2>4, <2>7, <2>8, <1>4, <1>5
<1>8. QED
  BY <1>6, <1>7, <1>2

----------------------------------------------------------------------------
(* A driver that makes no call                                              *)

\* Its locals.
LEMMA BootTyped ==
    ASSUME NEW at \in Steps
    PROVE  /\ [Boot EXCEPT !.at = at] \in DriverLocals(<< >>)
           /\ [Boot EXCEPT !.at = at].got = << >>
           /\ [Boot EXCEPT !.at = at].cur = 0 /\ Len([Boot EXCEPT !.at = at].src) = 0
<1>1. << >> \in Seq(Commands) /\ << >> \in Seq(Byte) /\ Len(<< >>) = 0
  OBVIOUS
<1>2. [Boot EXCEPT !.at = at] =
          [at |-> at, op |-> "none", script |-> << >>, got |-> << >>,
           offset |-> 0, src |-> << >>, cur |-> 0, ret |-> 0]
  BY DEF Boot
<1>3. [at |-> at, op |-> "none", script |-> << >>, got |-> << >>,
       offset |-> 0, src |-> << >>, cur |-> 0, ret |-> 0] \in DriverLocals(<< >>)
  BY <1>1 DEF DriverLocals, CallOps
<1>4. QED
  BY <1>1, <1>2, <1>3

AtRest ==
    /\ Starting \/ drv.at = "idle"
    /\ drv = [Boot EXCEPT !.at = drv.at]
    /\ asked.op = "none" /\ asked.offset = 0 /\ asked.src = << >>
    /\ drv.at = "idle" => ~ Busy
    /\ chip.four => four_bytes_mode

\* It keeps the invariant.
LEMMA RestKeeps == Typed /\ Pending /\ AtRest => FlashInv
<1> SUFFICES ASSUME Typed, Pending, AtRest PROVE FlashInv
  OBVIOUS
<1>1. /\ drv.at \in {"boot", "rdid", "absent", "idle"}
      /\ drv.op = "none" /\ drv.script = << >> /\ drv.offset = 0 /\ drv.src = << >>
      /\ drv.cur = 0 /\ drv.ret = 0 /\ drv = [Boot EXCEPT !.at = drv.at]
      /\ asked.op = "none" /\ asked.offset = 0 /\ asked.src = << >>
  BY DEF AtRest, Starting, Boot
<1>2. Scripted
  BY <1>1 DEF Scripted, Starting
<1>3. Heard
  BY <1>1 DEF Heard, AtRest, Starting
<1>4. Mode
  BY <1>1 DEF Mode, AtRest, Closed
<1>5. Rest
  <2>1. Len(drv.src) = 0 /\ Len(asked.src) = 0 /\ Base = 0
    BY <1>1 DEF Base
  <2>2. QED
    BY <1>1, <2>1 DEF Rest
<1>6. Sectors
  BY <1>1 DEF Sectors, Writes
<1>7. Within
  BY <1>1 DEF Within
<1>8. Kept
  BY <1>1 DEF Kept
<1>9. Answered
  BY <1>1 DEF Answered
<1>10. QED
  BY <1>2, <1>3, <1>4, <1>5, <1>6, <1>7, <1>8, <1>9 DEF FlashInv

\* The state there is at first.
LEMMA FlashInitConsistent == FlashInit => FlashInv
<1> SUFFICES ASSUME FlashInit PROVE FlashInv
  OBVIOUS
<1>1. PICK kind \in CHIPS :
        chip = [kind |-> kind, data |-> [a \in Cells(kind) |-> Erased], wel |-> FALSE,
                four |-> FALSE, pending |-> << >>, header |-> << >>]
  BY DEF FlashInit
<1>2. drv = Boot /\ asked = Nothing /\ failures = 0
  BY DEF FlashInit
<1>3. Typed
  <2>1. Erased \in Byte
    BY DEF Erased, Byte
  <2>2. chip \in ChipRegs(chip.pending, chip.header) /\ chip.header = << >>
    BY <1>1, <2>1 DEF ChipRegs
  <2>3. drv \in DriverLocals(drv.got) /\ drv.cur <= Len(drv.src)
    <3>1. drv = [Boot EXCEPT !.at = "boot"] /\ "boot" \in Steps
      BY <1>2 DEF Boot, Steps
    <3>2. QED
      BY <3>1, BootTyped
  <2>4. asked \in CallerSees
    <3>1. << >> \in Seq(Byte)
      OBVIOUS
    <3>2. QED
      BY <1>2, <3>1 DEF Nothing, CallerSees, CallOps
  <2>5. failures \in 0 .. FAILURES
    BY <1>2, FlashAssumption
  <2>6. QED
    BY <2>2, <2>3, <2>4, <2>5 DEF Typed
<1>4. Pending
  <2>1. DOMAIN << >> = {}
    OBVIOUS
  <2>2. QED
    BY <1>1, <2>1 DEF Pending
<1>5. AtRest
  BY <1>1, <1>2 DEF AtRest, Boot, Nothing, Starting, Busy
<1>6. QED
  BY <1>3, <1>4, <1>5, RestKeeps

\* The start looks for the chip.
LEMMA StartKeeps ==
    ASSUME FlashInv, ReadSignature \/ ReadDeviceId
    PROVE  FlashInv'
<1>1. FlashInv
  OBVIOUS
<1>2. /\ drv.at \in {"boot", "rdid"} /\ drv = [Boot EXCEPT !.at = drv.at]
      /\ chip' = chip /\ asked' = asked /\ failures' = failures
      /\ (drv' = DriverIdle /\ ~ Busy) \/ drv' = [drv EXCEPT !.at = "rdid"]
            \/ drv' = [drv EXCEPT !.at = "absent"]
  BY <1>1 DEF FlashInv, Scripted, Starting, ReadSignature, ReadDeviceId, Runs, OnlyDriver
<1>3. /\ drv'.at \in {"rdid", "absent", "idle"} /\ (drv'.at = "idle" => ~ Busy)
      /\ drv' = [Boot EXCEPT !.at = drv'.at]
  BY <1>2 DEF DriverIdle, Boot
<1>4. asked.op = "none" /\ asked.offset = 0 /\ asked.src = << >>
  <2>1. drv.op = "none" /\ drv.offset = 0 /\ Len(drv.src) = 0
    BY <1>2 DEF Boot
  <2>2. asked.op = "none" /\ Base = 0 /\ Len(asked.src) - Base = 0 /\ asked.offset \in Int
        /\ asked.src \in Seq(Byte)
    BY <1>1, <2>1 DEF FlashInv, Rest, Typed, CallerSees
  <2>3. asked.offset = 0
    BY <2>1, <2>2 DEF Base
  <2>4. QED
    BY <2>2, <2>3, EmptySeq
<1>5. Typed'
  <2>1. /\ Cells(chip.kind)' = Cells(chip.kind)
        /\ \A a : Addressed("pp", a, 0)' = Addressed("pp", a, 0)
    BY <1>2, SameGeometry
  <2>2. drv' \in DriverLocals(drv'.got) /\ drv'.cur <= Len(drv'.src)
    <3>1. PICK at \in Steps : drv' = [Boot EXCEPT !.at = at]
      BY <1>3 DEF Steps
    <3>2. QED
      BY <3>1, BootTyped
  <2>3. QED
    BY <1>1, <1>2, <2>1, <2>2 DEF FlashInv, Typed, ChipRegs, DriverLocals, CallerSees
<1>6. Pending'
  BY <1>1, <1>2, SameMemory DEF FlashInv
<1>7. AtRest'
  <2>1. chip.four => four_bytes_mode'
    BY <1>1, <1>2, SameGeometry DEF FlashInv, Mode
  <2>2. QED
    BY <1>2, <1>3, <1>4, <2>1 DEF AtRest, Starting, Busy
<1>8. (Typed /\ Pending /\ AtRest => FlashInv)'
  BY RestKeeps, PTL
<1>9. QED
  BY <1>5, <1>6, <1>7, <1>8

\* A call returns, and there is no call then.
LEMMA ReturnKeeps ==
    ASSUME FlashInv, ReturnToCaller
    PROVE  FlashInv'
<1>1. FlashInv
  OBVIOUS
<1>2. /\ drv.at = "done" /\ drv.script = << >>
      /\ drv' = [Boot EXCEPT !.at = "idle"] /\ asked' = Nothing
      /\ chip' = chip /\ failures' = failures
  BY DEF ReturnToCaller, Runs, DriverIdle
<1>3. ~ Busy
  BY <1>1, <1>2 DEF FlashInv, Heard, Starting
<1>4. Typed'
  <2>1. /\ Cells(chip.kind)' = Cells(chip.kind)
        /\ \A a : Addressed("pp", a, 0)' = Addressed("pp", a, 0)
    BY <1>2, SameGeometry
  <2>2. drv' \in DriverLocals(drv'.got) /\ drv'.cur <= Len(drv'.src)
    BY <1>2, BootTyped DEF Steps
  <2>3. Nothing \in CallerSees
    <3>1. << >> \in Seq(Byte)
      OBVIOUS
    <3>2. QED
      BY <3>1 DEF Nothing, CallerSees, CallOps
  <2>4. QED
    BY <1>1, <1>2, <2>1, <2>2, <2>3 DEF FlashInv, Typed, ChipRegs, DriverLocals, CallerSees
<1>5. Pending'
  <2>1. DOMAIN << >> = {}
    OBVIOUS
  <2>2. QED
    BY <1>2, <1>3, <2>1 DEF Pending, Busy
<1>6. AtRest'
  <2>1. chip.four => four_bytes_mode'
    BY <1>1, <1>2, SameGeometry DEF FlashInv, Mode
  <2>2. QED
    BY <1>2, <1>3, <2>1 DEF AtRest, Starting, Busy, Boot, Nothing
<1>7. (Typed /\ Pending /\ AtRest => FlashInv)'
  BY RestKeeps, PTL
<1>8. QED
  BY <1>4, <1>5, <1>6, <1>7

\* A start again: what was broken off is forgotten, but for the sectors it was about.
LEMMA FailsWell ==
    ASSUME FlashInv, Fails, Pending', chip' \in ChipRegs(chip.pending, chip.header)',
           chip'.kind = chip.kind, chip'.header = << >>, chip'.four => chip.four
    PROVE  FlashInv'
<1>1. FlashInv
  OBVIOUS
<1>2. /\ drv' = Boot /\ asked' = [Nothing EXCEPT !.sectors = asked.sectors]
      /\ failures' = Least(failures + 1, FAILURES)
  BY DEF Fails
<1>3. drv' = [Boot EXCEPT !.at = "boot"] /\ "boot" \in Steps
  BY <1>2 DEF Boot, Steps
<1>4. Typed'
  <2>1. drv' \in DriverLocals(drv'.got) /\ drv'.cur <= Len(drv'.src)
    BY <1>3, BootTyped
  <2>2. asked' \in CallerSees
    <3>1. << >> \in Seq(Byte) /\ asked.sectors \in SUBSET Int
      BY <1>1 DEF FlashInv, Typed, CallerSees
    <3>2. asked' = [op |-> "none", offset |-> 0, src |-> << >>, sectors |-> asked.sectors,
                    clean |-> FALSE]
      BY <1>2 DEF Nothing
    <3>3. QED
      BY <3>1, <3>2 DEF CallerSees, CallOps
  <2>3. failures' \in 0 .. FAILURES
    BY <1>1, <1>2, FlashAssumption DEF FlashInv, Typed, Least
  <2>4. QED
    BY <2>1, <2>2, <2>3 DEF Typed
<1>5. AtRest'
  <2>1. chip'.four => four_bytes_mode'
    BY <1>1, SameGeometry DEF FlashInv, Mode
  <2>2. QED
    BY <1>2, <1>3, <2>1 DEF AtRest, Starting, Boot, Nothing
<1>6. (Typed /\ Pending /\ AtRest => FlashInv)'
  BY RestKeeps, PTL
<1>7. QED
  BY <1>4, <1>5, <1>6

\* The power fails: what was pending is done in part.
LEMMA PowerFailureKeeps ==
    ASSUME FlashInv, PowerFailure
    PROVE  FlashInv'
<1>1. FlashInv
  OBVIOUS
<1>2. PICK done \in SUBSET DOMAIN chip.pending :
         chip' = [chip EXCEPT !.pending = << >>, !.header = << >>, !.wel = FALSE, !.four = FALSE,
                    !.data = [a \in Cells(chip.kind) |->
                                IF a \in done THEN chip.pending[a] ELSE chip.data[a]]]
  BY DEF PowerFailure
<1>3. chip \in ChipRegs(chip.pending, chip.header)
  BY <1>1 DEF FlashInv, Typed
<1>4. /\ chip'.kind = chip.kind /\ chip'.header = << >> /\ chip'.pending = << >> /\ ~ chip'.four
      /\ ~ chip'.wel
      /\ chip'.data = [a \in Cells(chip.kind) |-> IF a \in done THEN chip.pending[a] ELSE chip.data[a]]
  BY <1>2, <1>3 DEF ChipRegs
<1>5. Cells(chip.kind)' = Cells(chip.kind)
  BY <1>4, SameGeometry
<1>6. chip'.data \in [Cells(chip.kind) -> Byte]
  BY <1>1, <1>3, <1>4 DEF FlashInv, Pending, ChipRegs
<1>7. chip' \in ChipRegs(chip.pending, chip.header)'
  BY <1>2, <1>3, <1>4, <1>5, <1>6 DEF ChipRegs
<1>8. Pending'
  <2>1. DOMAIN << >> = {}
    OBVIOUS
  <2>2. QED
    BY <1>4, <2>1 DEF Pending
<1>9. Fails
  BY DEF PowerFailure
<1>10. QED
  BY <1>4, <1>7, <1>8, <1>9, FailsWell

\* Data are sent as the second part of the write of a page, to a chip that is ready for them.
LEMMA DataIsOfPage ==
    ASSUME FlashInv, drv.script # << >>, Head(drv.script).op = "data", NEW q, q = Head(drv.script).bytes
    PROVE  /\ drv.at = "pages" /\ Writes /\ drv.cur > 0 /\ Writing /\ Left = 2
           /\ Head(drv.script) = Cmd(2) /\ q \in Seq(Byte) /\ Unsent = Len(q)
           /\ chip.four = four_bytes_mode /\ chip.wel
<1>1. FlashInv
  OBVIOUS
<1>2. /\ Head(drv.script) = Cmd(Left) /\ Head(drv.script) \in Commands
      /\ Left \in Int /\ Left >= 1 - Ends /\ Ends \in {0, 2} /\ (Ends = 2 <=> four_bytes_mode)
      /\ four_bytes_mode \in BOOLEAN /\ chip.four \in BOOLEAN
  BY <1>1, NextCommand DEF FlashInv, Typed, ChipRegs
<1>3. ASSUME NEW ops \in {ReadOps, EraseOps, WriteOps}, Follows(ops)
      PROVE  ops = WriteOps /\ Left = 2
  <2>1. Left <= Len(ops) - 4 + Ends /\ ops[Left + 2] = "data"
    BY <1>2, <1>3 DEF Follows
  <2>2. CASE ops = ReadOps
    <3>1. Left + 2 \in {1, 2, 3, 4, 5, 6}
      BY <2>1, <2>2, <1>2 DEF ReadOps
    <3>2. QED
      BY <3>1, <2>1, <2>2 DEF ReadOps
  <2>3. CASE ops = EraseOps
    <3>1. Left + 2 \in {1, 2, 3, 4, 5, 6, 7}
      BY <2>1, <2>3, <1>2 DEF EraseOps
    <3>2. QED
      BY <3>1, <2>1, <2>3 DEF EraseOps
  <2>4. CASE ops = WriteOps
    <3>1. Left + 2 \in {1, 2, 3, 4, 5, 6, 7, 8}
      BY <2>1, <2>4, <1>2 DEF WriteOps
    <3>2. Left + 2 = 4
      BY <3>1, <2>1, <2>4 DEF WriteOps
    <3>3. QED
      BY <3>2, <2>4, <1>2
  <2>5. QED
    BY <2>2, <2>3, <2>4, <1>3
<1>4. ReadOps # WriteOps /\ EraseOps # WriteOps
  BY DEF ReadOps, EraseOps, WriteOps
<1>5. drv.at = "pages" /\ Writes /\ drv.cur > 0 /\ Writing
  <2>1. ~ Follows(ReadOps) /\ ~ Follows(EraseOps)
    BY <1>3, <1>4
  <2>2. QED
    BY <2>1, <1>1, Scripts DEF FlashInv, Reading, Erasing
<1>6. Left = 2 /\ Follows(WriteOps)
  BY <1>3, <1>5 DEF Writing
<1>7. Head(drv.script) = Cmd(2) /\ q \in Seq(Byte)
  BY <1>2, <1>6 DEF Commands
<1>8. Unsent = Len(q)
  BY <1>5, <1>6, <1>7 DEF Unsent
<1>9. chip.four = four_bytes_mode
  <2>1. Len(WriteOps) = 8
    BY DEF WriteOps
  <2>2. chip.four <=> four_bytes_mode
    BY <2>1, <1>6 DEF Follows
  <2>3. QED
    BY <2>2, <1>2
<1>10. chip.wel
  BY <1>1 DEF FlashInv, Heard
<1>11. QED
  BY <1>5, <1>6, <1>7, <1>8, <1>9, <1>10

\* A restart: what the chip has got of a page it programs.
LEMMA RestartKeeps ==
    ASSUME FlashInv, Restart
    PROVE  FlashInv'
<1>1. FlashInv
  OBVIOUS
<1>2. Fails /\ asked'.sectors = asked.sectors
  BY DEF Restart, Fails, Nothing
<1>3. chip \in ChipRegs(chip.pending, chip.header) /\ chip.kind \in CHIPS
  BY <1>1 DEF FlashInv, Typed, ChipRegs
<1>4. CASE chip' = [chip EXCEPT !.header = << >>]
  <2>1. /\ chip'.kind = chip.kind /\ chip'.header = << >> /\ chip'.pending = chip.pending
        /\ chip'.four = chip.four /\ chip'.data = chip.data /\ chip'.wel = chip.wel
    BY <1>3, <1>4 DEF ChipRegs
  <2>2. Cells(chip.kind)' = Cells(chip.kind) /\ \A a : BlockOf(a)' = BlockOf(a)
    BY <2>1, SameGeometry
  <2>3. chip' \in ChipRegs(chip.pending, chip.header)'
    BY <1>3, <1>4, <2>1, <2>2 DEF ChipRegs
  <2>4. Pending'
    BY <1>1, <1>2, <2>1, <2>2 DEF FlashInv, Pending
  <2>5. QED
    BY <1>2, <2>1, <2>3, <2>4, FailsWell
<1>5. CASE chip' # [chip EXCEPT !.header = << >>]
  <2>1. PICK n \in 0 .. Len(Head(drv.script).bytes) :
          /\ drv.script # << >> /\ Head(drv.script).op = "data" /\ ~ Busy
          /\ chip' \in Obeys(chip, Data(SubSeq(Head(drv.script).bytes, 1, n)))
    BY <1>5 DEF Restart
  <2>2. PICK q : q = Head(drv.script).bytes
    OBVIOUS
  <2>3. /\ drv.at = "pages" /\ Writes /\ drv.cur > 0 /\ Writing /\ Left = 2
        /\ Head(drv.script) = Cmd(2) /\ q \in Seq(Byte) /\ Unsent = Len(q)
        /\ chip.four = four_bytes_mode /\ chip.wel
    BY <2>1, <2>2, <1>1, DataIsOfPage
  <2>4. PICK f \in Cells(chip.kind) :
          /\ f = From /\ BlockOf(f) \in asked.sectors
          /\ chip.header = <<Addressed("pp", f, 0)>> /\ f + Len(q) <= NextPageStart(f)
    <3>1. PICK u \in Nat, m \in Nat : u = Unsent /\ m = drv.cur - Unsent /\ m \in 0 .. limit - 1
      <4>1. Unsent \in 1 .. drv.cur /\ drv.cur \in Nat /\ drv.cur \in 0 .. limit
        BY <2>3, <1>1 DEF Writing, FlashInv, Typed, DriverLocals, Within
      <4>2. limit \in Nat
        BY <2>3, <1>1, LimitIs DEF FlashInv, Within
      <4>3. QED
        BY <4>1, <4>2
    <3>2. From \in Cells(chip.kind) /\ BlockOf(From) \in asked.sectors
      <4>1. TestAddress(drv.offset) /\ drv.ret = 0
        BY <2>3, <1>1 DEF FlashInv, Within
      <4>2. drv.offset + m \in Cells(chip.kind) /\ BlockOf(drv.offset + m) \in asked.sectors
        BY <4>1, <3>1, <2>3, <1>1, CellAhead
      <4>3. QED
        BY <4>2, <3>1 DEF From
    <3>3. chip.header = <<Addressed("pp", From, 0)>> /\ From + Unsent <= NextPageStart(From)
      BY <2>3 DEF Writing
    <3>4. QED
      BY <3>2, <3>3, <2>3
  <2>5. PICK part : part = SubSeq(q, 1, n)
    OBVIOUS
  <2>6. part \in Seq(Byte) /\ Len(part) = n /\ n \in Nat /\ n <= Len(q)
    <3>1. n \in Nat /\ n <= Len(q) /\ 0 + 1 = 1 /\ 0 + n = n /\ Len(q) \in Nat
      BY <2>1, <2>2, <2>3
    <3>2. 0 \in Nat /\ 0 + n <= Len(q)
      BY <3>1
    <3>3. SubSeq(q, 0 + 1, 0 + n) \in Seq(Byte) /\ Len(SubSeq(q, 0 + 1, 0 + n)) = n
      BY <3>1, <3>2, <2>3, Piece
    <3>4. QED
      BY <3>1, <3>3, <2>5
  <2>7. PICK cmd \in Commands : cmd = Data(part) /\ cmd.op = "data" /\ cmd.bytes = part
    <3>1. Data(part) = [op |-> "data", at |-> 0, four |-> chip.four, bytes |-> part, length |-> 0]
      BY DEF Data, Command
    <3>2. chip.four \in BOOLEAN
      BY <1>3 DEF ChipRegs
    <3>3. [op |-> "data", at |-> 0, four |-> chip.four, bytes |-> part, length |-> 0] \in Commands
      BY <3>2, <2>6 DEF Commands, CommandOps
    <3>4. QED
      BY <3>1, <3>3
  <2>8. chip' \in Obeys(chip, cmd)
    BY <2>1, <2>2, <2>5, <2>7
  <2>9. /\ chip' \in ChipRegs(chip'.pending, chip'.header) /\ chip'.kind = chip.kind
        /\ chip'.data = chip.data /\ chip'.four = chip.four /\ chip'.header = << >>
    BY <2>7, <2>8, <1>3, Obeyed
  <2>10. Cells(chip.kind)' = Cells(chip.kind) /\ \A a : BlockOf(a)' = BlockOf(a)
    BY <2>9, SameGeometry
  <2>11. chip' \in ChipRegs(chip.pending, chip.header)'
    BY <2>9, <2>10 DEF ChipRegs
  <2>12. /\ part # << >> => chip'.pending = Programmed(chip, f, part)
         /\ part = << >> => chip'.pending = chip.pending
    <3>1. f \in Int
      BY <1>3, BlockInCells
    <3>2. QED
      BY <3>1, <2>3, <2>4, <2>7, <2>8, <1>3, ObeyedData
  <2>13. Pending'
    <3>1. CASE part = << >>
      BY <3>1, <2>10, <2>12, <1>1, <1>2 DEF FlashInv, Pending
    <3>2. CASE part # << >>
      <4>1. PICK p : p = Programmed(chip, f, part)
        OBVIOUS
      <4>2. f + Len(part) <= NextPageStart(f)
        <5>1. PICK l \in Nat, e \in Int : l = Len(q) /\ e = NextPageStart(f)
          <6>1. f \in Int /\ Len(q) \in Nat
            BY <2>3, <1>3, BlockInCells
          <6>2. /\ PAGE \in Nat \ {0} /\ StartOf(f, PAGE) \in Int
                /\ NextPageStart(f) = StartOf(f, PAGE) + PAGE
            BY <6>1, <1>3, PageIs
          <6>3. NextPageStart(f) \in Int
            BY <6>2
          <6>4. QED
            BY <6>1, <6>3
        <5>2. f \in Int /\ f + l <= e /\ n <= l
          BY <5>1, <2>4, <2>6, <1>3, BlockInCells
        <5>3. f + n <= e
          BY <5>1, <5>2, <2>6
        <5>4. QED
          BY <5>1, <5>3, <2>6
      <4>3. InPage(p, f, part)
        BY <4>1, <4>2, <2>4, <2>6, <1>3, ProgrammedIs, Zenon
      <4>4. chip'.pending = p
        BY <4>1, <3>2, <2>12
      <4>5. QED
        BY <4>3, <4>4, <2>4, <2>10, <1>2 DEF InPage, Pending
    <3>3. QED
      BY <3>1, <3>2
  <2>14. QED
    BY <2>9, <2>11, <2>13, <1>2, FailsWell
<1>6. QED
  BY <1>4, <1>5

----------------------------------------------------------------------------
(* What the driver does between the scripts                                 *)

\* The chip is not busy when a script has been sent.
LEMMA FlashIdle ==
    ASSUME Heard, ~ Starting, drv.script = << >>
    PROVE  chip.pending = << >> /\ ~ Busy
BY DEF Heard, Busy

\* A step of the driver leaves alone what is not its own.
LEMMA DriverSteps ==
    ASSUME FlashInv, OnlyDriver, ~ Starting, drv.script = << >>,
           drv' \in DriverLocals(drv'.got), drv'.cur <= Len(drv'.src), drv'.op = drv.op,
           drv'.script # << >> => Head(drv'.script).op \in {"wren", "rdsr"}
    PROVE  /\ Typed' /\ Heard' /\ Sectors' /\ Pending'
           /\ chip' = chip /\ asked' = asked /\ chip.pending = << >>
           /\ Mode' <=> (Closed' => ~ chip.four)
           /\ \A a : Will(a)' = Will(a)
           /\ \A n : WrittenTo(n)' = WrittenTo(n)
           /\ \A a : BlockOf(a)' = BlockOf(a) /\ TestAddress(a)' = TestAddress(a)
           /\ Ends' = Ends
<1>1. FlashInv
  OBVIOUS
<1>2. chip' = chip /\ asked' = asked /\ failures' = failures /\ chip.pending = << >> /\ ~ Busy
  BY <1>1, FlashIdle DEF FlashInv, OnlyDriver
<1>3. Typed'
  <2>1. /\ Cells(chip.kind)' = Cells(chip.kind)
        /\ \A a : Addressed("pp", a, 0)' = Addressed("pp", a, 0)
    BY <1>2, SameGeometry
  <2>2. QED
    BY <1>1, <1>2, <2>1 DEF FlashInv, Typed, ChipRegs, CallerSees
<1>4. Heard'
  BY <1>2 DEF Heard, Busy
<1>5. /\ \A a : BlockOf(a)' = BlockOf(a) /\ TestAddress(a)' = TestAddress(a)
      /\ Ends' = Ends /\ four_bytes_mode' = four_bytes_mode
  BY <1>2, SameGeometry
<1>6. Sectors'
  <2>1. /\ \A k : BlockOf(asked.offset + k - 1)' = BlockOf(asked.offset + k - 1)
        /\ BlockOf(asked.offset)' = BlockOf(asked.offset)
    BY <1>2, <1>5 DEF BlockOf
  <2>2. QED
    BY <1>1, <1>2, <2>1 DEF FlashInv, Sectors, Writes
<1>7. /\ Pending'
      /\ \A a : Will(a)' = Will(a)
      /\ \A n : WrittenTo(n)' = WrittenTo(n)
  BY <1>1, <1>2, SameMemory DEF FlashInv
<1>8. Mode' <=> (Closed' => ~ chip.four)
  BY <1>1, <1>2, <1>5 DEF FlashInv, Mode
<1>9. QED
  BY <1>2, <1>3, <1>4, <1>5, <1>6, <1>7, <1>8

\* A step that goes on with the same part of the call.
LEMMA SamePart ==
    ASSUME FlashInv, OnlyDriver, drv'.op = drv.op, drv'.offset = drv.offset, drv'.src = drv.src,
           drv'.ret = drv.ret
    PROVE  Rest' /\ limit' = limit /\ Base' = Base /\ Writes' = Writes
<1>1. FlashInv
  OBVIOUS
<1>2. chip' = chip /\ asked' = asked
  BY DEF OnlyDriver
<1>3. /\ \A a : BlockOf(a)' = BlockOf(a)
      /\ BlockSize(chip.kind)' = BlockSize(chip.kind)
  BY <1>2, SameGeometry DEF BlockSize
<1>4. /\ BlockOf(drv.offset)' = BlockOf(drv.offset)
      /\ \A k : BlockOf(drv.offset + k - 1)' = BlockOf(drv.offset + k - 1)
  BY <1>2 DEF BlockOf
<1>5. limit' = limit /\ Base' = Base /\ Writes' = Writes
  BY <1>2, <1>3, <1>4 DEF limit, data_to_write, Base, Writes
<1>6. Rest'
  BY <1>1, <1>2, <1>4, <1>5 DEF FlashInv, Rest
<1>7. QED
  BY <1>5, <1>6

\* A read begins.
LEMMA ReadBufferKeeps ==
    ASSUME FlashInv, ReadBuffer
    PROVE  FlashInv'
<1>1. FlashInv
  OBVIOUS
<1>2. /\ drv.at = "read" /\ drv.script = << >> /\ OnlyDriver /\ chip' = chip
      /\ drv' = [drv EXCEPT !.at = "done", !.script = read_buffer(drv.offset, Len(drv.src))]
      /\ drv.op = "read" /\ drv.ret = 0 /\ TestAddress(drv.offset)
  BY <1>1 DEF FlashInv, Within, ReadBuffer, Runs, OnlyDriver
<1>3. /\ drv \in DriverLocals(drv.got) /\ drv.cur <= Len(drv.src)
      /\ drv.offset \in Int /\ Len(drv.src) \in Nat
  BY <1>1 DEF FlashInv, Typed, DriverLocals
<1>4. /\ drv'.at = "done" /\ drv'.script = read_buffer(drv.offset, Len(drv.src))
      /\ drv'.op = drv.op /\ drv'.offset = drv.offset /\ drv'.src = drv.src
      /\ drv'.ret = drv.ret /\ drv'.cur = drv.cur
  BY <1>2, <1>3 DEF DriverLocals
<1>5. PICK a \in Int, len \in Nat : a = drv.offset /\ len = Len(drv.src)
  BY <1>3
<1>6. /\ Reading(a, len)' /\ drv'.script \in Seq(Commands) /\ drv'.script # << >>
      /\ Left' \in Int /\ Left' >= 2 /\ Head(drv'.script).op \in {"wren", "rdsr"}
  BY <1>1, <1>2, <1>4, <1>5, ReadBegins DEF FlashInv
<1>7. drv' \in DriverLocals(drv'.got) /\ drv'.cur <= Len(drv'.src)
  BY <1>2, <1>3, <1>4, <1>6 DEF DriverLocals, Steps
<1>8. ~ Starting
  BY <1>2 DEF Starting
<1>9. /\ Typed' /\ Heard' /\ Sectors' /\ Pending'
      /\ Mode' <=> (Closed' => ~ chip.four)
      /\ \A x : TestAddress(x)' = TestAddress(x)
  BY <1>1, <1>2, <1>4, <1>6, <1>7, <1>8, DriverSteps
<1>10. Rest' /\ Writes' = Writes
  BY <1>1, <1>2, <1>4, SamePart
<1>11. ~ Writes
  BY <1>2 DEF Writes
<1>12. Mode'
  BY <1>4, <1>9, <1>10, <1>11 DEF Closed
<1>13. Scripted'
  <2>1. Reading(drv.offset, Len(drv.src))'
    BY <1>4, <1>5, <1>6 DEF Reading, Addressed
  <2>2. QED
    BY <2>1, <1>2, <1>4, <1>10, <1>11 DEF Scripted, Starting
<1>14. Within'
  <2>1. TestAddress(drv.offset)'
    BY <1>2, <1>4, <1>9 DEF TestAddress
  <2>2. QED
    BY <2>1, <1>2, <1>4 DEF Within
<1>15. Kept'
  BY <1>4, <1>10, <1>11 DEF Kept
<1>16. Answered'
  <2>1. ~ (Left' <= 0)
    BY <1>6
  <2>2. QED
    BY <2>1, <1>2, <1>4 DEF Answered
<1>17. QED
  BY <1>9, <1>10, <1>12, <1>13, <1>14, <1>15, <1>16 DEF FlashInv

\* An erase begins.
LEMMA EraseBlockKeeps ==
    ASSUME FlashInv, EraseBlock
    PROVE  FlashInv'
<1>1. FlashInv
  OBVIOUS
<1>2. /\ drv.at = "erase" /\ drv.script = << >> /\ OnlyDriver /\ chip' = chip
      /\ drv' = [drv EXCEPT !.at = "done", !.script = sector_erase(drv.offset)]
      /\ drv.op = "erase" /\ drv.ret = 0 /\ TestAddress(drv.offset)
  BY <1>1 DEF FlashInv, Within, EraseBlock, Runs, OnlyDriver
<1>3. drv \in DriverLocals(drv.got) /\ drv.cur <= Len(drv.src) /\ drv.offset \in Int
  BY <1>1 DEF FlashInv, Typed, DriverLocals
<1>4. /\ drv'.at = "done" /\ drv'.script = sector_erase(drv.offset)
      /\ drv'.op = drv.op /\ drv'.offset = drv.offset /\ drv'.src = drv.src
      /\ drv'.ret = drv.ret /\ drv'.cur = drv.cur
  BY <1>2, <1>3 DEF DriverLocals
<1>5. PICK a \in Int : a = drv.offset
  BY <1>3
<1>6. /\ Erasing(a)' /\ drv'.script \in Seq(Commands) /\ drv'.script # << >>
      /\ Left' \in Int /\ Left' >= 3 /\ Head(drv'.script).op \in {"wren"}
  BY <1>1, <1>2, <1>4, <1>5, EraseBegins DEF FlashInv
<1>7. drv' \in DriverLocals(drv'.got) /\ drv'.cur <= Len(drv'.src)
  BY <1>2, <1>3, <1>4, <1>6 DEF DriverLocals, Steps
<1>8. ~ Starting
  BY <1>2 DEF Starting
<1>9. /\ Typed' /\ Heard' /\ Sectors' /\ Pending'
      /\ Mode' <=> (Closed' => ~ chip.four)
      /\ \A x : TestAddress(x)' = TestAddress(x)
  BY <1>1, <1>2, <1>4, <1>6, <1>7, <1>8, DriverSteps
<1>10. Rest' /\ Writes' = Writes
  BY <1>1, <1>2, <1>4, SamePart
<1>11. ~ Writes
  BY <1>2 DEF Writes
<1>12. Mode'
  BY <1>4, <1>9, <1>10, <1>11 DEF Closed
<1>13. Scripted'
  <2>1. Erasing(drv.offset)'
    BY <1>4, <1>5, <1>6 DEF Erasing, Addressed
  <2>2. QED
    BY <2>1, <1>2, <1>4, <1>10, <1>11 DEF Scripted, Starting
<1>14. Within'
  <2>1. TestAddress(drv.offset)'
    BY <1>2, <1>4, <1>9 DEF TestAddress
  <2>2. QED
    BY <2>1, <1>2, <1>4 DEF Within
<1>15. Kept'
  BY <1>4, <1>10, <1>11 DEF Kept
<1>16. Answered'
  <2>1. ~ (Left' <= 1)
    BY <1>6
  <2>2. QED
    BY <2>1, <1>2, <1>4 DEF Answered
<1>17. QED
  BY <1>9, <1>10, <1>12, <1>13, <1>14, <1>15, <1>16 DEF FlashInv

----------------------------------------------------------------------------
(* The chip gets done                                                       *)

\* The scripts are about the driver, and about the chip's mode and header.
LEMMA SameScript ==
    ASSUME drv' = drv, chip'.kind = chip.kind, chip'.four = chip.four, chip'.header = chip.header
    PROVE  /\ Scripted => Scripted'
           /\ Left' = Left /\ Unsent' = Unsent
<1>1. /\ \A a : BlockOf(a)' = BlockOf(a)
      /\ four_bytes_mode' = four_bytes_mode /\ Ends' = Ends
      /\ \A op, a, len : Addressed(op, a, len)' = Addressed(op, a, len)
      /\ BlockSize(chip.kind)' = BlockSize(chip.kind)
  BY SameGeometry DEF BlockSize
<1>2. Left' = Left /\ \A p : Cmd(p)' = Cmd(p)
  BY <1>1 DEF Left, Cmd
<1>3. Unsent' = Unsent /\ From' = From
  BY <1>2 DEF Unsent, From
<1>4. this_chunk_size' = this_chunk_size
  <2>1. BlockOf(drv.offset)' = BlockOf(drv.offset)
    BY <1>1 DEF BlockOf
  <2>2. data_to_write' = data_to_write
    BY <2>1, <1>1 DEF data_to_write
  <2>3. QED
    BY <2>2 DEF this_chunk_size
<1>5. \A ops : Follows(ops) => Follows(ops)'
  BY <1>1, <1>2 DEF Follows
<1>6. \A a, len : Reading(a, len) => Reading(a, len)'
  BY <1>1, <1>2, <1>5 DEF Reading
<1>7. \A a : Erasing(a) => Erasing(a)'
  BY <1>1, <1>2, <1>5 DEF Erasing
<1>8. Writing => Writing'
  <2>1. /\ Cmd(3)' = Cmd(3) /\ Cmd(2)' = Cmd(2)
        /\ Addressed("pp", From, 0)' = Addressed("pp", From, 0)
        /\ NextPageStart(From)' = NextPageStart(From)
        /\ Follows(WriteOps) => Follows(WriteOps)'
    BY <1>1, <1>2, <1>3, <1>5 DEF Addressed, NextPageStart, WriteOps
  <2>2. QED
    BY <2>1, <1>2, <1>3 DEF Writing
<1>9. /\ Reading(drv.offset, Len(drv.src)) => Reading(drv.offset, Len(drv.src))'
      /\ Reading(drv.offset + drv.cur, this_chunk_size) => Reading(drv.offset + drv.cur, this_chunk_size)'
  BY <1>4, <1>6 DEF Reading, Addressed
<1>10. /\ Erasing(drv.offset) => Erasing(drv.offset)'
       /\ Erasing(BlockOf(drv.offset)) => Erasing(BlockOf(drv.offset))'
  <2>1. BlockOf(drv.offset)' = BlockOf(drv.offset)
    BY <1>1 DEF BlockOf
  <2>2. QED
    BY <2>1, <1>7 DEF Erasing, Addressed
<1>11. Scripted => Scripted'
  BY <1>8, <1>9, <1>10 DEF Scripted, Starting, Writes
<1>12. QED
  BY <1>2, <1>3, <1>11

\* A chip that is asked for its status after a read request has been prepared has not
\* been asked to read yet.
LEMMA StatusFirst ==
    ASSUME Typed, drv.script # << >>, Head(drv.script).op = "rdsr", Follows(ReadOps)
    PROVE  ~ (Left <= 0)
<1>1. /\ Head(drv.script) = Cmd(Left) /\ Left \in Int /\ Left >= 1 - Ends /\ Ends \in {0, 2}
  BY NextCommand
<1>2. Cmd(Left).op = ReadOps[Left + 2]
  BY <1>1 DEF Follows
<1>3. SUFFICES ASSUME Left <= 0 PROVE FALSE
  OBVIOUS
<1>4. Left + 2 \in {1, 2}
  BY <1>1, <1>3
<1>5. ReadOps[1] = "dis4b" /\ ReadOps[2] = "wren"
  BY DEF ReadOps
<1>6. QED
  BY <1>1, <1>2, <1>4, <1>5

\* What was pending is in the memory.
LEMMA DoneKeeps ==
    ASSUME FlashInv, Done
    PROVE  FlashInv'
<1>1. FlashInv
  OBVIOUS
<1>2. /\ Busy /\ drv' = drv /\ asked' = asked /\ failures' = failures
      /\ chip' = [chip EXCEPT !.pending = << >>,
                  !.data = [a \in Cells(chip.kind) |->
                              IF a \in DOMAIN chip.pending THEN chip.pending[a] ELSE chip.data[a]]]
  BY DEF Done
<1>3. chip \in ChipRegs(chip.pending, chip.header) /\ chip.kind \in CHIPS
  BY <1>1 DEF FlashInv, Typed, ChipRegs
<1>4. /\ chip'.kind = chip.kind /\ chip'.header = chip.header /\ chip'.pending = << >>
      /\ chip'.four = chip.four /\ chip'.wel = chip.wel
      /\ chip'.data = [a \in Cells(chip.kind) |-> Will(a)]
  BY <1>2, <1>3 DEF ChipRegs, Will
<1>5. /\ Cells(chip.kind)' = Cells(chip.kind) /\ size' = size
      /\ \A a : BlockOf(a)' = BlockOf(a) /\ Block(a)' = Block(a) /\ TestAddress(a)' = TestAddress(a)
      /\ four_bytes_mode' = four_bytes_mode
      /\ \A a : Addressed("pp", a, 0)' = Addressed("pp", a, 0)
  BY <1>4, SameGeometry
<1>6. \A a \in Cells(chip.kind) : Will(a) \in Byte
  BY <1>1, <1>3 DEF FlashInv, Pending, Will, ChipRegs
<1>7. DOMAIN << >> = {}
  OBVIOUS
<1>8. \A a \in Cells(chip.kind) : Will(a)' = Will(a) /\ chip'.data[a] = Will(a)
  BY <1>4, <1>7 DEF Will
<1>9. Typed'
  <2>1. chip'.data \in [Cells(chip.kind) -> Byte]
    BY <1>4, <1>6
  <2>2. chip' \in ChipRegs(chip.pending, chip.header)'
    BY <2>1, <1>2, <1>3, <1>4, <1>5 DEF ChipRegs
  <2>3. QED
    BY <2>2, <1>1, <1>2, <1>4, <1>5 DEF FlashInv, Typed, DriverLocals, CallerSees
<1>10. Scripted' /\ Left' = Left /\ Unsent' = Unsent
  BY <1>1, <1>2, <1>4, SameScript DEF FlashInv
<1>11. Heard'
  BY <1>1, <1>2, <1>4 DEF FlashInv, Heard, Busy
<1>12. /\ Rest' /\ Sectors' /\ Within' /\ limit' = limit /\ this_chunk_size' = this_chunk_size
       /\ Base' = Base /\ Writes' = Writes /\ Closed' = Closed
  BY <1>1, <1>2, <1>4, SamePlace DEF FlashInv
<1>13. Mode'
  BY <1>1, <1>4, <1>5, <1>12 DEF FlashInv, Mode
<1>14. Pending'
  BY <1>4, <1>7 DEF Pending
<1>15. \A n : WrittenTo(n) => WrittenTo(n)'
  <2>1. ASSUME NEW n, WrittenTo(n), asked.clean, NEW k \in 1 .. n,
               asked.offset + k - 1 \in Cells(chip.kind)
        PROVE  Will(asked.offset + k - 1)' = asked.src[k]
    <3>1. Will(asked.offset + k - 1) = asked.src[k]
      BY <2>1 DEF WrittenTo
    <3>2. PICK x \in Cells(chip.kind) : x = asked.offset + k - 1
      BY <2>1
    <3>3. Will(x)' = Will(x)
      BY <1>8
    <3>4. QED
      BY <3>1, <3>2, <3>3, <1>2 DEF Will
  <2>2. QED
    BY <2>1, <1>2, <1>5 DEF WrittenTo
<1>16. drv.at = "pages" /\ ErasedFrom(drv.cur - Unsent) => ErasedFrom(drv.cur - Unsent)'
  <2> SUFFICES ASSUME drv.at = "pages", ErasedFrom(drv.cur - Unsent), asked.clean,
                      NEW k \in drv.cur - Unsent + 1 .. limit
               PROVE  Will(drv.offset + k - 1)' = Erased
    BY <1>2, <1>10, <1>12 DEF ErasedFrom, Erased
  <2>1. Will(drv.offset + k - 1) = Erased
    BY DEF ErasedFrom
  <2>2. Writes /\ drv.ret = 0 /\ TestAddress(drv.offset)
    BY <1>1 DEF FlashInv, Within
  <2>3. drv.cur - Unsent \in Nat
    <3>1. CASE Unsent = 0
      BY <3>1, <1>1 DEF FlashInv, Typed, DriverLocals
    <3>2. CASE Unsent # 0
      <4>1. Left >= 2 /\ drv.cur > 0 /\ drv.cur \in Nat
        BY <3>2, <1>1 DEF Unsent, FlashInv, Typed, DriverLocals
      <4>2. Unsent \in 1 .. drv.cur
        BY <4>1, <1>1 DEF FlashInv, Scripted, Writing
      <4>3. QED
        BY <4>1, <4>2
    <3>3. QED
      BY <3>1, <3>2
  <2>4. drv.offset + k - 1 \in Cells(chip.kind)
    <3>1. limit \in Nat /\ \A i \in 1 .. limit : drv.offset + i - 1 \in Cells(chip.kind)
      BY <2>2, <1>1, LimitIs DEF FlashInv
    <3>2. k \in 1 .. limit
      BY <3>1, <2>3
    <3>3. QED
      BY <3>1, <3>2
  <2>5. PICK x \in Cells(chip.kind) : x = drv.offset + k - 1
    BY <2>4
  <2>6. Will(x)' = Will(x)
    BY <1>8
  <2>7. QED
    BY <2>1, <2>5, <2>6, <1>2 DEF Will
<1>17. Kept'
  <2>1. /\ WrittenTo(Base) => WrittenTo(Base)'
        /\ WrittenTo(Base + drv.cur) => WrittenTo(Base + drv.cur)'
        /\ WrittenTo(Base + (drv.cur - Unsent)) => WrittenTo(Base + (drv.cur - Unsent))'
        /\ WrittenTo(Base + limit) => WrittenTo(Base + limit)'
        /\ WrittenTo(Len(asked.src)) => WrittenTo(Len(asked.src))'
    BY <1>2, <1>10, <1>12, <1>15 DEF WrittenTo
  <2>2. TestAddress(asked.offset)' = TestAddress(asked.offset)
    BY <1>2, <1>5 DEF TestAddress
  <2>3. QED
    BY <2>1, <2>2, <1>1, <1>2, <1>10, <1>12, <1>16 DEF FlashInv, Kept
<1>18. Answered'
  <2>1. (drv.script # << >> /\ Head(drv.script).op = "rdsr") \/ Starting
    BY <1>1, <1>2 DEF FlashInv, Heard
  <2>2. /\ drv.at = "done" /\ drv.op = "read" /\ drv.ret = 0 => ~ (Left <= 0)
        /\ drv.at = "compared" => ~ (Left <= 0)
    BY <2>1, <1>1, StatusFirst DEF FlashInv, Scripted, Reading, Starting
  <2>3. Block(drv.offset)' = Block(drv.offset) /\ Block(drv.offset) \subseteq Cells(chip.kind)
    BY <1>2, <1>5 DEF Block, BlockOf
  <2>4. QED
    BY <2>2, <2>3, <1>1, <1>2, <1>8, <1>10, <1>12 DEF FlashInv, Answered, Erased
<1>19. QED
  BY <1>9, <1>10, <1>11, <1>12, <1>13, <1>14, <1>17, <1>18 DEF FlashInv

----------------------------------------------------------------------------
(* A write: the blocks                                                      *)

\* A step of a write that stays in the block.
LEMMA QuietStep ==
    ASSUME FlashInv, OnlyDriver, ~ Starting, drv.script = << >>, Writes,
           drv' \in DriverLocals(drv'.got), drv'.cur <= Len(drv'.src), drv'.op = drv.op,
           drv'.offset = drv.offset, drv'.src = drv.src, drv'.ret = drv.ret,
           drv'.script # << >> => Head(drv'.script).op \in {"wren", "rdsr"}
    PROVE  /\ Typed' /\ Heard' /\ Sectors' /\ Pending' /\ Rest'
           /\ chip' = chip /\ asked' = asked /\ chip.pending = << >>
           /\ limit' = limit /\ Base' = Base /\ Writes'
           /\ \A a : Will(a)' = Will(a)
           /\ \A n : WrittenTo(n)' = WrittenTo(n)
           /\ \A a : BlockOf(a)' = BlockOf(a) /\ TestAddress(a)' = TestAddress(a)
           /\ TestAddress(drv.offset)' = TestAddress(drv.offset)
           /\ TestAddress(asked.offset)' = TestAddress(asked.offset)
           /\ Mode' <=> (Closed' => ~ chip.four)
           /\ Ends' = Ends
<1>1. FlashInv
  OBVIOUS
<1>2. /\ Typed' /\ Heard' /\ Sectors' /\ Pending' /\ chip' = chip /\ asked' = asked
      /\ chip.pending = << >>
      /\ \A a : Will(a)' = Will(a)
      /\ \A n : WrittenTo(n)' = WrittenTo(n)
      /\ \A a : BlockOf(a)' = BlockOf(a) /\ TestAddress(a)' = TestAddress(a)
      /\ Mode' <=> (Closed' => ~ chip.four)
      /\ Ends' = Ends
  BY <1>1, DriverSteps
<1>3. Rest' /\ limit' = limit /\ Base' = Base /\ Writes' = Writes
  BY <1>1, SamePart
<1>4. /\ TestAddress(drv.offset)' = TestAddress(drv.offset)
      /\ TestAddress(asked.offset)' = TestAddress(asked.offset)
  BY <1>2 DEF TestAddress
<1>5. QED
  BY <1>2, <1>3, <1>4

\* The next block is compared, or there is none.
LEMMA WriteBlocksKeeps ==
    ASSUME FlashInv, WriteBlocks
    PROVE  FlashInv'
<1>1. FlashInv
  OBVIOUS
<1>2. PICK at \in {"compare", "done"} : at = IF TestAddress(drv.offset) THEN "compare" ELSE "done"
  OBVIOUS
<1>3. /\ drv.at = "write" /\ drv.script = << >> /\ OnlyDriver /\ drv' = [drv EXCEPT !.at = at]
      /\ drv.op = "write" /\ drv.ret = 0 /\ drv.cur = 0
  BY <1>1, <1>2 DEF FlashInv, Within, WriteBlocks, Runs
<1>4. drv \in DriverLocals(drv.got) /\ drv.cur <= Len(drv.src)
  BY <1>1 DEF FlashInv, Typed
<1>5. /\ drv' \in DriverLocals(drv'.got) /\ drv'.at = at /\ drv'.cur = drv.cur
      /\ drv'.script = << >> /\ drv'.op = drv.op /\ drv'.offset = drv.offset
      /\ drv'.src = drv.src /\ drv'.ret = drv.ret
  BY <1>3, <1>4 DEF DriverLocals, Steps
<1>6. ~ Starting /\ Writes /\ drv'.cur <= Len(drv'.src)
  BY <1>3, <1>4, <1>5 DEF Starting, Writes
<1>7. /\ Typed' /\ Heard' /\ Sectors' /\ Pending' /\ Rest'
      /\ chip' = chip /\ asked' = asked
      /\ limit' = limit /\ Base' = Base /\ Writes'
      /\ \A n : WrittenTo(n)' = WrittenTo(n)
      /\ TestAddress(drv.offset)' = TestAddress(drv.offset)
      /\ TestAddress(asked.offset)' = TestAddress(asked.offset)
      /\ Mode' <=> (Closed' => ~ chip.four)
  BY <1>1, <1>3, <1>5, <1>6, QuietStep
<1>9. Mode'
  <2>1. SUFFICES ASSUME Closed' PROVE Closed
    BY <1>1, <1>7 DEF FlashInv, Mode
  <2>2. at = "done" /\ TestAddress(asked.offset)
    BY <2>1, <1>2, <1>3, <1>5, <1>7 DEF Closed
  <2>3. ~ TestAddress(drv.offset)
    BY <2>2, <1>2
  <2>4. drv.offset # asked.offset
    BY <2>2, <2>3
  <2>5. QED
    BY <2>4, <1>3 DEF Closed
<1>10. Scripted'
  BY <1>2, <1>3, <1>5, <1>7 DEF Scripted, Starting
<1>11. TestAddress(drv.offset) => limit \in Nat
  BY <1>1, <1>3, <1>6, LimitIs DEF FlashInv
<1>12. Within'
  BY <1>2, <1>3, <1>5, <1>7, <1>11 DEF Within
<1>13. Kept'
  <2>1. WrittenTo(Base)
    BY <1>1, <1>3 DEF FlashInv, Kept
  <2>2. PICK o \in Int, a \in Int, b \in Nat, len \in Nat :
          o = drv.offset /\ a = asked.offset /\ b = Base /\ o = a + b /\ len = Len(asked.src)
    <3>1. drv.offset \in Int /\ asked.offset \in Int /\ Base >= 0 /\ asked.src \in Seq(Byte)
      BY <1>1, <1>4 DEF FlashInv, Typed, DriverLocals, CallerSees, Rest
    <3>2. Len(asked.src) \in Nat
      BY <3>1
    <3>3. Base \in Nat /\ drv.offset = asked.offset + Base
      BY <3>1 DEF Base
    <3>4. QED
      BY <3>1, <3>2, <3>3
  <2>3. WrittenTo(Base + drv.cur)
    <3>1. Base + drv.cur = Base
      BY <2>2, <1>3
    <3>2. QED
      BY <3>1, <2>1
  <2>4. ~ TestAddress(drv.offset) /\ TestAddress(asked.offset) => WrittenTo(len)
    <3> SUFFICES ASSUME ~ TestAddress(drv.offset), TestAddress(asked.offset), asked.clean,
                        NEW k \in 1 .. len, asked.offset + k - 1 \in Cells(chip.kind)
                 PROVE  Will(asked.offset + k - 1) = asked.src[k]
      BY DEF WrittenTo
    <3>1. PICK s \in Nat : s = size
      BY <1>1, BlockInCells DEF FlashInv, Typed, ChipRegs
    <3>2. len \in Nat
      BY <2>2, <1>1 DEF FlashInv, Typed, CallerSees
    <3>3. a \in 0 .. s - 1 /\ ~ (o \in 0 .. s - 1)
      BY <2>2, <3>1 DEF TestAddress
    <3>4. a + k - 1 < s
      BY <2>2, <3>1, <1>1, BlockInCells DEF FlashInv, Typed, ChipRegs
    <3>5. k \in 1 .. b
      BY <2>2, <3>2, <3>3, <3>4
    <3>6. QED
      BY <3>5, <2>1, <2>2 DEF WrittenTo
  <2>5. WrittenTo(Base + drv.cur)' = WrittenTo(Base + drv.cur)
    BY <1>5, <1>7 DEF WrittenTo
  <2>6. WrittenTo(Len(asked.src))' = WrittenTo(len)
    <3>1. WrittenTo(Len(asked.src))' = WrittenTo(len)'
      BY <1>7, <2>2 DEF WrittenTo
    <3>2. QED
      BY <3>1, <1>7
  <2>7. QED
    BY <2>3, <2>4, <2>5, <2>6, <1>2, <1>5, <1>7 DEF Kept
<1>14. Answered'
  BY <1>2, <1>3, <1>5, <1>7 DEF Answered
<1>15. QED
  BY <1>7, <1>9, <1>10, <1>12, <1>13, <1>14 DEF FlashInv

\* The part of the data that is in the block of its first byte.
LEMMA PartIs ==
    ASSUME FlashInv, drv.op = "write", TestAddress(drv.offset)
    PROVE  /\ limit \in Nat /\ data_to_write = limit /\ drv.cur \in Nat
           /\ drv.cur < limit => this_chunk_size \in 1 .. limit - drv.cur
           /\ drv.src # << >> => limit > 0
           /\ drv.offset \in Int /\ CHUNK \in Nat \ {0}
<1>1. FlashInv
  OBVIOUS
<1>2. drv.ret = 0 /\ Writes
  BY <1>1 DEF FlashInv, Within, Writes
<1>3. limit \in Nat /\ (drv.src # << >> => limit > 0)
  BY <1>1, <1>2, LimitIs DEF FlashInv
<1>4. data_to_write = limit
  BY DEF limit
<1>5. drv.cur \in Nat /\ drv.offset \in Int
  BY <1>1 DEF FlashInv, Typed, DriverLocals
<1>6. CHUNK \in Nat \ {0}
  BY FlashAssumption
<1>7. drv.cur < limit => this_chunk_size \in 1 .. limit - drv.cur
  <2>1. PICK c \in Nat, l \in Nat, u \in Nat \ {0} : c = drv.cur /\ l = limit /\ u = CHUNK
    BY <1>3, <1>5, <1>6
  <2>2. this_chunk_size = IF u < l - c THEN u ELSE l - c
    BY <2>1, <1>4 DEF this_chunk_size, Least
  <2>3. QED
    BY <2>1, <2>2
<1>8. QED
  BY <1>3, <1>4, <1>5, <1>6, <1>7

\* The next chunk is compared, or there is none in the block.
LEMMA CompareKeeps ==
    ASSUME FlashInv, Compare
    PROVE  FlashInv'
<1>1. FlashInv
  OBVIOUS
<1>2. /\ drv.at = "compare" /\ drv.script = << >> /\ OnlyDriver
      /\ drv' = IF drv.cur >= data_to_write THEN [drv EXCEPT !.at = "next"]
                ELSE [drv EXCEPT !.at = "compared",
                                 !.script = read_buffer(drv.offset + drv.cur, this_chunk_size)]
      /\ drv.op = "write" /\ drv.ret = 0 /\ TestAddress(drv.offset) /\ drv.cur \in 0 .. limit
  BY <1>1 DEF FlashInv, Within, Compare, Runs
<1>3. drv \in DriverLocals(drv.got) /\ drv.cur <= Len(drv.src)
  BY <1>1 DEF FlashInv, Typed
<1>4. ~ Starting /\ Writes /\ WrittenTo(Base + drv.cur) /\ chip' = chip
  BY <1>1, <1>2 DEF Starting, Writes, FlashInv, Kept, OnlyDriver
<1>5. /\ limit \in Nat /\ data_to_write = limit /\ drv.cur \in Nat
      /\ drv.cur < limit => this_chunk_size \in 1 .. limit - drv.cur
      /\ drv.src # << >> => limit > 0
      /\ drv.offset \in Int
  BY <1>1, <1>2, PartIs
<1>6. CASE drv.cur >= limit
  <2>1. /\ drv' \in DriverLocals(drv'.got) /\ drv'.at = "next" /\ drv'.cur = drv.cur
        /\ drv'.script = << >> /\ drv'.op = drv.op /\ drv'.offset = drv.offset
        /\ drv'.src = drv.src /\ drv'.ret = drv.ret
    BY <1>2, <1>3, <1>5, <1>6 DEF DriverLocals, Steps
  <2>2. drv'.cur <= Len(drv'.src) /\ drv.cur = limit
    BY <2>1, <1>2, <1>3, <1>5, <1>6
  <2>3. /\ Typed' /\ Heard' /\ Sectors' /\ Pending' /\ Rest'
        /\ limit' = limit /\ Base' = Base /\ Writes'
        /\ \A n : WrittenTo(n)' = WrittenTo(n)
        /\ TestAddress(drv.offset)' = TestAddress(drv.offset)
        /\ Mode' <=> (Closed' => ~ chip.four)
    BY <2>1, <2>2, <1>1, <1>2, <1>4, QuietStep
  <2>4. Mode'
    <3>1. SUFFICES ASSUME Closed' PROVE Closed
      BY <1>1, <2>3 DEF FlashInv, Mode
    <3>2. drv.cur > 0
      BY <3>1, <2>1, <2>2, <1>5 DEF Closed
    <3>3. QED
      BY <3>2, <1>2 DEF Closed
  <2>5. Scripted'
    BY <2>1 DEF Scripted, Starting
  <2>6. Within'
    BY <2>1, <2>3, <1>2 DEF Within
  <2>7. Kept'
    <3>1. WrittenTo(Base + limit)
      BY <2>2, <1>4
    <3>2. WrittenTo(Base + limit)' = WrittenTo(Base + limit)
      BY <2>3 DEF WrittenTo
    <3>3. QED
      BY <3>1, <3>2, <2>1 DEF Kept
  <2>8. Answered'
    BY <2>1 DEF Answered
  <2>9. QED
    BY <2>3, <2>4, <2>5, <2>6, <2>7, <2>8 DEF FlashInv
<1>7. CASE drv.cur < limit
  <2>1. PICK a \in Int, len \in Nat : a = drv.offset + drv.cur /\ len = this_chunk_size
    BY <1>5, <1>7
  <2>2. /\ drv'.at = "compared" /\ drv'.cur = drv.cur /\ drv'.script = read_buffer(a, len)
        /\ drv'.op = drv.op /\ drv'.offset = drv.offset /\ drv'.src = drv.src /\ drv'.ret = drv.ret
        /\ drv' = [drv EXCEPT !.at = "compared", !.script = read_buffer(a, len)]
    BY <2>1, <1>2, <1>3, <1>5, <1>7 DEF DriverLocals
  <2>3. /\ Reading(a, len)' /\ drv'.script \in Seq(Commands) /\ drv'.script # << >>
        /\ Left' \in Int /\ Left' >= 2 /\ Head(drv'.script).op \in {"wren", "rdsr"}
    BY <1>1, <1>4, <2>2, ReadBegins DEF FlashInv
  <2>4. drv' \in DriverLocals(drv'.got) /\ drv'.cur <= Len(drv'.src)
    BY <1>3, <2>2, <2>3 DEF DriverLocals, Steps
  <2>5. /\ Typed' /\ Heard' /\ Sectors' /\ Pending' /\ Rest'
        /\ limit' = limit /\ Base' = Base /\ Writes'
        /\ \A n : WrittenTo(n)' = WrittenTo(n)
        /\ TestAddress(drv.offset)' = TestAddress(drv.offset)
        /\ Mode' <=> (Closed' => ~ chip.four)
    BY <2>2, <2>3, <2>4, <1>1, <1>2, <1>4, QuietStep
  <2>6. Mode'
    BY <2>2, <2>5, <1>2 DEF Closed
  <2>7. Scripted'
    <3>1. this_chunk_size' = this_chunk_size
      <4>1. data_to_write' = data_to_write
        BY <2>2, <2>5, <1>2 DEF limit
      <4>2. QED
        BY <4>1, <2>2 DEF this_chunk_size
    <3>2. Reading(drv.offset + drv.cur, this_chunk_size)'
      BY <3>1, <2>1, <2>2, <2>3 DEF Reading, Addressed
    <3>3. QED
      BY <3>2, <2>2, <1>2 DEF Scripted, Starting
  <2>8. Within'
    BY <2>2, <2>5, <1>2, <1>7 DEF Within
  <2>9. Kept'
    <3>1. WrittenTo(Base + drv.cur)' = WrittenTo(Base + drv.cur)
      BY <2>2, <2>5 DEF WrittenTo
    <3>2. QED
      BY <3>1, <2>2, <1>4 DEF Kept
  <2>10. Answered'
    <3>1. ~ (Left' <= 0)
      BY <2>3
    <3>2. QED
      BY <3>1, <2>2 DEF Answered
  <2>11. QED
    BY <2>5, <2>6, <2>7, <2>8, <2>9, <2>10 DEF FlashInv
<1>8. QED
  BY <1>5, <1>6, <1>7

\* What is written stays written when less is asked.
LEMMA WrittenLess ==
    ASSUME NEW n \in Int, NEW m \in Int, m <= n, WrittenTo(n)
    PROVE  WrittenTo(m)
<1> SUFFICES ASSUME asked.clean, NEW k \in 1 .. m, asked.offset + k - 1 \in Cells(chip.kind)
             PROVE  Will(asked.offset + k - 1) = asked.src[k]
  BY DEF WrittenTo
<1>1. k \in 1 .. n
  OBVIOUS
<1>2. QED
  BY <1>1 DEF WrittenTo

\* When a script has been sent, the chip is out of four-byte mode.
LEMMA AllSent ==
    ASSUME Typed, drv.script = << >>, NEW ops \in {ReadOps, EraseOps, WriteOps}, Follows(ops)
    PROVE  ~ chip.four /\ Left \in Int /\ Left <= 0
<1>1. Ends \in {0, 2}
  BY ModeTyped DEF Typed, ChipRegs
<1>2. Len(drv.script) = 0
  BY EmptySeq
<1>3. PICK l \in {0, -2} : l = Left
  BY <1>1, <1>2 DEF Left
<1>4. PICK n \in 6 .. 8 : n = Len(ops)
  BY OpsAre
<1>5. l <= n - 4
  BY <1>3, <1>4
<1>6. ~ chip.four
  BY <1>3, <1>4, <1>5 DEF Follows
<1>7. QED
  BY <1>3, <1>6

\* More of the data is there already, or the block is erased.
LEMMA ComparedKeeps ==
    ASSUME FlashInv, Compared
    PROVE  FlashInv'
<1>1. FlashInv
  OBVIOUS
<1>2. /\ drv.at = "compared" /\ drv.script = << >> /\ OnlyDriver
      /\ drv.op = "write" /\ drv.ret = 0 /\ TestAddress(drv.offset) /\ drv.cur \in 0 .. limit
      /\ drv.cur < limit
  BY <1>1 DEF FlashInv, Within, Compared, Runs
<1>3. drv \in DriverLocals(drv.got) /\ drv.cur <= Len(drv.src) /\ drv.src \in Seq(Byte)
  BY <1>1 DEF FlashInv, Typed, DriverLocals
<1>4. /\ ~ Starting /\ Writes /\ WrittenTo(Base + drv.cur) /\ chip' = chip
      /\ Reading(drv.offset + drv.cur, this_chunk_size)
  BY <1>1, <1>2 DEF Starting, Writes, FlashInv, Kept, OnlyDriver, Scripted
<1>5. PICK l \in Nat, c \in Nat, n \in Nat, o \in Int, b \in Int :
        /\ l = limit /\ c = drv.cur /\ n = this_chunk_size /\ n \in 1 .. l - c
        /\ o = drv.offset /\ b = Base
  <2>1. /\ limit \in Nat /\ drv.cur \in Nat /\ drv.offset \in Int
        /\ this_chunk_size \in 1 .. limit - drv.cur
    BY <1>1, <1>2, PartIs
  <2>2. asked.offset \in Int
    BY <1>1 DEF FlashInv, Typed, CallerSees
  <2>3. Base \in Int
    BY <2>1, <2>2 DEF Base
  <2>4. this_chunk_size \in Nat
    BY <2>1
  <2>5. QED
    BY <2>1, <2>3, <2>4
<1>6. ~ chip.four /\ Left <= 0
  BY <1>1, <1>2, <1>4, AllSent DEF FlashInv, Reading
<1>7. CASE drv.got = SubSeq(drv.src, drv.cur + 1, drv.cur + this_chunk_size)
  <2>1. drv' = [drv EXCEPT !.at = "compare", !.cur = c + n, !.got = << >>]
    BY <1>5, <1>7 DEF Compared
  <2>2. /\ drv' \in DriverLocals(drv'.got) /\ drv'.at = "compare" /\ drv'.cur = c + n
        /\ drv'.script = << >> /\ drv'.op = drv.op /\ drv'.offset = drv.offset
        /\ drv'.src = drv.src /\ drv'.ret = drv.ret
    <3>1. PICK m \in Nat : m = c + n
      BY <1>5
    <3>2. drv' = [drv EXCEPT !.at = "compare", !.cur = m, !.got = << >>]
      BY <3>1, <2>1
    <3>3. QED
      BY <3>1, <3>2, <1>2, <1>3 DEF DriverLocals, Steps
  <2>3. PICK len \in Nat : len = Len(drv.src) /\ l <= len
    BY <1>1, <1>2, <1>3, <1>4, <1>5, LimitIs DEF FlashInv
  <2>4. c + n <= l /\ c + n <= len /\ \A i \in 1 .. n : c + i \in 1 .. len
    <3>1. l <= len
      BY <2>3
    <3>2. QED
      BY <3>1, <1>5
  <2>5. drv'.cur <= Len(drv'.src)
    BY <2>2, <2>3, <2>4, <1>5
  <2>6. /\ Typed' /\ Heard' /\ Sectors' /\ Pending' /\ Rest'
        /\ limit' = limit /\ Base' = Base /\ Writes' /\ chip.pending = << >>
        /\ \A m : WrittenTo(m)' = WrittenTo(m)
        /\ TestAddress(drv.offset)' = TestAddress(drv.offset)
        /\ Mode' <=> (Closed' => ~ chip.four)
    BY <2>2, <2>5, <1>1, <1>2, <1>4, QuietStep
  <2>7. Mode'
    BY <2>6, <1>6
  <2>8. Scripted'
    BY <2>2 DEF Scripted, Starting
  <2>9. Within'
    BY <2>2, <2>4, <2>6, <1>2, <1>5 DEF Within
  <2>10. \A k \in 1 .. n : chip.data[o + c + k - 1] = drv.src[c + k]
    <3>1. \A k \in 1 .. n : drv.got[k] = chip.data[o + c + k - 1]
      BY <1>1, <1>2, <1>5, <1>6 DEF FlashInv, Answered
    <3>2. \A k \in 1 .. n : SubSeq(drv.src, c + 1, c + n)[k] = drv.src[c + k]
      <4>1. PICK q \in Seq(Byte) : q = drv.src
        BY <1>3
      <4>2. len = Len(q)
        BY <4>1, <2>3
      <4>3. \A k \in 1 .. n : SubSeq(q, c + 1, c + n)[k] = q[c + k]
        <5>1. c \in Nat /\ n \in Nat /\ c + n <= len
          BY <2>4, <1>5
        <5>2. ASSUME NEW k \in 1 .. n PROVE SubSeq(q, c + 1, c + n)[k] = q[c + k]
          BY <5>1, <4>2, Piece
        <5>3. QED
          BY <5>2
      <4>4. QED
        BY <4>1, <4>3
    <3>3. drv.got = SubSeq(drv.src, c + 1, c + n)
      BY <1>5, <1>7
    <3>4. QED
      BY <3>1, <3>2, <3>3
  <2>11. WrittenTo(b + (c + n))
    <3> SUFFICES ASSUME asked.clean, NEW k \in 1 .. b + (c + n),
                        asked.offset + k - 1 \in Cells(chip.kind)
                 PROVE  Will(asked.offset + k - 1) = asked.src[k]
      BY DEF WrittenTo
    <3>1. CASE k <= b + c
      <4>1. k \in 1 .. b + c
        BY <3>1, <1>5
      <4>2. QED
        BY <4>1, <1>4, <1>5 DEF WrittenTo
    <3>2. CASE k > b + c
      <4>1. PICK i \in 1 .. n : k = b + (c + i)
        <5>1. k - (b + c) \in 1 .. n /\ k = b + (c + (k - (b + c)))
          BY <3>2, <1>5
        <5>2. QED
          BY <5>1
      <4>2. c + i \in 1 .. len
        BY <2>4
      <4>3. drv.src[c + i] = asked.src[b + (c + i)]
        BY <4>2, <2>3, <1>1, <1>5 DEF FlashInv, Rest
      <4>4. asked.offset + k - 1 = o + c + i - 1
        <5>1. asked.offset \in Int /\ b = o - asked.offset
          BY <1>1, <1>5 DEF FlashInv, Typed, CallerSees, Base
        <5>2. QED
          BY <5>1, <4>1, <1>5
      <4>5. Will(o + c + i - 1) = chip.data[o + c + i - 1]
        BY <2>6, WillBeData
      <4>6. QED
        BY <4>1, <4>3, <4>4, <4>5, <2>10
    <3>3. QED
      BY <3>1, <3>2, <1>5
  <2>12. Kept'
    <3>1. WrittenTo(Base + drv.cur)' = WrittenTo(b + (c + n))'
      BY <2>2, <2>6, <1>5 DEF WrittenTo
    <3>2. QED
      BY <3>1, <2>2, <2>6, <2>11 DEF Kept
  <2>13. Answered'
    BY <2>2 DEF Answered
  <2>14. QED
    BY <2>6, <2>7, <2>8, <2>9, <2>12, <2>13 DEF FlashInv
<1>8. CASE drv.got # SubSeq(drv.src, drv.cur + 1, drv.cur + this_chunk_size)
  <2>1. PICK a \in Int : a = BlockOf(drv.offset)
    BY <1>1, <1>5, BlockIs DEF FlashInv, Typed, ChipRegs
  <2>2. drv' = [drv EXCEPT !.at = "pages", !.cur = 0, !.got = << >>, !.script = sector_erase(a)]
    BY <2>1, <1>8 DEF Compared
  <2>3. /\ drv'.at = "pages" /\ drv'.cur = 0 /\ drv'.script = sector_erase(a)
        /\ drv'.op = drv.op /\ drv'.offset = drv.offset /\ drv'.src = drv.src /\ drv'.ret = drv.ret
    BY <2>2, <1>3 DEF DriverLocals
  <2>4. /\ Erasing(a)' /\ drv'.script \in Seq(Commands) /\ drv'.script # << >>
        /\ Left' \in Int /\ Left' >= 3 /\ Head(drv'.script).op \in {"wren"}
    BY <1>1, <1>4, <2>3, EraseBegins DEF FlashInv
  <2>5. drv' \in DriverLocals(drv'.got) /\ drv'.cur <= Len(drv'.src)
    <3>1. Len(drv.src) >= 0
      BY <1>3
    <3>2. QED
      BY <3>1, <1>3, <2>2, <2>3, <2>4 DEF DriverLocals, Steps
  <2>6. /\ Typed' /\ Heard' /\ Sectors' /\ Pending' /\ Rest'
        /\ limit' = limit /\ Base' = Base /\ Writes'
        /\ \A m : WrittenTo(m)' = WrittenTo(m)
        /\ \A x : BlockOf(x)' = BlockOf(x)
        /\ TestAddress(drv.offset)' = TestAddress(drv.offset)
        /\ Mode' <=> (Closed' => ~ chip.four)
    BY <2>3, <2>4, <2>5, <1>1, <1>2, <1>4, QuietStep
  <2>7. Mode'
    BY <2>6, <1>6
  <2>8. Scripted'
    <3>1. BlockOf(drv.offset)' = a
      BY <2>1, <2>3, <2>6 DEF BlockOf
    <3>2. Erasing(BlockOf(drv.offset))'
      BY <3>1, <2>4 DEF Erasing, Addressed
    <3>3. QED
      BY <3>2, <2>3, <1>2 DEF Scripted, Starting
  <2>9. Within'
    BY <2>3, <2>6, <1>2, <1>5 DEF Within
  <2>10. Kept'
    <3>1. Unsent' = 0
      BY <2>3 DEF Unsent
    <3>2. WrittenTo(b)
      <4>1. b + c \in Int /\ b <= b + c /\ WrittenTo(b + c)
        BY <1>4, <1>5
      <4>2. QED
        BY <4>1, WrittenLess
    <3>3. WrittenTo(Base + (drv.cur - Unsent))' = WrittenTo(b)'
      <4>1. (Base + (drv.cur - Unsent))' = b
        BY <3>1, <2>3, <2>6, <1>5
      <4>2. QED
        BY <4>1 DEF WrittenTo
    <3>4. ~ (Left' <= 1) /\ ~ (drv'.cur > 0)
      BY <2>3, <2>4
    <3>5. QED
      BY <3>2, <3>3, <3>4, <2>3, <2>6 DEF Kept
  <2>11. Answered'
    BY <2>3 DEF Answered
  <2>12. QED
    BY <2>6, <2>7, <2>8, <2>9, <2>10, <2>11 DEF FlashInv
<1>9. QED
  BY <1>7, <1>8

\* The next page is written, or there is none in the block.
LEMMA WritePageKeeps ==
    ASSUME FlashInv, WritePage
    PROVE  FlashInv'
<1>1. FlashInv
  OBVIOUS
<1>2. /\ drv.at = "pages" /\ drv.script = << >> /\ OnlyDriver /\ Writes
      /\ drv.ret = 0 /\ TestAddress(drv.offset) /\ drv.cur \in 0 .. limit
  BY <1>1 DEF FlashInv, Within, WritePage, Runs
<1>3. drv \in DriverLocals(drv.got) /\ drv.cur <= Len(drv.src) /\ drv.src \in Seq(Byte)
  BY <1>1 DEF FlashInv, Typed, DriverLocals
<1>4. ~ Starting /\ chip' = chip
  BY <1>2 DEF Starting, OnlyDriver
<1>5. PICK l \in Nat, c \in Nat, o \in Int, b \in Int, len \in Nat :
        /\ l = limit /\ c = drv.cur /\ o = drv.offset /\ b = Base /\ len = Len(drv.src)
        /\ c <= l /\ l <= len
  <2>1. limit \in Nat /\ limit <= Len(drv.src) /\ Len(drv.src) \in Nat
    BY <1>1, <1>2, LimitIs DEF FlashInv
  <2>2. drv.offset \in Int /\ asked.offset \in Int /\ drv.cur \in Nat
    BY <1>1 DEF FlashInv, Typed, DriverLocals, CallerSees
  <2>3. Base \in Int
    BY <2>2 DEF Base
  <2>4. PICK l \in Nat, len \in Nat : l = limit /\ len = Len(drv.src) /\ l <= len
    BY <2>1
  <2>5. PICK c \in Nat : c = drv.cur /\ c <= l
    BY <2>2, <2>4, <1>2
  <2>6. QED
    BY <2>2, <2>3, <2>4, <2>5
<1>6. Left \in Int /\ Left <= 0 /\ Unsent = 0
  <2>1. Ends \in {0, 2}
    BY <1>1, ModeTyped DEF FlashInv, Typed, ChipRegs
  <2>2. Left \in {0, -2}
    BY <2>1, <1>2 DEF Left
  <2>3. QED
    BY <2>2 DEF Unsent
<1>7. WrittenTo(b + c) /\ ErasedFrom(c)
  <2>1. /\ Base + (drv.cur - Unsent) = b + c /\ drv.cur - Unsent = c
    BY <1>5, <1>6
  <2>2. QED
    BY <2>1, <1>1, <1>2, <1>6 DEF FlashInv, Kept
<1>8. c > 0 => ~ chip.four
  BY <1>1, <1>2, <1>5, AllSent DEF FlashInv, Scripted, Writing
<1>9. CASE drv.cur = limit
  <2>1. drv' = [drv EXCEPT !.at = "next"]
    BY <1>9 DEF WritePage
  <2>2. /\ drv' \in DriverLocals(drv'.got) /\ drv'.at = "next" /\ drv'.cur = drv.cur
        /\ drv'.script = << >> /\ drv'.op = drv.op /\ drv'.offset = drv.offset
        /\ drv'.src = drv.src /\ drv'.ret = drv.ret
    BY <2>1, <1>2, <1>3 DEF DriverLocals, Steps
  <2>3. drv'.cur <= Len(drv'.src)
    BY <2>2, <1>3
  <2>4. /\ Typed' /\ Heard' /\ Sectors' /\ Pending' /\ Rest'
        /\ limit' = limit /\ Base' = Base /\ Writes'
        /\ \A n : WrittenTo(n)' = WrittenTo(n)
        /\ TestAddress(drv.offset)' = TestAddress(drv.offset)
        /\ Mode' <=> (Closed' => ~ chip.four)
    BY <2>2, <2>3, <1>1, <1>2, <1>4, QuietStep
  <2>5. Mode'
    <3>1. drv.src # << >> => limit > 0
      BY <1>1, <1>2, LimitIs DEF FlashInv
    <3>2. Closed' => c > 0
      BY <3>1, <2>2, <1>5, <1>9 DEF Closed
    <3>3. QED
      BY <3>2, <2>4, <1>8
  <2>6. Scripted'
    BY <2>2 DEF Scripted, Starting
  <2>7. Within'
    BY <2>2, <2>4, <1>2 DEF Within
  <2>8. Kept'
    <3>1. WrittenTo(Base + limit)' = WrittenTo(b + c)
      BY <2>4, <1>5, <1>9 DEF WrittenTo
    <3>2. QED
      BY <3>1, <2>2, <1>7 DEF Kept
  <2>9. Answered'
    BY <2>2 DEF Answered
  <2>10. QED
    BY <2>4, <2>5, <2>6, <2>7, <2>8, <2>9 DEF FlashInv
<1>10. CASE drv.cur # limit
  <2>1. PICK a \in Int, e \in Int : a = o + c /\ e = NextPageStart(a) /\ a < e
    <3>1. PICK x \in Int : x = o + c
      BY <1>5
    <3>2. PAGE \in Nat \ {0} /\ StartOf(x, PAGE) \in Int /\ x < StartOf(x, PAGE) + PAGE
          /\ NextPageStart(x) = StartOf(x, PAGE) + PAGE
      BY <1>1, PageIs DEF FlashInv, Typed, ChipRegs
    <3>3. NextPageStart(x) \in Int /\ x < NextPageStart(x)
      BY <3>2
    <3>4. QED
      BY <3>1, <3>3
  <2>2. PICK w \in Nat : w = length_of_current_write /\ 1 <= w /\ c + w <= l /\ a + w <= e
    <3>1. length_of_current_write = IF l - c < e - a THEN l - c ELSE e - a
      BY <1>5, <2>1 DEF length_of_current_write, Least
    <3>2. c < l
      BY <1>5, <1>10
    <3>3. l - c \in Nat /\ e - a \in Nat /\ 1 <= l - c /\ 1 <= e - a
      BY <3>2, <2>1
    <3>4. length_of_current_write \in Nat /\ 1 <= length_of_current_write
          /\ length_of_current_write <= l - c /\ length_of_current_write <= e - a
      BY <3>1, <3>3
    <3>5. QED
      BY <3>4, <2>1
  <2>3. PICK bytes \in Seq(Byte) : bytes = SubSeq(drv.src, c + 1, c + w) /\ Len(bytes) = w
    <3>1. PICK q \in Seq(Byte) : q = drv.src
      BY <1>3
    <3>2. len = Len(q)
      BY <3>1, <1>5
    <3>3. c + w <= len
      BY <2>2, <1>5
    <3>4. SubSeq(q, c + 1, c + w) \in Seq(Byte) /\ Len(SubSeq(q, c + 1, c + w)) = w
      BY <3>2, <3>3, Piece
    <3>5. QED
      BY <3>1, <3>4
  <2>4. PICK d \in Nat : d = c + w
    OBVIOUS
  <2>5. drv' = [drv EXCEPT !.cur = d, !.script = write_buffer(a, bytes)]
    BY <2>1, <2>2, <2>3, <2>4, <1>5, <1>10 DEF WritePage
  <2>6. /\ drv'.at = "pages" /\ drv'.cur = d /\ drv'.script = write_buffer(a, bytes)
        /\ drv'.op = drv.op /\ drv'.offset = drv.offset /\ drv'.src = drv.src /\ drv'.ret = drv.ret
        /\ drv'.got = drv.got
    BY <2>5, <1>2, <1>3 DEF DriverLocals
  <2>7. /\ Follows(WriteOps)' /\ drv'.script \in Seq(Commands) /\ drv'.script # << >>
        /\ Left' \in Int /\ Left' >= 4 /\ Cmd(3)' = Addressed("pp", a, 0)' /\ Cmd(2)'.bytes = bytes
        /\ Head(drv'.script).op \in {"wren"}
    BY <1>1, <1>4, <2>6, WriteBegins DEF FlashInv
  <2>8. drv' \in DriverLocals(drv'.got) /\ drv'.cur <= Len(drv'.src)
    <3>1. d <= len
      BY <2>2, <2>4, <1>5
    <3>2. QED
      BY <3>1, <2>5, <2>6, <2>7, <1>3, <1>5 DEF DriverLocals
  <2>9. /\ Typed' /\ Heard' /\ Sectors' /\ Pending' /\ Rest'
        /\ limit' = limit /\ Base' = Base /\ Writes'
        /\ \A x : Will(x)' = Will(x)
        /\ \A n : WrittenTo(n)' = WrittenTo(n)
        /\ TestAddress(drv.offset)' = TestAddress(drv.offset)
        /\ Mode' <=> (Closed' => ~ chip.four)
        /\ asked' = asked
    BY <2>6, <2>7, <2>8, <1>1, <1>2, <1>4, QuietStep
  <2>10. Mode'
    <3>1. ~ Closed'
      BY <2>6 DEF Closed
    <3>2. QED
      BY <3>1, <2>9
  <2>11. Unsent' = w /\ From' = a /\ (drv.cur - Unsent)' = c /\ d - w = c
    <3>1. d > 0 /\ d - w = c
      BY <2>2, <2>4
    <3>2. Unsent' = Len(Cmd(2)'.bytes)
      BY <3>1, <2>6, <2>7 DEF Unsent
    <3>3. Unsent' = w
      BY <3>2, <2>3, <2>7
    <3>4. QED
      BY <3>1, <3>3, <2>1, <2>6, <1>5 DEF From
  <2>12. Writing'
    <3>1. Left' >= 3 => Cmd(3)' = Addressed("pp", From, 0)'
      BY <2>7, <2>11 DEF Addressed
    <3>2. ~ (Left' = 2)
      BY <2>7
    <3>3. Unsent' \in 1 .. drv'.cur
      BY <2>2, <2>4, <2>6, <2>11
    <3>4. From' + Unsent' <= NextPageStart(From)'
      <4>1. NextPageStart(From)' = e
        BY <2>1, <2>11 DEF NextPageStart
      <4>2. QED
        BY <4>1, <2>2, <2>11
    <3>5. Cmd(2)'.bytes = SubSeq(drv'.src, drv'.cur - Unsent' + 1, drv'.cur)
      BY <2>3, <2>4, <2>6, <2>7, <2>11
    <3>6. QED
      BY <3>1, <3>2, <3>3, <3>4, <3>5, <2>7 DEF Writing
  <2>13. Scripted'
    <3>1. drv'.cur > 0
      BY <2>2, <2>4, <2>6
    <3>2. QED
      BY <3>1, <2>6, <2>12 DEF Scripted, Starting
  <2>14. Within'
    <3>1. drv'.cur \in 0 .. limit' /\ 0 < limit'
      BY <2>2, <2>4, <2>6, <2>9, <1>5
    <3>2. QED
      BY <3>1, <2>6, <2>9, <1>2 DEF Within
  <2>15. Kept'
    <3>1. WrittenTo(Base + (drv.cur - Unsent))' = WrittenTo(b + c)
      <4>1. (Base + (drv.cur - Unsent))' = b + c
        BY <2>9, <2>11, <1>5
      <4>2. WrittenTo(Base + (drv.cur - Unsent))' = WrittenTo(b + c)'
        BY <4>1 DEF WrittenTo
      <4>3. QED
        BY <4>2, <2>9
    <3>2. ErasedFrom(drv.cur - Unsent)'
      <4> SUFFICES ASSUME asked.clean, NEW k \in c + 1 .. l
                   PROVE  Will(drv.offset + k - 1)' = Erased'
        <5>1. (drv.cur - Unsent)' = c /\ limit' = l /\ asked' = asked
          BY <2>9, <2>11, <1>5
        <5>2. QED
          BY <5>1 DEF ErasedFrom
      <4>1. Will(drv.offset + k - 1) = Erased
        BY <1>5, <1>7 DEF ErasedFrom
      <4>2. Will(o + k - 1)' = Will(o + k - 1)
        BY <2>9
      <4>3. QED
        BY <4>1, <4>2, <2>6, <1>5 DEF Will, Erased
    <3>3. QED
      BY <3>1, <3>2, <2>6, <1>7 DEF Kept
  <2>16. Answered'
    BY <2>6 DEF Answered
  <2>17. QED
    BY <2>9, <2>10, <2>13, <2>14, <2>15, <2>16 DEF FlashInv
<1>11. QED
  BY <1>9, <1>10

\* The next block, or the call is done.
LEMMA NextBlockKeeps ==
    ASSUME FlashInv, NextBlock
    PROVE  FlashInv'
<1>1. FlashInv
  OBVIOUS
<1>2. /\ drv.at = "next" /\ drv.script = << >> /\ OnlyDriver /\ Writes
      /\ drv.ret = 0 /\ TestAddress(drv.offset) /\ WrittenTo(Base + limit)
  BY <1>1 DEF FlashInv, Within, NextBlock, Runs, Kept
<1>3. drv \in DriverLocals(drv.got) /\ drv.cur <= Len(drv.src) /\ drv.src \in Seq(Byte)
  BY <1>1 DEF FlashInv, Typed, DriverLocals
<1>4. ~ Starting /\ chip' = chip
  BY <1>2 DEF Starting, OnlyDriver
<1>5. PICK l \in Nat, len \in Nat, all \in Nat :
        l = limit /\ len = Len(drv.src) /\ l <= len /\ all = Len(asked.src)
  <2>1. limit \in Nat /\ limit <= Len(drv.src) /\ Len(drv.src) \in Nat
    BY <1>1, <1>2, LimitIs DEF FlashInv
  <2>2. asked.src \in Seq(Byte)
    BY <1>1 DEF FlashInv, Typed, CallerSees
  <2>3. Len(asked.src) \in Nat
    BY <2>2
  <2>4. QED
    BY <2>1, <2>3
<1>6. PICK o \in Int, s \in Int, b \in Nat :
        o = drv.offset /\ s = asked.offset /\ b = Base /\ b = o - s
  <2>1. drv.offset \in Int /\ asked.offset \in Int /\ Base >= 0
    BY <1>1 DEF FlashInv, Typed, DriverLocals, CallerSees, Rest
  <2>2. Base \in Nat
    BY <2>1 DEF Base
  <2>3. QED
    BY <2>1, <2>2 DEF Base
<1>7. len = all - b
  <2>1. Len(drv.src) = Len(asked.src) - Base
    BY <1>1 DEF FlashInv, Rest
  <2>2. QED
    BY <2>1, <1>5, <1>6
<1>8. drv.src # << >> => ~ chip.four
  BY <1>1, <1>2 DEF FlashInv, Mode, Closed
<1>9. CASE Len(drv.src) = limit
  <2>1. drv' = [drv EXCEPT !.at = "done"]
    BY <1>9 DEF NextBlock
  <2>2. /\ drv' \in DriverLocals(drv'.got) /\ drv'.at = "done" /\ drv'.cur = drv.cur
        /\ drv'.script = << >> /\ drv'.op = drv.op /\ drv'.offset = drv.offset
        /\ drv'.src = drv.src /\ drv'.ret = drv.ret
    BY <2>1, <1>2, <1>3 DEF DriverLocals, Steps
  <2>3. drv'.cur <= Len(drv'.src)
    BY <2>2, <1>3
  <2>4. /\ Typed' /\ Heard' /\ Sectors' /\ Pending' /\ Rest' /\ asked' = asked
        /\ limit' = limit /\ Base' = Base /\ Writes'
        /\ \A n : WrittenTo(n)' = WrittenTo(n)
        /\ TestAddress(drv.offset)' = TestAddress(drv.offset)
        /\ Mode' <=> (Closed' => ~ chip.four)
    BY <2>2, <2>3, <1>1, <1>2, <1>4, QuietStep
  <2>5. Mode'
    <3>1. Closed' => asked.src # << >>
      BY <2>2, <2>4 DEF Closed
    <3>2. Closed' => drv.src # << >>
      BY <3>1, <1>1 DEF FlashInv, Rest
    <3>3. QED
      BY <3>2, <2>4, <1>8
  <2>6. Scripted'
    <3>1. drv'.at = "done" /\ drv'.script = << >> /\ drv'.ret = 0
      BY <2>2, <1>2
    <3>2. drv'.op \notin {"read", "erase"}
      BY <2>2, <1>2 DEF Writes
    <3>3. QED
      BY <3>1, <3>2 DEF Scripted, Starting
  <2>7. Within'
    BY <2>2, <2>4, <1>2 DEF Within, Writes
  <2>8. Kept'
    <3>1. b + l = all
      <4>1. l = len
        BY <1>5, <1>9
      <4>2. QED
        BY <4>1, <1>6, <1>7
    <3>2. WrittenTo(all)
      BY <3>1, <1>2, <1>5, <1>6
    <3>3. WrittenTo(Len(asked.src))' = WrittenTo(all)'
      BY <2>4, <1>5 DEF WrittenTo
    <3>4. QED
      BY <3>2, <3>3, <2>2, <2>4 DEF Kept
  <2>9. Answered'
    BY <2>2, <1>2 DEF Answered, Writes
  <2>10. QED
    BY <2>4, <2>5, <2>6, <2>7, <2>8, <2>9 DEF FlashInv
<1>10. CASE Len(drv.src) # limit
  <2>1. l < len /\ len - l \in Nat /\ 0 < len - l /\ l + (len - l) <= len
    BY <1>5, <1>10
  <2>2. PICK e \in Int :
          /\ e = BlockOf(drv.offset) + BlockSize(chip.kind) /\ e = o + l
          /\ BlockOf(e) = e /\ drv.op = "write"
    <3>1. limit < Len(drv.src) =>
            drv.op = "write" /\ drv.offset + limit = BlockOf(drv.offset) + BlockSize(chip.kind)
      BY <1>1, <1>2, LimitIs DEF FlashInv
    <3>2. drv.op = "write" /\ o + l = BlockOf(o) + BlockSize(chip.kind)
      BY <3>1, <2>1, <1>5, <1>6
    <3>3. BlockOf(BlockOf(o) + BlockSize(chip.kind)) = BlockOf(o) + BlockSize(chip.kind)
      BY <1>1, BlockIs DEF FlashInv, Typed, ChipRegs
    <3>4. o + l \in Int
      BY <1>5, <1>6
    <3>5. QED
      BY <3>2, <3>3, <3>4, <1>6
  <2>3. PICK rest \in Seq(Byte) :
          /\ rest = SubSeq(drv.src, limit + 1, Len(drv.src)) /\ Len(rest) = len - l
          /\ \A k \in 1 .. len - l : rest[k] = drv.src[l + k]
    <3>1. PICK q \in Seq(Byte), n \in Nat : q = drv.src /\ n = len - l
      BY <1>3, <2>1
    <3>2. len = Len(q)
      BY <3>1, <1>5
    <3>3. l + n <= len
      BY <3>1, <2>1
    <3>4. /\ SubSeq(q, l + 1, l + n) \in Seq(Byte) /\ Len(SubSeq(q, l + 1, l + n)) = n
          /\ \A k \in 1 .. n : SubSeq(q, l + 1, l + n)[k] = q[l + k]
      BY <3>2, <3>3, Piece
    <3>5. l + n = len
      BY <3>1, <1>5
    <3>6. QED
      BY <3>1, <3>4, <3>5, <1>5
  <2>4. drv' = [drv EXCEPT !.at = "write", !.offset = e, !.src = rest, !.cur = 0]
    BY <2>2, <2>3, <1>10 DEF NextBlock
  <2>5. /\ drv' \in DriverLocals(drv'.got) /\ drv'.at = "write" /\ drv'.cur = 0
        /\ drv'.script = << >> /\ drv'.op = drv.op /\ drv'.offset = e
        /\ drv'.src = rest /\ drv'.ret = drv.ret
    BY <2>4, <1>2, <1>3 DEF DriverLocals, Steps
  <2>6. drv'.cur <= Len(drv'.src)
    BY <2>1, <2>3, <2>5
  <2>7. /\ Typed' /\ Heard' /\ Sectors' /\ Pending' /\ asked' = asked
        /\ \A n : WrittenTo(n)' = WrittenTo(n)
        /\ \A x : BlockOf(x)' = BlockOf(x)
        /\ Mode' <=> (Closed' => ~ chip.four)
    BY <2>5, <2>6, <1>1, <1>2, <1>4, DriverSteps
  <2>8. Mode'
    <3>1. drv.src # << >>
      BY <2>1, <1>5, <1>3, EmptySeq
    <3>2. QED
      BY <3>1, <2>7, <1>8
  <2>9. Base' = b + l
    BY <2>2, <2>5, <2>7, <1>6 DEF Base
  <2>10. Rest'
    <3>1. drv'.op = asked'.op /\ drv'.op = "write"
      BY <2>2, <2>5, <2>7, <1>1 DEF FlashInv, Rest
    <3>2. Base' >= 0 /\ Len(drv'.src) = Len(asked'.src) - Base'
      <4>1. len - l = all - (b + l) /\ b + l >= 0
        BY <1>5, <1>6, <1>7
      <4>2. QED
        BY <4>1, <2>3, <2>5, <2>7, <2>9, <1>5
    <3>3. \A k \in 1 .. Len(drv'.src) : drv'.src[k] = asked'.src[Base' + k]
      <4>1. SUFFICES ASSUME NEW k \in 1 .. len - l
                     PROVE  rest[k] = asked.src[(b + l) + k]
        BY <2>3, <2>5, <2>7, <2>9
      <4>2. rest[k] = drv.src[l + k]
        BY <4>1, <2>3
      <4>3. l + k \in 1 .. len /\ b + (l + k) = (b + l) + k
        BY <4>1, <1>5, <1>6
      <4>4. drv.src[l + k] = asked.src[b + (l + k)]
        BY <4>3, <1>1, <1>5, <1>6 DEF FlashInv, Rest
      <4>5. QED
        BY <4>2, <4>3, <4>4
    <3>4. drv'.src # << >>
      <4>1. Len(rest) # 0
        BY <2>1, <2>3
      <4>2. rest # << >>
        BY <4>1, EmptySeq
      <4>3. QED
        BY <4>2, <2>5
    <3>5. BlockOf(drv.offset)' = drv'.offset
      <4>1. BlockOf(drv.offset)' = BlockOf(e)'
        BY <2>5 DEF BlockOf
      <4>2. QED
        BY <4>1, <2>2, <2>5, <2>7
    <3>6. QED
      BY <3>1, <3>2, <3>3, <3>4, <3>5 DEF Rest
  <2>11. Scripted'
    BY <2>5 DEF Scripted, Starting
  <2>12. Within'
    BY <2>2, <2>5, <1>2 DEF Within
  <2>13. Kept'
    <3>1. WrittenTo(Base)' = WrittenTo(b + l)
      <4>1. WrittenTo(Base)' = WrittenTo(b + l)'
        BY <2>9 DEF WrittenTo
      <4>2. QED
        BY <4>1, <2>7
    <3>2. QED
      BY <3>1, <2>5, <1>2, <1>5, <1>6 DEF Kept
  <2>14. Answered'
    BY <2>5 DEF Answered
  <2>15. QED
    BY <2>7, <2>8, <2>10, <2>11, <2>12, <2>13, <2>14 DEF FlashInv
<1>11. QED
  BY <1>9, <1>10

----------------------------------------------------------------------------
(* Calls                                                                    *)

\* Cells of the same block as a cell.
LEMMA SameBlock ==
    ASSUME chip.kind \in CHIPS, NEW x \in Cells(chip.kind), NEW a \in Int, BlockOf(a) = BlockOf(x)
    PROVE  a \in Cells(chip.kind)
<1>1. x \in Int /\ size \in Nat /\ 0 <= BlockOf(x) /\ BlockOf(x) + BlockSize(chip.kind) <= size
  BY BlockInCells
<1>2. /\ BlockOf(a) \in Int /\ BlockOf(a) <= a /\ a < BlockOf(a) + BlockSize(chip.kind)
      /\ BlockSize(chip.kind) \in Nat
  BY BlockIs
<1>3. 0 <= a /\ a < size
  BY <1>1, <1>2
<1>4. QED
  BY <1>3, BlockInCells

\* A call is made.
LEMMA CallKeeps ==
    ASSUME FlashInv, NEW op, NEW at,
           \/ op = "read" /\ at = "read"
           \/ op = "erase" /\ at = "erase"
           \/ op = "write" /\ at = "write"
           \/ op = "write_block" /\ at = "pages",
           CallDriver(op, at)
    PROVE  FlashInv'
<1>1. FlashInv
  OBVIOUS
<1>2. /\ drv.at = "idle" /\ drv.script = << >> /\ chip' = chip /\ failures' = failures
      /\ chip.kind \in CHIPS
  BY <1>1 DEF CallDriver, Runs, FlashInv, Typed, ChipRegs
<1>3. chip.pending = << >> /\ ~ Busy
  BY <1>1, <1>2, FlashIdle DEF FlashInv, Starting
<1>4. PICK o \in -1 .. size, src \in DATA :
         LET range == o .. o + Len(src) - 1
             valid == TestAddress(o) \/ op = "write"
         IN  /\ op = "write_block" => \A a \in range : BlockOf(a) = BlockOf(o)
             /\ drv' = [DriverIdle EXCEPT !.at = IF valid THEN at ELSE "done", !.op = op,
                          !.offset = o, !.src = src, !.ret = IF valid THEN 0 ELSE -1]
             /\ asked' = [op |-> op, offset |-> o, src |-> src,
                          sectors |-> CASE op = "read" -> {}
                                         [] op = "erase" -> {BlockOf(o)}
                                         [] OTHER -> {BlockOf(a) : a \in range},
                          clean |-> op = "write" \/ \A a \in range \intersect Cells(chip.kind) :
                                                      chip.data[a] = Erased]
  BY DEF CallDriver
<1>5. o \in Int /\ src \in Seq(Byte) /\ op \in {"read", "erase", "write", "write_block"}
  BY <1>2, BlockInCells, FlashAssumption
<1>6. PICK len \in Nat : len = Len(src)
  BY <1>5
<1>7. PICK valid \in BOOLEAN : valid = (TestAddress(o) \/ op = "write")
  OBVIOUS
<1>8. drv' = [at |-> IF valid THEN at ELSE "done", op |-> op, script |-> << >>, got |-> << >>,
              offset |-> o, src |-> src, cur |-> 0, ret |-> IF valid THEN 0 ELSE -1]
  BY <1>4, <1>7 DEF DriverIdle, Boot
<1>9. /\ drv'.at = (IF valid THEN at ELSE "done") /\ drv'.op = op /\ drv'.script = << >>
      /\ drv'.offset = o /\ drv'.src = src /\ drv'.cur = 0 /\ drv'.ret = (IF valid THEN 0 ELSE -1)
  BY <1>8
<1>10. /\ asked'.op = op /\ asked'.offset = o /\ asked'.src = src
       /\ asked'.sectors = CASE op = "read" -> {}
                              [] op = "erase" -> {BlockOf(o)}
                              [] OTHER -> {BlockOf(a) : a \in o .. o + Len(src) - 1}
       /\ asked'.clean = (op = "write" \/ \A a \in (o .. o + Len(src) - 1) \intersect Cells(chip.kind) :
                                           chip.data[a] = Erased)
  BY <1>4
<1>11. /\ Cells(chip.kind)' = Cells(chip.kind)
       /\ \A a : BlockOf(a)' = BlockOf(a) /\ TestAddress(a)' = TestAddress(a)
       /\ \A a : Addressed("pp", a, 0)' = Addressed("pp", a, 0)
       /\ four_bytes_mode' = four_bytes_mode
  BY <1>2, SameGeometry
<1>12. TestAddress(drv.offset)' = TestAddress(o) /\ TestAddress(asked.offset)' = TestAddress(o)
  <2>1. TestAddress(drv.offset)' = TestAddress(o)' /\ TestAddress(asked.offset)' = TestAddress(o)'
    BY <1>9, <1>10 DEF TestAddress
  <2>2. QED
    BY <2>1, <1>11
<1>13. Typed'
  <2>1. drv' \in DriverLocals(drv'.got) /\ drv'.cur <= Len(drv'.src)
    <3>1. drv'.cur <= Len(drv'.src)
      BY <1>6, <1>9
    <3>2. << >> \in Seq(Commands)
      OBVIOUS
    <3>3. (IF valid THEN at ELSE "done") \in Steps /\ op \in CallOps
      BY <1>5 DEF Steps, CallOps
    <3>4. QED
      BY <3>1, <3>2, <3>3, <1>5, <1>8 DEF DriverLocals
  <2>2. asked' \in CallerSees
    <3>1. asked'.sectors \in SUBSET Int
      <4>1. \A a \in Int : BlockOf(a) \in Int
        BY <1>2, BlockIs
      <4>2. {BlockOf(a) : a \in o .. o + Len(src) - 1} \in SUBSET Int /\ {BlockOf(o)} \in SUBSET Int
        BY <4>1, <1>5, <1>6
      <4>3. QED
        BY <4>2, <1>5, <1>10
    <3>2. asked'.clean \in BOOLEAN /\ op \in CallOps
      BY <1>5, <1>10 DEF CallOps
    <3>3. asked' = [op |-> op, offset |-> o, src |-> src, sectors |-> asked'.sectors,
                    clean |-> asked'.clean]
      BY <1>4
    <3>4. QED
      BY <3>1, <3>2, <3>3, <1>5 DEF CallerSees
  <2>3. QED
    BY <2>1, <2>2, <1>1, <1>2, <1>11 DEF FlashInv, Typed, ChipRegs
<1>14. valid \/ op # "write"
  BY <1>7
<1>15. Scripted'
  BY <1>5, <1>9, <1>14 DEF Scripted, Starting, Writes
<1>16. Heard'
  BY <1>2, <1>3, <1>9 DEF Heard, Busy
<1>17. Mode'
  <2>1. ~ Closed'
    BY <1>7, <1>9, <1>10, <1>12, <1>14 DEF Closed
  <2>2. QED
    BY <2>1, <1>1, <1>2, <1>11 DEF FlashInv, Mode
<1>18. Base' = 0
  BY <1>5, <1>9, <1>10 DEF Base
<1>19. Rest'
  <2>1. Len(drv'.src) = Len(asked'.src) - Base'
    BY <1>6, <1>9, <1>10, <1>18
  <2>2. \A k \in 1 .. Len(drv'.src) : drv'.src[k] = asked'.src[Base' + k]
    BY <1>6, <1>9, <1>10, <1>18
  <2>3. drv'.op = "write_block" =>
          \A k \in 1 .. Len(drv'.src) : BlockOf(drv.offset + k - 1)' = BlockOf(drv.offset)'
    <3>1. SUFFICES ASSUME op = "write_block", NEW k \in 1 .. len
                   PROVE  BlockOf(drv.offset + k - 1)' = BlockOf(drv.offset)'
      BY <1>6, <1>9
    <3>2. o + k - 1 \in o .. o + len - 1
      BY <3>1, <1>5
    <3>3. BlockOf(o + k - 1) = BlockOf(o)
      BY <3>1, <3>2, <1>4, <1>6
    <3>4. BlockOf(drv.offset + k - 1)' = BlockOf(o + k - 1)' /\ BlockOf(drv.offset)' = BlockOf(o)'
      BY <1>9 DEF BlockOf
    <3>5. QED
      BY <3>3, <3>4, <1>11
  <2>4. QED
    BY <2>1, <2>2, <2>3, <1>9, <1>10, <1>18 DEF Rest
<1>20. Sectors'
  <2>1. Writes' => \A k \in 1 .. Len(asked'.src) : BlockOf(asked.offset + k - 1)' \in asked'.sectors
    <3>1. SUFFICES ASSUME op \in {"write", "write_block"}, NEW k \in 1 .. len
                   PROVE  BlockOf(asked.offset + k - 1)' \in asked'.sectors
      BY <1>6, <1>9, <1>10 DEF Writes
    <3>2. o + k - 1 \in o .. o + len - 1
      BY <3>1, <1>5
    <3>3. asked'.sectors = {BlockOf(a) : a \in o .. o + len - 1}
      BY <3>1, <1>6, <1>10
    <3>4. BlockOf(o + k - 1) \in asked'.sectors
      BY <3>2, <3>3
    <3>5. BlockOf(asked.offset + k - 1)' = BlockOf(o + k - 1)'
      BY <1>10 DEF BlockOf
    <3>6. QED
      BY <3>4, <3>5, <1>11
  <2>2. drv'.op = "erase" => BlockOf(asked.offset)' \in asked'.sectors
    <3>1. BlockOf(asked.offset)' = BlockOf(o)'
      BY <1>10 DEF BlockOf
    <3>2. QED
      BY <3>1, <1>9, <1>10, <1>11
  <2>3. drv'.op = "write" => asked'.clean
    BY <1>9, <1>10
  <2>4. QED
    BY <2>1, <2>2, <2>3 DEF Sectors
<1>21. at = "pages" => limit' = len
  BY <1>6, <1>9 DEF limit
<1>22. Within'
  <2>1. /\ drv'.at \in {"read", "erase", "pages"} => TestAddress(o)
        /\ drv'.at \in {"read", "erase", "write", "pages", "done"}
        /\ drv'.at = "done" => drv'.ret # 0
        /\ drv'.at # "done" => drv'.ret = 0 /\ at = drv'.at
    <3>1. /\ at \in {"read", "erase", "write", "pages"}
          /\ at # "write" => op # "write"
      OBVIOUS
    <3>2. CASE valid
      <4>1. drv'.at = at /\ drv'.ret = 0
        BY <3>2, <1>9
      <4>2. TestAddress(o) \/ op = "write"
        BY <3>2, <1>7
      <4>3. QED
        BY <3>1, <4>1, <4>2
    <3>3. CASE ~ valid
      <4>1. drv'.at = "done" /\ drv'.ret = -1
        BY <3>3, <1>9
      <4>2. QED
        BY <4>1
    <3>4. QED
      BY <3>2, <3>3
  <2>2. drv'.at = "pages" => drv'.cur \in 0 .. limit'
    BY <2>1, <1>9, <1>21
  <2>3. QED
    BY <2>1, <2>2, <1>5, <1>9, <1>12, <1>14 DEF Within, Writes
<1>23. Pending'
  <2>1. DOMAIN << >> = {}
    OBVIOUS
  <2>2. QED
    BY <1>2, <1>3, <2>1 DEF Pending
<1>24. Kept'
  <2>1. Unsent' = 0
    BY <1>9 DEF Unsent
  <2>2. WrittenTo(Base)' /\ WrittenTo(Base + (drv.cur - Unsent))'
    BY <2>1, <1>9, <1>18 DEF WrittenTo
  <2>3. drv'.at = "pages" => ErasedFrom(drv.cur - Unsent)'
    <3>1. SUFFICES ASSUME drv'.at = "pages", asked'.clean, NEW k \in 1 .. len
                   PROVE  Will(drv.offset + k - 1)' = Erased'
      <4>1. drv'.at = "pages" => at = "pages"
        BY <1>9
      <4>2. (drv.cur - Unsent)' = 0
        BY <2>1, <1>9
      <4>3. QED
        BY <4>1, <4>2, <1>21 DEF ErasedFrom
    <3>2. valid /\ op = "write_block"
      BY <3>1, <1>9
    <3>3. TestAddress(o)
      BY <3>2, <1>7
    <3>4. o \in Cells(chip.kind)
      BY <3>3, <1>2, BlockInCells
    <3>5. PICK a \in o .. o + len - 1 : a = o + k - 1
      BY <3>1, <1>5
    <3>6. BlockOf(a) = BlockOf(o)
      BY <3>2, <1>4, <1>6
    <3>7. a \in Int
      BY <1>5
    <3>8. a \in Cells(chip.kind)
      BY <3>4, <3>6, <3>7, <1>2, SameBlock
    <3>9. chip.data[a] = Erased
      BY <3>1, <3>2, <3>8, <1>6, <1>10
    <3>10. Will(a)' = Erased
      <4>1. DOMAIN << >> = {}
        OBVIOUS
      <4>2. QED
        BY <4>1, <3>9, <1>2, <1>3 DEF Will
    <3>11. Will(drv.offset + k - 1)' = Will(a)'
      BY <3>5, <1>9 DEF Will
    <3>12. QED
      BY <3>10, <3>11 DEF Erased
  <2>4. drv'.at = "done" => ~ TestAddress(asked.offset)'
    BY <1>7, <1>9, <1>12
  <2>5. QED
    BY <2>2, <2>3, <2>4, <1>9 DEF Kept
<1>25. Answered'
  BY <1>9 DEF Answered
<1>26. QED
  BY <1>13, <1>15, <1>16, <1>17, <1>19, <1>20, <1>22, <1>23, <1>24, <1>25 DEF FlashInv

----------------------------------------------------------------------------
(* Theorems                                                                 *)

\* Nothing happens.
LEMMA StutterKeeps ==
    ASSUME FlashInv, UNCHANGED flashVars
    PROVE  FlashInv'
<1>1. FlashInv
  OBVIOUS
<1>2. chip' = chip /\ drv' = drv /\ asked' = asked /\ failures' = failures
  BY DEF flashVars
<1>3. /\ Cells(chip.kind)' = Cells(chip.kind) /\ size' = size
      /\ \A a : BlockOf(a)' = BlockOf(a) /\ Block(a)' = Block(a) /\ TestAddress(a)' = TestAddress(a)
      /\ four_bytes_mode' = four_bytes_mode
      /\ \A a : Addressed("pp", a, 0)' = Addressed("pp", a, 0)
  BY <1>2, SameGeometry
<1>4. Typed'
  BY <1>1, <1>2, <1>3 DEF FlashInv, Typed, ChipRegs, DriverLocals, CallerSees
<1>5. Scripted' /\ Left' = Left /\ Unsent' = Unsent
  BY <1>1, <1>2, SameScript DEF FlashInv
<1>6. Heard'
  BY <1>1, <1>2 DEF FlashInv, Heard, Busy, Starting
<1>7. /\ Rest' /\ Sectors' /\ Within' /\ limit' = limit /\ this_chunk_size' = this_chunk_size
      /\ Base' = Base /\ Writes' = Writes /\ Closed' = Closed
  BY <1>1, <1>2, SamePlace DEF FlashInv
<1>8. Mode'
  BY <1>1, <1>2, <1>3, <1>7 DEF FlashInv, Mode
<1>9. /\ Pending' /\ \A a : Will(a)' = Will(a)
      /\ \A n : WrittenTo(n)' = WrittenTo(n)
  BY <1>1, <1>2, SameMemory DEF FlashInv
<1>10. Kept'
  <2>1. /\ WrittenTo(Base)' = WrittenTo(Base)
        /\ WrittenTo(Base + drv.cur)' = WrittenTo(Base + drv.cur)
        /\ WrittenTo(Base + (drv.cur - Unsent))' = WrittenTo(Base + (drv.cur - Unsent))
        /\ WrittenTo(Base + limit)' = WrittenTo(Base + limit)
        /\ WrittenTo(Len(asked.src))' = WrittenTo(Len(asked.src))
    BY <1>2, <1>5, <1>7, <1>9 DEF WrittenTo
  <2>2. ErasedFrom(drv.cur - Unsent) => ErasedFrom(drv.cur - Unsent)'
    <3>1. \A k : Will(drv.offset + k - 1)' = Will(drv.offset + k - 1)
      BY <1>2, <1>9 DEF Will
    <3>2. QED
      BY <3>1, <1>2, <1>5, <1>7 DEF ErasedFrom, Erased
  <2>3. TestAddress(asked.offset)' = TestAddress(asked.offset)
    BY <1>2, <1>3 DEF TestAddress
  <2>4. QED
    BY <2>1, <2>2, <2>3, <1>1, <1>2, <1>5, <1>7 DEF FlashInv, Kept
<1>11. Answered'
  <2>1. Block(drv.offset)' = Block(drv.offset)
    BY <1>2, <1>3 DEF Block, BlockOf
  <2>2. QED
    BY <2>1, <1>1, <1>2, <1>3, <1>5, <1>7, <1>9 DEF FlashInv, Answered, Erased
<1>12. QED
  BY <1>4, <1>5, <1>6, <1>7, <1>8, <1>9, <1>10, <1>11 DEF FlashInv

\* Every step keeps the invariant.
LEMMA FlashNextKeeps == FlashInv /\ [FlashNext]_flashVars => FlashInv'
<1> SUFFICES ASSUME FlashInv, [FlashNext]_flashVars PROVE FlashInv'
  OBVIOUS
<1>1. FlashInv
  OBVIOUS
<1>2. CASE Done
  BY <1>1, <1>2, DoneKeeps
<1>3. CASE CallDriver("read", "read")
  BY <1>1, <1>3, CallKeeps
<1>4. CASE CallDriver("erase", "erase")
  BY <1>1, <1>4, CallKeeps
<1>5. CASE CallDriver("write", "write")
  BY <1>1, <1>5, CallKeeps
<1>6. CASE CallDriver("write_block", "pages")
  BY <1>1, <1>6, CallKeeps
<1>7. CASE ReadSignature
  BY <1>1, <1>7, StartKeeps
<1>8. CASE ReadDeviceId
  BY <1>1, <1>8, StartKeeps
<1>9. CASE SendCommand
  BY <1>1, <1>9, SendKeeps
<1>10. CASE ReadBuffer
  BY <1>1, <1>10, ReadBufferKeeps
<1>11. CASE EraseBlock
  BY <1>1, <1>11, EraseBlockKeeps
<1>12. CASE WriteBlocks
  BY <1>1, <1>12, WriteBlocksKeeps
<1>13. CASE Compare
  BY <1>1, <1>13, CompareKeeps
<1>14. CASE Compared
  BY <1>1, <1>14, ComparedKeeps
<1>15. CASE WritePage
  BY <1>1, <1>15, WritePageKeeps
<1>16. CASE NextBlock
  BY <1>1, <1>16, NextBlockKeeps
<1>17. CASE ReturnToCaller
  BY <1>1, <1>17, ReturnKeeps
<1>18. CASE Restart
  BY <1>1, <1>18, RestartKeeps
<1>19. CASE PowerFailure
  BY <1>1, <1>19, PowerFailureKeeps
<1>20. CASE UNCHANGED flashVars
  BY <1>1, <1>20, StutterKeeps
<1>21. QED
  BY <1>2, <1>3, <1>4, <1>5, <1>6, <1>7, <1>8, <1>9, <1>10, <1>11, <1>12, <1>13, <1>14, <1>15,
     <1>16, <1>17, <1>18, <1>19, <1>20 DEF FlashNext, Calls, FlashContinues

\* The driver and the chip agree at every step about what has been sent and what it
\* will do.
THEOREM FlashConsistent == FlashSpec => []FlashInv
<1>1. FlashInit => FlashInv
  BY FlashInitConsistent
<1>2. FlashInv /\ [FlashNext]_flashVars => FlashInv'
  BY FlashNextKeeps
<1>3. QED
  BY <1>1, <1>2, PTL DEF FlashSpec

\* What the invariant says of a call that returns.
LEMMA Promised == FlashInv => DoesWhatWasAsked
<1> SUFFICES ASSUME FlashInv PROVE DoesWhatWasAsked
  OBVIOUS
<1>1. FlashInv
  OBVIOUS
<1>2. /\ chip \in ChipRegs(chip.pending, chip.header) /\ drv \in DriverLocals(drv.got)
      /\ drv.cur <= Len(drv.src) /\ drv.src \in Seq(Byte)
  BY <1>1 DEF FlashInv, Typed, DriverLocals
<1>3. FlashTypeOK
  <2>1. drv.cur \in 0 .. Len(drv.src)
    BY <1>2 DEF DriverLocals
  <2>2. DOMAIN chip.pending \subseteq Cells(chip.kind)
    BY <1>1 DEF FlashInv, Pending
  <2>3. /\ chip.kind \in CHIPS /\ chip.data \in [Cells(chip.kind) -> Byte]
        /\ {chip.wel, chip.four} \subseteq BOOLEAN
    BY <1>2 DEF ChipRegs
  <2>4. drv.at \in Steps /\ drv.ret \in {0, -1}
    BY <1>2 DEF DriverLocals
  <2>5. QED
    BY <2>1, <2>2, <2>3, <2>4, <1>1 DEF FlashTypeOK, FlashInv, Typed, Steps
<1>4. ASSUME Returned
      PROVE  /\ drv.at = "done" /\ drv.script = << >> /\ drv.ret = 0 /\ ~ Starting
             /\ Left \in Int /\ Left <= 0 /\ \A a : Will(a) = chip.data[a]
             /\ drv.op = asked.op /\ (Writes \/ drv.op = "read" \/ drv.op = "erase")
  <2>1. drv.at = "done" /\ drv.script = << >> /\ drv.ret = 0 /\ ~ Starting
    BY <1>4 DEF Returned, Runs, Starting
  <2>2. Ends \in {0, 2}
    BY <1>2, ModeTyped DEF ChipRegs
  <2>3. Left \in {0, -2}
    BY <2>1, <2>2 DEF Left
  <2>4. \A a : Will(a) = chip.data[a]
    BY <2>1, <1>1, FlashIdle, WillBeData DEF FlashInv
  <2>5. drv.op = asked.op /\ drv.op \in CallOps /\ drv.op # "none"
    BY <2>1, <1>1, <1>2 DEF FlashInv, Rest, Within, DriverLocals
  <2>6. QED
    BY <2>1, <2>3, <2>4, <2>5 DEF CallOps, Writes
<1>5. DoneAsAsked
  <2> SUFFICES ASSUME Returned, TestAddress(asked.offset), NEW k \in 1 .. Len(asked.src)
               PROVE  LET a == asked.offset + k - 1
                      IN  CASE asked.op = "read" -> drv.got[k] = chip.data[a % size]
                            [] asked.op = "erase" -> \A x \in Block(asked.offset) : chip.data[x] = Erased
                            [] OTHER -> asked.clean /\ a \in Cells(chip.kind) => chip.data[a] = asked.src[k]
    BY DEF DoneAsAsked
  <2>1. ~ Writes => drv.offset = asked.offset /\ Len(drv.src) = Len(asked.src)
    <3>1. drv.offset \in Int /\ asked.offset \in Int /\ asked.src \in Seq(Byte)
      BY <1>1, <1>2 DEF FlashInv, Typed, DriverLocals, CallerSees
    <3>2. ~ Writes => Base = 0
      BY <1>1 DEF FlashInv, Rest, Writes
    <3>3. Len(drv.src) = Len(asked.src) - Base
      BY <1>1 DEF FlashInv, Rest
    <3>4. QED
      BY <3>1, <3>2, <3>3 DEF Base
  <2>2. CASE drv.op = "read"
    <3>1. \A i \in 1 .. Len(drv.src) : drv.got[i] = chip.data[(drv.offset + i - 1) % size]
      BY <2>2, <1>1, <1>4 DEF FlashInv, Answered
    <3>2. drv.got[k] = chip.data[(asked.offset + k - 1) % size]
      BY <3>1, <2>1, <2>2 DEF Writes
    <3>3. QED
      BY <3>2, <2>2, <1>4
  <2>3. CASE drv.op = "erase"
    <3>1. \A x \in Block(drv.offset) : Will(x) = Erased
      <4>1. Left <= 1
        BY <1>4
      <4>2. QED
        BY <4>1, <2>3, <1>1, <1>4 DEF FlashInv, Answered
    <3>2. \A x \in Block(asked.offset) : chip.data[x] = Erased
      BY <3>1, <2>1, <2>3, <1>4 DEF Writes
    <3>3. QED
      BY <3>2, <2>3, <1>4
  <2>4. CASE Writes
    <3>1. WrittenTo(Len(asked.src))
      BY <2>4, <1>1, <1>4 DEF FlashInv, Kept
    <3>2. asked.clean /\ asked.offset + k - 1 \in Cells(chip.kind) =>
            chip.data[asked.offset + k - 1] = asked.src[k]
      BY <3>1, <1>4 DEF WrittenTo
    <3>3. QED
      BY <3>2, <2>4, <1>4 DEF Writes
  <2>5. QED
    BY <2>2, <2>3, <2>4, <1>4
<1>6. NothingUnheard
  BY <1>1 DEF FlashInv, Heard, Scripted, Starting, NothingUnheard
<1>7. LeftInThreeByteMode
  <2> SUFFICES ASSUME Returned, TestAddress(asked.offset), asked.src # << >> PROVE ~ chip.four
    BY DEF LeftInThreeByteMode
  <2>1. CASE Writes
    BY <2>1, <1>1, <1>4 DEF FlashInv, Mode, Closed
  <2>2. CASE drv.op = "read"
    <3>1. Follows(ReadOps)
      BY <2>2, <1>1, <1>4 DEF FlashInv, Scripted, Reading
    <3>2. QED
      BY <3>1, <1>1, <1>4, AllSent DEF FlashInv
  <2>3. CASE drv.op = "erase"
    <3>1. Follows(EraseOps)
      BY <2>3, <1>1, <1>4 DEF FlashInv, Scripted, Erasing
    <3>2. QED
      BY <3>1, <1>1, <1>4, AllSent DEF FlashInv
  <2>4. QED
    BY <2>1, <2>2, <2>3, <1>4
<1>8. QED
  BY <1>3, <1>5, <1>6, <1>7 DEF DoesWhatWasAsked

\* altera_avalon_epcs_flash_controller.c: a call that returns 0 has done what it was
\* asked, whatever was there before and however earlier calls were broken off; the
\* chip hears every command it is sent, and it is left in three-byte mode.
THEOREM AsAsked == FlashSpec => []DoesWhatWasAsked
<1>1. FlashInv => DoesWhatWasAsked
  BY Promised
<1>2. QED
  BY <1>1, FlashConsistent, PTL

\* No command changes the memory at once.
LEMMA DataFirst ==
    ASSUME chip \in ChipRegs(chip.pending, chip.header), NEW cmd, cmd.op = "data",
           NEW c \in Obeys(chip, cmd)
    PROVE  c.data = chip.data
<1> DEFINE deselected == [chip EXCEPT !.header = << >>]
<1>1. PICK a \in Where(chip, IF chip.header = << >> THEN cmd ELSE chip.header[1]) :
        c = IF chip.header # << >> /\ chip.wel /\ cmd.bytes # << >>
            THEN [deselected EXCEPT !.wel = FALSE, !.pending = Programmed(chip, a, cmd.bytes)]
            ELSE deselected
  BY DEF Obeys
<1>2. PICK p : p = Programmed(chip, a, cmd.bytes)
  OBVIOUS
<1>3. c = deselected \/ c = [deselected EXCEPT !.wel = FALSE, !.pending = p]
  BY <1>1, <1>2
<1>4. QED
  BY <1>3 DEF ChipRegs

\* A step changes the memory in the sectors of the call only.
LEMMA OthersKeptByStep ==
    ASSUME FlashInv, [FlashNext]_flashVars
    PROVE  \A a \in Cells(chip.kind) : chip'.data[a] # chip.data[a] => BlockOf(a) \in asked.sectors
<1>1. FlashInv
  OBVIOUS
<1>2. chip \in ChipRegs(chip.pending, chip.header) /\ Pending
  BY <1>1 DEF FlashInv, Typed
<1>3. CASE Done
  <2>1. chip'.data = [a \in Cells(chip.kind) |->
                        IF a \in DOMAIN chip.pending THEN chip.pending[a] ELSE chip.data[a]]
    BY <1>2, <1>3 DEF Done, ChipRegs
  <2>2. QED
    BY <2>1, <1>2 DEF Pending
<1>4. CASE PowerFailure
  <2>1. PICK done \in SUBSET DOMAIN chip.pending :
          chip'.data = [a \in Cells(chip.kind) |-> IF a \in done THEN chip.pending[a] ELSE chip.data[a]]
    BY <1>2, <1>4 DEF PowerFailure, ChipRegs
  <2>2. QED
    BY <2>1, <1>2 DEF Pending
<1>5. CASE Restart
  <2>1. CASE chip' = [chip EXCEPT !.header = << >>]
    BY <2>1, <1>2 DEF ChipRegs
  <2>2. CASE chip' # [chip EXCEPT !.header = << >>]
    <3>1. PICK n \in 0 .. Len(Head(drv.script).bytes) :
            chip' \in Obeys(chip, Data(SubSeq(Head(drv.script).bytes, 1, n)))
      BY <1>5, <2>2 DEF Restart
    <3>2. Data(SubSeq(Head(drv.script).bytes, 1, n)).op = "data"
      BY DEF Data, Command
    <3>3. PICK cmd : cmd = Data(SubSeq(Head(drv.script).bytes, 1, n))
      OBVIOUS
    <3>4. chip'.data = chip.data
      BY <3>1, <3>2, <3>3, <1>2, DataFirst
    <3>5. QED
      BY <3>4
  <2>3. QED
    BY <2>1, <2>2
<1>6. CASE SendCommand
  BY <1>1, <1>6, Sent DEF FlashInv
<1>7. CASE chip' = chip
  BY <1>7
<1>8. QED
  BY <1>3, <1>4, <1>5, <1>6, <1>7
     DEF FlashNext, Calls, FlashContinues, flashVars, CallDriver, ReadSignature, ReadDeviceId, ReadBuffer,
         EraseBlock, WriteBlocks, Compare, Compared, WritePage, NextBlock, ReturnToCaller, OnlyDriver

\* Nothing outside the sectors of a call changes, not even when the call was broken off
\* by a restart or a power failure while the chip was busy.
THEOREM OthersKept == FlashSpec => OtherSectorsKept
<1>1. FlashInv /\ [FlashNext]_flashVars =>
        [\A a \in Cells(chip.kind) : chip'.data[a] # chip.data[a] => BlockOf(a) \in asked.sectors]_flashVars
  BY OthersKeptByStep
<1>2. QED
  BY <1>1, FlashConsistent, PTL DEF FlashSpec, OtherSectorsKept

----------------------------------------------------------------------------
(* The exchange: proofs about Spi, for commands of every length, that no    *)
(* byte is overrun, and that the slave and the caller get exactly what the  *)
(* other gave.                                                              *)
(*                                                                          *)
(* The argument is that of the comment in the code: a credit is spent with  *)
(* every byte given to the core and earned with every one fetched, so that  *)
(* at most one byte is between the two, and the next one given or fetched   *)
(* is known by its number alone.                                            *)

Exchanging == {"poll", "send", "take"}

\* Bytes given to the core, and bytes fetched from it, since the call began; and the k-th
\* byte of the exchange.
Given == cpu.writes + cpu.reads - Len(cpu.write_data) - cpu.write_zeros
Fetched == cpu.writes - cpu.read_ignore + Len(cpu.read_data)
ByteOf(k) == IF k <= cpu.writes THEN k ELSE 0
Ready == IF rrdy THEN 1 ELSE 0

SpiTypes ==
    /\ holding \in Seq(Nat) /\ shifting \in Seq(Nat) /\ Len(holding) <= 1 /\ Len(shifting) <= 1
    /\ rx \in Nat /\ rrdy \in BOOLEAN /\ roe \in BOOLEAN /\ sso \in BOOLEAN
    /\ line \in Seq(Nat) /\ before \in Seq(Nat)
    /\ cpu \in [at : {"idle", "discard", "poll", "send", "take", "finish", "done"},
                writes : Nat, reads : Nat, merge : BOOLEAN, write_data : Seq(Nat),
                write_zeros : Nat, read_ignore : Nat, read_data : Seq(Nat), credits : 0 .. 1,
                status : SUBSET {"TRDY", "RRDY", "TMT"}]

\* What the caller still has to give is the rest of its bytes and then the zeros; what it
\* has fetched are the answers to the zeros.
Progress ==
    /\ Len(cpu.write_data) <= cpu.writes /\ cpu.write_zeros <= cpu.reads
    /\ cpu.read_ignore <= cpu.writes /\ Len(cpu.read_data) <= cpu.reads
    /\ cpu.write_data # << >> => cpu.write_zeros = cpu.reads
    /\ cpu.read_data # << >> => cpu.read_ignore = 0
    /\ \A k \in 1 .. Len(cpu.write_data) :
          cpu.write_data[k] = cpu.writes - Len(cpu.write_data) + k
    /\ \A k \in 1 .. Len(cpu.read_data) :
          cpu.read_data[k] = Len(before) + cpu.writes + k

\* The slave has the bytes given but for those on their way, and these come next.
OnTheLine ==
    /\ Len(line) + Len(shifting) + Len(holding) = Len(before) + Given
    /\ \A k \in 1 .. Len(before) : line[k] = before[k]
    /\ \A k \in Len(before) + 1 .. Len(line) : line[k] = ByteOf(k - Len(before))
    /\ shifting # << >> => shifting[1] = ByteOf(Len(line) - Len(before) + 1)
    /\ holding # << >> => holding[1] = ByteOf(Len(line) + Len(shifting) - Len(before) + 1)

\* The credits count the bytes between the two: given to the core and not fetched.
Credits ==
    /\ Given - Fetched = 1 - cpu.credits
    /\ Len(holding) + Len(shifting) + Ready = 1 - cpu.credits
    /\ rrdy => rx = Len(line)

Phases ==
    /\ cpu.at = "idle" => holding = << >> /\ shifting = << >> /\ cpu = Idle
    /\ cpu.at # "idle" => /\ cpu.writes + cpu.reads > 0
                          /\ Len(before) + cpu.writes + cpu.reads <= LINE
                          /\ Progress /\ OnTheLine
    /\ cpu.at = "discard" => /\ Given = 0 /\ Fetched = 0 /\ cpu.credits = 1
                             /\ holding = << >> /\ shifting = << >>
    /\ cpu.at \in Exchanging \union {"finish", "done"} => Credits
    /\ cpu.at \in Exchanging => Fetched < cpu.writes + cpu.reads
    /\ cpu.at \in {"send", "take"} /\ "RRDY" \in cpu.status => rrdy
    /\ cpu.at \in {"finish", "done"} => Fetched = cpu.writes + cpu.reads

SpiInv == SpiTypes /\ Phases /\ ~ roe /\ Len(line) <= LINE

----------------------------------------------------------------------------
\* Only the empty sequence has no elements.
LEMMA Lengths ==
    ASSUME NEW q \in Seq(Nat)
    PROVE  Len(q) >= 0 /\ (q # << >> => Len(q) >= 1)
OBVIOUS

\* The numbers the arithmetic is about.
LEMMA Numbers ==
    ASSUME SpiTypes
    PROVE  /\ cpu.writes \in Nat /\ cpu.reads \in Nat /\ cpu.write_zeros \in Nat
           /\ cpu.read_ignore \in Nat /\ cpu.credits \in Int
           /\ Len(cpu.write_data) \in Nat /\ Len(cpu.read_data) \in Nat
           /\ Len(before) \in Nat /\ Len(line) \in Nat
           /\ Len(holding) \in Nat /\ Len(shifting) \in Nat /\ rx \in Nat
           /\ Given \in Int /\ Fetched \in Int /\ Ready \in 0 .. 1
<1>1. /\ cpu.writes \in Nat /\ cpu.reads \in Nat /\ cpu.write_zeros \in Nat /\ cpu.credits \in 0 .. 1
      /\ cpu.read_ignore \in Nat /\ cpu.write_data \in Seq(Nat) /\ cpu.read_data \in Seq(Nat)
  BY DEF SpiTypes
<1>2. /\ before \in Seq(Nat) /\ line \in Seq(Nat) /\ holding \in Seq(Nat) /\ shifting \in Seq(Nat)
      /\ rx \in Nat
  BY DEF SpiTypes
<1>3. /\ Len(cpu.write_data) \in Nat /\ Len(cpu.read_data) \in Nat
      /\ Len(before) \in Nat /\ Len(line) \in Nat /\ Len(holding) \in Nat /\ Len(shifting) \in Nat
  BY <1>1, <1>2
<1>4. Given \in Int
  BY <1>1, <1>3 DEF Given
<1>5. Fetched \in Int
  BY <1>1, <1>3 DEF Fetched
<1>6. Ready \in 0 .. 1
  BY DEF Ready
<1>7. QED
  BY <1>1, <1>2, <1>3, <1>4, <1>5, <1>6

\* When everything has been fetched, everything has been given and nothing is under way.
LEMMA AllFetched ==
    ASSUME SpiTypes, Progress, Credits, Fetched = cpu.writes + cpu.reads
    PROVE  /\ Len(cpu.write_data) = 0 /\ cpu.write_zeros = 0
           /\ cpu.read_ignore = 0 /\ Len(cpu.read_data) = cpu.reads
           /\ holding = << >> /\ shifting = << >> /\ ~ rrdy
           /\ Given = cpu.writes + cpu.reads
<1>1. /\ Len(cpu.write_data) <= cpu.writes /\ cpu.write_zeros <= cpu.reads
      /\ cpu.read_ignore <= cpu.writes /\ Len(cpu.read_data) <= cpu.reads
  BY DEF Progress
<1>2. cpu.read_ignore = 0 /\ Len(cpu.read_data) = cpu.reads
  BY <1>1 DEF SpiTypes, Ready, Fetched
<1>3. Given = cpu.writes + cpu.reads + 1 - cpu.credits
  <2>1. Given \in Int /\ Fetched = cpu.writes + cpu.reads /\ Given - Fetched = 1 - cpu.credits
    BY Numbers DEF Credits, Given
  <2>2. QED
    BY <2>1 DEF SpiTypes
<1>4. Len(cpu.write_data) = 0 /\ cpu.write_zeros = 0 /\ cpu.credits = 1
  <2> DEFINE w == cpu.writes
             r == cpu.reads
             l == Len(cpu.write_data)
             z == cpu.write_zeros
             c == cpu.credits
  <2>1. w \in Nat /\ r \in Nat /\ l \in Nat /\ z \in Nat /\ c \in 0 .. 1
    BY Numbers DEF SpiTypes
  <2>2. w + r - l - z = w + r + 1 - c
    BY <1>3 DEF Given
  <2> HIDE DEF w, r, l, z, c
  <2>3. l = 0 /\ z = 0 /\ c = 1
    BY <2>1, <2>2
  <2>4. QED
    BY <2>3 DEF l, z, c
<1>5. Len(holding) = 0 /\ Len(shifting) = 0 /\ Ready = 0
  BY <1>4 DEF SpiTypes, Ready, Credits
<1>6. QED
  BY <1>2, <1>3, <1>4, <1>5 DEF SpiTypes, Ready

\* The first state is consistent, whatever RXDATA holds.
LEMMA SpiInitConsistent == SpiAssumption /\ Init => SpiInv
<1> SUFFICES ASSUME SpiAssumption, Init PROVE SpiInv
  OBVIOUS
<1>1. << >> \in Seq(Nat) /\ Len(<< >>) <= 1
  OBVIOUS
<1>2. SpiTypes
  <2>1. cpu = Idle /\ Idle \in [at : {"idle"}, writes : Nat, reads : Nat, merge : BOOLEAN,
            write_data : Seq(Nat), write_zeros : Nat, read_ignore : Nat, read_data : Seq(Nat),
            credits : 0 .. 1, status : SUBSET {"TRDY", "RRDY", "TMT"}]
    BY <1>1 DEF Init, Idle
  <2>2. /\ cpu.at = "idle" /\ cpu.writes = 0 /\ cpu.reads = 0 /\ cpu.merge = FALSE
        /\ cpu.write_data = << >> /\ cpu.write_zeros = 0 /\ cpu.read_ignore = 0
        /\ cpu.read_data = << >> /\ cpu.credits = 1 /\ cpu.status = {}
    BY <2>1 DEF Idle
  <2>3. cpu \in [at : {"idle", "discard", "poll", "send", "take", "finish", "done"},
                writes : Nat, reads : Nat, merge : BOOLEAN, write_data : Seq(Nat),
                write_zeros : Nat, read_ignore : Nat, read_data : Seq(Nat), credits : 0 .. 1,
                status : SUBSET {"TRDY", "RRDY", "TMT"}]
    BY <2>1, <1>1 DEF Idle
  <2>4. /\ holding \in Seq(Nat) /\ shifting \in Seq(Nat) /\ line \in Seq(Nat)
        /\ before \in Seq(Nat) /\ Len(holding) <= 1 /\ Len(shifting) <= 1
    BY <1>1 DEF Init
  <2>5. rx \in Nat /\ rrdy \in BOOLEAN /\ roe \in BOOLEAN /\ sso \in BOOLEAN
    BY DEF Init
  <2>6. QED
    BY <2>3, <2>4, <2>5 DEF SpiTypes
<1>3. cpu.at = "idle"
  BY DEF Init, Idle
<1>4. QED
  BY <1>1, <1>2, <1>3 DEF SpiAssumption, Init, SpiInv, Phases, Exchanging

\* The core moves the byte it holds to its shift register.
LEMMA LoadKeeps == ASSUME SpiInv, Load PROVE SpiInv'
<1> USE DEF SpiInv, Load
<1>1. SpiTypes'
  BY DEF SpiTypes
<1>2. Phases'
  BY DEF SpiTypes, Phases, Progress, OnTheLine, Credits, Given, Fetched, ByteOf, Ready, Exchanging, Idle
<1>3. QED
  BY <1>1, <1>2

\* A byte reaches the slave.  None waits in RXDATA then, for the one that left was paid
\* for with the only credit.
LEMMA ShiftedKeeps == ASSUME SpiAssumption, SpiInv, Shifted PROVE SpiInv'
<1>1. SpiTypes /\ shifting # << >> /\ UNCHANGED <<holding, sso, before, cpu>>
  BY DEF SpiInv, Shifted
<1>2. cpu.at \in Exchanging
  <2>1. cpu.at \in {"idle", "discard", "poll", "send", "take", "finish", "done"}
    BY <1>1 DEF SpiTypes
  <2>2. cpu.at \notin {"idle", "discard"}
    BY <1>1 DEF SpiInv, Phases
  <2>3. cpu.at \notin {"finish", "done"}
    BY <1>1, AllFetched DEF SpiInv, Phases
  <2>4. QED
    BY <2>1, <2>2, <2>3 DEF Exchanging
<1>3. /\ Progress /\ OnTheLine /\ Credits
      /\ Fetched < cpu.writes + cpu.reads /\ Len(before) + cpu.writes + cpu.reads <= LINE
  BY <1>2 DEF SpiInv, Phases, Exchanging
<1>4. /\ ~ rrdy /\ holding = << >> /\ cpu.credits <= 0
      /\ Len(shifting) >= 1 /\ Len(shifting) <= 1
  <2>1. Len(shifting) >= 1
    BY <1>1, Lengths DEF SpiTypes
  <2>2. Len(holding) <= 0 /\ Ready <= 0 /\ cpu.credits <= 0
    <3>1. Len(holding) \in Nat /\ Len(shifting) \in Nat /\ Ready \in 0 .. 1 /\ cpu.credits \in Int
      BY <1>1, Numbers
    <3>2. Len(holding) + Len(shifting) + Ready = 1 - cpu.credits
      BY <1>3 DEF Credits
    <3>3. cpu.credits \in 0 .. 1
      BY <1>1 DEF SpiTypes
    <3>4. QED
      BY <2>1, <3>1, <3>2, <3>3
  <2>3. QED
    BY <1>1, <2>1, <2>2, Lengths DEF SpiTypes, Ready
<1>5. shifting \in Seq(Nat) /\ line \in Seq(Nat) /\ shifting[1] \in Nat
  BY <1>1, <1>4 DEF SpiTypes
<1>6. /\ line' = Append(line, shifting[1]) /\ line' \in Seq(Nat) /\ Len(line') = Len(line) + 1
      /\ \A k \in 1 .. Len(line) : line'[k] = line[k]
      /\ line'[Len(line) + 1] = shifting[1]
  BY <1>5 DEF Shifted
<1>7. SpiTypes'
  BY <1>1, <1>6 DEF SpiTypes, Ready, SpiTypes, Shifted
<1>8. OnTheLine'
  <2>1. /\ shifting' = << >> /\ Len(shifting') = 0 /\ holding' = << >> /\ Len(holding') = 0
        /\ before' = before /\ Given' = Given
    BY <1>1, <1>4 DEF SpiTypes, Ready, Shifted, Given
  <2>2. Len(line) + 1 = Len(before) + Given /\ Given \in Int
    BY <1>1, <1>3, <1>4, Numbers DEF Ready, OnTheLine, Given
  <2>3. Len(before) <= Len(line)
    <3>1. Fetched >= 0 /\ Fetched \in Int
      <4>1. cpu.read_ignore <= cpu.writes /\ Len(cpu.read_data) >= 0
        BY <1>1, <1>3, Lengths DEF SpiTypes, Progress
      <4>2. QED
        BY <1>1, <4>1 DEF SpiTypes, Fetched
    <3>2. Given >= Fetched + 1
      BY <1>1, <1>3, <1>4, <2>2, <3>1, Numbers DEF Credits
    <3>3. QED
      BY <1>1, <2>2, <3>1, <3>2 DEF SpiTypes
  <2>4. line'[Len(line) + 1] = ByteOf(Len(line) - Len(before) + 1)
    BY <1>1, <1>3, <1>6 DEF OnTheLine
  <2>5. \A k : ByteOf(k)' = ByteOf(k)
    BY <1>1 DEF ByteOf
  <2>6. \A k \in Len(before) + 1 .. Len(line') : line'[k] = ByteOf(k - Len(before))
    <3>1. TAKE k \in Len(before) + 1 .. Len(line')
    <3>2. CASE k <= Len(line)
      <4>1. k \in Len(before) + 1 .. Len(line) /\ k \in 1 .. Len(line)
        BY <1>1, <3>2 DEF SpiTypes
      <4>2. QED
        BY <1>3, <1>6, <4>1 DEF OnTheLine
    <3>3. CASE k > Len(line)
      <4>1. k = Len(line) + 1 /\ k - Len(before) = Len(line) - Len(before) + 1
        BY <1>1, <1>6, <3>3 DEF SpiTypes
      <4>2. QED
        BY <1>6, <2>4, <4>1
    <3>4. QED
      BY <1>1, <3>2, <3>3 DEF SpiTypes
  <2>7. \A k \in 1 .. Len(before) : line'[k] = before[k]
    BY <1>1, <1>3, <1>6, <2>3 DEF SpiTypes, Ready, OnTheLine
  <2>8. Len(line') + Len(shifting') + Len(holding') = Len(before') + Given'
    BY <1>1, <1>6, <2>1, <2>2 DEF SpiTypes
  <2>9. QED
    BY <2>1, <2>5, <2>6, <2>7, <2>8 DEF OnTheLine
<1>9. Progress' /\ Credits'
  BY <1>1, <1>3, <1>4, <1>6 DEF SpiTypes, Ready, Progress, Credits, Given, Fetched, Ready, Shifted
<1>10. Phases'
  BY <1>1, <1>2, <1>3, <1>8, <1>9 DEF SpiInv, Phases, Exchanging, Fetched, Shifted
<1>11. Len(line') <= LINE
  <2>1. Len(line) + 1 <= Len(before) + cpu.writes + cpu.reads
    <3>1. SpiTypes
      BY <1>1 DEF SpiInv
    <3>2. Len(line) + Len(shifting) + Len(holding) = Len(before) + Given
      BY <1>3 DEF OnTheLine
    <3>3. Given = cpu.writes + cpu.reads - Len(cpu.write_data) - cpu.write_zeros
      BY DEF Given
    <3>4. /\ Len(cpu.write_data) \in Nat /\ cpu.write_zeros \in Nat /\ Len(holding) \in Nat
          /\ cpu.writes \in Nat /\ cpu.reads \in Nat /\ Given \in Int
          /\ Len(line) \in Nat /\ Len(before) \in Nat /\ Len(shifting) \in Nat
      BY <3>1, Numbers
    <3>5. Given <= cpu.writes + cpu.reads
      BY <3>3, <3>4, SMTT(30)
    <3>6. QED
      BY <1>4, <3>2, <3>4, <3>5
  <2>2. QED
    BY <1>1, <1>3, <1>6, <2>1, Numbers, SMTT(30) DEF SpiAssumption
<1>12. QED
  BY <1>1, <1>4, <1>7, <1>10, <1>11 DEF SpiInv, Shifted

\* A command begins: everything is still to be given and to be fetched.
LEMMA SelectKeeps == ASSUME SpiAssumption, SpiInv, Select PROVE SpiInv'
<1>1. PICK w \in WRITES, n \in READS, merge \in BOOLEAN :
         /\ w + n > 0 /\ Len(line) + w + n <= IF merge THEN LINE - 1 ELSE LINE
         /\ cpu' = [Idle EXCEPT !.at = "discard", !.writes = w, !.reads = n, !.merge = merge,
                                !.write_data = Caller(w), !.write_zeros = n, !.read_ignore = w]
  BY DEF Select
<1>2. /\ SpiTypes /\ cpu.at = "idle" /\ holding = << >> /\ shifting = << >>
      /\ before' = line /\ sso' = TRUE
      /\ UNCHANGED <<holding, shifting, rx, rrdy, roe, line>>
  BY DEF SpiInv, Phases, Select
<1>3. w \in Nat /\ n \in Nat /\ Len(line) + w + n <= LINE
  BY <1>1, <1>2, Numbers, SMTT(30) DEF SpiAssumption
<1>4. /\ Caller(w) \in Seq(Nat) /\ Len(Caller(w)) = w
      /\ \A k \in 1 .. w : Caller(w)[k] = k
  BY <1>3 DEF Caller
<1>5. /\ cpu'.at = "discard" /\ cpu'.writes = w /\ cpu'.reads = n /\ cpu'.merge = merge
      /\ cpu'.write_data = Caller(w) /\ cpu'.write_zeros = n /\ cpu'.read_ignore = w
      /\ cpu'.read_data = << >> /\ cpu'.credits = 1 /\ cpu'.status = {}
  BY <1>1 DEF Idle
<1>6. cpu' \in [at : {"idle", "discard", "poll", "send", "take", "finish", "done"},
                writes : Nat, reads : Nat, merge : BOOLEAN, write_data : Seq(Nat),
                write_zeros : Nat, read_ignore : Nat, read_data : Seq(Nat), credits : 0 .. 1,
                status : SUBSET {"TRDY", "RRDY", "TMT"}]
  <2>1. cpu' = [at |-> "discard", writes |-> w, reads |-> n, merge |-> merge,
                write_data |-> Caller(w), write_zeros |-> n, read_ignore |-> w,
                read_data |-> << >>, credits |-> 1, status |-> {}]
    BY <1>1 DEF Idle
  <2>2. << >> \in Seq(Nat)
    OBVIOUS
  <2>3. QED
    BY <1>3, <1>4, <2>1, <2>2
<1>7. SpiTypes'
  BY <1>2, <1>6 DEF SpiTypes
<1>8. Given' = 0 /\ Fetched' = 0
  BY <1>3, <1>4, <1>5 DEF Given, Fetched
<1>9. Progress'
  BY <1>2, <1>3, <1>4, <1>5, SMTT(30) DEF SpiTypes, Progress
<1>10. OnTheLine'
  BY <1>2, <1>8 DEF SpiTypes, OnTheLine
<1>11. QED
  BY <1>1, <1>2, <1>3, <1>5, <1>7, <1>8, <1>9, <1>10 DEF SpiInv, Phases, Exchanging

\* Whatever the core still held is thrown away, and the exchange begins with one credit.
LEMMA DiscardKeeps == ASSUME SpiInv, Discard PROVE SpiInv'
<1>1. /\ SpiTypes /\ Progress /\ OnTheLine /\ cpu.at = "discard"
      /\ cpu.writes + cpu.reads > 0 /\ Len(before) + cpu.writes + cpu.reads <= LINE
      /\ Given = 0 /\ Fetched = 0 /\ cpu.credits = 1 /\ holding = << >> /\ shifting = << >>
  BY DEF SpiInv, Phases, Discard
<1>2. /\ rrdy' = FALSE /\ cpu' = [cpu EXCEPT !.at = "poll"]
      /\ UNCHANGED <<holding, shifting, rx, roe, sso, line, before>>
  BY DEF Discard
<1>3. SpiTypes' /\ cpu'.at = "poll"
  BY <1>1, <1>2 DEF SpiTypes
<1>4. Progress' /\ OnTheLine' /\ Given' = 0 /\ Fetched' = 0 /\ cpu'.credits = 1
      /\ cpu'.writes = cpu.writes /\ cpu'.reads = cpu.reads
  BY <1>1, <1>2 DEF SpiTypes, Progress, OnTheLine, Given, Fetched, ByteOf
<1>5. Credits'
  BY <1>1, <1>2, <1>4 DEF SpiTypes, Credits, Ready
<1>6. QED
  BY <1>1, <1>2, <1>3, <1>4, <1>5 DEF SpiInv, Phases, Exchanging

\* The status is read; only Take takes RRDY back, so that it can be relied on until then.
LEMMA PollKeeps == ASSUME SpiInv, Poll PROVE SpiInv'
<1>1. /\ SpiTypes /\ Progress /\ OnTheLine /\ Credits /\ cpu.at = "poll"
      /\ cpu.writes + cpu.reads > 0 /\ Len(before) + cpu.writes + cpu.reads <= LINE
      /\ Fetched < cpu.writes + cpu.reads
  BY DEF SpiInv, Phases, Poll, Exchanging
<1>2. /\ cpu' = [cpu EXCEPT !.at = "send", !.status = Status]
      /\ UNCHANGED <<holding, shifting, rx, rrdy, roe, sso, line, before>>
  BY DEF Poll, core
<1>3. Status \in SUBSET {"TRDY", "RRDY", "TMT"} /\ ("RRDY" \in Status => rrdy)
  BY DEF Status
<1>4. SpiTypes' /\ cpu'.at = "send" /\ cpu'.status = Status
  BY <1>1, <1>2, <1>3 DEF SpiTypes
<1>5. /\ cpu'.writes = cpu.writes /\ cpu'.reads = cpu.reads /\ cpu'.credits = cpu.credits
      /\ cpu'.write_data = cpu.write_data /\ cpu'.write_zeros = cpu.write_zeros
      /\ cpu'.read_data = cpu.read_data /\ cpu'.read_ignore = cpu.read_ignore
  BY <1>1, <1>2 DEF SpiTypes
<1>6. Progress' /\ OnTheLine' /\ Credits' /\ Fetched' = Fetched
  BY <1>1, <1>2, <1>5 DEF Progress, OnTheLine, Credits, Given, Fetched, ByteOf, Ready
<1>7. QED
  BY <1>1, <1>2, <1>3, <1>4, <1>5, <1>6 DEF SpiInv, Phases, Exchanging

\* With a credit nothing is under way, so that the next byte finds the core empty; and there
\* is a next byte, or everything would have been fetched.
LEMMA SendByteKeeps == ASSUME SpiInv, Send PROVE SpiInv'
<1>1. /\ SpiTypes /\ Progress /\ OnTheLine /\ Credits /\ cpu.at = "send"
      /\ cpu.writes + cpu.reads > 0 /\ Len(before) + cpu.writes + cpu.reads <= LINE
      /\ Fetched < cpu.writes + cpu.reads
      /\ "RRDY" \in cpu.status => rrdy
  BY DEF SpiInv, Phases, Send, Exchanging
<1>2. UNCHANGED <<shifting, rx, rrdy, roe, sso, line, before>>
  BY DEF Send
<1>3. CASE "TRDY" \notin cpu.status \/ cpu.credits <= 0
  <2>1. cpu' = [cpu EXCEPT !.at = "take"] /\ UNCHANGED holding
    BY <1>3 DEF Send
  <2>2. SpiTypes' /\ cpu'.at = "take"
    BY <1>1, <1>2, <2>1 DEF SpiTypes
  <2>3. /\ cpu'.writes = cpu.writes /\ cpu'.reads = cpu.reads /\ cpu'.credits = cpu.credits
        /\ cpu'.write_data = cpu.write_data /\ cpu'.write_zeros = cpu.write_zeros
        /\ cpu'.read_data = cpu.read_data /\ cpu'.read_ignore = cpu.read_ignore
        /\ cpu'.status = cpu.status
    BY <1>1, <2>1 DEF SpiTypes
  <2>4. Progress' /\ OnTheLine' /\ Credits' /\ Fetched' = Fetched
    BY <1>1, <1>2, <2>1, <2>3 DEF Progress, OnTheLine, Credits, Given, Fetched, ByteOf, Ready
  <2>5. QED
    BY <1>1, <1>2, <2>2, <2>3, <2>4 DEF SpiInv, Phases, Exchanging
<1>4. CASE ~ ("TRDY" \notin cpu.status \/ cpu.credits <= 0)
  <2>1. cpu.credits >= 1 /\ holding = << >> /\ shifting = << >> /\ ~ rrdy /\ Given <= Fetched
    <3>1. Given \in Int /\ Fetched \in Int
      BY <1>1, Numbers DEF Given, Fetched
    <3>2. Len(holding) <= 0 /\ Len(shifting) <= 0 /\ Ready <= 0
      BY <1>1, <1>4, Lengths, SMTT(30) DEF SpiTypes, Credits, Ready
    <3>3. QED
      BY <1>1, <1>4, <3>1, <3>2, Lengths DEF SpiTypes, Credits, Ready
  <2>2. Len(line) = Len(before) + Given /\ Given < cpu.writes + cpu.reads
    BY <1>1, <2>1, Numbers, SMTT(30) DEF OnTheLine, Given, Fetched
  <2>3. PICK b, rest, zeros :
          /\ b \in Nat /\ rest \in Seq(Nat) /\ zeros \in Nat
          /\ holding' = <<b>> /\ b = ByteOf(Given + 1)
          /\ cpu' = [cpu EXCEPT !.at = "take", !.credits = cpu.credits - 1,
                                !.write_data = rest, !.write_zeros = zeros]
          /\ Len(rest) + zeros + 1 = Len(cpu.write_data) + cpu.write_zeros
          /\ Len(rest) <= cpu.writes /\ zeros <= cpu.reads
          /\ rest # << >> => zeros = cpu.reads
          /\ \A k \in 1 .. Len(rest) : rest[k] = cpu.writes - Len(rest) + k
    <3>1. CASE cpu.write_data # << >>
      <4> DEFINE b == Head(cpu.write_data)
                 rest == Tail(cpu.write_data)
      <4>1. /\ holding' = <<Head(cpu.write_data)>>
            /\ cpu' = [cpu EXCEPT !.at = "take", !.credits = cpu.credits - 1,
                                  !.write_data = Tail(cpu.write_data)]
        BY <1>4, <3>1 DEF Send, Put, Spent
      <4>2. cpu.write_data \in Seq(Nat) /\ Len(cpu.write_data) >= 1
        BY <1>1, <3>1, Lengths DEF SpiTypes
      <4>3. /\ b \in Nat /\ b = cpu.write_data[1] /\ rest \in Seq(Nat)
            /\ Len(rest) + 1 = Len(cpu.write_data)
            /\ \A k \in 1 .. Len(rest) : rest[k] = cpu.write_data[k + 1]
        BY <4>2
      <4>4. b = cpu.writes - Len(cpu.write_data) + 1 /\ cpu.write_zeros = cpu.reads
        BY <1>1, <3>1, <4>2, <4>3 DEF Progress
      <4>5. b = ByteOf(Given + 1)
        <5>1. /\ cpu.writes \in Nat /\ cpu.reads \in Nat /\ cpu.write_zeros \in Nat
              /\ Len(cpu.write_data) \in Nat
          BY <1>1, Numbers
        <5>2. Given + 1 = cpu.writes - Len(cpu.write_data) + 1
          BY <4>4, <5>1 DEF Given
        <5>3. Given + 1 <= cpu.writes
          BY <4>2, <5>1, <5>2
        <5>4. QED
          BY <4>4, <5>2, <5>3 DEF ByteOf
      <4>6. \A k \in 1 .. Len(rest) : rest[k] = cpu.writes - Len(rest) + k
        <5>1. TAKE k \in 1 .. Len(rest)
        <5>2. k + 1 \in 1 .. Len(cpu.write_data)
          BY <4>3
        <5>3. rest[k] = cpu.writes - Len(cpu.write_data) + (k + 1)
          BY <1>1, <4>3, <5>2 DEF Progress
        <5>4. QED
          BY <1>1, <4>2, <4>3, <5>3 DEF SpiTypes
      <4>7. cpu' = [cpu EXCEPT !.at = "take", !.credits = cpu.credits - 1,
                               !.write_data = rest, !.write_zeros = cpu.write_zeros]
        BY <1>1, <4>1 DEF SpiTypes
      <4>8. Len(rest) <= cpu.writes /\ cpu.write_zeros <= cpu.reads /\ cpu.write_zeros \in Nat
        BY <1>1, <4>3 DEF SpiTypes, Progress
      <4>9. Len(rest) + cpu.write_zeros + 1 = Len(cpu.write_data) + cpu.write_zeros
        BY <1>1, <4>3 DEF SpiTypes
      <4>10. holding' = <<b>>
        BY <4>1
      <4> HIDE DEF b, rest
      <4>11. QED
        BY <4>3, <4>4, <4>5, <4>6, <4>7, <4>8, <4>9, <4>10, Zenon
    <3>2. CASE cpu.write_data = << >>
      <4>1. Len(cpu.write_data) <= 0 /\ << >> \in Seq(Nat) /\ Len(<< >>) <= 0
        BY <3>2
      <4>2. cpu.write_zeros > 0
        BY <1>1, <2>2, <4>1 DEF SpiTypes, Given
      <4>3. /\ holding' = <<0>>
            /\ cpu' = [cpu EXCEPT !.at = "take", !.credits = cpu.credits - 1,
                                  !.write_zeros = cpu.write_zeros - 1]
        BY <1>4, <3>2, <4>2 DEF Send, Put, Spent
      <4>4. cpu' = [cpu EXCEPT !.at = "take", !.credits = cpu.credits - 1,
                               !.write_data = << >>, !.write_zeros = cpu.write_zeros - 1]
        BY <1>1, <3>2, <4>3 DEF SpiTypes
      <4>5. 0 = ByteOf(Given + 1)
        <5>1. /\ cpu.writes \in Nat /\ cpu.reads \in Nat /\ cpu.write_zeros \in Nat
              /\ Len(cpu.write_data) \in Nat /\ Len(cpu.write_data) = 0
          BY <1>1, <4>1, Numbers
        <5>2. cpu.write_zeros <= cpu.reads
          BY <1>1 DEF Progress
        <5>3. Given + 1 = cpu.writes + cpu.reads - cpu.write_zeros + 1
          BY <5>1 DEF Given
        <5>4. ~ (Given + 1 <= cpu.writes)
          BY <5>1, <5>2, <5>3
        <5>5. QED
          BY <5>4 DEF ByteOf
      <4>6. cpu.write_zeros - 1 \in Nat /\ cpu.write_zeros - 1 <= cpu.reads
        BY <1>1, <4>2, SMTT(30) DEF SpiTypes, Progress
      <4>7. \A k \in 1 .. Len(<< >>) : << >>[k] = cpu.writes - Len(<< >>) + k
        BY <4>1
      <4>8. Len(<< >>) + (cpu.write_zeros - 1) + 1 = Len(cpu.write_data) + cpu.write_zeros
        BY <1>1, <3>2 DEF SpiTypes
      <4>9. Len(<< >>) <= cpu.writes
        BY <1>1, <4>1 DEF SpiTypes
      <4> DEFINE rest == << >>
                 zeros == cpu.write_zeros - 1
      <4>10. /\ 0 \in Nat /\ rest \in Seq(Nat) /\ zeros \in Nat
             /\ Len(rest) <= cpu.writes /\ zeros <= cpu.reads /\ ~ (rest # << >>)
             /\ holding' = <<0>>
        BY <4>1, <4>3, <4>6, <4>9
      <4> HIDE DEF rest, zeros
      <4>11. QED
        BY <4>4, <4>5, <4>7, <4>8, <4>10, Zenon DEF rest, zeros
    <3>3. QED
      BY <3>1, <3>2
  <2>4. /\ cpu'.at = "take" /\ cpu'.credits = cpu.credits - 1
        /\ cpu'.write_data = rest /\ cpu'.write_zeros = zeros
        /\ cpu'.writes = cpu.writes /\ cpu'.reads = cpu.reads
        /\ cpu'.read_data = cpu.read_data /\ cpu'.read_ignore = cpu.read_ignore
        /\ cpu'.status = cpu.status
    BY <1>1, <2>3 DEF SpiTypes
  <2>5. SpiTypes'
    <3>1. cpu.credits - 1 \in 0 .. 1
      BY <1>1, <1>4 DEF SpiTypes
    <3>2. cpu' \in [at : {"idle", "discard", "poll", "send", "take", "finish", "done"},
                writes : Nat, reads : Nat, merge : BOOLEAN, write_data : Seq(Nat),
                write_zeros : Nat, read_ignore : Nat, read_data : Seq(Nat), credits : 0 .. 1,
                status : SUBSET {"TRDY", "RRDY", "TMT"}]
      BY <1>1, <2>3, <3>1 DEF SpiTypes
    <3>3. holding' \in Seq(Nat) /\ Len(holding') <= 1
      BY <2>3
    <3>4. QED
      BY <1>1, <1>2, <3>2, <3>3 DEF SpiTypes
  <2>6. Given' = Given + 1 /\ Fetched' = Fetched /\ Given \in Int /\ Fetched \in Int
    <3>1. Given \in Int /\ Fetched \in Int
      BY <1>1, Numbers DEF Given, Fetched
    <3>2. Fetched' = Fetched /\ Given' = cpu.writes + cpu.reads - Len(rest) - zeros
      BY <2>4 DEF Fetched, Given
    <3>3. cpu.writes + cpu.reads - Len(rest) - zeros = Given + 1
      <4>1. /\ rest \in Seq(Nat) /\ zeros \in Nat
            /\ Len(rest) + zeros + 1 = Len(cpu.write_data) + cpu.write_zeros
        BY <2>3
      <4>2. cpu.writes \in Nat /\ cpu.reads \in Nat /\ cpu.write_zeros \in Nat
        BY <1>1 DEF SpiTypes
      <4> DEFINE left == Len(rest)
                 had == Len(cpu.write_data)
      <4>3. left \in Nat /\ had \in Nat /\ zeros \in Nat
            /\ left + zeros + 1 = had + cpu.write_zeros
        BY <1>1, <4>1, Numbers
      <4>4. Given = cpu.writes + cpu.reads - had - cpu.write_zeros
        BY DEF Given
      <4> HIDE DEF left, had
      <4>5. cpu.writes + cpu.reads - left - zeros = Given + 1
        BY <4>2, <4>3, <4>4
      <4>6. QED
        BY <4>5 DEF left
    <3>4. QED
      BY <3>1, <3>2, <3>3
  <2>7. Progress'
    BY <1>1, <1>2, <2>3, <2>4 DEF Progress
  <2>8. OnTheLine'
    <3>1. /\ Len(shifting) <= 0 /\ Len(shifting) >= 0 /\ holding'[1] = b
          /\ Len(holding') <= 1 /\ Len(holding') >= 1 /\ holding' \in Seq(Nat)
      BY <2>1, <2>3
    <3>2. Len(line) + Len(shifting) + Len(holding') = Len(before) + Given'
      <4>1. Len(line) + Len(shifting) + Len(holding') = Len(before) + (Given + 1)
        <5>1. /\ Len(shifting) <= 0 /\ Len(shifting) >= 0 /\ holding' \in Seq(Nat)
              /\ Len(holding') <= 1 /\ Len(holding') >= 1
              /\ Len(line) = Len(before) + Given /\ Given \in Int
          BY <2>2, <2>6, <3>1
        <5>2. QED
          BY <1>1, <5>1, Numbers, SMTT(30)
      <4>2. QED
        BY <2>6, <4>1
    <3>3. holding'[1] = ByteOf(Len(line) + Len(shifting) - Len(before) + 1)
      <4>1. Len(line) + Len(shifting) - Len(before) + 1 = Given + 1
        <5>1. /\ Len(shifting) <= 0 /\ Len(shifting) >= 0
              /\ Len(line) = Len(before) + Given /\ Given \in Int
          BY <2>2, <2>6, <3>1
        <5>2. QED
          BY <1>1, <5>1, Numbers, SMTT(30)
      <4>2. QED
        BY <2>3, <3>1, <4>1
    <3>4. \A k : ByteOf(k)' = ByteOf(k)
      BY <2>4 DEF ByteOf
    <3>5. QED
      BY <1>1, <1>2, <2>1, <2>4, <3>2, <3>3, <3>4 DEF OnTheLine
  <2>9. Credits'
    <3>1. Given' - Fetched' = 1 - cpu'.credits
      <4>1. Given - Fetched = 1 - cpu.credits
        BY <1>1 DEF Credits
      <4>2. QED
        BY <1>1, <2>4, <2>6, <4>1, SMTT(30) DEF SpiTypes
    <3>2. /\ Len(shifting) <= 0 /\ Len(shifting) >= 0 /\ holding' \in Seq(Nat)
          /\ Len(holding') <= 1 /\ Len(holding') >= 1
      BY <2>1, <2>3
    <3>3. ~ rrdy' /\ Ready' = 0
      BY <1>2, <2>1 DEF Ready
    <3>4. Len(holding') + Len(shifting') + Ready' = 1 - cpu'.credits
      BY <1>1, <1>2, <2>1, <2>4, <3>2, <3>3 DEF SpiTypes
    <3>5. QED
      BY <3>1, <3>3, <3>4 DEF Credits
  <2>10. QED
    BY <1>1, <1>2, <2>1, <2>4, <2>5, <2>6, <2>7, <2>8, <2>9 DEF SpiInv, Phases, Exchanging
<1>5. QED
  BY <1>1, <1>3, <1>4 DEF SpiTypes

\* A byte is fetched: an answer to one of the caller's bytes is ignored, the others are kept.
LEMMA TakeKeeps == ASSUME SpiInv, Take PROVE SpiInv'
<1>1. /\ SpiTypes /\ Progress /\ OnTheLine /\ Credits /\ cpu.at = "take"
      /\ cpu.writes + cpu.reads > 0 /\ Len(before) + cpu.writes + cpu.reads <= LINE
      /\ Fetched < cpu.writes + cpu.reads
      /\ "RRDY" \in cpu.status => rrdy
  BY DEF SpiInv, Phases, Take, Exchanging
<1>2. UNCHANGED <<holding, shifting, rx, roe, sso, line, before>>
  BY DEF Take
<1>3. CASE "RRDY" \notin cpu.status
  <2>1. cpu' = [cpu EXCEPT !.at = "poll"] /\ UNCHANGED rrdy
    BY <1>3 DEF Take
  <2>2. SpiTypes' /\ cpu'.at = "poll"
    BY <1>1, <1>2, <2>1 DEF SpiTypes
  <2>3. /\ cpu'.writes = cpu.writes /\ cpu'.reads = cpu.reads /\ cpu'.credits = cpu.credits
        /\ cpu'.write_data = cpu.write_data /\ cpu'.write_zeros = cpu.write_zeros
        /\ cpu'.read_data = cpu.read_data /\ cpu'.read_ignore = cpu.read_ignore
    BY <1>1, <2>1 DEF SpiTypes
  <2>4. Progress' /\ OnTheLine' /\ Credits' /\ Fetched' = Fetched
    BY <1>1, <1>2, <2>1, <2>3 DEF Progress, OnTheLine, Credits, Given, Fetched, ByteOf, Ready
  <2>5. QED
    BY <1>1, <1>2, <2>2, <2>3, <2>4 DEF SpiInv, Phases, Exchanging
<1>4. CASE "RRDY" \in cpu.status
  <2> DEFINE ignore == IF cpu.read_ignore > 0 THEN cpu.read_ignore - 1 ELSE 0
             read == IF cpu.read_ignore > 0 THEN cpu.read_data ELSE Append(cpu.read_data, rx)
             at == IF ignore = 0 /\ Len(read) = cpu.reads THEN "finish" ELSE "poll"
  <2>1. /\ rrdy' = FALSE
        /\ cpu' = [cpu EXCEPT !.read_ignore = ignore, !.read_data = read,
                              !.credits = cpu.credits + 1, !.at = at]
    BY <1>4 DEF Take, Earned
  <2>2. cpu.credits <= 0 /\ cpu.credits >= 0 /\ holding = << >> /\ shifting = << >>
        /\ rx = Len(line)
    <3>1. rrdy /\ Ready = 1
      BY <1>1, <1>4 DEF Ready
    <3>2. Len(holding) <= 0 /\ Len(shifting) <= 0 /\ cpu.credits <= 0
      BY <1>1, <3>1, Lengths DEF SpiTypes, Credits
    <3>3. QED
      BY <1>1, <3>1, <3>2, Lengths DEF SpiTypes, Credits
  <2>3. Given \in Int /\ Fetched \in Int /\ Given = Fetched + 1 /\ Len(line) = Len(before) + Given
    <3>1. Given \in Int /\ Fetched \in Int
      BY <1>1, Numbers DEF Given, Fetched
    <3>2. Given = Fetched + 1
      BY <1>1, <2>2, <3>1 DEF SpiTypes, Credits
    <3>3. Len(holding) <= 0 /\ Len(shifting) <= 0 /\ Len(holding) >= 0 /\ Len(shifting) >= 0
      BY <2>2
    <3>4. QED
      BY <1>1, <3>1, <3>2, <3>3 DEF SpiTypes, OnTheLine
  <2>4. /\ ignore \in Nat /\ read \in Seq(Nat) /\ ignore <= cpu.writes
        /\ Len(read) <= cpu.reads
        /\ read # << >> => ignore = 0
        /\ Len(read) - ignore = Len(cpu.read_data) - cpu.read_ignore + 1
        /\ \A k \in 1 .. Len(read) : read[k] = Len(before) + cpu.writes + k
    <3>1. CASE cpu.read_ignore > 0
      <4>1. ignore = cpu.read_ignore - 1 /\ read = cpu.read_data
        BY <3>1
      <4>2. cpu.read_data = << >>
        BY <1>1, <3>1 DEF SpiTypes, Progress
      <4>3. QED
        BY <1>1, <3>1, <4>1, <4>2 DEF SpiTypes, Progress
    <3>2. CASE ~ (cpu.read_ignore > 0)
      <4>1. ignore = 0 /\ read = Append(cpu.read_data, rx) /\ cpu.read_ignore <= 0
        BY <1>1, <3>2 DEF SpiTypes
      <4>2. /\ read \in Seq(Nat) /\ Len(read) = Len(cpu.read_data) + 1
            /\ \A k \in 1 .. Len(cpu.read_data) : read[k] = cpu.read_data[k]
            /\ read[Len(cpu.read_data) + 1] = rx
        BY <1>1, <4>1 DEF SpiTypes
      <4> DEFINE n == Len(cpu.read_data)
                 base == Len(before)
      <4>3. /\ n \in Nat /\ base \in Nat /\ Len(read) = n + 1 /\ cpu.read_ignore = 0
            /\ Fetched = cpu.writes - cpu.read_ignore + n
        <5>1. cpu.read_ignore = 0
          BY <1>1, <4>1, Numbers
        <5>2. Fetched = cpu.writes - cpu.read_ignore + n
          BY DEF Fetched
        <5>3. QED
          BY <1>1, <4>2, <5>1, <5>2, Numbers
      <4>4. cpu.writes \in Nat /\ cpu.reads \in Nat /\ rx \in Nat /\ rx = base + Given
        BY <1>1, <2>2, <2>3, Numbers
      <4>5. \A k \in 1 .. n : read[k] = base + cpu.writes + k
        BY <1>1, <4>2 DEF Progress
      <4>6. read[n + 1] = rx /\ read \in Seq(Nat)
        BY <4>2
      <4> HIDE DEF n, base, read, ignore
      <4>7. rx = base + cpu.writes + (n + 1) /\ n + 1 <= cpu.reads
        <5>1. Given \in Int /\ Given = Fetched + 1 /\ Fetched < cpu.writes + cpu.reads
          BY <1>1, <2>3
        <5>2. Fetched = cpu.writes + n
          BY <4>3, <4>4
        <5>3. n \in Nat /\ base \in Nat
          BY <4>3
        <5>4. QED
          BY <4>4, <5>1, <5>2, <5>3
      <4>8. \A k \in 1 .. n + 1 : read[k] = base + cpu.writes + k
        <5>1. TAKE k \in 1 .. n + 1
        <5>2. k \in 1 .. n \/ k = n + 1
          BY <4>3
        <5>3. QED
          BY <4>5, <4>6, <4>7, <5>2
      <4>9. Len(read) <= cpu.reads /\ Len(read) - ignore = n - cpu.read_ignore + 1
        BY <4>1, <4>3, <4>4, <4>6, <4>7
      <4>10. QED
        BY <4>1, <4>3, <4>4, <4>6, <4>8, <4>9 DEF n, base
    <3>3. QED
      BY <3>1, <3>2
  <2>5. at \in {"finish", "poll"} /\ (at = "finish" <=> ignore = 0 /\ Len(read) = cpu.reads)
    OBVIOUS
  <2> HIDE DEF ignore, read, at
  <2>6. /\ cpu'.at = at /\ cpu'.credits = cpu.credits + 1
        /\ cpu'.read_ignore = ignore /\ cpu'.read_data = read
        /\ cpu'.writes = cpu.writes /\ cpu'.reads = cpu.reads
        /\ cpu'.write_data = cpu.write_data /\ cpu'.write_zeros = cpu.write_zeros
    BY <1>1, <2>1 DEF SpiTypes
  <2>7. SpiTypes'
    <3>1. cpu.credits + 1 \in 0 .. 1
      BY <1>1, <2>2 DEF SpiTypes
    <3>2. cpu' \in [at : {"idle", "discard", "poll", "send", "take", "finish", "done"},
                writes : Nat, reads : Nat, merge : BOOLEAN, write_data : Seq(Nat),
                write_zeros : Nat, read_ignore : Nat, read_data : Seq(Nat), credits : 0 .. 1,
                status : SUBSET {"TRDY", "RRDY", "TMT"}]
      BY <1>1, <2>1, <2>4, <2>5, <3>1 DEF SpiTypes
    <3>3. QED
      BY <1>1, <1>2, <2>1, <3>2 DEF SpiTypes
  <2>8. Fetched' = Fetched + 1 /\ Given' = Given
    <3>1. Given' = Given /\ Fetched' = cpu.writes - ignore + Len(read)
      BY <2>6 DEF Given, Fetched
    <3>2. cpu.writes - ignore + Len(read) = Fetched + 1
      <4> DEFINE n == Len(cpu.read_data)
                 l == Len(read)
      <4>1. n \in Nat /\ l \in Nat /\ ignore \in Nat /\ l - ignore = n - cpu.read_ignore + 1
        BY <1>1, <2>4, Numbers
      <4>2. Fetched = cpu.writes - cpu.read_ignore + n
        BY DEF Fetched
      <4>3. cpu.writes \in Nat /\ cpu.read_ignore \in Nat
        BY <1>1, Numbers
      <4> HIDE DEF n, l
      <4>4. cpu.writes - ignore + l = Fetched + 1
        BY <4>1, <4>2, <4>3
      <4>5. QED
        BY <4>4 DEF l
    <3>3. QED
      BY <3>1, <3>2
  <2>9. Progress'
    BY <1>1, <1>2, <2>4, <2>6 DEF Progress
  <2>10. OnTheLine'
    BY <1>1, <1>2, <2>6, <2>8 DEF OnTheLine, ByteOf
  <2>11. Credits'
    <3>1. Given' - Fetched' = 1 - cpu'.credits
      <4>1. Fetched' = Fetched + 1 /\ Given' = Fetched + 1 /\ cpu'.credits = cpu.credits + 1
        BY <2>3, <2>6, <2>8
      <4>2. cpu.credits = 0 /\ cpu.credits \in Int /\ Fetched \in Int
        BY <1>1, <2>2, <2>3 DEF SpiTypes
      <4>3. QED
        BY <4>1, <4>2
    <3>2. Len(holding') + Len(shifting') + Ready' = 1 - cpu'.credits
      <4>1. Len(holding) <= 0 /\ Len(shifting) <= 0 /\ Len(holding) >= 0 /\ Len(shifting) >= 0
        BY <2>2
      <4>2. Ready' = 0 /\ cpu'.credits = cpu.credits + 1
        BY <2>1, <2>6 DEF Ready
      <4>3. QED
        BY <1>1, <1>2, <2>2, <4>1, <4>2 DEF SpiTypes
    <3>3. QED
      BY <2>1, <3>1, <3>2 DEF Credits
  <2>12. /\ at = "finish" => Fetched' = cpu.writes + cpu.reads
         /\ at = "poll" => Fetched' < cpu.writes + cpu.reads
    <3> DEFINE l == Len(read)
    <3>1. l \in Nat /\ l <= cpu.reads /\ ignore \in Nat /\ ignore <= cpu.writes
      BY <1>1, <2>4 DEF SpiTypes
    <3>2. Fetched' = cpu.writes - ignore + l
      BY <2>6 DEF Fetched
    <3>3. cpu.writes \in Nat /\ cpu.reads \in Nat
      BY <1>1 DEF SpiTypes
    <3>4. (at = "finish" <=> ignore = 0 /\ l = cpu.reads) /\ at \in {"finish", "poll"}
      BY <2>5
    <3> HIDE DEF l
    <3>5. (ignore = 0 /\ l = cpu.reads) => Fetched' = cpu.writes + cpu.reads
      BY <3>1, <3>2, <3>3
    <3>6. ~ (ignore = 0 /\ l = cpu.reads) => Fetched' < cpu.writes + cpu.reads
      BY <3>1, <3>2, <3>3
    <3>7. QED
      BY <3>4, <3>5, <3>6
  <2>13. QED
    BY <1>1, <1>2, <2>1, <2>5, <2>6, <2>7, <2>8, <2>9, <2>10, <2>11, <2>12
       DEF SpiInv, Phases, Exchanging
<1>5. QED
  BY <1>3, <1>4

\* The slave is released once everything has gone out.
LEMMA FinishKeeps == ASSUME SpiInv, Finish PROVE SpiInv'
<1>1. /\ SpiTypes /\ Progress /\ OnTheLine /\ Credits /\ cpu.at = "finish"
      /\ cpu.writes + cpu.reads > 0 /\ Len(before) + cpu.writes + cpu.reads <= LINE
      /\ Fetched = cpu.writes + cpu.reads
  BY DEF SpiInv, Phases, Finish
<1>2. /\ cpu' = [cpu EXCEPT !.at = "done"]
      /\ UNCHANGED <<holding, shifting, rx, rrdy, roe, sso, line, before>>
  BY DEF Finish, core
<1>3. SpiTypes' /\ cpu'.at = "done"
  BY <1>1, <1>2 DEF SpiTypes
<1>4. /\ cpu'.writes = cpu.writes /\ cpu'.reads = cpu.reads /\ cpu'.credits = cpu.credits
      /\ cpu'.write_data = cpu.write_data /\ cpu'.write_zeros = cpu.write_zeros
      /\ cpu'.read_data = cpu.read_data /\ cpu'.read_ignore = cpu.read_ignore
  BY <1>1, <1>2 DEF SpiTypes
<1>5. Progress' /\ OnTheLine' /\ Credits' /\ Fetched' = Fetched
  BY <1>1, <1>2, <1>4 DEF Progress, OnTheLine, Credits, Given, Fetched, ByteOf, Ready
<1>6. QED
  BY <1>1, <1>2, <1>3, <1>4, <1>5 DEF SpiInv, Phases, Exchanging

\* The slave is released once nothing is under way.
LEMMA ReleaseKeeps == ASSUME SpiAssumption, SpiInv, Release PROVE SpiInv'
<1>1. /\ SpiTypes /\ Progress /\ Credits /\ cpu.at = "done"
      /\ Fetched = cpu.writes + cpu.reads
  BY DEF SpiInv, Phases, Release
<1>2. holding = << >> /\ shifting = << >>
  BY <1>1, AllFetched
<1>3. /\ cpu' = Idle /\ UNCHANGED <<holding, shifting, rx, rrdy, roe, before>>
      /\ (line' = line /\ sso' = sso) \/ (line' = << >> /\ sso' = FALSE)
  BY DEF Release
<1>4. /\ Idle \in [at : {"idle", "discard", "poll", "send", "take", "finish", "done"},
                writes : Nat, reads : Nat, merge : BOOLEAN, write_data : Seq(Nat),
                write_zeros : Nat, read_ignore : Nat, read_data : Seq(Nat), credits : 0 .. 1,
                status : SUBSET {"TRDY", "RRDY", "TMT"}]
      /\ Idle.at = "idle"
  BY DEF Idle
<1>5. line' \in Seq(Nat) /\ Len(line') <= LINE
  <2>1. << >> \in Seq(Nat) /\ Len(<< >>) <= 0
    OBVIOUS
  <2>2. 0 <= LINE /\ Len(line) <= LINE
    BY DEF SpiAssumption, SpiInv
  <2>3. CASE line' = line
    BY <1>1, <2>2, <2>3 DEF SpiTypes
  <2>4. CASE line' = << >>
    BY <2>1, <2>2, <2>4 DEF SpiAssumption
  <2>5. QED
    BY <1>3, <2>3, <2>4
<1>6. SpiTypes'
  BY <1>1, <1>3, <1>4, <1>5 DEF SpiTypes
<1>7. QED
  BY <1>2, <1>3, <1>4, <1>5, <1>6 DEF SpiInv, Phases, Exchanging

\* Nothing moves when nothing happens.
LEMMA SpiStutterKeeps == ASSUME SpiInv, UNCHANGED vars PROVE SpiInv'
BY DEF SpiInv, vars, core, SpiTypes, Phases, Progress, OnTheLine, Credits, Given, Fetched, ByteOf,
       Ready, Exchanging, Idle

\* The invariant behind the theorems below.
THEOREM SpiConsistent == ASSUME SpiAssumption PROVE Spec => []SpiInv
<1>1. SpiInv /\ [Next]_vars => SpiInv'
  <2> SUFFICES ASSUME SpiInv, [Next]_vars PROVE SpiInv'
    OBVIOUS
  <2>1. CASE Load
    BY <2>1, LoadKeeps
  <2>2. CASE Shifted
    BY <2>2, ShiftedKeeps
  <2>3. CASE Select
    BY <2>3, SelectKeeps
  <2>4. CASE Discard
    BY <2>4, DiscardKeeps
  <2>5. CASE Poll
    BY <2>5, PollKeeps
  <2>6. CASE Send
    BY <2>6, SendByteKeeps
  <2>7. CASE Take
    BY <2>7, TakeKeeps
  <2>8. CASE Finish
    BY <2>8, FinishKeeps
  <2>9. CASE Release
    BY <2>9, ReleaseKeeps
  <2>10. CASE UNCHANGED vars
    BY <2>10, SpiStutterKeeps
  <2>11. QED
    BY <2>1, <2>2, <2>3, <2>4, <2>5, <2>6, <2>7, <2>8, <2>9, <2>10 DEF Next, Continues
<1>2. QED
  BY <1>1, SpiInitConsistent, PTL DEF Spec

\* "We must not send more than two bytes to the target before it has returned any as
\* otherwise it will overflow": whatever the lengths, no byte is overrun.
THEOREM NeverOverrun == ASSUME SpiAssumption PROVE Spec => []NoOverrun
<1>1. SpiInv => NoOverrun
  BY DEF SpiInv, NoOverrun
<1>2. QED
  BY <1>1, SpiConsistent, PTL

\* The types, and with them that the credits never leave 0 and 1: the branch that takes
\* them to -1024 is not reached by a command with something to exchange.
THEOREM SpiTypeCorrect == ASSUME SpiAssumption PROVE Spec => []TypeOK
<1>1. SpiInv => TypeOK
  <2> SUFFICES ASSUME SpiInv PROVE TypeOK
    OBVIOUS
  <2>1. /\ rx \in Nat /\ {rrdy, roe, sso, cpu.merge} \subseteq BOOLEAN
        /\ cpu.at \in {"idle", "discard", "poll", "send", "take", "finish", "done"}
    BY DEF SpiInv, SpiTypes
  <2>2. cpu.credits \in -1024 .. 1 /\ Len(line) <= LINE
    BY DEF SpiInv, SpiTypes
  <2>3. ASSUME NEW one \in {holding, shifting}
        PROVE  one = << >> \/ (Len(one) = 1 /\ one[1] \in Nat)
    <3>1. one \in Seq(Nat) /\ Len(one) <= 1
      BY <2>3 DEF SpiInv, SpiTypes
    <3>2. CASE one # << >>
      <4>1. Len(one) >= 1
        BY <3>1, <3>2, Lengths
      <4> DEFINE n == Len(one)
      <4>2. one[1] \in Nat /\ n \in Nat /\ n <= 1 /\ n >= 1
        BY <3>1, <4>1
      <4> HIDE DEF n
      <4>3. n = 1
        BY <4>2
      <4>4. QED
        BY <4>2, <4>3 DEF n
    <3>3. QED
      BY <3>2
  <2>4. QED
    BY <2>1, <2>2, <2>3 DEF TypeOK
<1>2. QED
  BY <1>1, SpiConsistent, PTL

\* A function of the numbers up to n is a sequence of that length.
LEMMA SequenceOf ==
    ASSUME NEW n \in Nat, NEW m \in Nat, NEW w \in Nat
    PROVE  LET s == [k \in 1 .. n |-> m + w + k]
           IN  s \in Seq(Nat) /\ Len(s) = n /\ \A k \in 1 .. n : s[k] = m + w + k
<1> DEFINE s == [k \in 1 .. n |-> m + w + k]
<1>1. \A k \in 1 .. n : m + w + k \in Nat
  OBVIOUS
<1>2. s \in [1 .. n -> Nat]
  BY <1>1
<1>3. s \in Seq(Nat) /\ Len(s) = n
  BY <1>2
<1>4. QED
  BY <1>3

\* What a concatenation of two holds.
LEMMA Joined ==
    ASSUME NEW s \in Seq(Nat), NEW t \in Seq(Nat)
    PROVE  /\ s \o t \in Seq(Nat) /\ Len(s \o t) = Len(s) + Len(t)
           /\ \A k \in 1 .. Len(s) : (s \o t)[k] = s[k]
           /\ \A k \in 1 .. Len(t) : (s \o t)[Len(s) + k] = t[k]
OBVIOUS

\* A sequence that holds three others, one behind the other, is their concatenation.
LEMMA ThreeParts ==
    ASSUME NEW s \in Seq(Nat), NEW t \in Seq(Nat), NEW u \in Seq(Nat), NEW x \in Seq(Nat),
           Len(x) = Len(s) + Len(t) + Len(u),
           \A k \in 1 .. Len(s) : x[k] = s[k],
           \A k \in 1 .. Len(t) : x[Len(s) + k] = t[k],
           \A k \in 1 .. Len(u) : x[Len(s) + Len(t) + k] = u[k]
    PROVE  x = s \o t \o u
<1> DEFINE b == Len(s)
           w == Len(t)
           n == Len(u)
<1>1. b \in Nat /\ w \in Nat /\ n \in Nat
  OBVIOUS
<1>2. /\ s \o t \in Seq(Nat) /\ Len(s \o t) = b + w
      /\ \A k \in 1 .. b : (s \o t)[k] = s[k]
      /\ \A k \in 1 .. w : (s \o t)[b + k] = t[k]
  BY Joined
<1> DEFINE st == s \o t
<1> HIDE DEF st
<1>3. /\ st \o u \in Seq(Nat) /\ Len(st \o u) = b + w + n
      /\ \A k \in 1 .. b + w : (st \o u)[k] = st[k]
      /\ \A k \in 1 .. n : (st \o u)[b + w + k] = u[k]
  BY <1>2, Joined DEF st
<1>4. ASSUME NEW k \in 1 .. b + w + n PROVE x[k] = (st \o u)[k]
  <2>1. CASE k <= b
    BY <1>1, <1>2, <1>3, <2>1 DEF st
  <2>2. CASE k > b /\ k <= b + w
    <3>1. k - b \in 1 .. w /\ b + (k - b) = k /\ k \in 1 .. b + w
      BY <1>1, <2>2
    <3>2. x[b + (k - b)] = t[k - b] /\ st[b + (k - b)] = t[k - b]
      BY <1>2, <3>1 DEF st
    <3>3. QED
      BY <1>3, <3>1, <3>2
  <2>3. CASE k > b + w
    <3>1. k - (b + w) \in 1 .. n /\ b + w + (k - (b + w)) = k
      BY <1>1, <2>3
    <3>2. /\ x[b + w + (k - (b + w))] = u[k - (b + w)]
          /\ (st \o u)[b + w + (k - (b + w))] = u[k - (b + w)]
      BY <1>3, <3>1
    <3>3. QED
      BY <3>1, <3>2
  <2>4. k <= b \/ (k > b /\ k <= b + w) \/ k > b + w
    BY <1>1
  <2>5. QED
    BY <2>1, <2>2, <2>3, <2>4
<1>5. x = st \o u
  BY <1>1, <1>3, <1>4, SeqEqual
<1>6. QED
  BY <1>5 DEF st

\* The slave and the caller get what the other gave, whatever the lengths and whatever
\* commands were merged before.
THEOREM ExchangedExactly == ASSUME SpiAssumption PROVE Spec => []Exchanged
<1>1. SpiInv => Exchanged
  <2> SUFFICES ASSUME SpiInv, cpu.at = "done"
               PROVE  /\ line = before \o Caller(cpu.writes) \o [k \in 1 .. cpu.reads |-> 0]
                      /\ cpu.read_data = [k \in 1 .. cpu.reads |-> Len(before) + cpu.writes + k]
    BY DEF Exchanged
  <2>1. /\ SpiTypes /\ Progress /\ OnTheLine /\ Credits /\ Fetched = cpu.writes + cpu.reads
    BY DEF SpiInv, Phases
  <2>2. /\ holding = << >> /\ shifting = << >> /\ Given = cpu.writes + cpu.reads
        /\ Len(cpu.read_data) = cpu.reads
    BY <2>1, AllFetched
  <2> DEFINE answers == [k \in 1 .. cpu.reads |-> Len(before) + cpu.writes + k]
             zeros == [k \in 1 .. cpu.reads |-> 0]
             sent == before \o Caller(cpu.writes) \o zeros
  <2>3. cpu.read_data = answers
    <3>1. Len(before) \in Nat /\ cpu.writes \in Nat /\ cpu.reads \in Nat /\ cpu.read_data \in Seq(Nat)
      BY <2>1 DEF SpiTypes
    <3>2. answers \in Seq(Nat) /\ Len(answers) = cpu.reads
          /\ \A k \in 1 .. cpu.reads : answers[k] = Len(before) + cpu.writes + k
      BY <3>1, SequenceOf
    <3>3. \A k \in 1 .. Len(cpu.read_data) : cpu.read_data[k] = answers[k]
      BY <2>1, <2>2, <3>2 DEF Progress
    <3>4. QED
      BY <2>2, <3>1, <3>2, <3>3, SeqEqual
  <2>4. line = sent
    <3> DEFINE mine == Caller(cpu.writes)
               b == Len(before)
               l == Len(line)
               w == cpu.writes
               n == cpu.reads
    <3>1. /\ before \in Seq(Nat) /\ line \in Seq(Nat) /\ w \in Nat /\ n \in Nat
          /\ b \in Nat /\ l \in Nat
      BY <2>1 DEF SpiTypes
    <3>2. /\ mine \in Seq(Nat) /\ Len(mine) = w /\ zeros \in Seq(Nat) /\ Len(zeros) = n
          /\ \A k \in 1 .. w : mine[k] = k
          /\ \A k \in 1 .. n : zeros[k] = 0
      BY <3>1 DEF Caller
    <3>3. l = b + w + n
      <4>1. Len(holding) <= 0 /\ Len(shifting) <= 0 /\ Len(holding) >= 0 /\ Len(shifting) >= 0
        BY <2>2
      <4>2. Len(line) + Len(shifting) + Len(holding) = Len(before) + (w + n)
        BY <2>1, <2>2 DEF OnTheLine
      <4>3. QED
        BY <2>1, <4>1, <4>2 DEF SpiTypes
    <3>4. /\ \A k \in 1 .. b : line[k] = before[k]
          /\ \A k \in b + 1 .. l : line[k] = IF k - b <= w THEN k - b ELSE 0
      BY <2>1 DEF OnTheLine, ByteOf
    <3>5. \A k \in 1 .. w : line[b + k] = k
      <4> HIDE DEF b, l, w, n
      <4>1. QED
        BY <3>1, <3>3, <3>4
    <3>6. \A k \in 1 .. n : line[b + w + k] = 0
      <4> HIDE DEF b, l, w, n
      <4>1. QED
        BY <3>1, <3>3, <3>4
    <3> HIDE DEF mine, zeros
    <3>7. /\ Len(line) = Len(before) + Len(mine) + Len(zeros)
          /\ \A k \in 1 .. Len(before) : line[k] = before[k]
          /\ \A k \in 1 .. Len(mine) : line[Len(before) + k] = mine[k]
          /\ \A k \in 1 .. Len(zeros) : line[Len(before) + Len(mine) + k] = zeros[k]
      <4>1. Len(line) = Len(before) + Len(mine) + Len(zeros)
        BY <3>2, <3>3
      <4>2. \A k \in 1 .. Len(before) : line[k] = before[k]
        BY <3>4
      <4>3. \A k \in 1 .. Len(mine) : line[Len(before) + k] = mine[k]
        <5>1. \A k \in 1 .. w : line[b + k] = mine[k]
          BY <3>2, <3>5, Zenon
        <5>2. QED
          BY <3>2, <5>1, Zenon
      <4>4. \A k \in 1 .. Len(zeros) : line[Len(before) + Len(mine) + k] = zeros[k]
        <5>1. \A k \in 1 .. n : line[b + w + k] = zeros[k]
          BY <3>2, <3>6, Zenon
        <5>2. QED
          BY <3>2, <5>1, Zenon
      <4>5. QED
        BY <4>1, <4>2, <4>3, <4>4
    <3>8. line = before \o mine \o zeros
      <4> HIDE DEF b, l, w, n
      <4>1. before \in Seq(Nat) /\ mine \in Seq(Nat) /\ zeros \in Seq(Nat) /\ line \in Seq(Nat)
        BY <3>1, <3>2
      <4>2. QED
        BY <4>1, <3>7, ThreeParts, ZenonT(30)
    <3>9. QED
      BY <3>8 DEF mine, zeros
  <2>5. QED
    BY <2>3, <2>4
<1>2. QED
  BY <1>1, SpiConsistent, PTL
=============================================================================
