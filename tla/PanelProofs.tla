---------------------------- MODULE PanelProofs ----------------------------
(***************************************************************************)
(* Proofs about Panel, for phrases and bytes of every size, any number of  *)
(* turns and any losses.                                                   *)
(*                                                                         *)
(* The invariant says what is under way: the rest of a command (its first  *)
(* byte if the FPGA waits for a command, as many bytes as it still wants   *)
(* otherwise) or then an answer that may have been cut.                    *)
(***************************************************************************)
EXTENDS Panel, SequenceTheorems, WellFoundedInduction, TLAPS

Byte == 0 .. BYTE - 1
HexChars == {"hex"} \X Byte
Chars == {"hex", "raw", "nl", "text"} \X Byte
Kinds == {"getFrequency", "setFrequency", "getMode", "setMode"}
Registers == [wait : {"command", "phrase", "mode"}, got : Seq(Byte),
              phrase : Phrases, mode : 0 .. 1]
NothingLost == lost = [up |-> 0, down |-> 0]

(* The ranges of what TypeOK leaves out.                                    *)
Typed ==
    /\ TypeOK
    /\ pc \in Kinds \cup {"send", "read", "setup_new", "setup_freq", "loop",
                          "call_frequency", "store_frequency", "loop_mode", "call_mode",
                          "store_mode"}
    /\ call \in [kind : Kinds, out : Seq(Byte), in : Seq(Chars), answer : Phrases]
    /\ pc = "send" => call.out # << >>
    /\ pc = "read" => call.out = << >>
    /\ pc \in Kinds => call.kind = pc
    /\ down \in Seq(Chars)
    /\ fpga \in Registers
    /\ turns \in Nat /\ lost \in [up : Nat, down : Nat]

\* The number of bytes of a command, and the first of them.
Length(kind) == CASE kind = "setFrequency" -> 5 [] kind = "setMode" -> 2 [] OTHER -> 1
Code(kind) ==
    CASE kind = "getFrequency" -> 5 [] kind = "setFrequency" -> 6
      [] kind = "getMode" -> 7 [] kind = "setMode" -> 8

Ready == fpga.wait = "command" /\ fpga.got = << >>

\* Between two commands.
Quiet == Ready /\ up = << >> /\ down = << >> /\ call.in = << >>

\* Bytes of the command still have to be sent or taken.
Rest == up \o call.out
Commanding ==
    /\ down = << >> /\ call.in = << >>
    /\ \/ Ready /\ Len(Rest) = Length(call.kind) /\ Rest[1] = Code(call.kind)
       \/ /\ call.kind = "setFrequency" /\ fpga.wait = "phrase"
          /\ Rest # << >> /\ Len(fpga.got) + Len(Rest) = 4
       \/ /\ call.kind = "setMode" /\ fpga.wait = "mode" /\ fpga.got = << >>
          /\ Len(Rest) = 1

\* The answer, read or under way: all of it, or less if some was lost.
Come == call.in \o down
Cut(due) ==
    /\ Len(Come) <= Len(due)
    /\ NothingLost \/ Len(Come) = Len(due) => Come = due
    /\ call.in \in Seq(HexChars)
    /\ \A i \in 1 .. Len(down) : down[i] \in HexChars \/ (i = Len(down) /\ down[i] = NL)
Answering ==
    /\ Ready /\ up = << >>
    /\ IF ReadsString THEN Cut(Hex(fpga.phrase))
       ELSE /\ call.in = << >> /\ Len(down) <= 1
            /\ NothingLost => down = Raw(fpga.mode)

(* Panel and FPGA agree on where a command starts, as long as no byte of   *)
(* one is lost, and while the first command is carried out even then.      *)
Agreed ==
    lost.up = 0 \/ call.kind = "getFrequency" =>
      /\ pc = "send" => Commanding
      /\ pc = "read" => Commanding \/ Answering
      /\ pc \notin {"send", "read"} => Quiet

(* What the panel starts from is one of its own frequencies.                *)
Started ==
    /\ call.kind = "getFrequency" =>
         /\ pc \in {"send", "read", "getFrequency", "setup_new", "setup_freq"}
         /\ fpga.phrase <= PER * FMAX
    /\ pc = "getFrequency" => call.answer <= PER * FMAX
    /\ pc \in {"setup_new", "setup_freq"} => freq_phrase <= PER * FMAX

(* An answer of which nothing was lost is true when it is acted on.         *)
Truthful ==
    NothingLost =>
      /\ pc \in {"getFrequency", "setFrequency"} => call.answer = fpga.phrase
      /\ pc = "setMode" => call.answer = fpga.mode

Inv == Typed /\ Agreed /\ Started /\ Truthful

----------------------------------------------------------------------------
(* Numbers of four bytes.                                                   *)

(* Division and remainder by the base.                                      *)
LEMMA DivMod ==
  ASSUME NEW p \in Nat
  PROVE  /\ p \div BYTE \in Nat /\ p % BYTE \in Byte
         /\ p = BYTE * (p \div BYTE) + (p % BYTE)
BY SMT, NiosAssumption DEF Byte

(* One more byte: below BYTE * m.                                           *)
LEMMA Digit ==
  ASSUME NEW m \in Nat, NEW x \in 0 .. m - 1, NEW d \in Byte
  PROVE  BYTE * x + d \in 0 .. BYTE * m - 1
<1>1. BYTE \in Nat /\ x \in Nat /\ d \in Nat /\ m \in Nat /\ x + 1 <= m /\ d <= BYTE - 1
  BY NiosAssumption DEF Byte
<1>2. BYTE * (x + 1) <= BYTE * m
  BY <1>1
<1>3. BYTE * (x + 1) = BYTE * x + BYTE
  BY <1>1
<1>4. BYTE * x \in Nat /\ BYTE * m \in Nat
  BY <1>1
<1> QED BY <1>1, <1>2, <1>3, <1>4

(* And one less.                                                            *)
LEMMA Quotient ==
  ASSUME NEW m \in Nat, NEW p \in 0 .. BYTE * m - 1
  PROVE  p \div BYTE \in 0 .. m - 1
<1> DEFINE q == p \div BYTE
<1>1. BYTE \in Nat /\ BYTE > 0 /\ p \in Nat /\ q \in Nat /\ BYTE * q <= p
  BY NiosAssumption, DivMod DEF Byte
<1>2. SUFFICES ASSUME q >= m PROVE FALSE
  BY <1>1
<1>3. BYTE * q >= BYTE * m
  BY <1>1, <1>2
<1> QED BY <1>1, <1>3

(* Products of the base do not depend on how they are bracketed.            *)
LEMMA Powers ==
  /\ BYTE \in Nat /\ BYTE * BYTE \in Nat /\ BYTE * BYTE * BYTE \in Nat
  /\ BYTE * (BYTE * BYTE) = BYTE * BYTE * BYTE
  /\ BYTE * (BYTE * BYTE * BYTE) = BYTE * BYTE * BYTE * BYTE
BY NiosAssumption

(* Four bytes make a phrase; the fewer leading ones, the smaller it is.     *)
LEMMA PhraseRange ==
  ASSUME NEW b1 \in Byte, NEW b2 \in Byte, NEW b3 \in Byte, NEW b4 \in Byte
  PROVE  /\ PhraseOf(<<b1, b2, b3, b4>>) \in Phrases
         /\ PhraseOf(<<0, b2, b3, b4>>) \in 0 .. BYTE * BYTE * BYTE - 1
         /\ PhraseOf(<<0, 0, b3, b4>>) \in 0 .. BYTE * BYTE - 1
         /\ PhraseOf(<<0, 0, 0, b4>>) \in 0 .. BYTE - 1
<1>1. BYTE \in Nat /\ 0 \in Byte /\ BYTE * 0 = 0
  BY NiosAssumption DEF Byte
<1>2. ASSUME NEW x1 \in Byte, NEW x2 \in Byte, NEW x3 \in Byte, NEW x4 \in Byte
      PROVE  PhraseOf(<<x1, x2, x3, x4>>) \in Phrases
  <2>1. BYTE * x1 + x2 \in 0 .. BYTE * BYTE - 1
    BY <1>1, Digit DEF Byte
  <2>2. BYTE * (BYTE * x1 + x2) + x3 \in 0 .. BYTE * BYTE * BYTE - 1
    BY Powers, <2>1, Digit
  <2>3. BYTE * (BYTE * (BYTE * x1 + x2) + x3) + x4 \in 0 .. BYTE * BYTE * BYTE * BYTE - 1
    BY Powers, <2>2, Digit
  <2> QED BY <2>3 DEF PhraseOf, Phrases, MaxPhrase
<1>3. BYTE * b2 + b3 \in 0 .. BYTE * BYTE - 1 /\ BYTE * b3 + b4 \in 0 .. BYTE * BYTE - 1
  BY <1>1, Digit DEF Byte
<1>4. BYTE * (BYTE * b2 + b3) + b4 \in 0 .. BYTE * BYTE * BYTE - 1
  BY Powers, <1>3, Digit
<1>5. /\ PhraseOf(<<0, b2, b3, b4>>) = BYTE * (BYTE * b2 + b3) + b4
      /\ PhraseOf(<<0, 0, b3, b4>>) = BYTE * b3 + b4
      /\ PhraseOf(<<0, 0, 0, b4>>) = b4
  BY <1>1 DEF PhraseOf, Byte
<1> QED BY <1>2, <1>3, <1>4, <1>5 DEF Byte

(* Each of the bytes of a phrase is one, and together they are the phrase.  *)
LEMMA BytesOfPhrase ==
  ASSUME NEW p \in Phrases
  PROVE  /\ Bytes(p) \in [1 .. 4 -> Byte] /\ Bytes(p) \in Seq(Byte) /\ Len(Bytes(p)) = 4
         /\ p = PhraseOf(Bytes(p))
<1> DEFINE q3 == p \div BYTE
           q2 == q3 \div BYTE
           q1 == q2 \div BYTE
<1>1. BYTE \in Nat /\ p \in Nat
  BY NiosAssumption DEF Phrases, MaxPhrase
<1>2. p \in 0 .. BYTE * (BYTE * BYTE * BYTE) - 1
  BY Powers DEF Phrases, MaxPhrase
<1>3. q3 \in 0 .. BYTE * (BYTE * BYTE) - 1
  BY Powers, <1>2, Quotient
<1>4. q2 \in 0 .. BYTE * BYTE - 1
  BY Powers, <1>3, Quotient
<1>5. q1 \in Byte
  BY Powers, <1>4, Quotient DEF Byte
<1>6. /\ q1 % BYTE = q1
      /\ q2 = BYTE * q1 + (q2 % BYTE) /\ q2 % BYTE \in Byte
      /\ q3 = BYTE * q2 + (q3 % BYTE) /\ q3 % BYTE \in Byte
      /\ p = BYTE * q3 + (p % BYTE) /\ p % BYTE \in Byte
  <2>1. q1 % BYTE = q1
    BY <1>1, <1>5 DEF Byte
  <2>2. q2 \in Nat /\ q3 \in Nat
    BY <1>1, DivMod
  <2>3. q2 = BYTE * q1 + (q2 % BYTE) /\ q2 % BYTE \in Byte
    BY <2>2, DivMod
  <2>4. q3 = BYTE * q2 + (q3 % BYTE) /\ q3 % BYTE \in Byte
    BY <2>2, DivMod
  <2>5. p = BYTE * q3 + (p % BYTE) /\ p % BYTE \in Byte
    BY <1>1, DivMod
  <2> QED BY <2>1, <2>3, <2>4, <2>5
<1>7. Bytes(p) = << q1, q2 % BYTE, q3 % BYTE, p % BYTE >>
  BY <1>6 DEF Bytes
<1>8. p = PhraseOf(<< q1, q2 % BYTE, q3 % BYTE, p % BYTE >>)
  <2>1. PhraseOf(<< q1, q2 % BYTE, q3 % BYTE, p % BYTE >>)
          = BYTE * (BYTE * (BYTE * q1 + (q2 % BYTE)) + (q3 % BYTE)) + (p % BYTE)
    BY DEF PhraseOf
  <2> HIDE DEF q1, q2, q3
  <2> QED BY <2>1, <1>6
<1> QED BY <1>5, <1>6, <1>7, <1>8

----------------------------------------------------------------------------
(* Answers: what Hex writes, HexStringToInt reads.                          *)

(* A leading byte that is not zero makes a phrase large.                    *)
LEMMA PhraseAtLeast ==
  ASSUME NEW b1 \in Byte, NEW b2 \in Byte, NEW b3 \in Byte, NEW b4 \in Byte
  PROVE  /\ b1 # 0 => PhraseOf(<<b1, b2, b3, b4>>) >= BYTE * BYTE * BYTE
         /\ b1 # 0 \/ b2 # 0 => PhraseOf(<<b1, b2, b3, b4>>) >= BYTE * BYTE
         /\ b1 # 0 \/ b2 # 0 \/ b3 # 0 => PhraseOf(<<b1, b2, b3, b4>>) >= BYTE
<1>1. BYTE \in Nat /\ b1 \in Nat /\ b2 \in Nat /\ b3 \in Nat /\ b4 \in Nat
  BY NiosAssumption DEF Byte
<1>2. ASSUME NEW m \in Nat, NEW x \in Nat, x >= m, NEW d \in Nat
      PROVE  BYTE * x + d \in Nat /\ BYTE * x + d >= BYTE * m /\ BYTE * x + d >= d
  BY <1>1, <1>2
<1> DEFINE x2 == BYTE * b1 + b2
           x3 == BYTE * x2 + b3
           x4 == BYTE * x3 + b4
<1>3. x2 \in Nat /\ x3 \in Nat /\ x4 \in Nat
  BY <1>1
<1>4. PhraseOf(<<b1, b2, b3, b4>>) = x4
  BY DEF PhraseOf
<1>5. /\ \A m \in Nat : b1 >= m => x2 >= BYTE * m
      /\ \A m \in Nat : x2 >= m => x3 >= BYTE * m
      /\ \A m \in Nat : x3 >= m => x4 >= BYTE * m
      /\ x2 >= b2 /\ x3 >= b3
  BY <1>1, <1>2, <1>3
<1> HIDE DEF x2, x3, x4
<1>6. ASSUME b1 # 0 PROVE x2 >= BYTE /\ x3 >= BYTE * BYTE /\ x4 >= BYTE * BYTE * BYTE
  <2>1. x2 >= BYTE
    <3>1. b1 >= 1 /\ BYTE * 1 = BYTE
      BY <1>1, <1>6
    <3> QED BY <1>5, <3>1
  <2>2. x3 >= BYTE * BYTE
    BY Powers, <1>5, <2>1
  <2> QED BY Powers, <1>5, <2>1, <2>2
<1>7. ASSUME b1 # 0 \/ b2 # 0 PROVE x3 >= BYTE /\ x4 >= BYTE * BYTE
  <2>1. x2 >= 1
    BY <1>1, <1>3, <1>5, <1>6, <1>7, NiosAssumption
  <2>2. x3 >= BYTE
    BY <1>1, <1>5, <2>1
  <2> QED BY Powers, <1>5, <2>2
<1>8. ASSUME b1 # 0 \/ b2 # 0 \/ b3 # 0 PROVE x4 >= BYTE
  <2>1. x3 >= 1
    BY <1>1, <1>3, <1>5, <1>7, <1>8, NiosAssumption
  <2> QED BY <1>1, <1>5, <2>1
<1> QED BY <1>4, <1>6, <1>7, <1>8

(* The answer to a command about the frequency: the last n bytes of the     *)
(* phrase, the first of which is not zero unless it is the only one.        *)
LEMMA HexIs ==
  ASSUME NEW p \in Phrases
  PROVE  \E n \in 1 .. 4 :
           /\ Hex(p) \in Seq(Chars) /\ Len(Hex(p)) = n + 1 /\ Hex(p)[n + 1] = NL
           /\ \A i \in 1 .. n : Hex(p)[i] = <<"hex", Bytes(p)[4 - n + i]>>
           /\ \A j \in 1 .. 4 - n : Bytes(p)[j] = 0
           /\ n > 1 => Bytes(p)[5 - n] # 0
<1> DEFINE b == Bytes(p)
           Is(i) == (b[i] # 0 \/ i = 4) /\ \A j \in 1 .. i - 1 : b[j] = 0
           first == CHOOSE i \in 1 .. 4 : Is(i)
           n == 5 - first
           s == [i \in 1 .. n |-> <<"hex", b[first + i - 1]>>]
<1>1. b \in [1 .. 4 -> Byte]
  BY BytesOfPhrase
<1>2. first \in 1 .. 4 /\ Is(first)
  <2>1. \E i \in 1 .. 4 : Is(i)
    <3> HIDE DEF b
    <3>1. CASE b[1] # 0
      BY <3>1
    <3>2. CASE b[1] = 0 /\ b[2] # 0
      BY <3>2
    <3>3. CASE b[1] = 0 /\ b[2] = 0 /\ b[3] # 0
      <4>1. Is(3)
        BY <3>3
      <4> QED BY <4>1
    <3>4. CASE b[1] = 0 /\ b[2] = 0 /\ b[3] = 0
      <4>1. Is(4)
        BY <3>4
      <4> QED BY <4>1
    <3> QED BY <3>1, <3>2, <3>3, <3>4
  <2> HIDE DEF Is
  <2> QED BY <2>1
<1>3. Hex(p) = s \o <<NL>>
  BY DEF Hex
<1> HIDE DEF first, b
<1>4. NL \in Chars /\ HexChars \subseteq Chars
  BY NiosAssumption DEF NL, Chars, HexChars, Byte
<1>5. n \in 1 .. 4 /\ first = 5 - n
  BY <1>2
<1>6. s \in Seq(HexChars) /\ Len(s) = n /\ \A i \in 1 .. n : s[i] = <<"hex", b[4 - n + i]>>
  <2>1. \A i \in 1 .. n : s[i] = <<"hex", b[4 - n + i]>> /\ s[i] \in HexChars
    BY <1>1, <1>5 DEF HexChars
  <2> QED BY <1>5, <2>1
<1> HIDE DEF s
<1>7. s \in Seq(Chars) /\ <<NL>> \in Seq(Chars)
  BY <1>4, <1>6
<1>8. /\ Hex(p) \in Seq(Chars) /\ Len(Hex(p)) = n + 1 /\ Hex(p)[n + 1] = NL
      /\ \A i \in 1 .. n : Hex(p)[i] = s[i]
  BY <1>3, <1>6, <1>7
<1>9. (\A j \in 1 .. 4 - n : b[j] = 0) /\ (n > 1 => b[5 - n] # 0)
  BY <1>2, <1>5
<1> HIDE DEF n
<1> QED BY <1>5, <1>6, <1>8, <1>9 DEF b

(* Its characters.                                                          *)
LEMMA HexShape ==
  ASSUME NEW p \in Phrases
  PROVE  /\ Hex(p) \in Seq(Chars) /\ Len(Hex(p)) \in 2 .. 5
         /\ Hex(p)[Len(Hex(p))] = NL
         /\ \A i \in 1 .. Len(Hex(p)) - 1 : Hex(p)[i] \in HexChars
<1>1. PICK n \in 1 .. 4 : /\ Hex(p) \in Seq(Chars) /\ Len(Hex(p)) = n + 1 /\ Hex(p)[n + 1] = NL
                          /\ \A i \in 1 .. n : Hex(p)[i] = <<"hex", Bytes(p)[4 - n + i]>>
  BY HexIs
<1>2. ASSUME NEW i \in 1 .. n PROVE Hex(p)[i] \in HexChars
  <2>1. Bytes(p)[4 - n + i] \in Byte
    BY BytesOfPhrase
  <2>2. <<"hex", Bytes(p)[4 - n + i]>> \in HexChars
    BY <2>1 DEF HexChars
  <2> QED BY <1>1, <2>2
<1> QED BY <1>1, <1>2

(* The value of at most four digits.                                        *)
FromLast(s, k) == IF k < Len(s) THEN s[Len(s) - k][2] ELSE 0

LEMMA ValueOfDigits ==
  ASSUME NEW s \in Seq(HexChars), Len(s) <= 4
  PROVE  /\ HexStringToInt(s) =
              PhraseOf(<<FromLast(s, 3), FromLast(s, 2), FromLast(s, 1), FromLast(s, 0)>>)
         /\ \A k \in 0 .. 3 : FromLast(s, k) \in Byte
<1>1. \A i \in 1 .. Len(s) : s[i] \in HexChars /\ s[i][1] = "hex" /\ s[i][2] \in Byte
  BY DEF HexChars
<1>2. {i \in DOMAIN s : s[i][1] # "hex"} = {}
  BY <1>1
<1>3. ~ (s # << >> /\ s[1][1] = "text")
  BY <1>1
<1>4. ~ \E i \in 1 .. Len(s) - 4 : s[i][2] # 0
  OBVIOUS
<1>5. 0 \in Byte
  BY NiosAssumption DEF Byte
<1> QED BY <1>1, <1>2, <1>3, <1>4, <1>5 DEF HexStringToInt, FromLast

(* What Hex writes is read back as it was.                                  *)
LEMMA ReadsBack ==
  ASSUME NEW p \in Phrases, NEW s \in Seq(HexChars), Len(s) + 1 = Len(Hex(p)),
         \A i \in 1 .. Len(s) : s[i] = Hex(p)[i]
  PROVE  HexStringToInt(s) = p
<1> DEFINE b == Bytes(p)
<1>1. PICK n \in 1 .. 4 : /\ Len(Hex(p)) = n + 1
                          /\ \A i \in 1 .. n : Hex(p)[i] = <<"hex", b[4 - n + i]>>
                          /\ \A j \in 1 .. 4 - n : b[j] = 0
  BY HexIs
<1> HIDE DEF b
<1>2. Len(s) = n /\ \A i \in 1 .. n : s[i] = <<"hex", b[4 - n + i]>>
  BY <1>1
<1>3. ASSUME NEW k \in 0 .. 3 PROVE FromLast(s, k) = b[4 - k]
  <2>1. CASE k < n
    <3>1. n - k \in 1 .. n /\ 4 - n + (n - k) = 4 - k
      BY <2>1
    <3>2. s[n - k] = <<"hex", b[4 - k]>>
      BY <1>2, <3>1
    <3> QED BY <1>2, <2>1, <3>2 DEF FromLast
  <2>2. CASE k >= n
    BY <1>1, <1>2, <2>2 DEF FromLast
  <2> QED BY <2>1, <2>2
<1>4. /\ FromLast(s, 3) = b[1] /\ FromLast(s, 2) = b[2]
      /\ FromLast(s, 1) = b[3] /\ FromLast(s, 0) = b[4]
  BY <1>3
<1>5. HexStringToInt(s) = PhraseOf(b)
  BY <1>2, <1>4, ValueOfDigits DEF PhraseOf
<1> QED BY <1>5, BytesOfPhrase DEF b

(* And fewer digits than Hex writes are a smaller number.                   *)
LEMMA ReadsLess ==
  ASSUME NEW p \in Phrases, NEW s \in Seq(HexChars), Len(s) + 1 < Len(Hex(p))
  PROVE  HexStringToInt(s) <= p
<1> DEFINE b1 == Bytes(p)[1]
           b2 == Bytes(p)[2]
           b3 == Bytes(p)[3]
           b4 == Bytes(p)[4]
<1>1. b1 \in Byte /\ b2 \in Byte /\ b3 \in Byte /\ b4 \in Byte
  BY BytesOfPhrase
<1>2. p = PhraseOf(<<b1, b2, b3, b4>>)
  BY BytesOfPhrase DEF PhraseOf
<1>3. PICK n \in 1 .. 4 : Len(Hex(p)) = n + 1 /\ (n > 1 => Bytes(p)[5 - n] # 0)
  BY HexIs
<1>4. /\ Len(s) \in 0 .. 3 /\ Len(s) < n
      /\ n = 4 => b1 # 0
      /\ n = 3 => b2 # 0
      /\ n = 2 => b3 # 0
  <2> DEFINE l == Len(s)
  <2>0. l \in Nat /\ l + 1 < n + 1
    BY <1>3
  <2> HIDE DEF l
  <2>1. l \in 0 .. 3 /\ l < n
    BY <2>0
  <2> USE DEF l
  <2>2. CASE n = 4
    BY <1>3, <2>1, <2>2
  <2>3. CASE n = 3
    BY <1>3, <2>1, <2>3
  <2>4. CASE n = 2
    BY <1>3, <2>1, <2>4
  <2>5. CASE n = 1
    BY <2>1, <2>5
  <2> QED BY <2>2, <2>3, <2>4, <2>5
<1> HIDE DEF b1, b2, b3, b4
<1> DEFINE d(k) == FromLast(s, k)
<1>5. /\ HexStringToInt(s) = PhraseOf(<<d(3), d(2), d(1), d(0)>>)
      /\ d(3) \in Byte /\ d(2) \in Byte /\ d(1) \in Byte /\ d(0) \in Byte
  BY <1>4, ValueOfDigits
<1>6. p \in Nat /\ BYTE \in Nat /\ BYTE * BYTE \in Nat /\ BYTE * BYTE * BYTE \in Nat
  BY Powers DEF Phrases, MaxPhrase
<1>7. d(3) = 0 /\ (Len(s) < 3 => d(2) = 0) /\ (Len(s) < 2 => d(1) = 0)
      /\ (Len(s) < 1 => d(0) = 0)
  BY <1>4 DEF FromLast
<1> HIDE DEF d
<1>8. CASE Len(s) = 0
  <2>1. HexStringToInt(s) = 0
    BY <1>5, <1>6, <1>7, <1>8 DEF PhraseOf
  <2> QED BY <1>6, <2>1
<1>9. CASE Len(s) = 1
  <2>1. HexStringToInt(s) \in 0 .. BYTE - 1
    BY <1>5, <1>7, <1>9, PhraseRange
  <2>2. p >= BYTE
    BY <1>1, <1>2, <1>4, <1>9, PhraseAtLeast
  <2> QED BY <1>6, <2>1, <2>2
<1>10. CASE Len(s) = 2
  <2>1. HexStringToInt(s) \in 0 .. BYTE * BYTE - 1
    <3>1. HexStringToInt(s) = PhraseOf(<<0, 0, d(1), d(0)>>)
      BY <1>5, <1>7, <1>10
    <3> QED BY <1>5, <3>1, PhraseRange
  <2>2. p >= BYTE * BYTE
    BY <1>1, <1>2, <1>4, <1>10, PhraseAtLeast
  <2> QED BY <1>6, <2>1, <2>2
<1>11. CASE Len(s) = 3
  <2>1. HexStringToInt(s) \in 0 .. BYTE * BYTE * BYTE - 1
    <3>1. HexStringToInt(s) = PhraseOf(<<0, d(2), d(1), d(0)>>)
      BY <1>5, <1>7, <1>11
    <3> QED BY <1>5, <3>1, PhraseRange
  <2>2. p >= BYTE * BYTE * BYTE
    BY <1>1, <1>2, <1>4, <1>11, PhraseAtLeast
  <2> QED BY <1>6, <2>1, <2>2
<1> QED BY <1>4, <1>8, <1>9, <1>10, <1>11

(* A set of numbers that is not empty has a least element.                  *)
LEMMA LeastNumber ==
  ASSUME NEW S \in SUBSET Nat, S # {}
  PROVE  \E i \in S : \A j \in S : i <= j
<1>1. PICK x \in S : \A y \in S : ~ (<<y, x>> \in OpToRel(<, Nat))
  BY WFMin, NatLessThanWellFounded
<1>2. \A y \in S : ~ (y < x)
  BY <1>1 DEF OpToRel
<1> QED BY <1>2

(* Whatever arrives, what is read is a phrase.                              *)
LEMMA ReadsPhrase ==
  ASSUME NEW s \in Seq(Chars)
  PROVE  HexStringToInt(s) \in Phrases
<1> DEFINE ends == {i \in DOMAIN s : s[i][1] # "hex"}
           end == CHOOSE i \in ends : \A j \in ends : i <= j
           digits == IF ends = {} THEN s ELSE SubSeq(s, 1, end - 1)
<1>1. 0 \in Byte /\ 12 \in Byte /\ BYTE \in Nat
  BY NiosAssumption DEF Byte
<1>2. 12 \in Phrases /\ MaxPhrase \in Phrases
  <2>1. PhraseOf(<<0, 0, 0, 12>>) \in Phrases
    BY <1>1, PhraseRange
  <2>2. PhraseOf(<<0, 0, 0, 12>>) = 12
    BY <1>1 DEF PhraseOf
  <2>3. MaxPhrase \in Int
    BY Powers, <1>1 DEF MaxPhrase
  <2> QED BY <2>1, <2>2, <2>3 DEF Phrases
<1>3. digits \in Seq(Chars)
  <2>1. CASE ends = {}
    BY <2>1
  <2>2. CASE ends # {}
    <3>1. ends \subseteq Nat /\ \E i \in ends : \A j \in ends : i <= j
      <4>1. ends \subseteq 1 .. Len(s) /\ ends # {}
        BY <2>2
      <4> HIDE DEF ends
      <4> QED BY <4>1, LeastNumber
    <3>2. end \in ends
      <4> HIDE DEF ends
      <4> QED BY <3>1
    <3>3. end \in 1 .. Len(s)
      BY <3>2
    <3> HIDE DEF end, ends
    <3> QED BY <2>2, <3>3
  <2> QED BY <2>1, <2>2
<1>4. \A k \in 0 .. 3 : FromLast(digits, k) \in Byte
  <2> HIDE DEF digits
  <2> QED BY <1>1, <1>3 DEF FromLast, Chars
<1>5. PhraseOf(<<FromLast(digits, 3), FromLast(digits, 2), FromLast(digits, 1),
                 FromLast(digits, 0)>>) \in Phrases
  <2> HIDE DEF digits
  <2>1. /\ FromLast(digits, 3) \in Byte /\ FromLast(digits, 2) \in Byte
        /\ FromLast(digits, 1) \in Byte /\ FromLast(digits, 0) \in Byte
    BY <1>4
  <2> QED BY <2>1, PhraseRange
<1>6. \/ HexStringToInt(s) = 12
      \/ HexStringToInt(s) = MaxPhrase
      \/ HexStringToInt(s) = PhraseOf(<<FromLast(digits, 3), FromLast(digits, 2),
                                        FromLast(digits, 1), FromLast(digits, 0)>>)
  BY DEF HexStringToInt, FromLast
<1> HIDE DEF digits
<1> QED BY <1>2, <1>5, <1>6

----------------------------------------------------------------------------
(* Steps of the FPGA.                                                       *)

(* A byte is a phrase too, and a mode is a byte.                            *)
LEMMA BytesArePhrases == Byte \subseteq Phrases /\ 0 .. 1 \subseteq Byte
<1>1. ASSUME NEW d \in Byte PROVE d \in Phrases
  <2>1. 0 \in Byte /\ d \in Nat /\ BYTE \in Nat
    BY NiosAssumption DEF Byte
  <2>2. PhraseOf(<<0, 0, 0, d>>) \in Phrases
    BY <2>1, PhraseRange
  <2>3. PhraseOf(<<0, 0, 0, d>>) = d
    BY <2>1 DEF PhraseOf
  <2> QED BY <2>2, <2>3
<1> QED BY <1>1, NiosAssumption DEF Byte

(* Four bytes of a sequence are a phrase.                                   *)
LEMMA FourBytes ==
  ASSUME NEW b \in Seq(Byte), Len(b) = 4
  PROVE  PhraseOf(b) \in Phrases
<1>0. \A i \in 1 .. 4 : b[i] \in Byte
  BY ElementOfSeq
<1>1. b[1] \in Byte /\ b[2] \in Byte /\ b[3] \in Byte /\ b[4] \in Byte
  BY <1>0
<1>2. PhraseOf(<<b[1], b[2], b[3], b[4]>>) \in Phrases
  BY <1>1, PhraseRange
<1> QED BY <1>2 DEF PhraseOf

(* The registers keep their ranges, and what is answered is characters.     *)
LEMMA NiosTyped ==
  ASSUME NEW m \in Registers, NEW byte \in Byte, Len(m.got) < 4
  PROVE  /\ NiosStep(m, byte).to \in Registers /\ Len(NiosStep(m, byte).to.got) < 4
         /\ NiosStep(m, byte).say \in Seq(Chars)
<1>1. NL \in Chars /\ <<"text", 0>> \in Chars /\ <<"raw", m.mode>> \in Chars
      /\ Limited(byte) \in 0 .. 1 /\ <<"raw", Limited(byte)>> \in Chars
  <2>1. 0 \in Byte /\ 1 \in Byte /\ m.mode \in 0 .. 1 /\ byte \in Nat
    BY NiosAssumption DEF Byte, Registers
  <2>2. Limited(byte) \in 0 .. 1
    BY <2>1 DEF Limited
  <2> QED BY <2>1, <2>2, BytesArePhrases DEF Chars, NL
<1>2. CASE m.wait = "command"
  <2>1. NiosStep(m, byte) = Command(m, byte)
    BY <1>2 DEF NiosStep
  <2>2. Hex(m.phrase) \in Seq(Chars)
    BY HexShape DEF Registers
  <2>3. Raw(m.mode) \in Seq(Chars) /\ NotDefined \in Seq(Chars)
    BY <1>1 DEF Raw, NotDefined
  <2>4. CASE byte \in {5, 7}
    BY <2>1, <2>2, <2>3, <2>4 DEF Command
  <2>5. CASE byte \in {6, 8}
    <3> DEFINE to == [m EXCEPT !.wait = IF byte = 6 THEN "phrase" ELSE "mode"]
    <3>1. to \in Registers /\ to.got = m.got /\ << >> \in Seq(Chars)
      BY DEF Registers
    <3>2. NiosStep(m, byte) = [to |-> to, say |-> << >>]
      BY <2>1, <2>5 DEF Command
    <3> HIDE DEF to
    <3> QED BY <3>1, <3>2
  <2>6. CASE byte \notin {5, 6, 7, 8}
    BY <2>1, <2>3, <2>6 DEF Command
  <2> QED BY <2>4, <2>5, <2>6
<1>3. CASE m.wait = "phrase"
  <2> DEFINE got == Append(m.got, byte)
  <2>1. NiosStep(m, byte) = PhraseByte(m, byte)
    BY <1>3 DEF NiosStep
  <2>2. got \in Seq(Byte) /\ Len(got) = Len(m.got) + 1
    BY DEF Registers
  <2> HIDE DEF got
  <2>3. CASE Len(got) < 4
    <3> DEFINE to == [m EXCEPT !.got = got]
    <3>1. NiosStep(m, byte) = [to |-> to, say |-> << >>]
      BY <2>1, <2>3 DEF PhraseByte, got
    <3>2. to \in Registers /\ to.got = got
      BY <2>2 DEF Registers
    <3> HIDE DEF to
    <3>3. << >> \in Seq(Chars)
      OBVIOUS
    <3> QED BY <2>3, <3>1, <3>2, <3>3
  <2>4. CASE ~ (Len(got) < 4)
    <3>1. Len(m.got) \in Nat /\ Len(got) = 4 /\ got \in Seq(Byte)
      BY <2>2, <2>4 DEF Registers
    <3>2. PhraseOf(got) \in Phrases
      BY <3>1, FourBytes
    <3> DEFINE p == PhraseOf(got)
    <3>3. p \in Phrases /\ Hex(p) \in Seq(Chars)
      BY <3>2, HexShape
    <3>4. NiosStep(m, byte) = [to |-> Set(m, p), say |-> Hex(p)]
      BY <2>1, <2>4 DEF PhraseByte, got
    <3> HIDE DEF p
    <3> DEFINE to == Set(m, p)
    <3>5. to.got = << >>
      BY DEF Set, Registers
    <3>6. to \in Registers
      <4>1. << >> \in Seq(Byte)
        OBVIOUS
      <4>2. to = [m EXCEPT !.wait = "command", !.got = << >>, !.phrase = p]
        BY DEF Set
      <4> HIDE DEF to
      <4> QED BY <3>3, <4>1, <4>2 DEF Registers
    <3> HIDE DEF to
    <3> QED BY <3>3, <3>4, <3>5, <3>6 DEF to
  <2> QED BY <2>3, <2>4
<1>4. CASE m.wait = "mode"
  <2>1. NiosStep(m, byte) = ModeByte(m, byte)
    BY <1>4 DEF NiosStep
  <2>2. Raw(Limited(byte)) \in Seq(Chars)
    BY <1>1 DEF Raw
  <2> DEFINE to == [m EXCEPT !.wait = "command", !.mode = Limited(byte)]
  <2>3. to \in Registers /\ to.got = m.got
    BY <1>1 DEF Registers
  <2>4. NiosStep(m, byte) = [to |-> to, say |-> Raw(Limited(byte))]
    BY <2>1 DEF ModeByte
  <2> HIDE DEF to
  <2> QED BY <2>2, <2>3, <2>4
<1> QED BY <1>2, <1>3, <1>4 DEF Registers

----------------------------------------------------------------------------
(* Sequences.                                                               *)

(* The head of one sequence moved to the end of another: together they      *)
(* are the same.                                                            *)
LEMMA MoveOne ==
  ASSUME NEW S, NEW s \in Seq(S), NEW t \in Seq(S), t # << >>
  PROVE  /\ Append(s, Head(t)) \o Tail(t) = s \o t
         /\ Append(s, Head(t)) \in Seq(S) /\ Tail(t) \in Seq(S) /\ Head(t) \in S
         /\ Len(Tail(t)) = Len(t) - 1
<1> DEFINE u == Append(s, Head(t)) \o Tail(t)
<1>1. /\ Append(s, Head(t)) \in Seq(S) /\ Tail(t) \in Seq(S) /\ Head(t) \in S
      /\ Len(Tail(t)) = Len(t) - 1 /\ Len(t) \in Nat /\ Len(t) > 0 /\ Len(s) \in Nat
      /\ Len(Append(s, Head(t))) = Len(s) + 1
  OBVIOUS
<1>2. u \in Seq(S) /\ Len(u) = Len(s) + Len(t) /\ s \o t \in Seq(S) /\ Len(s \o t) = Len(s) + Len(t)
  BY <1>1
<1>3. ASSUME NEW i \in 1 .. Len(u) PROVE u[i] = (s \o t)[i]
  <2>1. CASE i <= Len(s)
    BY <1>1, <2>1
  <2>2. CASE i = Len(s) + 1
    BY <1>1, <2>2
  <2>3. CASE i > Len(s) + 1
    BY <1>1, <1>2, <2>3
  <2> QED BY <1>1, <2>1, <2>2, <2>3
<1> HIDE DEF u
<1>4. u = s \o t
  BY <1>2, <1>3, SeqEqual
<1> QED BY <1>1, <1>4 DEF u

(* The head taken from the first of two sequences.                          *)
LEMMA TakeOne ==
  ASSUME NEW S, NEW s \in Seq(S), NEW t \in Seq(S), s # << >>
  PROVE  /\ Len(Tail(s) \o t) = Len(s \o t) - 1
         /\ Head(s) = (s \o t)[1] /\ Head(s) \in S /\ Tail(s) \in Seq(S)
         /\ Len(s \o t) = Len(s) + Len(t) /\ Len(s) > 0 /\ s \o t # << >>
OBVIOUS

(* An empty sequence before or after another.                               *)
LEMMA NothingBefore ==
  ASSUME NEW S, NEW s \in Seq(S)
  PROVE  << >> \o s = s /\ s \o << >> = s
OBVIOUS

(* One element in front of a sequence.                                      *)
LEMMA InFront ==
  ASSUME NEW S, NEW x \in S, NEW b \in Seq(S)
  PROVE  <<x>> \o b \in Seq(S) /\ Len(<<x>> \o b) = Len(b) + 1 /\ (<<x>> \o b)[1] = x
OBVIOUS

(* One element after a sequence.                                            *)
LEMMA OneMore ==
  ASSUME NEW S, NEW s \in Seq(S), NEW t \in Seq(S), Len(t) = 1
  PROVE  /\ Len(s \o t) = Len(s) + 1 /\ Len(s) \in Nat
         /\ \A i \in 1 .. Len(s) : (s \o t)[i] = s[i]
<1>1. Len(s) \in Nat
  OBVIOUS
<1>2. Len(s \o t) = Len(s) + Len(t)
  BY ConcatProperties
<1>3. ASSUME NEW i \in 1 .. Len(s) PROVE (s \o t)[i] = s[i]
  BY ConcatProperties
<1> QED BY <1>1, <1>2, <1>3

(* Parts of a sequence that is not empty.                                   *)
LEMMA HeadAndTail ==
  ASSUME NEW S, NEW s \in Seq(S), s # << >>
  PROVE  /\ Len(s) \in Nat /\ Len(s) > 0 /\ Tail(s) \in Seq(S) /\ Len(Tail(s)) = Len(s) - 1
         /\ Head(s) = s[1] /\ Head(s) \in S
         /\ \A i \in 1 .. Len(s) - 1 : Tail(s)[i] = s[i + 1]
         /\ Len(s) = 1 => Tail(s) = << >>
OBVIOUS

----------------------------------------------------------------------------
(* What the assumptions say of the constants.                               *)

(* What the assumptions say of the constants.                               *)
LEMMA Constants ==
  /\ PER \in Nat /\ PER > 0 /\ FMAX \in Nat /\ FMAX > 0 /\ RX_SIZE \in Nat /\ RX_SIZE >= 5
  /\ BYTE \in Nat /\ {0, 1, 5, 6, 7, 8, BYTE - 1, BYTE - 2} \subseteq Byte
  /\ PER * FMAX \in Nat /\ Phrases \subseteq Nat
  /\ \A i \in 1 .. 3 : STEPS[i] \in Nat
<1>1. /\ PER \in Nat /\ PER > 0 /\ FMAX \in Nat /\ FMAX > 0 /\ RX_SIZE \in Nat /\ RX_SIZE >= 5
      /\ \A i \in 1 .. 3 : STEPS[i] \in Nat
  BY PanelAssumption
<1> QED BY <1>1, NiosAssumption DEF Byte, Phrases

(* A frequency in range has a phrase in range, and the other way round.     *)
LEMMA PhrasesOfFrequencies ==
  /\ \A f \in 0 .. FMAX : Phrase(f) \in Phrases /\ Phrase(f) <= PER * FMAX
  /\ \A p \in Phrases : p <= PER * FMAX => FrequencyFromPhrase(p) \in 0 .. FMAX
<1>1. ASSUME NEW f \in 0 .. FMAX PROVE Phrase(f) \in Phrases /\ Phrase(f) <= PER * FMAX
  <2>1. PER * f <= PER * FMAX /\ PER * f \in Nat
    BY Constants
  <2>2. PER * FMAX <= MaxPhrase /\ MaxPhrase \in Int
    BY PanelAssumption, Powers DEF Phrases, MaxPhrase
  <2> QED BY <2>1, <2>2, Constants DEF Phrase, Phrases
<1>2. ASSUME NEW p \in Phrases, p <= PER * FMAX PROVE FrequencyFromPhrase(p) \in 0 .. FMAX
  <2> DEFINE q == p \div PER
  <2>1. p \in Nat /\ PER \in Nat /\ PER > 0 /\ FMAX \in Nat
    BY Constants
  <2>2. q \in Nat /\ PER * q <= p
    BY <2>1
  <2>3. PER * q <= PER * FMAX /\ PER * FMAX \in Nat /\ PER * q \in Nat
    BY <1>2, <2>1, <2>2, Constants
  <2> HIDE DEF q
  <2>4. SUFFICES ASSUME q >= FMAX + 1 PROVE FALSE
    BY <2>1, <2>2 DEF FrequencyFromPhrase, q
  <2>5. PER * q >= PER * (FMAX + 1)
    BY <2>1, <2>2, <2>4
  <2>6. PER * (FMAX + 1) = PER * FMAX + PER
    BY <2>1
  <2> QED BY <2>1, <2>3, <2>5, <2>6
<1> QED BY <1>1, <1>2

(* A command about to be sent.                                              *)
LEMMA Calls ==
  /\ GetFrequency = [kind |-> "getFrequency", out |-> <<5>>, in |-> << >>, answer |-> 0]
  /\ GetMode = [kind |-> "getMode", out |-> <<7>>, in |-> << >>, answer |-> 0]
  /\ \A p \in Phrases :
       \E bytes \in Seq(Byte) :
         /\ Len(bytes) = 5 /\ bytes[1] = 6
         /\ SetFrequency(p) = [kind |-> "setFrequency", out |-> bytes, in |-> << >>, answer |-> 0]
  /\ \A m \in 0 .. 1 :
       SetMode(m) = [kind |-> "setMode", out |-> <<8, m>>, in |-> << >>, answer |-> 0]
<1>1. ASSUME NEW b \in Seq(Byte), Len(b) = 4
      PROVE  /\ <<6>> \o b \in Seq(Byte) /\ Len(<<6>> \o b) = 5 /\ (<<6>> \o b)[1] = 6
  <2>1. 6 \in Byte
    BY Constants
  <2>2. <<6>> \o b \in Seq(Byte) /\ Len(<<6>> \o b) = Len(b) + 1 /\ (<<6>> \o b)[1] = 6
    BY <2>1, InFront
  <2> QED BY <1>1, <2>2
<1>2. ASSUME NEW p \in Phrases
      PROVE  \E bytes \in Seq(Byte) :
               Len(bytes) = 5 /\ bytes[1] = 6 /\ bytes = <<6>> \o Bytes(p)
  BY <1>1, BytesOfPhrase
<1> QED BY <1>2 DEF GetFrequency, GetMode, SetFrequency, SetMode, NewCall

Callings == [kind : Kinds, out : Seq(Byte), in : Seq(Chars), answer : Phrases]

----------------------------------------------------------------------------
(* The start.                                                               *)

(* The panel has its first command to send, and the FPGA waits for one.     *)
LEMMA Starting == Init => Inv
<1> SUFFICES ASSUME Init PROVE Inv
  OBVIOUS
<1>1. PICK f \in 0 .. FMAX, m \in 0 .. 1 : fpga = NiosBoot(Phrase(f), m)
  BY DEF Init
<1>2. /\ fpga.wait = "command" /\ fpga.got = << >> /\ fpga.phrase = Phrase(f)
      /\ fpga.mode = m /\ fpga \in Registers
  BY <1>1, PhrasesOfFrequencies DEF NiosBoot, Registers
<1>3. /\ pc = "send" /\ call.kind = "getFrequency" /\ call.out = <<5>> /\ call.in = << >>
      /\ up = << >> /\ down = << >>
  BY Calls DEF Init
<1>4. Typed
  <2>1. call \in Callings
    <3>1. <<5>> \in Seq(Byte) /\ << >> \in Seq(Chars) /\ 0 \in Phrases
      BY Constants, BytesArePhrases
    <3> QED BY <3>1, Calls DEF Init, Callings, Kinds
  <2>2. TypeOK
    <3>1. 1 \in 0 .. FMAX
      BY Constants
    <3> QED BY <1>2, <3>1, Constants, PhrasesOfFrequencies DEF Init, TypeOK
  <2>3. down \in Seq(Chars) /\ turns \in Nat /\ lost \in [up : Nat, down : Nat]
    BY DEF Init
  <2> QED BY <1>2, <1>3, <2>1, <2>2, <2>3 DEF Typed, Callings, Kinds
<1>5. Commanding
  BY <1>2, <1>3 DEF Commanding, Ready, Rest, Length, Code
<1>6. fpga.phrase <= PER * FMAX
  BY <1>2, PhrasesOfFrequencies
<1> QED BY <1>3, <1>4, <1>5, <1>6 DEF Inv, Agreed, Started, Truthful

----------------------------------------------------------------------------
(* The commands.                                                            *)

(* A byte passes from the command to the wire.                              *)
LEMMA Sending == Inv /\ Send => Inv'
<1> SUFFICES ASSUME Inv, Send PROVE Inv'
  OBVIOUS
<1> DEFINE c == [call EXCEPT !.out = Tail(call.out)]
<1>1. /\ pc = "send" /\ call \in Callings /\ call.out # << >> /\ up \in Seq(Byte)
      /\ up' = Append(up, Head(call.out)) /\ call' = c
      /\ pc' = IF Len(call.out) > 1 THEN "send" ELSE "read"
      /\ UNCHANGED <<panelVars, down, fpga, turns, lost>>
  BY DEF Inv, Typed, TypeOK, Send, Callings, Byte
<1>2. call.out \in Seq(Byte) /\ call.in \in Seq(Chars) /\ call.kind \in Kinds
  BY <1>1 DEF Callings
<1>3. /\ up' \o Tail(call.out) = up \o call.out
      /\ up' \in Seq(Byte) /\ Tail(call.out) \in Seq(Byte)
      /\ Len(Tail(call.out)) = Len(call.out) - 1
  <2>1. up \in Seq(Byte) /\ call.out \in Seq(Byte) /\ call.out # << >>
    BY <1>1, <1>2
  <2>2. /\ Append(up, Head(call.out)) \o Tail(call.out) = up \o call.out
        /\ Append(up, Head(call.out)) \in Seq(Byte) /\ Tail(call.out) \in Seq(Byte)
        /\ Len(Tail(call.out)) = Len(call.out) - 1
    BY Zenon, <2>1, MoveOne
  <2> QED BY <1>1, <2>2
<1>4. /\ c \in Callings /\ c.out = Tail(call.out) /\ c.in = call.in /\ c.kind = call.kind
      /\ c.answer = call.answer
  BY <1>1, <1>3 DEF Callings
<1> HIDE DEF c
<1>5. Typed'
  <2>1. /\ call' \in Callings /\ pc' \in {"send", "read"}
        /\ (pc' = "send" => call'.out # << >>) /\ (pc' = "read" => call'.out = << >>)
    <3>1. Len(call.out) \in Nat /\ Len(call.out) > 0
      BY <1>1, <1>2
    <3>2. Len(call'.out) = Len(call.out) - 1 /\ call'.out \in Seq(Byte)
      BY <1>1, <1>3, <1>4
    <3> QED BY <1>1, <1>4, <3>1, <3>2
  <2>2. TypeOK'
    BY <1>1, <1>3 DEF Inv, Typed, TypeOK, panelVars, Byte
  <2> QED BY <1>1, <2>1, <2>2 DEF Inv, Typed, Callings, Kinds
<1>6. Agreed'
  <2>1. SUFFICES ASSUME lost.up = 0 \/ call.kind = "getFrequency"
                 PROVE  Commanding' /\ pc' \in {"send", "read"}
    BY <1>1, <1>4 DEF Agreed
  <2>2. Commanding
    BY <1>1, <2>1 DEF Inv, Agreed
  <2>3. Rest' = Rest
    BY <1>1, <1>3, <1>4 DEF Rest
  <2> QED BY <1>1, <1>4, <2>2, <2>3 DEF Commanding, Ready
<1>7. Started' /\ Truthful'
  BY <1>1, <1>4 DEF Inv, Started, Truthful, NothingLost
<1> QED BY <1>5, <1>6, <1>7 DEF Inv

(* What the invariant says while an answer is waited for.                   *)
LEMMA WhenReading ==
  ASSUME Inv, pc = "read", lost.up = 0 \/ call.kind = "getFrequency",
         up = << >> \/ down # << >>
  PROVE  Answering
<1>1. up \in Seq(Byte) /\ call.out = << >> /\ (Commanding \/ Answering)
  BY DEF Inv, Agreed, Typed, TypeOK, Byte
<1>2. CASE Commanding
  <2>1. up = << >>
    BY <1>2 DEF Commanding
  <2>2. Rest = << >>
    BY <1>1, <2>1 DEF Rest
  <2>3. Length(call.kind) > 0
    BY DEF Length
  <2> QED BY <1>2, <2>2, <2>3 DEF Commanding
<1> QED BY <1>1, <1>2

(* An answer of which nothing was lost is waited for until it is there.     *)
LEMMA AnswerComes ==
  ASSUME Inv, NothingLost, pc = "read", up = << >>
  PROVE  down # << >>
<1>1. Answering /\ fpga \in Registers /\ call \in Callings
  BY WhenReading DEF NothingLost, Inv, Typed, Callings
<1> SUFFICES ASSUME down = << >> PROVE FALSE
  OBVIOUS
<1>2. CASE ReadsString
  <2>1. Cut(Hex(fpga.phrase)) /\ call.in \in Seq(HexChars)
    BY <1>1, <1>2 DEF Answering, Cut
  <2>2. call.in = Hex(fpga.phrase)
    BY <2>1, NothingBefore DEF Cut, Come
  <2>3. fpga.phrase \in Phrases
    BY <1>1 DEF Registers
  <2> DEFINE hex == Hex(fpga.phrase)
  <2>4. Len(hex) \in 2 .. 5 /\ hex[Len(hex)] = NL
    BY <2>3, HexShape
  <2> HIDE DEF hex
  <2>5. hex \in Seq(HexChars)
    BY <2>1, <2>2 DEF hex
  <2>6. NL \in HexChars
    BY <2>4, <2>5, ElementOfSeq
  <2> QED BY <2>6 DEF NL, HexChars
<1>3. CASE ~ ReadsString
  BY <1>1, <1>3 DEF Answering, Raw
<1> QED BY <1>2, <1>3


(* The end of the line is the last character that comes, and the number     *)
(* before it is at most the phrase.                                         *)
LEMMA ReadNumber ==
  ASSUME Answering, ReadsString, down # << >>, Head(down) = NL,
         fpga \in Registers, down \in Seq(Chars)
  PROVE  /\ Len(down) = 1 /\ HexStringToInt(call.in) <= fpga.phrase
         /\ NothingLost => HexStringToInt(call.in) = fpga.phrase
<1> DEFINE p == fpga.phrase
           hex == Hex(p)
           s == call.in
<1>1. p \in Phrases /\ p \in Nat
  BY Constants DEF Registers
<1>2. s \in Seq(HexChars) /\ Cut(hex)
  BY DEF Answering, Cut
<1>3. Len(down) = 1
  <2>1. Len(down) \in Nat /\ Len(down) > 0 /\ down[1] = NL
    BY HeadAndTail
  <2>2. NL \notin HexChars
    BY DEF NL, HexChars
  <2>3. \A i \in 1 .. Len(down) : down[i] \in HexChars \/ i = Len(down)
    BY <1>2 DEF Cut
  <2>4. 1 \in 1 .. Len(down)
    BY <2>1
  <2> QED BY <2>1, <2>2, <2>3, <2>4
<1>4. /\ Len(Come) = Len(s) + 1 /\ Len(s) \in Nat
      /\ \A i \in 1 .. Len(s) : Come[i] = s[i]
  <2>1. s \in Seq(Chars)
    <3>1. HexChars \subseteq Chars
      BY DEF HexChars, Chars
    <3> QED BY <1>2, <3>1
  <2> HIDE DEF s
  <2>2. Come = s \o down
    BY DEF Come, s
  <2> QED BY <1>3, <2>1, <2>2, OneMore
<1>5. Len(hex) \in 2 .. 5
  BY <1>1, HexShape
<1>6. Len(Come) <= Len(hex) /\ (NothingLost \/ Len(Come) = Len(hex) => Come = hex)
  BY <1>2 DEF Cut
<1> HIDE DEF s, hex, p
<1>7. ASSUME Come = hex PROVE HexStringToInt(s) = p
  <2>1. Len(s) + 1 = Len(Hex(p)) /\ \A i \in 1 .. Len(s) : s[i] = Hex(p)[i]
    BY <1>4, <1>7 DEF hex
  <2> QED BY <1>1, <1>2, <2>1, ReadsBack
<1>8. ASSUME Come # hex PROVE HexStringToInt(s) <= p /\ ~ NothingLost
  <2>1. Len(s) + 1 < Len(Hex(p)) /\ ~ NothingLost
    BY <1>4, <1>5, <1>6, <1>8 DEF hex
  <2> QED BY <1>1, <1>2, <2>1, ReadsLess
<1> QED BY <1>1, <1>3, <1>7, <1>8 DEF s, p

(* A character of the answer is read: the answer is complete, or more of    *)
(* it is to come.                                                           *)
LEMMA Reading == Inv /\ Read => Inv'
<1> SUFFICES ASSUME Inv, Read PROVE Inv'
  OBVIOUS
<1>1. /\ pc = "read" /\ down # << >> /\ down' = Tail(down)
      /\ UNCHANGED <<panelVars, up, fpga, turns, lost>>
      /\ call \in Callings /\ down \in Seq(Chars) /\ call.out = << >> /\ fpga \in Registers
  BY DEF Inv, Typed, Read, Callings
<1>2. call.out \in Seq(Byte) /\ call.in \in Seq(Chars) /\ call.kind \in Kinds
  BY <1>1 DEF Callings
<1>3. /\ Append(call.in, Head(down)) \o Tail(down) = call.in \o down
      /\ Append(call.in, Head(down)) \in Seq(Chars) /\ Tail(down) \in Seq(Chars)
      /\ Head(down) \in Chars /\ Len(Tail(down)) = Len(down) - 1
      /\ Len(down) \in Nat /\ Len(down) > 0
  <2>1. /\ Append(call.in, Head(down)) \o Tail(down) = call.in \o down
        /\ Append(call.in, Head(down)) \in Seq(Chars)
    BY Zenon, <1>1, <1>2, MoveOne
  <2>2. /\ Tail(down) \in Seq(Chars) /\ Head(down) \in Chars /\ Len(Tail(down)) = Len(down) - 1
        /\ Len(down) \in Nat /\ Len(down) > 0
    BY Zenon, <1>1, HeadAndTail
  <2> QED BY <2>1, <2>2
<1>4. /\ TypeOK' /\ down' \in Seq(Chars) /\ fpga' \in Registers
      /\ turns' \in Nat /\ lost' \in [up : Nat, down : Nat]
  BY <1>1, <1>3, Constants DEF Inv, Typed, TypeOK, panelVars
<1>5. lost.up = 0 \/ call.kind = "getFrequency" => Answering
  BY <1>1, WhenReading
<1>6. CASE ReadsString /\ Head(down) # NL
  <2> DEFINE c == [call EXCEPT !.in = Append(call.in, Head(down))]
  <2>1. call' = c /\ pc' = "read"
    BY <1>1, <1>6 DEF Read
  <2>2. /\ c \in Callings /\ c.out = << >> /\ c.in = Append(call.in, Head(down))
        /\ c.kind = call.kind /\ c.answer = call.answer
    BY <1>1, <1>3 DEF Callings
  <2> HIDE DEF c
  <2>3. Typed'
    BY <1>4, <2>1, <2>2 DEF Typed, Callings, Kinds
  <2>4. Agreed'
    <3>1. SUFFICES ASSUME lost.up = 0 \/ call.kind = "getFrequency" PROVE Answering'
      BY <1>1, <2>1, <2>2 DEF Agreed
    <3>2. Answering
      BY <1>5, <3>1
    <3>3. ReadsString' /\ Come' = Come /\ (NothingLost' <=> NothingLost)
      BY <1>1, <1>3, <1>6, <2>1, <2>2 DEF ReadsString, Come, NothingLost
    <3>4. \A i \in 1 .. Len(down) : down[i] \in HexChars \/ (i = Len(down) /\ down[i] = NL)
      BY <1>6, <3>2 DEF Answering, Cut
    <3>5. Head(down) = down[1] /\ \A i \in 1 .. Len(down) - 1 : Tail(down)[i] = down[i + 1]
      BY <1>1, HeadAndTail
    <3>6. Head(down) \in HexChars
      <4>1. 1 \in 1 .. Len(down)
        BY <1>3
      <4> QED BY <1>6, <3>4, <3>5, <4>1
    <3>7. Append(call.in, Head(down)) \in Seq(HexChars)
      BY <1>6, <3>2, <3>6 DEF Answering, Cut
    <3>8. \A i \in 1 .. Len(down') :
            down'[i] \in HexChars \/ (i = Len(down') /\ down'[i] = NL)
      <4>1. SUFFICES ASSUME NEW i \in 1 .. Len(Tail(down))
                     PROVE  \/ Tail(down)[i] \in HexChars
                            \/ i = Len(Tail(down)) /\ Tail(down)[i] = NL
        BY <1>1
      <4>2. i \in 1 .. Len(down) - 1 /\ i + 1 \in 1 .. Len(down)
        BY <1>3
      <4>3. Tail(down)[i] = down[i + 1]
        BY <3>5, <4>2
      <4>4. down[i + 1] \in HexChars \/ (i + 1 = Len(down) /\ down[i + 1] = NL)
        BY <3>4, <4>2
      <4>5. i + 1 = Len(down) => i = Len(Tail(down))
        <5>1. Len(Tail(down)) = Len(down) - 1 /\ Len(down) \in Nat /\ i \in Nat
          BY <1>3, <4>2
        <5> QED BY <5>1
      <4> QED BY <4>3, <4>4, <4>5
    <3>9. Cut(Hex(fpga.phrase))'
      BY <1>1, <1>6, <2>1, <2>2, <3>2, <3>3, <3>7, <3>8 DEF Answering, Cut
    <3> QED BY <1>1, <3>2, <3>3, <3>9 DEF Answering, Ready
  <2>5. Started' /\ Truthful'
    BY <1>1, <2>1, <2>2 DEF Inv, Started, Truthful, NothingLost, panelVars
  <2> QED BY <2>3, <2>4, <2>5 DEF Inv
<1>7. CASE ~ (ReadsString /\ Head(down) # NL)
  <2> DEFINE v == IF ReadsString THEN HexStringToInt(call.in)
                  ELSE IF Head(down)[1] = "raw" THEN Head(down)[2] ELSE BYTE - 2
             c == [call EXCEPT !.in = << >>, !.answer = v]
  <2>1. call' = c /\ pc' = call.kind
    BY <1>1, <1>7 DEF Read
  <2>2. v \in Phrases
    <3>1. HexStringToInt(call.in) \in Phrases
      BY <1>2, ReadsPhrase
    <3>2. Head(down)[2] \in Byte /\ BYTE - 2 \in Byte
      BY <1>3, Constants DEF Chars
    <3> QED BY <3>1, <3>2, BytesArePhrases
  <2>3. lost.up = 0 \/ call.kind = "getFrequency" => Ready /\ up = << >> /\ Len(down) = 1
    <3>1. SUFFICES ASSUME Answering PROVE Ready /\ up = << >> /\ Len(down) = 1
      BY <1>5
    <3>2. CASE ReadsString
      BY <1>1, <1>7, <3>1, <3>2, ReadNumber DEF Answering
    <3>3. CASE ~ ReadsString
      BY <1>3, <3>1, <3>3 DEF Answering
    <3> QED BY <3>2, <3>3
  <2>4. call.kind = "getFrequency" => v <= PER * FMAX
    <3>1. SUFFICES ASSUME call.kind = "getFrequency" PROVE v <= PER * FMAX
      OBVIOUS
    <3>2. Answering /\ ReadsString
      BY <1>5, <3>1 DEF ReadsString
    <3>3. HexStringToInt(call.in) <= fpga.phrase
      BY <1>1, <1>7, <3>2, ReadNumber
    <3>4. fpga.phrase <= PER * FMAX
      BY <3>1 DEF Inv, Started
    <3>5. fpga.phrase \in Nat
      BY <1>1, Constants DEF Registers
    <3>6. v = HexStringToInt(call.in)
      BY <3>2
    <3> HIDE DEF v
    <3>7. v \in Nat /\ PER * FMAX \in Nat
      BY <2>2, Constants
    <3> QED BY <3>3, <3>4, <3>5, <3>6, <3>7
  <2>5. NothingLost => /\ call.kind \in {"getFrequency", "setFrequency"} => v = fpga.phrase
                       /\ call.kind = "setMode" => v = fpga.mode
    <3>1. SUFFICES ASSUME NothingLost
                   PROVE  /\ call.kind \in {"getFrequency", "setFrequency"} => v = fpga.phrase
                          /\ call.kind = "setMode" => v = fpga.mode
      OBVIOUS
    <3>2. Answering
      BY <1>5, <3>1 DEF NothingLost
    <3>3. CASE ReadsString
      <4>1. HexStringToInt(call.in) = fpga.phrase
        BY <1>1, <1>7, <3>1, <3>2, <3>3, ReadNumber
      <4> QED BY <3>3, <4>1 DEF ReadsString
    <3>4. CASE ~ ReadsString
      <4>1. Head(down) = <<"raw", fpga.mode>>
        BY <3>1, <3>2, <3>4 DEF Answering, Raw
      <4> QED BY <3>4, <4>1 DEF ReadsString
    <3> QED BY <3>3, <3>4
  <2> HIDE DEF v
  <2>6. /\ c \in Callings /\ c.out = << >> /\ c.in = << >>
        /\ c.kind = call.kind /\ c.answer = v
    <3>1. << >> \in Seq(Chars)
      OBVIOUS
    <3> QED BY <1>1, <2>2, <3>1 DEF Callings
  <2> HIDE DEF c
  <2>7. Typed'
    BY <1>2, <1>4, <2>1, <2>6 DEF Typed, Callings, Kinds
  <2>8. Agreed'
    <3>1. SUFFICES ASSUME lost.up = 0 \/ call.kind = "getFrequency" PROVE Quiet'
      BY <1>1, <1>2, <2>1, <2>6 DEF Agreed, Kinds
    <3>2. Ready /\ up = << >> /\ Len(down) = 1
      BY <2>3, <3>1
    <3>3. Tail(down) = << >>
      BY <1>1, <3>2
    <3> QED BY <1>1, <2>1, <2>6, <3>2, <3>3 DEF Quiet, Ready
  <2>9. Started' /\ Truthful'
    BY <1>1, <1>2, <2>1, <2>4, <2>5, <2>6
       DEF Inv, Started, Truthful, NothingLost, panelVars, Kinds
  <2> QED BY <2>7, <2>8, <2>9 DEF Inv
<1> QED BY <1>6, <1>7

(* A request is given up: something was lost, and both sides are quiet.     *)
LEMMA TimingOut == Inv /\ Timeout => Inv' /\ ~ NothingLost
<1> SUFFICES ASSUME Inv, Timeout PROVE Inv' /\ ~ NothingLost
  OBVIOUS
<1> DEFINE c == [call EXCEPT !.in = << >>, !.answer = TimedOut]
<1>1. /\ pc = "read" /\ down = << >> /\ up = << >> /\ pc' = call.kind /\ call' = c
      /\ UNCHANGED <<panelVars, up, down, fpga, turns, lost>>
      /\ call \in Callings /\ call.out = << >>
  BY DEF Inv, Typed, Timeout, Callings
<1>2. ~ NothingLost
  BY <1>1, AnswerComes
<1>3. /\ c \in Callings /\ c.out = << >> /\ c.in = << >> /\ c.kind = call.kind
      /\ call.kind \in Kinds
      /\ c.answer = TimedOut /\ (call.kind = "getFrequency" => TimedOut = 0)
  <2>1. TimedOut \in Phrases /\ << >> \in Seq(Chars)
    BY Constants, BytesArePhrases DEF TimedOut
  <2> HIDE DEF TimedOut
  <2>2. call.kind = "getFrequency" => TimedOut = 0
    BY DEF TimedOut, ReadsString
  <2> QED BY <1>1, <2>1, <2>2 DEF Callings
<1> HIDE DEF c
<1>4. Typed'
  BY <1>1, <1>3 DEF Inv, Typed, TypeOK, panelVars, Callings, Kinds
<1>5. Agreed'
  <2>1. SUFFICES ASSUME lost.up = 0 \/ call.kind = "getFrequency" PROVE Quiet'
    BY <1>1, <1>3 DEF Agreed, Kinds
  <2>2. Ready
    BY <1>1, <2>1, WhenReading DEF Answering
  <2> QED BY <1>1, <1>3, <2>2 DEF Quiet, Ready
<1>6. Started' /\ Truthful'
  BY <1>1, <1>2, <1>3, Constants DEF Inv, Started, Truthful, NothingLost, panelVars, Kinds
<1> QED BY <1>2, <1>4, <1>5, <1>6 DEF Inv

----------------------------------------------------------------------------
(* setup() and loop().                                                      *)

Program ==
    \/ GotFrequency \/ SetupNew \/ SetupFreq \/ GotMode
    \/ Loop \/ CallFrequency \/ FrequencyAnswered \/ StoreFrequency
    \/ LoopMode \/ CallMode \/ ModeAnswered \/ StoreMode

(* Steps that leave the command alone.                                      *)
LEMMA Deciding ==
  ASSUME Inv, UNCHANGED <<up, down, fpga, turns, lost, call>>,
         GotFrequency \/ SetupNew \/ GotMode \/ Loop \/ FrequencyAnswered
         \/ StoreFrequency \/ LoopMode \/ ModeAnswered \/ StoreMode
  PROVE  Inv'
<1>1. call \in Callings /\ call.kind \in Kinds /\ Typed
  BY DEF Inv, Typed, Callings
<1>2. pc \notin {"send", "read"} /\ pc' \notin {"send", "read"} \cup Kinds
  BY DEF GotFrequency, SetupNew, GotMode, Loop, FrequencyAnswered, StoreFrequency, LoopMode,
         ModeAnswered, StoreMode, Kinds
<1>3. TypeOK'
  <2>1. freq' = freq /\ freq_phrase' \in Phrases /\ freq_phrase_new' \in Phrases
        /\ mode' \in 0 .. 1 /\ mode_new' = mode_new
        /\ menu_control_current' = menu_control_current
    BY <1>1 DEF Typed, TypeOK, Callings, panelVars, GotFrequency, SetupNew, GotMode, Loop,
                FrequencyAnswered, StoreFrequency, LoopMode, ModeAnswered, StoreMode
  <2> QED BY <1>1, <2>1 DEF Typed, TypeOK
<1>4. Typed'
  <2>1. pc' \in {"setup_new", "setup_freq", "loop", "call_frequency", "store_frequency",
                 "loop_mode", "call_mode", "store_mode"}
    BY DEF GotFrequency, SetupNew, GotMode, Loop, FrequencyAnswered, StoreFrequency, LoopMode,
           ModeAnswered, StoreMode
  <2> QED BY <1>1, <1>2, <1>3, <2>1 DEF Typed, Kinds
<1>5. Agreed'
  <2>1. SUFFICES ASSUME lost.up = 0 \/ call.kind = "getFrequency" PROVE Quiet'
    BY <1>2 DEF Agreed
  <2>2. Quiet
    BY <1>2, <2>1 DEF Inv, Agreed
  <2> QED BY <2>2 DEF Quiet, Ready
<1>6. Started'
  <2>1. CASE GotFrequency \/ SetupNew
    <3>1. pc' \in {"setup_new", "setup_freq"} /\ freq_phrase' <= PER * FMAX
      BY <2>1 DEF GotFrequency, SetupNew, Inv, Started
    <3> QED BY <3>1 DEF Inv, Started
  <2>2. CASE ~ (GotFrequency \/ SetupNew)
    <3>1. call.kind # "getFrequency" /\ pc' \notin {"getFrequency", "setup_new", "setup_freq"}
      <4>1. pc \in {"getMode", "loop", "setFrequency", "store_frequency", "loop_mode",
                    "setMode", "store_mode"}
        BY <2>2 DEF GotMode, Loop, FrequencyAnswered, StoreFrequency, LoopMode,
           ModeAnswered, StoreMode
      <4>2. pc' \notin {"getFrequency", "setup_new", "setup_freq"}
        BY <2>2 DEF GotMode, Loop, FrequencyAnswered, StoreFrequency, LoopMode,
           ModeAnswered, StoreMode
      <4> QED BY <4>1, <4>2 DEF Inv, Started
    <3> QED BY <3>1 DEF Started
  <2> QED BY <2>1, <2>2
<1>7. Truthful'
  BY <1>2 DEF Truthful, Kinds
<1> QED BY <1>4, <1>5, <1>6, <1>7 DEF Inv

(* Steps that start another command.                                        *)
LEMMA Calling ==
  ASSUME Inv, UNCHANGED <<up, down, fpga, turns, lost>>,
         SetupFreq \/ CallFrequency \/ CallMode
  PROVE  Inv'
<1>1. Typed /\ TypeOK /\ freq_phrase_new \in Phrases /\ mode_new \in 0 .. 1
  BY DEF Inv, Typed, TypeOK
<1>2. pc \in {"setup_freq", "call_frequency", "call_mode"} /\ pc' = "send"
  BY DEF SetupFreq, CallFrequency, CallMode
<1>3. /\ call' \in Callings /\ call'.in = << >> /\ call'.out \in Seq(Byte)
      /\ call'.kind \in {"getMode", "setFrequency", "setMode"}
      /\ Len(call'.out) = Length(call'.kind) /\ call'.out[1] = Code(call'.kind)
      /\ call'.out # << >>
  <2>1. 0 \in Phrases /\ << >> \in Seq(Chars)
    BY Constants, BytesArePhrases
  <2>2. CASE SetupFreq
    <3>1. <<7>> \in Seq(Byte)
      BY Constants
    <3> QED BY <2>1, <2>2, <3>1, Calls DEF SetupFreq, Callings, Kinds, Length, Code
  <2>3. CASE CallFrequency
    <3>1. PICK bytes \in Seq(Byte) :
            /\ Len(bytes) = 5 /\ bytes[1] = 6
            /\ call' = [kind |-> "setFrequency", out |-> bytes, in |-> << >>, answer |-> 0]
      BY <1>1, <2>3, Calls DEF CallFrequency
    <3>2. call' \in Callings /\ call'.in = << >> /\ call'.out = bytes /\ call'.kind = "setFrequency"
      BY <2>1, <3>1 DEF Callings, Kinds
    <3>3. Length("setFrequency") = 5 /\ Code("setFrequency") = 6
      BY DEF Length, Code
    <3>4. bytes # << >>
      <4>1. Len(bytes) # 0
        BY <3>1
      <4> QED BY <4>1
    <3> QED BY <3>1, <3>2, <3>3, <3>4
  <2>4. CASE CallMode
    <3>1. <<8, mode_new>> \in Seq(Byte) /\ Len(<<8, mode_new>>) = 2 /\ (<<8, mode_new>>)[1] = 8
      BY <1>1, Constants, BytesArePhrases
    <3>2. call' = [kind |-> "setMode", out |-> <<8, mode_new>>, in |-> << >>, answer |-> 0]
      BY <1>1, <2>4, Calls DEF CallMode
    <3> QED BY <2>1, <3>1, <3>2 DEF Callings, Kinds, Length, Code
  <2> QED BY <2>2, <2>3, <2>4
<1>4. TypeOK'
  <2>1. freq' \in 0 .. FMAX
    <3>1. CASE SetupFreq
      BY <1>1, <3>1, PhrasesOfFrequencies DEF SetupFreq, Inv, Started, TypeOK
    <3>2. CASE CallFrequency \/ CallMode
      BY <1>1, <3>2 DEF CallFrequency, CallMode, panelVars, TypeOK
    <3> QED BY <3>1, <3>2
  <2>2. UNCHANGED <<freq_phrase, freq_phrase_new, mode, mode_new, menu_control_current>>
    BY DEF SetupFreq, CallFrequency, CallMode, panelVars
  <2> QED BY <1>1, <2>1, <2>2 DEF TypeOK
<1>5. Typed'
  BY <1>1, <1>2, <1>3, <1>4 DEF Typed, Callings, Kinds
<1>6. Agreed'
  <2>1. SUFFICES ASSUME lost.up = 0 PROVE Commanding'
    BY <1>2, <1>3 DEF Agreed
  <2>2. Quiet
    BY <1>2, <2>1 DEF Inv, Agreed
  <2>3. Rest' = call'.out
    BY <1>3, <2>2, NothingBefore DEF Quiet, Rest
  <2> QED BY <1>3, <2>2, <2>3 DEF Quiet, Commanding, Ready
<1>7. Started' /\ Truthful'
  BY <1>2, <1>3 DEF Started, Truthful
<1> QED BY <1>5, <1>6, <1>7 DEF Inv

----------------------------------------------------------------------------
(* The interrupts.                                                          *)

(* The interrupts change what is shown and wanted, and no command.          *)
LEMMA Interrupted ==
  ASSUME Inv, Clicked \/ \E direction \in {-1, 1} : Rotated(direction)
  PROVE  Inv'
<1>1. /\ UNCHANGED <<pc, call, freq_phrase, mode, up, down, fpga, lost>>
      /\ turns' \in Nat /\ Typed /\ TypeOK
  <2>1. turns \in Nat /\ Typed /\ TypeOK
    BY DEF Inv, Typed
  <2> QED BY <2>1 DEF Clicked, Rotated, mainVars
<1>2. /\ freq' \in 0 .. FMAX /\ freq_phrase_new' \in Phrases
      /\ mode_new' \in 0 .. 1 /\ menu_control_current' \in 1 .. 4
  <2>1. CASE Clicked
    BY <1>1, <2>1 DEF Clicked, TypeOK
  <2>2. ASSUME NEW direction \in {-1, 1}, Rotated(direction)
        PROVE  /\ freq' \in 0 .. FMAX /\ freq_phrase_new' \in Phrases
               /\ mode_new' \in 0 .. 1 /\ menu_control_current' \in 1 .. 4
    <3>1. CASE menu_control_current = MENU_MODE
      <4>1. TurnedMode(direction) \in 0 .. 1
        <5> DEFINE m == (mode + direction) % BYTE
        <5>1. mode + direction \in Int /\ BYTE \in Nat /\ BYTE > 0
          BY <1>1, Constants, NiosAssumption DEF TypeOK
        <5>2. m \in 0 .. BYTE - 1
          BY <5>1
        <5> HIDE DEF m
        <5>3. (IF m > 1 THEN 0 ELSE m) \in 0 .. 1
          BY <5>1, <5>2
        <5> QED BY <5>3 DEF TurnedMode, m
      <4> QED BY <1>1, <2>2, <3>1, <4>1 DEF Rotated, TypeOK
    <3>2. CASE menu_control_current # MENU_MODE
      <4>1. menu_control_current \in 1 .. 3
        BY <1>1, <3>2 DEF TypeOK, MENU_MODE
      <4> DEFINE turned == freq + direction * STEPS[menu_control_current]
      <4>2. turned \in Int
        <5>1. STEPS[menu_control_current] \in Nat
          BY <4>1, Constants
        <5>2. freq \in Int
          BY <1>1 DEF TypeOK
        <5> QED BY <5>1, <5>2
      <4>3. turned <= FMAX /\ freq' = (IF turned < 0 THEN 0 ELSE turned)
            /\ freq_phrase_new' = Phrase(freq')
            /\ UNCHANGED <<mode_new, menu_control_current>>
        BY <2>2, <3>2 DEF Rotated
      <4> HIDE DEF turned
      <4>4. freq' \in 0 .. FMAX
        BY <4>2, <4>3, Constants
      <4> QED BY <1>1, <4>3, <4>4, PhrasesOfFrequencies DEF TypeOK
    <3> QED BY <3>1, <3>2
  <2> QED BY <2>1, <2>2
<1>3. Typed'
  <2>1. TypeOK'
    BY <1>1, <1>2 DEF TypeOK
  <2> QED BY <1>1, <2>1 DEF Typed
<1>4. Agreed'
  BY <1>1 DEF Inv, Agreed, Commanding, Answering, Cut, Come, Quiet, Ready, Rest, ReadsString,
              NothingLost
<1>5. Started' /\ Truthful'
  BY <1>1 DEF Inv, Started, Truthful, NothingLost
<1> QED BY <1>3, <1>4, <1>5 DEF Inv

----------------------------------------------------------------------------
(* The wires and the FPGA.                                                  *)

(* A byte lost before the first answer was the whole command.               *)
LEMMA LosingUp == Inv /\ LoseUp => Inv'
<1> SUFFICES ASSUME Inv, LoseUp PROVE Inv'
  OBVIOUS
<1>1. /\ up # << >> /\ up' = Tail(up) /\ lost' = [lost EXCEPT !.up = lost.up + 1]
      /\ UNCHANGED <<pc, call, panelVars, down, fpga, turns>>
      /\ up \in Seq(Byte) /\ lost \in [up : Nat, down : Nat] /\ call \in Callings
  BY DEF LoseUp, mainVars, Inv, Typed, TypeOK, Byte, Callings
<1>2. /\ lost' \in [up : Nat, down : Nat] /\ lost'.up # 0 /\ ~ NothingLost'
  BY <1>1 DEF NothingLost
<1>3. Tail(up) \in Seq(Byte) /\ Len(up) \in Nat /\ Len(up) > 0 /\ Len(Tail(up)) = Len(up) - 1
      /\ (Len(up) = 1 => Tail(up) = << >>)
  BY <1>1, HeadAndTail
<1>4. Typed'
  <2>1. TypeOK'
    BY <1>1, <1>3 DEF Inv, Typed, TypeOK, panelVars, Byte
  <2> QED BY <1>1, <1>2, <2>1 DEF Inv, Typed
<1>5. Agreed'
  <2>1. SUFFICES ASSUME call.kind = "getFrequency" PROVE pc = "read" /\ Answering'
    BY <1>1, <1>2 DEF Agreed
  <2>2. Commanding /\ pc \in {"send", "read"}
    BY <1>1, <2>1 DEF Inv, Agreed, Quiet, Answering
  <2>3. call.out \in Seq(Byte) /\ Ready /\ Len(Rest) = 1 /\ down = << >> /\ call.in = << >>
    BY <1>1, <2>1, <2>2 DEF Commanding, Length, Callings
  <2>4. Len(Rest) = Len(up) + Len(call.out)
    BY <1>1, <2>3, TakeOne DEF Rest
  <2>5. Len(call.out) \in Nat
    BY <2>3
  <2>6. Len(up) = 1 /\ Len(call.out) = 0
    <3>1. Len(up) + Len(call.out) = 1 /\ Len(up) \in Nat /\ Len(up) > 0
      BY <1>3, <2>3, <2>4
    <3> DEFINE x == Len(up)
               y == Len(call.out)
    <3>2. x + y = 1 /\ x \in Nat /\ x > 0 /\ y \in Nat
      BY <2>5, <3>1
    <3> HIDE DEF x, y
    <3>3. x = 1 /\ y = 0
      BY <3>2
    <3> QED BY <3>3 DEF x, y
  <2>7. pc = "read"
    BY <2>2, <2>3, <2>6 DEF Inv, Typed
  <2>8. up' = << >> /\ Ready'
    BY <1>1, <1>3, <2>3, <2>6 DEF Ready
  <2>9. Cut(Hex(fpga.phrase))'
    <3>1. fpga'.phrase \in Phrases
      BY <1>1 DEF Inv, Typed, Registers
    <3>2. Len(Hex(fpga'.phrase)) \in 2 .. 5
      BY <3>1, HexShape
    <3>3. Come' = << >> /\ down' = << >> /\ call'.in = << >>
      BY <1>1, <2>3 DEF Come
    <3>4. Len(Come') = 0 /\ call'.in \in Seq(HexChars) /\ Len(down') = 0
      BY <3>3
    <3> QED BY <1>2, <3>2, <3>4 DEF Cut
  <2> QED BY <1>1, <2>1, <2>7, <2>8, <2>9 DEF Answering, ReadsString
<1>6. Started' /\ Truthful'
  BY <1>1, <1>2 DEF Inv, Started, Truthful, panelVars
<1> QED BY <1>4, <1>5, <1>6 DEF Inv

(* An answer that has lost a character is cut, and never completed.         *)
LEMMA LosingDown == Inv /\ LoseDown => Inv'
<1> SUFFICES ASSUME Inv, LoseDown PROVE Inv'
  OBVIOUS
<1>1. /\ down # << >> /\ down' = Tail(down) /\ lost' = [lost EXCEPT !.down = lost.down + 1]
      /\ UNCHANGED <<pc, call, panelVars, up, fpga, turns>>
      /\ down \in Seq(Chars) /\ lost \in [up : Nat, down : Nat] /\ call \in Callings
      /\ fpga \in Registers
  BY DEF LoseDown, mainVars, Inv, Typed, Callings
<1>2. lost' \in [up : Nat, down : Nat] /\ lost'.up = lost.up /\ lost'.down = lost.down + 1
      /\ ~ NothingLost'
  BY <1>1 DEF NothingLost
<1>3. /\ Tail(down) \in Seq(Chars) /\ Len(down) \in Nat /\ Len(down) > 0
      /\ Len(Tail(down)) = Len(down) - 1
      /\ \A i \in 1 .. Len(down) - 1 : Tail(down)[i] = down[i + 1]
  BY <1>1, HeadAndTail
<1>4. Typed'
  <2>1. TypeOK'
    <3>1. Len(down) <= RX_SIZE /\ RX_SIZE \in Nat
      BY Constants DEF Inv, Typed, TypeOK
    <3>2. Len(down') <= RX_SIZE
      BY <1>1, <1>3, <3>1
    <3> QED BY <1>1, <3>2 DEF Inv, Typed, TypeOK, panelVars
  <2> QED BY <1>1, <1>2, <1>3, <2>1 DEF Inv, Typed
<1>5. Agreed'
  <2>1. SUFFICES ASSUME lost.up = 0 \/ call.kind = "getFrequency"
                 PROVE  pc = "read" /\ Answering'
    BY <1>1, <1>2 DEF Agreed
  <2>2. pc = "read"
    BY <1>1, <2>1 DEF Inv, Agreed, Quiet, Commanding
  <2>3. Answering
    BY <1>1, <2>1, <2>2, WhenReading
  <2>4. CASE ReadsString
    <3>1. Cut(Hex(fpga.phrase)) /\ call.in \in Seq(HexChars)
      BY <2>3, <2>4 DEF Answering, Cut
    <3>2. call.in \in Seq(Chars)
      BY <1>1 DEF Callings
    <3>3. Len(Come) = Len(call.in) + Len(down) /\ Len(Come') = Len(call.in) + Len(Tail(down))
          /\ Len(call.in) \in Nat
      BY <1>1, <1>3, <3>2, ConcatProperties DEF Come
    <3>4. Len(Come) <= Len(Hex(fpga.phrase)) /\ Len(Hex(fpga.phrase)) \in 2 .. 5
      BY <1>1, <3>1, HexShape DEF Cut, Registers
    <3>5. Len(Come') < Len(Hex(fpga.phrase))
      BY <1>3, <3>3, <3>4
    <3>6. \A i \in 1 .. Len(down) : down[i] \in HexChars \/ (i = Len(down) /\ down[i] = NL)
      BY <3>1 DEF Cut
    <3>7. ASSUME NEW i \in 1 .. Len(Tail(down))
          PROVE  Tail(down)[i] \in HexChars \/ (i = Len(Tail(down)) /\ Tail(down)[i] = NL)
      <4>1. i \in 1 .. Len(down) - 1 /\ i + 1 \in 1 .. Len(down)
        BY <1>3
      <4>2. Tail(down)[i] = down[i + 1]
        BY <1>3, <4>1
      <4>3. down[i + 1] \in HexChars \/ (i + 1 = Len(down) /\ down[i + 1] = NL)
        BY <3>6, <4>1
      <4>4. i + 1 = Len(down) => i = Len(Tail(down))
        <5>1. Len(Tail(down)) = Len(down) - 1 /\ Len(down) \in Nat /\ i \in Nat
          BY <1>3, <4>1
        <5> QED BY <5>1
      <4> QED BY <4>2, <4>3, <4>4
    <3>8. Cut(Hex(fpga.phrase))'
      <4>1. Len(Come') <= Len(Hex(fpga.phrase)) /\ Len(Come') # Len(Hex(fpga.phrase))
        BY <1>3, <3>3, <3>4, <3>5
      <4> QED BY <1>1, <1>2, <3>1, <3>7, <4>1 DEF Cut
    <3> QED BY <1>1, <2>2, <2>3, <2>4, <3>8 DEF Answering, Ready, ReadsString
  <2>5. CASE ~ ReadsString
    BY <1>1, <1>2, <1>3, <2>2, <2>3, <2>5 DEF Answering, Ready, ReadsString
  <2> QED BY <2>4, <2>5
<1>6. Started' /\ Truthful'
  BY <1>1, <1>2 DEF Inv, Started, Truthful, panelVars
<1> QED BY <1>4, <1>5, <1>6 DEF Inv


(* A step of the FPGA: what it takes, becomes and says.                     *)
LEMMA TheFpga ==
  ASSUME Inv, Nios
  PROVE  \E byte \in Byte :
           LET step == NiosStep(fpga, byte)
           IN  /\ byte = Head(up) /\ fpga' = step.to /\ up' = Tail(up)
               /\ fpga' \in Registers /\ Len(fpga'.got) < 4 /\ step.say \in Seq(Chars)
               /\ down' \in Seq(Chars) /\ Len(down') <= RX_SIZE
               /\ down = << >> /\ Len(step.say) <= 5 => down' = step.say
<1> DEFINE byte == Head(up)
           step == NiosStep(fpga, byte)
           sent == down \o step.say
           n == IF Len(sent) < RX_SIZE THEN Len(sent) ELSE RX_SIZE
<1>1. /\ up # << >> /\ up \in Seq(Byte) /\ down \in Seq(Chars)
      /\ fpga \in Registers /\ Len(fpga.got) < 4
  BY DEF Nios, Inv, Typed, TypeOK, Byte
<1>2. byte \in Byte
  BY <1>1
<1>3. fpga' = step.to /\ up' = Tail(up) /\ down' = SubSeq(sent, 1, n)
  BY DEF Nios
<1> HIDE DEF byte
<1>4. step.to \in Registers /\ Len(step.to.got) < 4 /\ step.say \in Seq(Chars)
  BY <1>1, <1>2, NiosTyped
<1> HIDE DEF step
<1>5. sent \in Seq(Chars) /\ Len(sent) \in Nat /\ RX_SIZE \in Nat /\ RX_SIZE >= 5
  <2>1. sent \in Seq(Chars)
    BY <1>1, <1>4, ConcatProperties
  <2> HIDE DEF sent
  <2> QED BY <2>1, Constants
<1>6. down = << >> => sent = step.say
  BY <1>4, NothingBefore
<1> HIDE DEF sent
<1>7. n \in 0 .. Len(sent) /\ n <= RX_SIZE
  BY <1>5
<1>8. SubSeq(sent, 1, n) \in Seq(Chars) /\ Len(SubSeq(sent, 1, n)) = n
  <2> HIDE DEF n
  <2> QED BY <1>5, <1>7
<1>9. ASSUME down = << >>, Len(step.say) <= 5 PROVE SubSeq(sent, 1, n) = step.say
  <2>1. sent = step.say /\ Len(sent) <= 5
    BY <1>6, <1>9
  <2>2. n = Len(sent)
    BY <1>5, <2>1
  <2>3. SubSeq(sent, 1, Len(sent)) = sent
    BY <1>5
  <2> QED BY <2>1, <2>2, <2>3
<1> HIDE DEF n
<1>10. /\ byte = Head(up) /\ fpga' = step.to /\ up' = Tail(up)
       /\ fpga' \in Registers /\ Len(fpga'.got) < 4 /\ step.say \in Seq(Chars)
       /\ down' \in Seq(Chars) /\ Len(down') <= RX_SIZE
       /\ (down = << >> /\ Len(step.say) <= 5 => down' = step.say)
  BY <1>3, <1>4, <1>7, <1>8, <1>9 DEF byte
<1> QED BY <1>2, <1>10 DEF step


(* Taking a byte of a command.                                              *)
LEMMA Taking == Inv /\ Nios => Inv'
<1> SUFFICES ASSUME Inv, Nios PROVE Inv'
  OBVIOUS
<1>1. PICK byte \in Byte :
        LET step == NiosStep(fpga, byte)
        IN  /\ byte = Head(up) /\ fpga' = step.to /\ up' = Tail(up)
            /\ fpga' \in Registers /\ Len(fpga'.got) < 4 /\ step.say \in Seq(Chars)
            /\ down' \in Seq(Chars) /\ Len(down') <= RX_SIZE
            /\ down = << >> /\ Len(step.say) <= 5 => down' = step.say
  BY TheFpga
<1> DEFINE step == NiosStep(fpga, byte)
<1>2. /\ byte = Head(up) /\ fpga' = step.to /\ up' = Tail(up)
      /\ fpga' \in Registers /\ Len(fpga'.got) < 4
      /\ down' \in Seq(Chars) /\ Len(down') <= RX_SIZE
      /\ (down = << >> /\ Len(step.say) <= 5 => down' = step.say)
  BY <1>1
<1> HIDE DEF step
<1>3. /\ up # << >> /\ up \in Seq(Byte) /\ call \in Callings
      /\ UNCHANGED <<pc, call, panelVars, turns, lost>>
      /\ fpga \in Registers /\ Len(fpga.got) < 4
  BY DEF Nios, mainVars, Inv, Typed, TypeOK, Byte, Callings
<1>4. call.out \in Seq(Byte)
  BY <1>3 DEF Callings
<1>5. /\ Rest[1] = byte /\ Len(Rest) = Len(up) + Len(call.out) /\ Len(Rest') = Len(Rest) - 1
      /\ Tail(up) \in Seq(Byte) /\ Len(up) \in Nat /\ Len(up) > 0 /\ Len(call.out) \in Nat
      /\ (Len(up) = 1 => Tail(up) = << >>)
  BY <1>2, <1>3, <1>4, TakeOne, HeadAndTail DEF Rest
<1> DEFINE L == Len(Rest)
           M == Len(Rest')
<1>5a. L \in Nat /\ L > 0 /\ M = L - 1
  BY <1>5
<1> HIDE DEF L, M
<1>6. Typed'
  <2>1. TypeOK'
    BY <1>2, <1>3, <1>5 DEF Inv, Typed, TypeOK, panelVars, Byte, Registers
  <2> QED BY <1>2, <1>3, <2>1 DEF Inv, Typed
<1>7. lost.up = 0 \/ call.kind = "getFrequency" => Commanding /\ pc \in {"send", "read"}
  BY <1>3 DEF Inv, Agreed, Quiet, Answering
\* When the last byte of a command is taken, main waits for the answer.
<1>8. ASSUME Len(Rest) = 1
      PROVE  up' = << >> /\ (pc \in {"send", "read"} => pc = "read")
  <2> DEFINE x == Len(up)
             y == Len(call.out)
  <2>1. x + y = 1 /\ x \in Nat /\ x > 0 /\ y \in Nat
    BY <1>5, <1>8
  <2> HIDE DEF x, y
  <2>2. x = 1 /\ y = 0
    BY <2>1
  <2>3. up' = << >> /\ call.out = << >>
    BY <1>2, <1>4, <1>5, <2>2 DEF x, y
  <2> QED BY <2>3 DEF Inv, Typed
\* The FPGA answers with the frequency it has.
<1>9. ASSUME Commanding, pc \in {"send", "read"}, Len(Rest) = 1, ReadsString,
             step.say = Hex(fpga'.phrase), step.to.wait = "command", step.to.got = << >>
      PROVE  pc' = "read" /\ Answering'
  <2>1. up' = << >> /\ pc' = "read"
    BY <1>3, <1>8, <1>9
  <2>2. fpga'.phrase \in Phrases
    BY <1>2 DEF Registers
  <2> DEFINE hex == Hex(fpga'.phrase)
  <2>3. /\ hex \in Seq(Chars) /\ Len(hex) \in 2 .. 5 /\ hex[Len(hex)] = NL
        /\ \A i \in 1 .. Len(hex) - 1 : hex[i] \in HexChars
    BY <2>2, HexShape
  <2> HIDE DEF hex
  <2>4. down' = hex /\ call.in = << >>
    <3>1. step.say = hex
      BY <1>9 DEF hex
    <3>2. Len(hex) <= 5
      BY <2>3
    <3> QED BY <1>2, <1>9, <3>1, <3>2 DEF Commanding
  <2>5. Come' = hex
    BY <1>3, <2>3, <2>4, NothingBefore DEF Come
  <2>6. \A i \in 1 .. Len(hex) : hex[i] \in HexChars \/ (i = Len(hex) /\ hex[i] = NL)
    BY <2>3
  <2>7. Len(Come') <= Len(hex) /\ call'.in \in Seq(HexChars)
    BY <1>3, <2>3, <2>4, <2>5
  <2>8. Cut(Hex(fpga.phrase))'
    BY <2>4, <2>5, <2>6, <2>7 DEF Cut, hex
  <2>9. ReadsString' /\ Ready'
    BY <1>2, <1>3, <1>9 DEF Ready, ReadsString
  <2> QED BY <2>1, <2>8, <2>9 DEF Answering
\* Or with the mode.
<1>10. ASSUME Commanding, pc \in {"send", "read"}, Len(Rest) = 1, ~ ReadsString,
              step.say = Raw(fpga'.mode), step.to.wait = "command", step.to.got = << >>
       PROVE  pc' = "read" /\ Answering'
  <2>1. up' = << >> /\ pc' = "read"
    BY <1>3, <1>8, <1>10
  <2>2. Len(Raw(fpga'.mode)) <= 1 /\ Len(Raw(fpga'.mode)) <= 5
    BY DEF Raw
  <2>3. down' = Raw(fpga'.mode) /\ call.in = << >>
    BY <1>2, <1>10, <2>2 DEF Commanding
  <2>4. ~ ReadsString' /\ Ready' /\ call'.in = << >> /\ Len(down') <= 1
    <3>1. Len(down') <= 1
      BY <2>2, <2>3
    <3>2. ~ ReadsString' /\ Ready' /\ call'.in = << >>
      BY <1>2, <1>3, <1>10, <2>3 DEF Ready, ReadsString
    <3> QED BY <3>1, <3>2
  <2> QED BY <2>1, <2>3, <2>4 DEF Answering
\* Or waits for the next byte.
<1>11. Agreed' /\ (call.kind = "getFrequency" => fpga'.phrase = fpga.phrase)
  <2>1. SUFFICES ASSUME lost.up = 0 \/ call.kind = "getFrequency"
                 PROVE  /\ pc' = pc /\ (Commanding' \/ (pc' = "read" /\ Answering'))
                        /\ call.kind = "getFrequency" => fpga'.phrase = fpga.phrase
    BY <1>3, <1>7 DEF Agreed
  <2>2. Commanding /\ pc \in {"send", "read"} /\ down = << >> /\ call.in = << >>
    BY <1>7, <2>1 DEF Commanding
  <2>3. CASE Ready /\ Len(Rest) = Length(call.kind) /\ Rest[1] = Code(call.kind)
    <3>1. step = Command(fpga, byte) /\ byte = Code(call.kind)
      BY <1>5, <2>3 DEF Ready, NiosStep, step
    <3>2. CASE call.kind = "getFrequency"
      <4>1. step.to = fpga /\ step.say = Hex(fpga.phrase) /\ Len(Rest) = 1
        BY <2>3, <3>1, <3>2 DEF Command, Code, Length
      <4> QED BY <1>2, <1>3, <1>9, <2>2, <2>3, <3>2, <4>1 DEF Ready, ReadsString
    <3>3. CASE call.kind = "getMode"
      <4>1. step.to = fpga /\ step.say = Raw(fpga.mode) /\ Len(Rest) = 1
        BY <2>3, <3>1, <3>3 DEF Command, Code, Length
      <4> QED BY <1>2, <1>3, <1>10, <2>2, <2>3, <3>3, <4>1 DEF Ready, ReadsString
    <3>4. CASE call.kind = "setFrequency"
      <4>1. /\ step = [to |-> [fpga EXCEPT !.wait = "phrase"], say |-> << >>]
            /\ Len(Rest) = 5
        BY <2>3, <3>1, <3>4 DEF Command, Code, Length
      <4>2. fpga'.wait = "phrase" /\ fpga'.got = << >> /\ step.say = << >>
        BY <1>2, <1>3, <2>3, <4>1 DEF Ready, Registers
      <4>3. down' = << >>
        BY <1>2, <2>2, <4>2
      <4>4. Len(fpga'.got) + Len(Rest') = 4 /\ Rest' # << >>
        <5>1. L = 5 /\ Len(fpga'.got) = 0
          BY <4>1, <4>2 DEF L
        <5>2. M = 4
          BY <1>5a, <5>1
        <5> QED BY <5>1, <5>2 DEF M
      <4> QED BY <1>3, <2>2, <3>4, <4>2, <4>3, <4>4 DEF Commanding
    <3>5. CASE call.kind = "setMode"
      <4>1. /\ step = [to |-> [fpga EXCEPT !.wait = "mode"], say |-> << >>]
            /\ Len(Rest) = 2
        BY <2>3, <3>1, <3>5 DEF Command, Code, Length
      <4>2. fpga'.wait = "mode" /\ fpga'.got = << >> /\ step.say = << >>
        BY <1>2, <1>3, <2>3, <4>1 DEF Ready, Registers
      <4>3. down' = << >>
        BY <1>2, <2>2, <4>2
      <4>4. Len(Rest') = 1
        <5>1. L = 2
          BY <4>1 DEF L
        <5>2. M = 1
          BY <1>5a, <5>1
        <5> QED BY <5>2 DEF M
      <4> QED BY <1>3, <2>2, <3>5, <4>2, <4>3, <4>4 DEF Commanding
    <3> QED BY <1>3, <3>2, <3>3, <3>4, <3>5 DEF Callings, Kinds
  <2>4. CASE /\ call.kind = "setFrequency" /\ fpga.wait = "phrase"
             /\ Rest # << >> /\ Len(fpga.got) + Len(Rest) = 4
    <3> DEFINE got == Append(fpga.got, byte)
               k == Len(fpga.got)
    <3>1. step = PhraseByte(fpga, byte)
      BY <2>4 DEF NiosStep, step
    <3>2. got \in Seq(Byte) /\ Len(got) = Len(fpga.got) + 1 /\ Len(fpga.got) \in Nat
      BY <1>3 DEF Registers
    <3> HIDE DEF got, k
    <3>3. CASE Len(got) < 4
      <4>1. step = [to |-> [fpga EXCEPT !.got = got], say |-> << >>]
        BY <3>1, <3>3 DEF PhraseByte, got
      <4>2. fpga'.wait = "phrase" /\ fpga'.got = got /\ step.say = << >>
        BY <1>2, <1>3, <2>4, <4>1 DEF Registers
      <4>3. down' = << >>
        BY <1>2, <2>2, <4>2
      <4>4. Len(fpga'.got) + Len(Rest') = 4 /\ Rest' # << >>
        <5>1. fpga'.got = got /\ k + L = 4 /\ k + 1 < 4 /\ k \in Nat /\ Len(got) = k + 1
          BY <2>4, <3>2, <3>3, <4>2 DEF k, L
        <5>2. k + 1 + M = 4 /\ M # 0
          BY <1>5a, <5>1
        <5> QED BY <5>1, <5>2 DEF M
      <4> QED BY <1>3, <2>2, <2>4, <4>2, <4>3, <4>4 DEF Commanding
    <3>4. CASE ~ (Len(got) < 4)
      <4>1. step = [to |-> Set(fpga, PhraseOf(got)), say |-> Hex(PhraseOf(got))]
        BY <3>1, <3>4 DEF PhraseByte, got
      <4>2. /\ step.say = Hex(fpga'.phrase) /\ step.to.wait = "command"
            /\ step.to.got = << >>
        BY <1>2, <1>3, <4>1 DEF Set, Registers
      <4>3. Len(Rest) = 1
        <5>1. k + L = 4 /\ ~ (k + 1 < 4) /\ k \in Nat /\ k < 4
          BY <1>3, <2>4, <3>2, <3>4 DEF k, L
        <5>2. L = 1
          BY <1>5a, <5>1
        <5> QED BY <5>2 DEF L
      <4> QED BY <1>3, <1>9, <2>2, <2>4, <4>2, <4>3 DEF ReadsString
    <3> QED BY <3>3, <3>4
  <2>5. CASE /\ call.kind = "setMode" /\ fpga.wait = "mode" /\ fpga.got = << >>
             /\ Len(Rest) = 1
    <3>1. step = ModeByte(fpga, byte)
      BY <2>5 DEF NiosStep, step
    <3>2. step.say = Raw(fpga'.mode) /\ step.to.wait = "command" /\ step.to.got = << >>
      BY <1>2, <1>3, <2>5, <3>1 DEF ModeByte, Registers
    <3> QED BY <1>3, <1>10, <2>2, <2>5, <3>2 DEF ReadsString
  <2> QED BY <2>2, <2>3, <2>4, <2>5 DEF Commanding
<1>12. Started'
  BY <1>3, <1>11 DEF Inv, Started, panelVars
<1>13. Truthful'
  <2>1. NothingLost => pc \in {"send", "read"}
    BY <1>7 DEF NothingLost
  <2> QED BY <1>3, <2>1 DEF Truthful, NothingLost
<1> QED BY <1>6, <1>11, <1>12, <1>13 DEF Inv

----------------------------------------------------------------------------
(* The invariant is inductive.                                              *)

(* Every step keeps the invariant.                                          *)
LEMMA Inductive == Inv /\ [Next]_vars => Inv'
<1> SUFFICES ASSUME Inv, [Next]_vars PROVE Inv'
  OBVIOUS
<1>1. CASE Send \/ Read \/ Timeout
  BY <1>1, Sending, Reading, TimingOut
<1>2. CASE Program /\ UNCHANGED <<up, down, fpga, turns, lost>>
  <2>1. CASE SetupFreq \/ CallFrequency \/ CallMode
    BY <1>2, <2>1, Calling
  <2>2. CASE GotFrequency \/ SetupNew \/ GotMode \/ Loop \/ FrequencyAnswered
             \/ StoreFrequency \/ LoopMode \/ ModeAnswered \/ StoreMode
    <3>1. UNCHANGED call
      BY <2>2 DEF GotFrequency, SetupNew, GotMode, Loop, FrequencyAnswered, StoreFrequency,
                  LoopMode, ModeAnswered, StoreMode
    <3> QED BY <1>2, <2>2, <3>1, Deciding
  <2> QED BY <1>2, <2>1, <2>2 DEF Program
<1>3. CASE Clicked \/ \E direction \in {-1, 1} : Rotated(direction)
  BY <1>3, Interrupted
<1>4. CASE Nios
  BY <1>4, Taking
<1>5. CASE LoseUp \/ LoseDown
  BY <1>5, LosingUp, LosingDown
<1>6. CASE UNCHANGED vars
  <2>1. TypeOK' = TypeOK /\ UNCHANGED <<pc, call, down, fpga, turns, lost>>
    BY <1>6 DEF vars, mainVars, panelVars, TypeOK
  <2>2. Typed'
    BY <2>1 DEF Inv, Typed
  <2>3. Agreed' /\ Started' /\ Truthful'
    BY <1>6 DEF vars, mainVars, panelVars, Inv, Agreed, Started, Truthful, Commanding, Answering,
                Cut, Come, Quiet, Ready, Rest, ReadsString, NothingLost
  <2> QED BY <2>2, <2>3 DEF Inv
<1> QED BY <1>1, <1>2, <1>3, <1>4, <1>5, <1>6 DEF Next, Main, Program

(* The ranges, where each command starts and what each answer is hold in    *)
(* every reachable state, whatever is lost.                                 *)
THEOREM Consistent == Spec => []Inv
<1>1. Init => Inv
  BY Starting
<1>2. Inv /\ [Next]_vars => Inv'
  BY Inductive
<1> QED BY <1>1, <1>2, PTL DEF Spec

(* Every variable keeps its range, with losses or without; and until a byte *)
(* of a command is lost, command and answer stay in step, however the       *)
(* interrupts fall and whatever is lost of the answers.                     *)
THEOREM StaysInStep == Spec => []InStepWithoutLosses
<1>1. Inv => InStepWithoutLosses
  BY DEF Inv, Typed, Agreed, Quiet, Ready, InStepWithoutLosses, InStep
<1> QED BY <1>1, Consistent, PTL

(* Until something is lost, a frequency or mode that the panel accepts is   *)
(* held by the FPGA, whatever the encoder did meanwhile.                    *)
THEOREM AcceptedIsTrue == Spec => []AcceptedIsHeldWithoutLosses
<1>1. Inv => AcceptedIsHeldWithoutLosses
  BY DEF Inv, Truthful, NothingLost, AcceptedIsHeldWithoutLosses, AcceptedIsHeld, Answered
<1> QED BY <1>1, Consistent, PTL

(* A request is given up only when something was lost: the panel never      *)
(* times out on an answer that is under way.                                *)
THEOREM TimesOutOnlyAfterLosses == Spec => [][NothingLost => ~ Timeout]_vars
<1>1. Inv /\ [Next]_vars => [NothingLost => ~ Timeout]_vars
  BY TimingOut
<1> QED BY <1>1, Consistent, PTL DEF Spec
============================================================================
