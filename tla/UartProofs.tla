----------------------------- MODULE UartProofs -----------------------------
(***************************************************************************)
(* Proofs about Uart, for rings of every size and calls of every length,   *)
(* as long as the other end does not send more than the receive ring holds *)
(* before the program reads.                                               *)
(*                                                                         *)
(* Each ring is a window on its buffer: a write at its end appends, a read *)
(* at its start takes the tail.  What the program does at one end of it    *)
(* and the handler at the other then are steps of one queue.               *)
(***************************************************************************)
EXTENDS Uart, SequenceTheorems, TLAPS

Cell == 0 .. SIZE - 1
Buffer == [Cell -> Byte]

\* The number of bytes between two indices, and the cell j cells after s.
Level(s, e) == IF e >= s THEN e - s ELSE e + SIZE - s
At(s, j) == IF s + j < SIZE THEN s + j ELSE s + j - SIZE

----------------------------------------------------------------------------
(* Rings                                                                    *)

\* The remainder of a sum of two indices.
LEMMA Remainders == \A a \in 0 .. 2 * SIZE - 1 : a % SIZE = IF a < SIZE THEN a ELSE a - SIZE
BY UartAssumption

\* A remainder is a number below the divisor.
LEMMA RemainderBound ==
    ASSUME NEW n \in Nat \ {0}, NEW a \in Nat
    PROVE  a % n \in 0 .. n - 1
OBVIOUS

\* The cell after a cell.
LEMMA SuccIs ==
    ASSUME NEW i \in Cell
    PROVE  Succ(i) = At(i, 1) /\ Succ(i) \in Cell
<1>0. \A a \in 0 .. 2 * SIZE - 1 : a % SIZE = IF a < SIZE THEN a ELSE a - SIZE
  BY Remainders
<1>1. SIZE \in Nat \ {0} /\ SIZE > 1
  BY UartAssumption
<1>2. i + 1 \in 0 .. 2 * SIZE - 1
  BY <1>1 DEF Cell
<1>3. (i + 1) % SIZE = IF i + 1 < SIZE THEN i + 1 ELSE (i + 1) - SIZE
  BY <1>0, <1>2, Zenon
<1>4. QED
  BY <1>1, <1>3 DEF Succ, At, Cell

\* The number of bytes is below the number of cells.
LEMMA LevelIs ==
    ASSUME NEW s \in Cell, NEW e \in Cell
    PROVE  Level(s, e) \in Nat /\ Level(s, e) < SIZE
BY UartAssumption DEF Cell, Level

\* A ring is the sequence of the bytes of its cells, in their order.
LEMMA RingIs ==
    ASSUME NEW buf \in Buffer, NEW s \in Cell, NEW e \in Cell
    PROVE  /\ Ring(buf, s, e) \in Seq(Byte)
           /\ Len(Ring(buf, s, e)) = Level(s, e)
           /\ Level(s, e) \in 0 .. SIZE - 1
           /\ \A k \in 1 .. Level(s, e) : Ring(buf, s, e)[k] = buf[At(s, k - 1)]
<1> DEFINE n == Level(s, e)
<1>0. \A a \in 0 .. 2 * SIZE - 1 : a % SIZE = IF a < SIZE THEN a ELSE a - SIZE
  BY Remainders
<1>1. SIZE \in Nat \ {0} /\ SIZE > 1 /\ s \in 0 .. SIZE - 1 /\ e \in 0 .. SIZE - 1
  BY UartAssumption DEF Cell
<1>2. (e + SIZE - s) % SIZE = n
  <2>1. e + SIZE - s \in 0 .. 2 * SIZE - 1
    BY <1>1
  <2>2. (e + SIZE - s) % SIZE =
          IF e + SIZE - s < SIZE THEN e + SIZE - s ELSE (e + SIZE - s) - SIZE
    BY <1>0, <2>1, Zenon
  <2>3. QED
    BY <1>1, <2>2 DEF Level
<1>3. n \in 0 .. SIZE - 1
  BY <1>1 DEF Level
<1> HIDE DEF n
<1>4. ASSUME NEW k \in 1 .. n
      PROVE  (s + k - 1) % SIZE = At(s, k - 1) /\ At(s, k - 1) \in Cell
  <2>1. s + k - 1 \in 0 .. 2 * SIZE - 1
    BY <1>1, <1>3
  <2>2. (s + k - 1) % SIZE = IF s + k - 1 < SIZE THEN s + k - 1 ELSE (s + k - 1) - SIZE
    BY <1>0, <2>1, Zenon
  <2>3. QED
    BY <1>1, <1>3, <2>2 DEF At, Cell
<1>5. Ring(buf, s, e) = [k \in 1 .. n |-> buf[(s + k - 1) % SIZE]]
  BY <1>2 DEF Ring
<1>6. \A k \in 1 .. n : buf[(s + k - 1) % SIZE] = buf[At(s, k - 1)]
  BY <1>4
<1>7. \A k \in 1 .. n : buf[(s + k - 1) % SIZE] \in Byte
  BY <1>4 DEF Buffer
<1>8. Ring(buf, s, e) \in [1 .. n -> Byte]
  BY <1>5, <1>7
<1>9. Ring(buf, s, e) \in Seq(Byte) /\ Len(Ring(buf, s, e)) = n
  BY <1>3, <1>8
<1>10. QED
  BY <1>3, <1>5, <1>6, <1>9 DEF n

\* A ring is empty when its indices are equal.
LEMMA RingEmpty ==
    ASSUME NEW buf \in Buffer, NEW s \in Cell, NEW e \in Cell
    PROVE  Ring(buf, s, e) = << >> <=> s = e
<1>1. SIZE \in Nat /\ s \in 0 .. SIZE - 1 /\ e \in 0 .. SIZE - 1
  BY UartAssumption DEF Cell
<1>2. Level(s, e) = 0 <=> s = e
  BY <1>1 DEF Level
<1>3. Ring(buf, s, e) \in Seq(Byte) /\ Len(Ring(buf, s, e)) = Level(s, e)
  BY RingIs
<1>4. QED
  BY <1>2, <1>3, EmptySeq

\* A ring with room has not wrapped: the cell at its end is not one of its own, and the
\* end may go one cell on.
LEMMA RingAppend ==
    ASSUME NEW buf \in Buffer, NEW s \in Cell, NEW e \in Cell, Succ(e) # s
    PROVE  Ring(buf, s, Succ(e)) = Append(Ring(buf, s, e), buf[e])
<1> DEFINE n == Level(s, e)
           old == Ring(buf, s, e)
           new == Ring(buf, s, Succ(e))
<1>1. SIZE \in Nat /\ SIZE > 1 /\ s \in 0 .. SIZE - 1 /\ e \in 0 .. SIZE - 1
  BY UartAssumption DEF Cell
<1>2. Succ(e) = At(e, 1) /\ Succ(e) \in Cell
  BY SuccIs
<1>3. Level(s, Succ(e)) = n + 1 /\ At(s, n) = e
  BY <1>1, <1>2 DEF Level, At
<1>4. /\ old \in Seq(Byte) /\ Len(old) = n /\ n \in Nat
      /\ \A k \in 1 .. n : old[k] = buf[At(s, k - 1)]
  BY RingIs
<1>5. /\ new \in Seq(Byte) /\ Len(new) = n + 1
      /\ \A k \in 1 .. n + 1 : new[k] = buf[At(s, k - 1)]
  BY <1>2, <1>3, RingIs
<1>6. buf[e] \in Byte
  BY DEF Buffer
<1> HIDE DEF n, old, new
<1>7. /\ Append(old, buf[e]) \in Seq(Byte) /\ Len(Append(old, buf[e])) = n + 1
      /\ \A k \in 1 .. n : Append(old, buf[e])[k] = old[k]
      /\ Append(old, buf[e])[n + 1] = buf[e]
  BY <1>4, <1>6, AppendProperties
<1>8. ASSUME NEW k \in 1 .. n + 1 PROVE new[k] = Append(old, buf[e])[k]
  <2>1. CASE k \in 1 .. n
    <3>1. new[k] = buf[At(s, k - 1)]
      BY <1>5
    <3>2. old[k] = buf[At(s, k - 1)] /\ Append(old, buf[e])[k] = old[k]
      BY <1>4, <1>7, <2>1
    <3>3. QED
      BY <3>1, <3>2
  <2>2. CASE k = n + 1
    <3>1. k - 1 = n
      BY <1>4, <2>2
    <3>2. new[k] = buf[At(s, n)]
      BY <1>5, <3>1
    <3>3. QED
      BY <1>3, <1>7, <2>2, <3>2 DEF n
  <2>3. k \in 1 .. n \/ k = n + 1
    BY <1>4
  <2>4. QED
    BY <2>1, <2>2, <2>3
<1>9. new = Append(old, buf[e])
  BY <1>5, <1>7, <1>8, SeqEqual
<1>10. QED
  BY <1>9 DEF old, new

\* What is written in the cell at the end of a ring is not in it yet.
LEMMA RingWrite ==
    ASSUME NEW buf \in Buffer, NEW s \in Cell, NEW e \in Cell, NEW b \in Byte
    PROVE  /\ [buf EXCEPT ![e] = b] \in Buffer
           /\ Ring([buf EXCEPT ![e] = b], s, e) = Ring(buf, s, e)
<1> DEFINE n == Level(s, e)
           written == [buf EXCEPT ![e] = b]
           old == Ring(buf, s, e)
           new == Ring(written, s, e)
<1>1. SIZE \in Nat /\ s \in 0 .. SIZE - 1 /\ e \in 0 .. SIZE - 1
  BY UartAssumption DEF Cell
<1>2. written \in Buffer /\ \A i \in Cell : i # e => written[i] = buf[i]
  BY DEF Buffer
<1>3. \A k \in 1 .. n : At(s, k - 1) \in Cell /\ At(s, k - 1) # e
  BY <1>1 DEF Level, At, Cell
<1> HIDE DEF written
<1>4. /\ old \in Seq(Byte) /\ Len(old) = n /\ n \in Nat
      /\ \A k \in 1 .. n : old[k] = buf[At(s, k - 1)]
  BY RingIs
<1>5. /\ new \in Seq(Byte) /\ Len(new) = n
      /\ \A k \in 1 .. n : new[k] = written[At(s, k - 1)]
  BY <1>2, RingIs
<1>6. \A k \in 1 .. n : new[k] = old[k]
  BY <1>2, <1>3, <1>4, <1>5
<1> HIDE DEF n, old, new
<1>7. new = old
  BY <1>4, <1>5, <1>6, SeqEqual
<1>8. QED
  BY <1>2, <1>7 DEF old, new, written

\* The oldest byte of a ring is in the cell at its start; without that cell, whatever is
\* left in it, the ring is the tail.
LEMMA RingTake ==
    ASSUME NEW buf \in Buffer, NEW s \in Cell, NEW e \in Cell, NEW b \in Byte, s # e
    PROVE  /\ [buf EXCEPT ![s] = b] \in Buffer
           /\ Ring(buf, s, e) # << >> /\ Head(Ring(buf, s, e)) = buf[s]
           /\ Ring([buf EXCEPT ![s] = b], Succ(s), e) = Tail(Ring(buf, s, e))
<1> DEFINE n == Level(s, e)
           left == [buf EXCEPT ![s] = b]
           old == Ring(buf, s, e)
           new == Ring(left, Succ(s), e)
<1>1. SIZE \in Nat /\ SIZE > 1 /\ s \in 0 .. SIZE - 1 /\ e \in 0 .. SIZE - 1
  BY UartAssumption DEF Cell
<1>2. left \in Buffer /\ \A i \in Cell : i # s => left[i] = buf[i]
  BY DEF Buffer
<1>3. Succ(s) = At(s, 1) /\ Succ(s) \in Cell
  BY SuccIs
<1>4. /\ n > 0 /\ Level(Succ(s), e) = n - 1 /\ At(s, 0) = s
      /\ \A k \in 1 .. n - 1 : /\ At(Succ(s), k - 1) = At(s, k)
                               /\ At(s, k) \in Cell /\ At(s, k) # s
  BY <1>1, <1>3 DEF Level, At, Cell
<1> HIDE DEF left
<1>5. /\ old \in Seq(Byte) /\ Len(old) = n /\ n \in Nat
      /\ \A k \in 1 .. n : old[k] = buf[At(s, k - 1)]
  BY RingIs
<1>6. /\ new \in Seq(Byte) /\ Len(new) = n - 1
      /\ \A k \in 1 .. n - 1 : new[k] = left[At(Succ(s), k - 1)]
  <2>1. Level(Succ(s), e) = n - 1
    BY <1>4
  <2>2. /\ new \in Seq(Byte) /\ Len(new) = Level(Succ(s), e)
        /\ \A k \in 1 .. Level(Succ(s), e) : new[k] = left[At(Succ(s), k - 1)]
    BY <1>2, <1>3, RingIs
  <2>3. QED
    BY <2>1, <2>2
<1>7. old # << >>
  BY <1>4, <1>5, RingEmpty
<1> HIDE DEF n, old, new
<1>8. /\ Tail(old) \in Seq(Byte) /\ Len(Tail(old)) = n - 1
      /\ \A k \in 1 .. n - 1 : Tail(old)[k] = old[k + 1]
  BY <1>5, <1>7, HeadTailProperties
<1>9. ASSUME NEW k \in 1 .. n - 1 PROVE new[k] = Tail(old)[k]
  <2>1. new[k] = left[At(s, k)]
    BY <1>4, <1>6
  <2>2. left[At(s, k)] = buf[At(s, k)]
    BY <1>2, <1>4
  <2>3. k + 1 \in 1 .. n /\ (k + 1) - 1 = k
    BY <1>5
  <2>4. old[k + 1] = buf[At(s, k)]
    BY <1>5, <2>3
  <2>5. QED
    BY <1>8, <2>1, <2>2, <2>4
<1>10. new = Tail(old)
  BY <1>6, <1>8, <1>9, SeqEqual
<1>11. Head(old) = buf[s]
  <2>1. Head(old) = old[1] /\ 1 \in 1 .. n /\ 1 - 1 = 0
    BY <1>4, <1>5
  <2>2. old[1] = buf[At(s, 0)]
    BY <1>5, <2>1
  <2>3. QED
    BY <1>4, <2>1, <2>2
<1>12. QED
  BY <1>2, <1>7, <1>10, <1>11 DEF old, new, left
\* What is at the front of two sequences is what is at the front of the first, and
\* without it they are its tail and the second.
LEMMA HeadOfConcat ==
    ASSUME NEW q \in Seq(Byte), NEW p \in Seq(Byte), q # << >>
    PROVE  Head(q \o p) = Head(q) /\ Tail(q \o p) = Tail(q) \o p /\ q \o p # << >>
<1>1. /\ q \o p \in Seq(Byte) /\ Len(q \o p) = Len(q) + Len(p)
      /\ \A i \in 1 .. Len(q) + Len(p) : (q \o p)[i] = IF i <= Len(q) THEN q[i] ELSE p[i - Len(q)]
  BY ConcatProperties
<1>2. Len(q) \in Nat \ {0} /\ Len(p) \in Nat
  BY EmptySeq
<1>3. q \o p # << >>
  BY <1>1, <1>2, EmptySeq
<1>4. Head(q \o p) = Head(q)
  <2>1. 1 \in 1 .. Len(q) + Len(p) /\ 1 <= Len(q)
    BY <1>2
  <2>2. (q \o p)[1] = q[1]
    BY <1>1, <2>1
  <2>3. QED
    BY <2>2
<1>5. Tail(q \o p) = Tail(q) \o p
  <2>1. /\ Tail(q) \in Seq(Byte) /\ Len(Tail(q)) = Len(q) - 1
        /\ \A i \in 1 .. Len(q) - 1 : Tail(q)[i] = q[i + 1]
    BY HeadTailProperties
  <2>2. /\ Tail(q \o p) \in Seq(Byte) /\ Len(Tail(q \o p)) = Len(q) + Len(p) - 1
        /\ \A i \in 1 .. (Len(q) + Len(p) - 1) : Tail(q \o p)[i] = (q \o p)[i + 1]
    BY <1>1, <1>3, HeadTailProperties
  <2>3. /\ Tail(q) \o p \in Seq(Byte) /\ Len(Tail(q) \o p) = Len(q) - 1 + Len(p)
        /\ \A i \in 1 .. (Len(q) - 1 + Len(p)) : (Tail(q) \o p)[i] =
             IF i <= Len(q) - 1 THEN Tail(q)[i] ELSE p[i - (Len(q) - 1)]
    BY <2>1, ConcatProperties
  <2>4. ASSUME NEW i \in 1 .. (Len(q) + Len(p) - 1)
        PROVE  Tail(q \o p)[i] = (Tail(q) \o p)[i]
    <3>1. i + 1 \in 1 .. Len(q) + Len(p) /\ i \in 1 .. (Len(q) - 1 + Len(p)) /\ i \in Nat
      BY <1>2
    <3>2. Tail(q \o p)[i] = IF i + 1 <= Len(q) THEN q[i + 1] ELSE p[(i + 1) - Len(q)]
      BY <1>1, <2>2, <3>1
    <3>3. (Tail(q) \o p)[i] = IF i <= Len(q) - 1 THEN Tail(q)[i] ELSE p[i - (Len(q) - 1)]
      BY <2>3, <3>1
    <3>4. CASE i <= Len(q) - 1
      <4>1. i \in 1 .. Len(q) - 1 /\ i + 1 <= Len(q)
        BY <1>2, <3>1, <3>4
      <4>2. QED
        BY <2>1, <3>2, <3>3, <3>4, <4>1
    <3>5. CASE ~ (i <= Len(q) - 1)
      <4>1. ~ (i + 1 <= Len(q)) /\ (i + 1) - Len(q) = i - (Len(q) - 1)
        BY <1>2, <3>1, <3>5
      <4>2. QED
        BY <3>2, <3>3, <3>5, <4>1
    <3>6. QED
      BY <3>4, <3>5
  <2>5. Len(Tail(q \o p)) = Len(Tail(q) \o p)
    BY <1>2, <2>2, <2>3
  <2>6. \A i \in 1 .. Len(Tail(q \o p)) : Tail(q \o p)[i] = (Tail(q) \o p)[i]
    BY <2>2, <2>4
  <2>7. QED
    BY <2>2, <2>3, <2>5, <2>6, SeqEqual
<1>6. QED
  BY <1>3, <1>4, <1>5

\* Appending to the second of two sequences is appending to both.
LEMMA AppendToConcat ==
    ASSUME NEW q \in Seq(Byte), NEW p \in Seq(Byte), NEW b \in Byte
    PROVE  q \o Append(p, b) = Append(q \o p, b)
<1>1. q \o p \in Seq(Byte) /\ <<b>> \in Seq(Byte)
  BY ConcatProperties
<1>2. (q \o p) \o <<b>> = q \o (p \o <<b>>)
  BY <1>1, ConcatAssociative
<1>3. QED
  BY <1>1, <1>2, AppendIsConcat

\* An element moved from the front of one sequence to the end of the one before it.
LEMMA MoveHead ==
    ASSUME NEW q \in Seq(Byte), NEW p \in Seq(Byte), p # << >>
    PROVE  Append(q, Head(p)) \o Tail(p) = q \o p
<1>1. Head(p) \in Byte /\ Tail(p) \in Seq(Byte)
  BY HeadTailProperties
<1>2. <<Head(p)>> \in Seq(Byte) /\ Append(q, Head(p)) = q \o <<Head(p)>>
  BY <1>1, AppendIsConcat
<1>3. (q \o <<Head(p)>>) \o Tail(p) = q \o (<<Head(p)>> \o Tail(p))
  BY <1>1, <1>2, ConcatAssociative
<1>4. <<Head(p)>> \o Tail(p) = p
  <2>1. /\ Head(p) = p[1] /\ Len(p) \in Nat \ {0} /\ Len(Tail(p)) = Len(p) - 1
        /\ \A i \in 1 .. Len(Tail(p)) : Tail(p)[i] = p[i + 1]
    BY EmptySeq, HeadTailProperties
  <2>2. /\ <<Head(p)>> \o Tail(p) \in Seq(Byte)
        /\ Len(<<Head(p)>> \o Tail(p)) = 1 + Len(Tail(p))
        /\ \A i \in 1 .. 1 + Len(Tail(p)) : (<<Head(p)>> \o Tail(p))[i] =
             IF i <= 1 THEN <<Head(p)>>[i] ELSE Tail(p)[i - 1]
    <3>1. Len(<<Head(p)>>) = 1
      OBVIOUS
    <3>2. QED
      BY <1>1, <1>2, <3>1, ConcatProperties
  <2>3. ASSUME NEW i \in 1 .. Len(p) PROVE (<<Head(p)>> \o Tail(p))[i] = p[i]
    <3>1. i \in 1 .. 1 + Len(Tail(p))
      BY <2>1
    <3>2. CASE i = 1
      BY <2>1, <2>2, <3>1, <3>2
    <3>3. CASE i # 1
      <4>1. i - 1 \in 1 .. Len(Tail(p)) /\ (i - 1) + 1 = i /\ ~ (i <= 1)
        BY <2>1, <3>3
      <4>2. QED
        BY <2>1, <2>2, <3>1, <4>1
    <3>4. QED
      BY <3>2, <3>3
  <2>4. Len(<<Head(p)>> \o Tail(p)) = Len(p)
    BY <2>1, <2>2
  <2>5. QED
    BY <2>2, <2>3, <2>4, SeqEqual
<1>5. QED
  BY <1>2, <1>3, <1>4

----------------------------------------------------------------------------
(* The invariant                                                            *)

MainRecords ==
    [at : {"idle"} \union Reading \union Writing \union Closing, left : Nat, count : Nat,
     block : BOOLEAN, byte : {<< >>} \union {<<b>> : b \in Byte}]

Types == TypeOK /\ main \in MainRecords

\* What the program has tested still holds when it acts on it, though the handler may have
\* come in between; and it holds the byte it is about to give the cell of back.
Phases ==
    /\ main.at \in {"copy", "advance", "write_enable", "write_wait", "put", "publish"} =>
         main.left > 0
    /\ main.at \in {"copy", "advance"} => rx_start # rx_end
    /\ main.at = "advance" => main.byte = <<rx_buf[rx_start]>>
    /\ main.at \in {"put", "publish"} => ~ TxFull

\* The status the handler has read is still true when it transfers the bytes.
StatusHolds ==
    isr.at # "none" => /\ "RRDY" \in isr.status => rx # << >>
                       /\ "TRDY" \in isr.status => Len(tx) < 2

\* The receive ring has a cell for the byte in the device.
Room == Level(rx_start, rx_end) + Len(rx) <= LIMIT

IInv == Types /\ Phases /\ StatusHolds /\ Room /\ NoByteForgotten

----------------------------------------------------------------------------
\* The types of the transmitter and of the numbers.
LEMMA TypesDevice ==
    ASSUME Types
    PROVE  /\ tx \in Seq(Byte) /\ Len(tx) \in 0 .. 2
           /\ number.rx \in Byte /\ number.tx \in Byte
<1>1. tx \in Seq(Byte) /\ Len(tx) <= 2 /\ Len(tx) \in Nat
  BY DEF Types, TypeOK
<1>2. Len(tx) \in 0 .. 2
  BY <1>1
<1>3. number \in [rx : Byte, tx : Byte]
  BY DEF Types, TypeOK
<1>4. number.rx \in Byte /\ number.tx \in Byte
  BY <1>3
<1>5. QED
  BY <1>1, <1>2, <1>4

\* The types, taken apart; a byte in the device is one byte.
LEMMA TypesAre ==
    ASSUME Types
    PROVE  /\ rx_buf \in Buffer /\ tx_buf \in Buffer
           /\ rx_start \in Cell /\ rx_end \in Cell /\ tx_start \in Cell /\ tx_end \in Cell
           /\ rx \in Seq(Byte) /\ Len(rx) \in {0, 1} /\ (rx = << >> <=> Len(rx) = 0)
           /\ rx # << >> => rx[1] \in Byte /\ rx = <<rx[1]>>
           /\ tx \in Seq(Byte) /\ Len(tx) \in 0 .. 2
           /\ number.rx \in Byte /\ number.tx \in Byte
<1>1. /\ rx_buf \in Buffer /\ tx_buf \in Buffer
      /\ rx_start \in Cell /\ rx_end \in Cell /\ tx_start \in Cell /\ tx_end \in Cell
  BY DEF Types, TypeOK, Buffer, Cell
<1>2. rx \in {<< >>} \union {<<b>> : b \in Byte}
  BY DEF Types, TypeOK
<1>3. CASE rx = << >>
  <2>1. rx \in Seq(Byte) /\ Len(rx) = 0
    BY <1>3
  <2>2. QED
    BY <1>1, <1>3, <2>1, TypesDevice
<1>4. CASE rx # << >>
  <2>1. PICK b \in Byte : rx = <<b>>
    BY <1>2, <1>4
  <2>2. rx \in Seq(Byte) /\ Len(rx) = 1 /\ rx[1] = b
    BY <2>1
  <2>3. QED
    BY <1>1, <1>4, <2>1, <2>2, TypesDevice
<1>5. QED
  BY <1>3, <1>4

\* The number of the next byte is a byte.
LEMMA NextNumber ==
    ASSUME NEW b \in Byte
    PROVE  (b + 1) % NUMBERS \in Byte
<1>1. NUMBERS \in Nat \ {0} /\ b + 1 \in Nat
  BY UartAssumption DEF Byte
<1>2. (b + 1) % NUMBERS \in 0 .. NUMBERS - 1
  BY <1>1, RemainderBound
<1>3. QED
  BY <1>1, <1>2 DEF Byte

\* The bytes received and not yet read, counted.
LEMMA ReceivedIs ==
    ASSUME Types
    PROVE  Received \in Seq(Byte) /\ Len(Received) = Level(rx_start, rx_end) + Len(rx)
<1>1. /\ Ring(rx_buf, rx_start, rx_end) \in Seq(Byte)
      /\ Len(Ring(rx_buf, rx_start, rx_end)) = Level(rx_start, rx_end)
      /\ rx \in Seq(Byte)
  BY TypesAre, RingIs
<1>2. QED
  BY <1>1, ConcatProperties DEF Received

\* After the start the rings and the device are empty and no call is made.
LEMMA InitOK == Init => IInv
<1> SUFFICES ASSUME Init PROVE IInv
  OBVIOUS
<1>1. SIZE \in Nat /\ SIZE > 1 /\ LIMIT \in Nat /\ Stale \in Byte /\ 0 \in Byte /\ OVERRUNS \in Nat
  BY UartAssumption DEF Stale, Byte
<1>2. << >> \in Seq(Byte) /\ Len(<< >>) = 0
  OBVIOUS
<1>3. Types
  <2>1. /\ rx_buf \in [0 .. SIZE - 1 -> Byte] /\ tx_buf \in [0 .. SIZE - 1 -> Byte]
        /\ {rx_start, rx_end, tx_start, tx_end} \subseteq 0 .. SIZE - 1
    BY <1>1 DEF Init
  <2>2. /\ ctrl \subseteq {"RRDY", "TRDY"}
        /\ rx \in {<< >>} \union {<<b>> : b \in Byte}
        /\ tx \in Seq(Byte) /\ Len(tx) <= 2
    BY <1>2 DEF Init
  <2>3. isr \in [at : {"none", "clear", "transfer"}, status : SUBSET {"RRDY", "TRDY", "FE"}]
    BY DEF Init
  <2>4. /\ bad \in BOOLEAN
        /\ framing_error \in BOOLEAN
    BY DEF Init
  <2>5. overruns \in 0 .. OVERRUNS
    BY <1>1 DEF Init
  <2>6. number \in [rx : Byte, tx : Byte]
    BY <1>1 DEF Init
  <2>7. main \in MainRecords
    BY DEF Init, Idle, MainRecords
  <2>8. /\ main.at \in {"idle"} \union Reading \union Writing \union Closing
        /\ main.left \in Nat /\ main.count \in Nat /\ main.block \in BOOLEAN
        /\ main.byte \in {<< >>} \union {<<b>> : b \in Byte}
    BY <2>7 DEF MainRecords
  <2>9. QED
    BY <2>1, <2>2, <2>3, <2>4, <2>5, <2>6, <2>7, <2>8 DEF Types, TypeOK
<1>4. Phases /\ StatusHolds /\ NoByteForgotten
  BY DEF Init, Idle, Phases, StatusHolds, NoByteForgotten
<1>5. Room
  BY <1>1, <1>2 DEF Init, Room, Level
<1>6. QED
  BY <1>3, <1>4, <1>5 DEF IInv

----------------------------------------------------------------------------
(* The program's steps                                                      *)

\* A step of the program keeps the types of the device and of the handler.
LEMMA ProgramTypes ==
    ASSUME Types, UNCHANGED <<device, isr>>,
           main' \in MainRecords,
           rx_buf' \in Buffer, tx_buf' \in Buffer,
           rx_start' \in Cell, rx_end' \in Cell, tx_start' \in Cell, tx_end' \in Cell,
           ctrl' \subseteq {"RRDY", "TRDY"}, number' \in [rx : Byte, tx : Byte]
    PROVE  Types'
<1>1. /\ main'.at \in {"idle"} \union Reading \union Writing \union Closing
      /\ main'.left \in Nat /\ main'.count \in Nat /\ main'.block \in BOOLEAN
      /\ main'.byte \in {<< >>} \union {<<b>> : b \in Byte}
  BY DEF MainRecords
<1>2. rx' = rx /\ bad' = bad /\ framing_error' = framing_error /\ tx' = tx
      /\ overruns' = overruns /\ isr' = isr
  BY DEF device
<1>3. /\ rx' \in {<< >>} \union {<<b>> : b \in Byte} /\ bad' \in BOOLEAN
      /\ framing_error' \in BOOLEAN /\ tx' \in Seq(Byte) /\ Len(tx') <= 2
      /\ isr' \in [at : {"none", "clear", "transfer"}, status : SUBSET {"RRDY", "TRDY", "FE"}]
      /\ overruns' \in 0 .. OVERRUNS
  BY <1>2 DEF Types, TypeOK
<1>4. /\ rx_buf' \in [0 .. SIZE - 1 -> Byte] /\ tx_buf' \in [0 .. SIZE - 1 -> Byte]
      /\ {rx_start', rx_end', tx_start', tx_end'} \subseteq 0 .. SIZE - 1
  BY DEF Buffer, Cell
<1>5. QED
  BY <1>1, <1>3, <1>4 DEF Types, TypeOK, Byte, Stale, MainRecords, Reading, Writing, Closing

\* A step of the program that moves no byte: it may unmask an interrupt, and leaves a
\* call only after it has.
LEMMA QuietStep ==
    ASSUME IInv, UNCHANGED <<rxRing, txRing, number, device, isr>>,
           main' \in MainRecords, Phases',
           ctrl \subseteq ctrl', ctrl' \subseteq {"RRDY", "TRDY"},
           main.at \in Reading => main'.at \in Reading \/ "RRDY" \in ctrl',
           main.at \in Writing => main'.at \in Writing \/ "TRDY" \in ctrl'
    PROVE  IInv'
<1>1. /\ rx_buf' = rx_buf /\ rx_start' = rx_start /\ rx_end' = rx_end
      /\ tx_buf' = tx_buf /\ tx_start' = tx_start /\ tx_end' = tx_end
      /\ rx' = rx /\ tx' = tx /\ isr' = isr /\ number' = number
  BY DEF rxRing, txRing, device
<1>2. Types'
  <2>1. /\ rx_buf' \in Buffer /\ tx_buf' \in Buffer
        /\ rx_start' \in Cell /\ rx_end' \in Cell /\ tx_start' \in Cell /\ tx_end' \in Cell
    BY <1>1, TypesAre DEF IInv
  <2>2. number' \in [rx : Byte, tx : Byte]
    BY <1>1 DEF IInv, Types, TypeOK
  <2>3. QED
    BY <2>1, <2>2, ProgramTypes DEF IInv
<1>3. StatusHolds' /\ Room'
  BY <1>1 DEF IInv, StatusHolds, Room, Level
<1>4. NoByteForgotten'
  BY <1>1 DEF IInv, NoByteForgotten, Succ
<1>5. QED
  BY <1>2, <1>3, <1>4 DEF IInv

\* The steps of read() that move no byte.
LEMMA ReadQuietSteps ==
    ASSUME IInv, UNCHANGED <<device, isr>>,
           ReadWhile \/ ReadCopy \/ ReadCheck \/ ReadEnable \/ ReadReturn
    PROVE  IInv'
<1>1. Types /\ Phases /\ main \in MainRecords /\ ctrl \subseteq {"RRDY", "TRDY"}
  BY DEF IInv, Types, TypeOK
<1>2. UNCHANGED <<rxRing, txRing, number>>
  BY DEF ReadWhile, ReadCopy, ReadCheck, ReadEnable, ReadReturn
<1>3. /\ rx_buf' = rx_buf /\ rx_start' = rx_start /\ rx_end' = rx_end
      /\ tx_start' = tx_start /\ tx_end' = tx_end
  BY <1>2 DEF rxRing, txRing
<1>4. /\ ctrl \subseteq ctrl' /\ ctrl' \subseteq {"RRDY", "TRDY"}
      /\ main.at \in Reading => main'.at \in Reading \/ "RRDY" \in ctrl'
      /\ main.at \notin Writing
  BY <1>1 DEF ReadWhile, ReadCopy, ReadCheck, ReadEnable, ReadReturn, Goto, Reading, Writing,
              Idle, MainRecords
<1>5. main' \in MainRecords
  <2>1. rx_buf[rx_start] \in Byte
    BY <1>1, TypesAre DEF Buffer
  <2>2. CASE ReadCopy
    <3>1. <<rx_buf[rx_start]>> \in {<<b>> : b \in Byte}
      BY <2>1
    <3>2. QED
      BY <1>1, <2>2, <3>1 DEF ReadCopy, MainRecords, Reading
  <2>3. CASE ReadReturn
    BY <2>3 DEF ReadReturn, MainRecords, Idle
  <2>4. CASE ReadWhile \/ ReadCheck \/ ReadEnable
    BY <1>1, <2>4 DEF ReadWhile, ReadCheck, ReadEnable, Goto, MainRecords, Reading
  <2>5. QED
    BY <2>2, <2>3, <2>4
<1>6. Phases'
  <2>1. CASE ReadCopy
    <3>1. /\ main.at = "copy" /\ main.left > 0 /\ rx_start # rx_end
          /\ main'.at = "advance" /\ main'.left = main.left
          /\ main'.byte = <<rx_buf[rx_start]>>
      BY <1>1, <2>1 DEF ReadCopy, MainRecords, Phases
    <3>2. QED
      BY <1>3, <3>1 DEF Phases
  <2>2. CASE ReadWhile
    <3>1. \/ main'.at = "copy" /\ main'.left > 0 /\ rx_start # rx_end
          \/ main'.at = "read_check"
      BY <1>1, <2>2 DEF ReadWhile, Goto, MainRecords
    <3>2. QED
      BY <1>3, <3>1 DEF Phases
  <2>3. CASE ReadCheck \/ ReadEnable \/ ReadReturn
    <3>1. main'.at \in {"read", "read_enable", "read_return", "idle"}
      BY <1>1, <2>3 DEF ReadCheck, ReadEnable, ReadReturn, Goto, Idle, MainRecords
    <3>2. QED
      BY <3>1 DEF Phases
  <2>4. QED
    BY <2>1, <2>2, <2>3
<1>7. QED
  BY <1>2, <1>4, <1>5, <1>6, QuietStep

\* The steps of write() and close() that move no byte.
LEMMA WriteQuietSteps ==
    ASSUME IInv, UNCHANGED <<device, isr>>,
           WriteNext \/ WriteEnable \/ WriteWait \/ WriteReturn \/ CloseReturn
    PROVE  IInv'
<1>1. Types /\ Phases /\ main \in MainRecords /\ ctrl \subseteq {"RRDY", "TRDY"}
  BY DEF IInv, Types, TypeOK
<1>2. UNCHANGED <<rxRing, txRing, number>>
  BY DEF WriteNext, WriteEnable, WriteWait, WriteReturn, CloseReturn
<1>3. /\ rx_buf' = rx_buf /\ rx_start' = rx_start /\ rx_end' = rx_end
      /\ tx_start' = tx_start /\ tx_end' = tx_end
  BY <1>2 DEF rxRing, txRing
<1>4. /\ ctrl \subseteq ctrl' /\ ctrl' \subseteq {"RRDY", "TRDY"}
      /\ main.at \in Writing => main'.at \in Writing \/ "TRDY" \in ctrl'
      /\ main.at \notin Reading
  BY <1>1 DEF WriteNext, WriteEnable, WriteWait, WriteReturn, CloseReturn, Goto, Reading,
              Writing, Idle, MainRecords
<1>5. main' \in MainRecords
  <2>1. CASE WriteReturn \/ CloseReturn
    <3>1. main' = Idle
      BY <2>1 DEF WriteReturn, CloseReturn
    <3>2. QED
      BY <3>1 DEF MainRecords, Idle
  <2>2. CASE WriteNext \/ WriteEnable \/ WriteWait
    BY <1>1, <2>2 DEF WriteNext, WriteEnable, WriteWait, Goto, MainRecords, Writing
  <2>3. QED
    BY <2>1, <2>2
<1>6. Phases'
  <2>1. CASE WriteNext
    <3>1. \/ main'.at = "write_return"
          \/ main'.at = "write_enable" /\ main'.left > 0
          \/ main'.at = "put" /\ main'.left > 0 /\ ~ TxFull
      BY <1>1, <2>1 DEF WriteNext, Goto, MainRecords
    <3>2. QED
      BY <1>3, <3>1 DEF Phases, TxFull
  <2>2. CASE WriteEnable
    <3>1. main'.at = "write_wait" /\ main'.left > 0
      BY <1>1, <2>2 DEF WriteEnable, Goto, MainRecords, Phases
    <3>2. QED
      BY <3>1 DEF Phases
  <2>3. CASE WriteWait
    <3>1. main'.at = "put" /\ main'.left > 0 /\ ~ TxFull
      BY <1>1, <2>3 DEF WriteWait, Goto, MainRecords, Phases
    <3>2. QED
      BY <1>3, <3>1 DEF Phases, TxFull
  <2>4. CASE WriteReturn \/ CloseReturn
    BY <2>4 DEF WriteReturn, CloseReturn, Idle, Phases
  <2>5. QED
    BY <2>1, <2>2, <2>3, <2>4
<1>7. QED
  BY <1>2, <1>4, <1>5, <1>6, QuietStep

\* A call starts.
LEMMA CallSteps ==
    ASSUME IInv, UNCHANGED <<device, isr>>, Calls
    PROVE  IInv'
<1>1. Types /\ main \in MainRecords /\ ctrl \subseteq {"RRDY", "TRDY"}
  BY DEF IInv, Types, TypeOK
<1>2. PICK at \in {"read", "write", "close"}, len \in Nat, block \in BOOLEAN :
        main' = [Idle EXCEPT !.at = at, !.left = len, !.block = block]
  BY UartAssumption DEF Calls, Call
<1>3. UNCHANGED <<rxRing, txRing, ctrl, number>> /\ main.at = "idle"
  BY DEF Calls, Call
<1>4. main' \in MainRecords
  BY <1>2 DEF Idle, MainRecords, Reading, Writing, Closing
<1>5. Phases'
  BY <1>2 DEF Idle, Phases
<1>6. main.at \notin Reading /\ main.at \notin Writing
  BY <1>3 DEF Reading, Writing
<1>7. QED
  BY <1>1, <1>3, <1>4, <1>5, <1>6, QuietStep

\* read() gives a cell back: the ring is one shorter.
LEMMA ReadAdvanceStep ==
    ASSUME IInv, UNCHANGED <<device, isr>>, ReadAdvance
    PROVE  IInv'
<1>1. Types /\ Phases /\ main \in MainRecords /\ ctrl \subseteq {"RRDY", "TRDY"}
  BY DEF IInv, Types, TypeOK
<1>2. /\ main.at = "advance" /\ rx_start # rx_end /\ main.left > 0
      /\ rx_start' = Succ(rx_start) /\ rx_end' = rx_end
      /\ rx_buf' = [rx_buf EXCEPT ![rx_start] = Stale]
      /\ tx_buf' = tx_buf /\ tx_start' = tx_start /\ tx_end' = tx_end
      /\ ctrl' = ctrl /\ number' = number
      /\ rx' = rx /\ tx' = tx /\ isr' = isr
  BY <1>1 DEF ReadAdvance, Phases, txRing, device
<1>3. rx_buf' \in Buffer /\ rx_start' \in Cell
  <2>1. Stale \in Byte
    BY UartAssumption DEF Stale, Byte
  <2>2. QED
    BY <1>1, <1>2, <2>1, TypesAre, SuccIs DEF Buffer
<1>4. main' \in MainRecords /\ main'.at = "read"
  <2>1. main.left - 1 \in Nat /\ main.count + 1 \in Nat
    BY <1>1, <1>2 DEF MainRecords
  <2>2. QED
    BY <1>1, <2>1 DEF ReadAdvance, MainRecords, Reading
<1>5. Types'
  <2>1. number \in [rx : Byte, tx : Byte]
    BY <1>1 DEF Types, TypeOK
  <2>2. QED
    BY <1>1, <1>2, <1>3, <1>4, <2>1, TypesAre, ProgramTypes
<1>6. Phases'
  BY <1>4 DEF Phases
<1>7. Level(rx_start', rx_end') <= Level(rx_start, rx_end)
  <2>1. SIZE \in Nat /\ rx_start \in 0 .. SIZE - 1 /\ rx_end \in 0 .. SIZE - 1
    BY <1>1, TypesAre, UartAssumption DEF Cell
  <2>2. Succ(rx_start) = At(rx_start, 1)
    BY <1>1, TypesAre, SuccIs
  <2>3. QED
    BY <1>2, <2>1, <2>2 DEF Level, At
<1>8. Room'
  <2>1. Level(rx_start, rx_end) \in Nat /\ Level(rx_start', rx_end') \in Nat
    BY <1>1, <1>2, <1>3, TypesAre, LevelIs
  <2>2. Len(rx) \in Nat /\ LIMIT \in Nat
    BY <1>1, TypesAre, UartAssumption
  <2>3. Level(rx_start, rx_end) + Len(rx) <= LIMIT
    BY DEF IInv, Room
  <2>4. Level(rx_start', rx_end') + Len(rx) <= LIMIT
    BY <1>7, <2>1, <2>3, <2>2
  <2>5. QED
    BY <1>2, <2>4 DEF Room
<1>9. StatusHolds' /\ NoByteForgotten'
  BY <1>2, <1>4 DEF IInv, StatusHolds, NoByteForgotten, Reading, Writing
<1>10. QED
  BY <1>5, <1>6, <1>8, <1>9 DEF IInv

\* write() stores a byte behind the ring and then moves the end.
LEMMA WriteByteSteps ==
    ASSUME IInv, UNCHANGED <<device, isr>>, WritePut \/ WritePublish
    PROVE  IInv'
<1>1. Types /\ Phases /\ main \in MainRecords /\ ctrl \subseteq {"RRDY", "TRDY"}
  BY DEF IInv, Types, TypeOK
<1>2. /\ main.at \in {"put", "publish"} /\ main.left > 0 /\ ~ TxFull
      /\ rx_buf' = rx_buf /\ rx_start' = rx_start /\ rx_end' = rx_end
      /\ tx_start' = tx_start /\ ctrl' = ctrl
      /\ rx' = rx /\ tx' = tx /\ isr' = isr
  BY <1>1 DEF WritePut, WritePublish, Phases, rxRing, device
<1>3. tx_buf' \in Buffer /\ tx_end' \in Cell
  BY <1>1, TypesAre, SuccIs DEF WritePut, WritePublish, Buffer
<1>4. number' \in [rx : Byte, tx : Byte]
  <2>1. number \in [rx : Byte, tx : Byte]
    BY <1>1 DEF Types, TypeOK
  <2>2. (number.tx + 1) % NUMBERS \in Byte
    BY <1>1, TypesAre, NextNumber
  <2>3. QED
    BY <2>1, <2>2 DEF WritePut, WritePublish
<1>5. /\ main' \in MainRecords
      /\ main'.at \in {"publish", "write"}
      /\ main'.at = "publish" => main'.left > 0 /\ tx_end' = tx_end
  <2>1. main.left - 1 \in Nat
    BY <1>1, <1>2 DEF MainRecords
  <2>2. CASE WritePut
    BY <1>1, <1>2, <2>2 DEF WritePut, Goto, MainRecords, Writing
  <2>3. CASE WritePublish
    BY <1>1, <2>1, <2>3 DEF WritePublish, MainRecords, Writing
  <2>4. QED
    BY <2>2, <2>3
<1>6. Types'
  BY <1>1, <1>2, <1>3, <1>4, <1>5, TypesAre, ProgramTypes
<1>7. Phases'
  BY <1>2, <1>5 DEF Phases, TxFull
<1>8. StatusHolds' /\ Room'
  BY <1>2 DEF IInv, StatusHolds, Room
<1>9. NoByteForgotten'
  BY <1>2, <1>5 DEF IInv, NoByteForgotten, Reading, Writing
<1>10. QED
  BY <1>6, <1>7, <1>8, <1>9 DEF IInv

----------------------------------------------------------------------------
(* The steps of the device and of the handler                               *)

\* They keep the types of the program's variables.
LEMMA DeviceTypes ==
    ASSUME Types, UNCHANGED main,
           rx_buf' \in Buffer, tx_buf' \in Buffer,
           rx_start' \in Cell, rx_end' \in Cell, tx_start' \in Cell, tx_end' \in Cell,
           ctrl' \subseteq {"RRDY", "TRDY"},
           rx' \in {<< >>} \union {<<b>> : b \in Byte}, bad' \in BOOLEAN,
           framing_error' \in BOOLEAN, overruns' \in 0 .. OVERRUNS,
           tx' \in Seq(Byte), Len(tx') <= 2,
           isr' \in [at : {"none", "clear", "transfer"}, status : SUBSET {"RRDY", "TRDY", "FE"}],
           number' \in [rx : Byte, tx : Byte]
    PROVE  Types'
<1>1. main' \in MainRecords
  BY DEF Types
<1>2. /\ main'.at \in {"idle"} \union Reading \union Writing \union Closing
      /\ main'.left \in Nat /\ main'.count \in Nat /\ main'.block \in BOOLEAN
      /\ main'.byte \in {<< >>} \union {<<b>> : b \in Byte}
  BY <1>1 DEF MainRecords
<1>3. /\ rx_buf' \in [0 .. SIZE - 1 -> Byte] /\ tx_buf' \in [0 .. SIZE - 1 -> Byte]
      /\ {rx_start', rx_end', tx_start', tx_end'} \subseteq 0 .. SIZE - 1
  BY DEF Buffer, Cell
<1>4. QED
  BY <1>1, <1>2, <1>3 DEF Types, TypeOK, Byte, Stale, MainRecords, Reading, Writing, Closing

\* There is a cell for the byte in the device, and it is not the last.
LEMMA RoomForOne ==
    ASSUME IInv, LIMIT < SIZE, rx # << >>
    PROVE  /\ Succ(rx_end) # rx_start /\ rx_start # Succ(rx_end)
           /\ Level(rx_start, Succ(rx_end)) = Level(rx_start, rx_end) + 1
           /\ Succ(rx_end) # rx_end
<1>1. Types /\ Room
  BY DEF IInv
<1>2. SIZE \in Nat /\ SIZE > 1 /\ LIMIT \in Nat /\ rx_start \in 0 .. SIZE - 1 /\ rx_end \in 0 .. SIZE - 1
  BY <1>1, TypesAre, UartAssumption DEF Cell
<1>3. Succ(rx_end) = At(rx_end, 1)
  BY <1>1, TypesAre, SuccIs
<1>4. Level(rx_start, rx_end) + 1 <= LIMIT
  BY <1>1, TypesAre DEF Room
<1>5. QED
  BY <1>2, <1>3, <1>4 DEF Level, At

\* A byte arrives, or is lost to the next one.
LEMMA ArriveStep ==
    ASSUME IInv, Arrive
    PROVE  IInv'
<1>1. Types /\ Phases /\ Room /\ ctrl \subseteq {"RRDY", "TRDY"}
      /\ number \in [rx : Byte, tx : Byte]
      /\ isr \in [at : {"none", "clear", "transfer"}, status : SUBSET {"RRDY", "TRDY", "FE"}]
  BY DEF IInv, Types, TypeOK
<1>2. /\ rx_buf' = rx_buf /\ rx_start' = rx_start /\ rx_end' = rx_end
      /\ tx_buf' = tx_buf /\ tx_start' = tx_start /\ tx_end' = tx_end
      /\ ctrl' = ctrl /\ tx' = tx /\ isr' = isr /\ main' = main
  BY DEF Arrive, rxRing, txRing
<1>3. /\ rx' # << >> /\ Len(rx') = 1 /\ rx' \in {<<b>> : b \in Byte}
      /\ number' \in [rx : Byte, tx : Byte]
  <2>1. CASE rx = << >>
    <3>1. rx' = <<number.rx>> /\ number' = [number EXCEPT !.rx = (number.rx + 1) % NUMBERS]
      BY <2>1 DEF Arrive
    <3>2. number.rx \in Byte /\ (number.rx + 1) % NUMBERS \in Byte
      BY <1>1, TypesAre, NextNumber
    <3>3. QED
      BY <1>1, <3>1, <3>2
  <2>2. CASE rx # << >>
    <3>1. rx' = rx /\ number' = number
      BY <2>2 DEF Arrive
    <3>2. rx \in {<<b>> : b \in Byte} /\ Len(rx) = 1
      BY <1>1, <2>2, TypesAre
    <3>3. QED
      BY <1>1, <2>2, <3>1, <3>2
  <2>3. QED
    BY <2>1, <2>2
<1>4. bad' \in BOOLEAN
  BY DEF Arrive
<1>5. framing_error' \in BOOLEAN
  BY DEF Arrive
<1>6. overruns' \in 0 .. OVERRUNS
  <2>1. overruns \in 0 .. OVERRUNS /\ OVERRUNS \in Nat
    BY <1>1, UartAssumption DEF Types, TypeOK
  <2>2. QED
    BY <2>1 DEF Arrive
<1>7. Types'
  <2>1. /\ rx_buf' \in Buffer /\ tx_buf' \in Buffer
        /\ rx_start' \in Cell /\ rx_end' \in Cell /\ tx_start' \in Cell /\ tx_end' \in Cell
    BY <1>1, <1>2, TypesAre
  <2>2. tx' \in Seq(Byte) /\ Len(tx') <= 2
    BY <1>1, <1>2 DEF Types, TypeOK
  <2>3. rx' \in {<< >>} \union {<<b>> : b \in Byte}
    BY <1>1, <1>2, <1>3
  <2>4. ctrl' \subseteq {"RRDY", "TRDY"} /\ main' = main /\ number' \in [rx : Byte, tx : Byte]
        /\ isr' \in [at : {"none", "clear", "transfer"}, status : SUBSET {"RRDY", "TRDY", "FE"}]
    BY <1>1, <1>2, <1>3
  <2>5. QED
    BY <1>1, <1>4, <1>5, <1>6, <2>1, <2>2, <2>3, <2>4, DeviceTypes
<1>8. Room'
  <2>1. Len(Received) < LIMIT
    BY DEF Arrive
  <2>2. Len(Received) = Level(rx_start, rx_end) + Len(rx)
    BY <1>1, ReceivedIs
  <2>3. Level(rx_start, rx_end) \in Nat /\ LIMIT \in Nat /\ Len(rx) \in {0, 1}
    BY <1>1, TypesAre, LevelIs, UartAssumption
  <2>4. QED
    BY <1>2, <1>3, <2>1, <2>2, <2>3 DEF Room
<1>9. Phases' /\ StatusHolds' /\ NoByteForgotten'
  BY <1>2, <1>3 DEF IInv, Phases, StatusHolds, NoByteForgotten, TxFull
<1>10. QED
  BY <1>7, <1>8, <1>9 DEF IInv

\* A byte has been shifted out.
LEMMA ShiftedStep ==
    ASSUME IInv, Shifted
    PROVE  IInv'
<1>1. Types /\ ctrl \subseteq {"RRDY", "TRDY"} /\ number \in [rx : Byte, tx : Byte]
      /\ rx \in {<< >>} \union {<<b>> : b \in Byte}
      /\ isr \in [at : {"none", "clear", "transfer"}, status : SUBSET {"RRDY", "TRDY", "FE"}]
  BY DEF IInv, Types, TypeOK
<1>2. /\ rx_buf' = rx_buf /\ rx_start' = rx_start /\ rx_end' = rx_end
      /\ tx_buf' = tx_buf /\ tx_start' = tx_start /\ tx_end' = tx_end
      /\ ctrl' = ctrl /\ rx' = rx /\ isr' = isr /\ main' = main /\ number' = number
      /\ bad' = bad /\ framing_error' = framing_error /\ overruns' = overruns
  BY DEF Shifted, rxRing, txRing
<1>3. tx' \in Seq(Byte) /\ Len(tx') = Len(tx) - 1 /\ Len(tx) \in 0 .. 2 /\ Len(tx') \in Nat
  <2>1. tx # << >> /\ tx' = Tail(tx)
    BY DEF Shifted
  <2>2. tx \in Seq(Byte) /\ Len(tx) \in 0 .. 2
    BY <1>1, TypesAre
  <2>3. QED
    BY <2>1, <2>2, HeadTailProperties, EmptySeq
<1>4. bad' \in BOOLEAN
  BY <1>1, <1>2 DEF Types, TypeOK
<1>5. framing_error' \in BOOLEAN
  BY <1>1, <1>2 DEF Types, TypeOK
<1>6. overruns' \in 0 .. OVERRUNS
  BY <1>1, <1>2 DEF Types, TypeOK
<1>7. Types'
  <2>1. /\ rx_buf' \in Buffer /\ tx_buf' \in Buffer
        /\ rx_start' \in Cell /\ rx_end' \in Cell /\ tx_start' \in Cell /\ tx_end' \in Cell
    BY <1>1, <1>2, TypesAre
  <2>2. tx' \in Seq(Byte) /\ Len(tx') <= 2
    BY <1>1, <1>2, <1>3, TypesDevice
  <2>3. rx' \in {<< >>} \union {<<b>> : b \in Byte}
    BY <1>1, <1>2, <1>3
  <2>4. ctrl' \subseteq {"RRDY", "TRDY"} /\ main' = main /\ number' \in [rx : Byte, tx : Byte]
        /\ isr' \in [at : {"none", "clear", "transfer"}, status : SUBSET {"RRDY", "TRDY", "FE"}]
    BY <1>1, <1>2, <1>3
  <2>5. QED
    BY <1>1, <1>4, <1>5, <1>6, <2>1, <2>2, <2>3, <2>4, DeviceTypes
<1>8. Phases' /\ StatusHolds' /\ NoByteForgotten'
  BY <1>2, <1>3 DEF IInv, Phases, StatusHolds, NoByteForgotten, TxFull
<1>9. Room'
  BY <1>2 DEF IInv, Room
<1>10. QED
  BY <1>7, <1>8, <1>9 DEF IInv

\* The handler reads the status, and clears the error bits.
LEMMA HandlerStarts ==
    ASSUME IInv, Interrupt \/ ClearErrors
    PROVE  IInv'
<1>1. Types /\ ctrl \subseteq {"RRDY", "TRDY"} /\ number \in [rx : Byte, tx : Byte]
      /\ rx \in {<< >>} \union {<<b>> : b \in Byte} /\ overruns \in 0 .. OVERRUNS
      /\ isr \in [at : {"none", "clear", "transfer"}, status : SUBSET {"RRDY", "TRDY", "FE"}]
  BY DEF IInv, Types, TypeOK
<1>2. /\ rx_buf' = rx_buf /\ rx_start' = rx_start /\ rx_end' = rx_end
      /\ tx_buf' = tx_buf /\ tx_start' = tx_start /\ tx_end' = tx_end
      /\ ctrl' = ctrl /\ rx' = rx /\ tx' = tx /\ main' = main /\ number' = number
      /\ bad' = bad /\ overruns' = overruns
  BY DEF Interrupt, ClearErrors, rxRing, txRing, device
<1>3. /\ isr' \in [at : {"none", "clear", "transfer"}, status : SUBSET {"RRDY", "TRDY", "FE"}]
      /\ StatusHolds'
  <2>1. CASE Interrupt
    <3>1. isr' = [at |-> "clear", status |-> Status]
      BY <2>1 DEF Interrupt
    <3>2. /\ Status \in SUBSET {"RRDY", "TRDY", "FE"}
          /\ "RRDY" \in Status => rx # << >>
          /\ "TRDY" \in Status => Len(tx) < 2
      BY DEF Status, tx_ready
    <3>3. QED
      BY <1>2, <3>1, <3>2 DEF StatusHolds
  <2>2. CASE ClearErrors
    <3>1. isr.at = "clear" /\ isr' = [isr EXCEPT !.at = "transfer"]
      BY <2>2 DEF ClearErrors
    <3>2. QED
      BY <1>1, <1>2, <3>1 DEF IInv, StatusHolds
  <2>3. QED
    BY <2>1, <2>2
<1>4. bad' \in BOOLEAN
  BY <1>1, <1>2 DEF Types, TypeOK
<1>5. framing_error' \in BOOLEAN
  <2>1. framing_error \in BOOLEAN
    BY <1>1 DEF Types, TypeOK
  <2>2. framing_error' = framing_error \/ framing_error' = FALSE
    BY DEF Interrupt, ClearErrors, device
  <2>3. QED
    BY <2>1, <2>2
<1>6. tx \in Seq(Byte) /\ Len(tx) <= 2
  BY <1>1 DEF Types, TypeOK
<1>7. Types'
  BY <1>1, <1>2, <1>3, <1>4, <1>5, <1>6, TypesAre, DeviceTypes
<1>8. Phases' /\ NoByteForgotten'
  BY <1>2 DEF IInv, Phases, NoByteForgotten, TxFull
<1>9. Room'
  BY <1>2 DEF IInv, Room
<1>10. QED
  BY <1>3, <1>7, <1>8, <1>9 DEF IInv

\* What the handler does on the receive side, and on the transmit side.
LEMMA TransferSides ==
    ASSUME Transfer
    PROVE  /\ \/ /\ "RRDY" \in isr.status /\ rx_end' = Succ(rx_end) /\ rx' = << >> /\ bad' = FALSE
                 /\ rx_buf' = [rx_buf EXCEPT ![rx_end] = rx[1]]
              \/ rx_buf' = rx_buf /\ rx' = rx /\ bad' = bad /\ rx_end' = rx_end
           /\ \/ /\ "TRDY" \in isr.status /\ tx_start # tx_end
                 /\ tx' = IF Len(tx) < 2 THEN Append(tx, tx_buf[tx_start])
                          ELSE <<tx[1], tx_buf[tx_start]>>
                 /\ tx_start' = Succ(tx_start) /\ tx_buf' = [tx_buf EXCEPT ![tx_start] = Stale]
              \/ tx' = tx /\ tx_start' = tx_start /\ tx_buf' = tx_buf
           /\ rx_start' = rx_start /\ tx_end' = tx_end /\ isr.at = "transfer"
           /\ framing_error' = framing_error /\ overruns' = overruns
           /\ main' = main /\ number' = number
           /\ isr' = [at |-> "none", status |-> {}]
BY DEF Transfer, RxIrq, TxIrq, Transmit

\* What the handler does to the mask.
LEMMA TransferMask ==
    ASSUME Types, Transfer
    PROVE  /\ ctrl' \subseteq {"RRDY", "TRDY"}
           /\ "RRDY" \notin ctrl' => \/ rx_end' # rx_end /\ Succ(rx_end') = rx_start
                                     \/ "RRDY" \notin ctrl
           /\ "TRDY" \notin ctrl' => \/ tx_start' = tx_end
                                     \/ "TRDY" \notin isr.status /\ "TRDY" \notin ctrl
           /\ "TRDY" \notin isr.status => tx_start' = tx_start
<1>1. ctrl \subseteq {"RRDY", "TRDY"}
  BY DEF Types, TypeOK
<1>2. "TRDY" \notin isr.status => tx_start' = tx_start
  BY DEF Transfer, TxIrq
<1>3. Mask
  BY DEF Transfer
<1>4. QED
  BY <1>1, <1>2, <1>3 DEF Mask

\* The receive side of a transfer keeps its part of the invariant.
LEMMA TransferReceives ==
    ASSUME IInv, LIMIT < SIZE, Transfer
    PROVE  /\ rx_buf' \in Buffer /\ rx_end' \in Cell /\ rx' \in {<< >>} \union {<<b>> : b \in Byte}
           /\ Room'
           /\ rx_start # rx_end => rx_start # rx_end' /\ rx_buf'[rx_start] = rx_buf[rx_start]
           /\ rx_end' # rx_end => Succ(rx_end) # rx_start
<1>1. Types /\ Room /\ rx \in {<< >>} \union {<<b>> : b \in Byte} /\ rx_start' = rx_start
  BY TransferSides DEF IInv, Types, TypeOK
<1>2. CASE rx_buf' = rx_buf /\ rx' = rx /\ rx_end' = rx_end
  <2>1. rx_buf' \in Buffer /\ rx_end' \in Cell
    BY <1>1, <1>2, TypesAre
  <2>2. Room'
    BY <1>1, <1>2 DEF Room
  <2>3. QED
    BY <1>1, <1>2, <2>1, <2>2
<1>3. CASE /\ "RRDY" \in isr.status /\ rx_end' = Succ(rx_end) /\ rx' = << >>
           /\ rx_buf' = [rx_buf EXCEPT ![rx_end] = rx[1]]
  <2>1. rx # << >>
    BY <1>3, TransferSides DEF IInv, StatusHolds
  <2>2. /\ Succ(rx_end) # rx_start /\ rx_start # Succ(rx_end)
        /\ Level(rx_start, Succ(rx_end)) = Level(rx_start, rx_end) + 1
    BY <2>1, RoomForOne
  <2>3. rx[1] \in Byte /\ Len(rx) = 1 /\ rx_buf \in Buffer /\ rx_start \in Cell /\ rx_end \in Cell
    BY <1>1, <2>1, TypesAre
  <2>4. rx_buf' \in Buffer /\ rx_end' \in Cell
    BY <1>3, <2>3, SuccIs DEF Buffer
  <2>5. Room'
    <3>1. Level(rx_start, rx_end) + 1 <= LIMIT /\ Len(rx') = 0
      BY <1>1, <1>3, <2>3 DEF Room
    <3>2. Level(rx_start', rx_end') + 0 <= LIMIT
      BY <1>1, <1>3, <2>2, <2>3, <3>1, LevelIs
    <3>3. QED
      BY <3>1, <3>2 DEF Room
  <2>6. rx_start # rx_end => rx_buf'[rx_start] = rx_buf[rx_start]
    BY <1>3, <2>3 DEF Buffer
  <2>7. QED
    BY <1>3, <2>2, <2>4, <2>5, <2>6
<1>4. QED
  BY <1>2, <1>3, TransferSides

\* The transmit side of a transfer keeps its part of the invariant.
LEMMA TransferTransmits ==
    ASSUME IInv, Transfer
    PROVE  /\ tx_buf' \in Buffer /\ tx_start' \in Cell /\ tx' \in Seq(Byte) /\ Len(tx') <= 2
           /\ ~ TxFull => ~ TxFull'
<1>1. Types /\ tx_end' = tx_end
  BY TransferSides DEF IInv
<1>2. tx \in Seq(Byte) /\ Len(tx) \in 0 .. 2 /\ tx_buf \in Buffer /\ tx_start \in Cell /\ tx_end \in Cell
  BY <1>1, TypesAre
<1>3. CASE tx' = tx /\ tx_start' = tx_start /\ tx_buf' = tx_buf
  <2>1. tx_buf' \in Buffer /\ tx_start' \in Cell /\ tx' \in Seq(Byte)
    BY <1>2, <1>3
  <2>2. Len(tx') <= 2
    BY <1>2, <1>3
  <2>3. ~ TxFull => ~ TxFull'
    BY <1>1, <1>3 DEF TxFull
  <2>4. QED
    BY <2>1, <2>2, <2>3
<1>4. CASE /\ "TRDY" \in isr.status /\ tx_start # tx_end
           /\ tx' = IF Len(tx) < 2 THEN Append(tx, tx_buf[tx_start]) ELSE <<tx[1], tx_buf[tx_start]>>
           /\ tx_start' = Succ(tx_start) /\ tx_buf' = [tx_buf EXCEPT ![tx_start] = Stale]
  <2>1. Len(tx) < 2
    BY <1>4, TransferSides DEF IInv, StatusHolds
  <2>2. tx_buf[tx_start] \in Byte /\ Stale \in Byte
    BY <1>2, UartAssumption DEF Buffer, Stale, Byte
  <2>3. tx' \in Seq(Byte) /\ Len(tx') <= 2
    BY <1>2, <1>4, <2>1, <2>2, AppendProperties
  <2>4. tx_buf' \in Buffer /\ tx_start' \in Cell
    BY <1>2, <1>4, <2>2, SuccIs DEF Buffer
  <2>5. Succ(tx_end) # Succ(tx_start)
    <3>1. SIZE \in Nat /\ tx_start \in 0 .. SIZE - 1 /\ tx_end \in 0 .. SIZE - 1
      BY <1>2, UartAssumption DEF Cell
    <3>2. Succ(tx_end) = At(tx_end, 1) /\ Succ(tx_start) = At(tx_start, 1)
      BY <1>2, SuccIs
    <3>3. QED
      BY <1>4, <3>1, <3>2 DEF At
  <2>6. QED
    BY <1>1, <1>4, <2>3, <2>4, <2>5 DEF TxFull
<1>5. QED
  BY <1>3, <1>4, TransferSides

\* The handler transfers a byte each way and sets the mask.
LEMMA TransferStep ==
    ASSUME IInv, LIMIT < SIZE, Transfer
    PROVE  IInv'
<1>1. Types /\ number \in [rx : Byte, tx : Byte]
  BY DEF IInv, Types, TypeOK
<1>2. /\ rx_start' = rx_start /\ tx_end' = tx_end /\ isr' = [at |-> "none", status |-> {}]
      /\ main' = main /\ number' = number
  BY TransferSides
<1>3. rx_start' \in Cell /\ tx_end' \in Cell
  BY <1>1, <1>2, TypesAre
<1>4. bad' \in BOOLEAN
  BY <1>1, TransferSides DEF Types, TypeOK
<1>5. framing_error' \in BOOLEAN
  BY <1>1, TransferSides DEF Types, TypeOK
<1>6. overruns' \in 0 .. OVERRUNS
  BY <1>1, TransferSides DEF Types, TypeOK
<1>7. isr' \in [at : {"none", "clear", "transfer"}, status : SUBSET {"RRDY", "TRDY", "FE"}]
  BY <1>2
<1>8. ctrl' \subseteq {"RRDY", "TRDY"}
  BY <1>1, TransferMask
<1>9. Types'
  BY <1>1, <1>2, <1>3, <1>4, <1>5, <1>6, <1>7, <1>8, TransferReceives, TransferTransmits,
     DeviceTypes
<1>10. Phases'
  BY <1>2, TransferReceives, TransferTransmits DEF IInv, Phases
<1>11. StatusHolds'
  BY <1>2 DEF StatusHolds
<1>12. NoByteForgotten'
  <2>1. ASSUME "RRDY" \notin ctrl' PROVE Succ(rx_end') = rx_start' \/ main'.at \in Reading
    <3>1. CASE rx_end' # rx_end /\ Succ(rx_end') = rx_start
      BY <1>2, <3>1
    <3>2. CASE "RRDY" \notin ctrl
      <4>1. Succ(rx_end) = rx_start \/ main.at \in Reading
        BY <3>2 DEF IInv, NoByteForgotten
      <4>2. rx_end' # rx_end => Succ(rx_end) # rx_start
        BY TransferReceives
      <4>3. QED
        BY <1>2, <4>1, <4>2
    <3>3. QED
      BY <1>1, <2>1, <3>1, <3>2, TransferMask
  <2>2. ASSUME "TRDY" \notin ctrl' PROVE tx_start' = tx_end' \/ main'.at \in Writing
    <3>1. CASE tx_start' = tx_end
      BY <1>2, <3>1
    <3>2. CASE "TRDY" \notin isr.status /\ "TRDY" \notin ctrl
      <4>1. tx_start = tx_end \/ main.at \in Writing
        BY <3>2 DEF IInv, NoByteForgotten
      <4>2. tx_start' = tx_start
        BY <1>1, <3>2, TransferMask
      <4>3. QED
        BY <1>2, <4>1, <4>2
    <3>3. QED
      BY <1>1, <2>2, <3>1, <3>2, TransferMask
  <2>3. QED
    BY <2>1, <2>2 DEF NoByteForgotten
<1>13. QED
  BY <1>9, <1>10, <1>11, <1>12, TransferReceives DEF IInv

----------------------------------------------------------------------------
(* Theorems                                                                 *)

\* Every step is one of these.
LEMMA Steps ==
    ASSUME Next
    PROVE  \/ Arrive \/ Shifted \/ Interrupt \/ ClearErrors \/ Transfer
           \/ /\ UNCHANGED <<device, isr>>
              /\ \/ Calls \/ ReadAdvance \/ WritePut \/ WritePublish
                 \/ ReadWhile \/ ReadCopy \/ ReadCheck \/ ReadEnable \/ ReadReturn
                 \/ WriteNext \/ WriteEnable \/ WriteWait \/ WriteReturn \/ CloseReturn
BY DEF Next, Isr, Program, Continues

\* Every step keeps the invariant.
LEMMA StepOK ==
    ASSUME LIMIT < SIZE, IInv, [Next]_vars
    PROVE  IInv'
<1>1. CASE Next
  <2>1. CASE Arrive
    BY <2>1, ArriveStep
  <2>2. CASE Shifted
    BY <2>2, ShiftedStep
  <2>3. CASE Interrupt \/ ClearErrors
    BY <2>3, HandlerStarts
  <2>4. CASE Transfer
    BY <2>4, TransferStep
  <2>5. CASE UNCHANGED <<device, isr>> /\ Calls
    BY <2>5, CallSteps
  <2>6. CASE UNCHANGED <<device, isr>> /\ ReadAdvance
    BY <2>6, ReadAdvanceStep
  <2>7. CASE UNCHANGED <<device, isr>> /\ (WritePut \/ WritePublish)
    BY <2>7, WriteByteSteps
  <2>8. CASE /\ UNCHANGED <<device, isr>>
             /\ ReadWhile \/ ReadCopy \/ ReadCheck \/ ReadEnable \/ ReadReturn
    BY <2>8, ReadQuietSteps
  <2>9. CASE /\ UNCHANGED <<device, isr>>
             /\ WriteNext \/ WriteEnable \/ WriteWait \/ WriteReturn \/ CloseReturn
    BY <2>9, WriteQuietSteps
  <2>10. QED
    BY <1>1, <2>1, <2>2, <2>3, <2>4, <2>5, <2>6, <2>7, <2>8, <2>9, Steps
<1>2. CASE UNCHANGED vars
  BY <1>2 DEF vars, rxRing, txRing, device, IInv, Types, TypeOK, Phases, StatusHolds, Room, Level,
              NoByteForgotten, TxFull, Succ
<1>3. QED
  BY <1>1, <1>2

\* The invariant holds always, for rings of every size.
THEOREM Consistent ==
    ASSUME LIMIT < SIZE
    PROVE  Spec => []IInv
<1>1. IInv /\ [Next]_vars => IInv'
  BY StepOK
<1>2. QED
  BY <1>1, InitOK, PTL DEF Spec

\* Every variable of Uart keeps its type, the program's counters and the indices among
\* them, for calls of every length.
THEOREM TypeCorrect ==
    ASSUME LIMIT < SIZE
    PROVE  Spec => []TypeOK
<1>1. IInv => TypeOK
  BY DEF IInv, Types
<1>2. QED
  BY <1>1, Consistent, PTL

\* No interrupt stays masked while its ring needs it, whatever the order in which program
\* and handler mask and unmask it.
THEOREM NothingForgotten ==
    ASSUME LIMIT < SIZE
    PROVE  Spec => []NoByteForgotten
<1>1. IInv => NoByteForgotten
  BY DEF IInv
<1>2. QED
  BY <1>1, Consistent, PTL

\* read() hands its caller the oldest byte of the ring, though the handler may have come
\* in between its test, its copy and its step to the next cell.
THEOREM OldestIsRead ==
    ASSUME LIMIT < SIZE
    PROVE  Spec => ReadsTheOldest
<1>1. ASSUME IInv, Next, rx_start' # rx_start
      PROVE  main.byte = <<Head(Received)>>
  <2>1. Types /\ Phases
    BY <1>1 DEF IInv
  <2>2. ReadAdvance
    <3>1. ~ (Arrive \/ Shifted \/ Interrupt \/ ClearErrors \/ Transfer)
      BY <1>1 DEF Arrive, Shifted, Interrupt, ClearErrors, Transfer, rxRing
    <3>2. ~ (\/ Calls \/ WritePut \/ WritePublish
             \/ ReadWhile \/ ReadCopy \/ ReadCheck \/ ReadEnable \/ ReadReturn
             \/ WriteNext \/ WriteEnable \/ WriteWait \/ WriteReturn \/ CloseReturn)
      BY <1>1 DEF Calls, Call, WritePut, WritePublish, ReadWhile, ReadCopy, ReadCheck, ReadEnable,
                  ReadReturn, WriteNext, WriteEnable, WriteWait, WriteReturn, CloseReturn, rxRing
    <3>3. QED
      BY <1>1, <3>1, <3>2, Steps
  <2>3. main.byte = <<rx_buf[rx_start]>> /\ rx_start # rx_end
    BY <2>1, <2>2 DEF ReadAdvance, Phases
  <2>4. /\ Ring(rx_buf, rx_start, rx_end) \in Seq(Byte) /\ rx \in Seq(Byte)
        /\ Ring(rx_buf, rx_start, rx_end) # << >>
        /\ Head(Ring(rx_buf, rx_start, rx_end)) = rx_buf[rx_start]
    <3>1. Stale \in Byte
      BY UartAssumption DEF Stale, Byte
    <3>2. rx_buf \in Buffer /\ rx_start \in Cell /\ rx_end \in Cell /\ rx \in Seq(Byte)
      BY <2>1, TypesAre
    <3>3. QED
      BY <2>3, <3>1, <3>2, RingIs, RingTake
  <2>5. Head(Received) = Head(Ring(rx_buf, rx_start, rx_end))
    BY <2>4, HeadOfConcat DEF Received
  <2>6. QED
    BY <2>3, <2>4, <2>5
<1>2. IInv /\ [Next]_vars => [rx_start' # rx_start => main.byte = <<Head(Received)>>]_vars
  BY <1>1
<1>3. QED
  BY <1>2, Consistent, PTL DEF Spec, ReadsTheOldest

\* What is on the way in: a byte enters when it arrives, unless it is lost to the next,
\* and leaves when read() gives its cell back; the handler only moves it from the device
\* into the ring.
LEMMA ReceiveSteps ==
    ASSUME LIMIT < SIZE, IInv, Next
    PROVE  \/ \E b \in Byte : Received' = Append(Received, b)
           \/ Received # << >> /\ Received' = Tail(Received)
           \/ Received' = Received
<1> DEFINE ring == Ring(rx_buf, rx_start, rx_end)
<1>1. Types /\ Phases
  BY DEF IInv
<1>2. /\ rx_buf \in Buffer /\ rx_start \in Cell /\ rx_end \in Cell
      /\ rx \in Seq(Byte) /\ ring \in Seq(Byte) /\ Received = ring \o rx
  BY <1>1, TypesAre, RingIs DEF Received
<1>3. CASE Arrive
  <2>1. Received' = ring \o rx'
    BY <1>3 DEF Arrive, rxRing, Received
  <2>2. CASE rx = << >>
    <3>1. number.rx \in Byte /\ rx' = <<number.rx>>
      BY <1>1, <1>3, <2>2, TypesAre DEF Arrive
    <3>2. Received = ring
      BY <1>2, <2>2, ConcatEmptySeq
    <3>3. Received' = Append(Received, number.rx)
      BY <1>2, <2>1, <3>1, <3>2, AppendIsConcat
    <3>4. QED
      BY <3>1, <3>3
  <2>3. CASE rx # << >>
    BY <1>2, <1>3, <2>1, <2>3 DEF Arrive
  <2>4. QED
    BY <2>2, <2>3
<1>4. CASE Transfer
  <2>1. CASE rx_buf' = rx_buf /\ rx' = rx /\ rx_end' = rx_end
    BY <1>4, <2>1, TransferSides DEF Received
  <2>2. CASE /\ "RRDY" \in isr.status /\ rx_end' = Succ(rx_end) /\ rx' = << >>
             /\ rx_buf' = [rx_buf EXCEPT ![rx_end] = rx[1]]
    <3>1. rx # << >>
      BY <1>4, <2>2, TransferSides DEF IInv, StatusHolds
    <3>2. rx[1] \in Byte /\ rx = <<rx[1]>>
      BY <1>1, <3>1, TypesAre
    <3>3. Succ(rx_end) # rx_start
      BY <3>1, RoomForOne
    <3>4. rx_buf' \in Buffer /\ Ring(rx_buf', rx_start, rx_end) = ring
      BY <1>2, <2>2, <3>2, RingWrite
    <3>5. rx_buf'[rx_end] = rx[1]
      BY <1>2, <2>2 DEF Buffer
    <3>6. Ring(rx_buf', rx_start, Succ(rx_end)) = Append(ring, rx[1])
      BY <1>2, <3>3, <3>4, <3>5, RingAppend
    <3>7. Received' = Append(ring, rx[1]) \o << >>
      BY <1>4, <2>2, <3>6, TransferSides DEF Received
    <3>8. Append(ring, rx[1]) = ring \o <<rx[1]>> /\ Append(ring, rx[1]) \in Seq(Byte)
      BY <1>2, <3>2, AppendIsConcat, AppendProperties
    <3>9. Received' = ring \o <<rx[1]>>
      BY <3>7, <3>8, ConcatEmptySeq
    <3>10. QED
      BY <1>2, <3>2, <3>9
  <2>3. QED
    BY <1>4, <2>1, <2>2, TransferSides
<1>5. CASE ReadAdvance /\ UNCHANGED <<device, isr>>
  <2>1. rx_start # rx_end /\ Stale \in Byte
    BY <1>1, <1>5, UartAssumption DEF ReadAdvance, Phases, Stale, Byte
  <2>2. ring # << >> /\ Ring([rx_buf EXCEPT ![rx_start] = Stale], Succ(rx_start), rx_end) = Tail(ring)
    BY <1>2, <2>1, RingTake
  <2>3. Received' = Tail(ring) \o rx
    BY <1>5, <2>2 DEF ReadAdvance, device, Received
  <2>4. QED
    BY <1>2, <2>2, <2>3, HeadOfConcat
<1>6. CASE UNCHANGED <<rxRing, rx>>
  BY <1>6 DEF rxRing, Received
<1>7. \/ Arrive \/ Transfer \/ (ReadAdvance /\ UNCHANGED <<device, isr>>)
      \/ UNCHANGED <<rxRing, rx>>
  <2>1. Shifted \/ Interrupt \/ ClearErrors => UNCHANGED <<rxRing, rx>>
    BY DEF Shifted, Interrupt, ClearErrors, device
  <2>2. /\ UNCHANGED <<device, isr>>
        /\ \/ Calls \/ WritePut \/ WritePublish
           \/ ReadWhile \/ ReadCopy \/ ReadCheck \/ ReadEnable \/ ReadReturn
           \/ WriteNext \/ WriteEnable \/ WriteWait \/ WriteReturn \/ CloseReturn
        => UNCHANGED <<rxRing, rx>>
    BY DEF Calls, Call, WritePut, WritePublish, ReadWhile, ReadCopy, ReadCheck, ReadEnable,
           ReadReturn, WriteNext, WriteEnable, WriteWait, WriteReturn, CloseReturn, device
  <2>3. QED
    BY <2>1, <2>2, Steps
<1>8. QED
  BY <1>3, <1>4, <1>5, <1>6, <1>7

\* What is on the way out: a byte enters when write() moves the end of the ring past it
\* and leaves when it has been shifted out; the handler only moves it from the ring into
\* the device.
LEMMA TransmitSteps ==
    ASSUME IInv, Next
    PROVE  \/ \E b \in Byte : Written' = Append(Written, b)
           \/ Written # << >> /\ Written' = Tail(Written)
           \/ Written' = Written
<1> DEFINE ring == Ring(tx_buf, tx_start, tx_end)
<1>1. Types /\ Phases /\ StatusHolds
  BY DEF IInv
<1>2. /\ tx_buf \in Buffer /\ tx_start \in Cell /\ tx_end \in Cell
      /\ tx \in Seq(Byte) /\ ring \in Seq(Byte) /\ Written = tx \o ring
  BY <1>1, TypesAre, RingIs DEF Written
<1>3. CASE Shifted
  <2>1. tx # << >> /\ Written' = Tail(tx) \o ring
    BY <1>3 DEF Shifted, txRing, Written
  <2>2. QED
    BY <1>2, <2>1, HeadOfConcat
<1>4. CASE Transfer
  <2>1. CASE tx' = tx /\ tx_start' = tx_start /\ tx_buf' = tx_buf
    BY <1>4, <2>1, TransferSides DEF Written
  <2>2. CASE /\ "TRDY" \in isr.status /\ tx_start # tx_end
             /\ tx' = IF Len(tx) < 2 THEN Append(tx, tx_buf[tx_start])
                      ELSE <<tx[1], tx_buf[tx_start]>>
             /\ tx_start' = Succ(tx_start) /\ tx_buf' = [tx_buf EXCEPT ![tx_start] = Stale]
    <3>1. Len(tx) < 2
      BY <1>1, <1>4, <2>2, TransferSides DEF StatusHolds
    <3>2. Stale \in Byte
      BY UartAssumption DEF Stale, Byte
    <3>3. /\ ring # << >> /\ Head(ring) = tx_buf[tx_start]
          /\ Ring(tx_buf', tx_start', tx_end) = Tail(ring)
      BY <1>2, <2>2, <3>2, RingTake
    <3>4. tx' = Append(tx, Head(ring))
      BY <2>2, <3>1, <3>3
    <3>5. Written' = Append(tx, Head(ring)) \o Tail(ring)
      BY <1>4, <3>3, <3>4, TransferSides DEF Written
    <3>6. Append(tx, Head(ring)) \o Tail(ring) = tx \o ring
      BY <1>2, <3>3, MoveHead
    <3>7. QED
      BY <1>2, <3>5, <3>6
  <2>3. QED
    BY <1>4, <2>1, <2>2, TransferSides
<1>5. CASE WritePut /\ UNCHANGED <<device, isr>>
  <2>1. number.tx \in Byte
    BY <1>1, TypesAre
  <2>2. Ring([tx_buf EXCEPT ![tx_end] = number.tx], tx_start, tx_end) = ring
    BY <1>2, <2>1, RingWrite
  <2>3. QED
    BY <1>2, <1>5, <2>2 DEF WritePut, device, Written
<1>6. CASE WritePublish /\ UNCHANGED <<device, isr>>
  <2>1. Succ(tx_end) # tx_start
    BY <1>1, <1>6 DEF WritePublish, Phases, TxFull
  <2>2. Ring(tx_buf, tx_start, Succ(tx_end)) = Append(ring, tx_buf[tx_end]) /\ tx_buf[tx_end] \in Byte
    BY <1>2, <2>1, RingAppend DEF Buffer
  <2>3. Written' = tx \o Append(ring, tx_buf[tx_end])
    BY <1>6, <2>2 DEF WritePublish, device, Written
  <2>4. tx \o Append(ring, tx_buf[tx_end]) = Append(tx \o ring, tx_buf[tx_end])
    BY <1>2, <2>2, AppendToConcat
  <2>5. QED
    BY <1>2, <2>2, <2>3, <2>4
<1>7. CASE UNCHANGED <<txRing, tx>>
  BY <1>7 DEF txRing, Written
<1>8. \/ Shifted \/ Transfer \/ (WritePut /\ UNCHANGED <<device, isr>>)
      \/ (WritePublish /\ UNCHANGED <<device, isr>>) \/ UNCHANGED <<txRing, tx>>
  <2>1. Arrive \/ Interrupt \/ ClearErrors => UNCHANGED <<txRing, tx>>
    BY DEF Arrive, Interrupt, ClearErrors, device
  <2>2. /\ UNCHANGED <<device, isr>>
        /\ \/ Calls \/ ReadAdvance
           \/ ReadWhile \/ ReadCopy \/ ReadCheck \/ ReadEnable \/ ReadReturn
           \/ WriteNext \/ WriteEnable \/ WriteWait \/ WriteReturn \/ CloseReturn
        => UNCHANGED <<txRing, tx>>
    BY DEF Calls, Call, ReadAdvance, ReadWhile, ReadCopy, ReadCheck, ReadEnable,
           ReadReturn, WriteNext, WriteEnable, WriteWait, WriteReturn, CloseReturn, device
  <2>3. QED
    BY <2>1, <2>2, Steps
<1>9. QED
  BY <1>3, <1>4, <1>5, <1>6, <1>7, <1>8

\* The receive direction is a channel: no byte that has been fetched or still waits in
\* the device is lost, repeated or overtaken.
THEOREM Receiving ==
    ASSUME LIMIT < SIZE
    PROVE  Spec => ReceivesInOrder
<1>1. Init => Receives!Init
  <2> SUFFICES ASSUME Init PROVE Received = << >>
    BY DEF Receives!Init
  <2>1. rx_start = rx_end /\ rx = << >>
    BY DEF Init
  <2>2. rx_buf \in Buffer /\ rx_start \in Cell /\ rx_end \in Cell
    BY InitOK, TypesAre DEF IInv
  <2>3. Ring(rx_buf, rx_start, rx_end) = << >>
    BY <2>1, <2>2, RingEmpty
  <2>4. << >> \o << >> = << >>
    BY EmptySeq, ConcatEmptySeq
  <2>5. QED
    BY <2>1, <2>3, <2>4 DEF Received
<1>2. IInv /\ [Next]_vars => [Receives!Enter \/ Receives!Leave]_Received
  <2>1. CASE Next
    BY <2>1, ReceiveSteps DEF Receives!Enter, Receives!Leave
  <2>2. CASE UNCHANGED vars
    BY <2>2 DEF vars, rxRing, device, Received
  <2>3. QED
    BY <2>1, <2>2
<1>3. QED
  BY <1>1, <1>2, Consistent, PTL DEF Spec, ReceivesInOrder, Receives!Spec

\* And so is the transmit direction.
THEOREM Transmitting ==
    ASSUME LIMIT < SIZE
    PROVE  Spec => TransmitsInOrder
<1>1. Init => Transmits!Init
  <2> SUFFICES ASSUME Init PROVE Written = << >>
    BY DEF Transmits!Init
  <2>1. tx_start = tx_end /\ tx = << >>
    BY DEF Init
  <2>2. tx_buf \in Buffer /\ tx_start \in Cell /\ tx_end \in Cell
    BY InitOK, TypesAre DEF IInv
  <2>3. Ring(tx_buf, tx_start, tx_end) = << >>
    BY <2>1, <2>2, RingEmpty
  <2>4. << >> \o << >> = << >>
    BY EmptySeq, ConcatEmptySeq
  <2>5. QED
    BY <2>1, <2>3, <2>4 DEF Written
<1>2. IInv /\ [Next]_vars => [Transmits!Enter \/ Transmits!Leave]_Written
  <2>1. CASE Next
    BY <2>1, TransmitSteps DEF Transmits!Enter, Transmits!Leave
  <2>2. CASE UNCHANGED vars
    BY <2>2 DEF vars, txRing, device, Written
  <2>3. QED
    BY <2>1, <2>2
<1>3. QED
  BY <1>1, <1>2, Consistent, PTL DEF Spec, TransmitsInOrder, Transmits!Spec
============================================================================
