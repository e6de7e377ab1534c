--------------------------- MODULE FifoQueueProofs ---------------------------
(***************************************************************************)
(* Proofs about FifoQueue, for every depth and every set of data: its      *)
(* registers are consistent, and the ring of registers implements the      *)
(* bounded queue, as every clock of the one is a clock of the other or     *)
(* changes nothing in it.                                                  *)
(***************************************************************************)
EXTENDS FifoQueue, SequenceTheorems, TLAPS

\* The wrapping increment stays inside the memory.
LEMMA IncType == \A p \in Slots : Inc(p) \in Slots
BY DepthAssumption DEF Inc, Slots

\* One clock of the queue on consistent registers, the part without reset.
LEMMA TransferType ==
    ASSUME FifoTypeOK, LevelIsDistance
    PROVE  Transfer(r, enq_strobe, enq_data, deq_strobe) \in Registers
<1> DEFINE v == Transfer(r, enq_strobe, enq_data, deq_strobe)
           taken == Taken(r, deq_strobe)
           stored == Stored(r, enq_strobe)
           rp == IF taken THEN Inc(r.rptr) ELSE r.rptr
           lv == r.fifo_level + (IF stored THEN 1 ELSE 0) - (IF taken THEN 1 ELSE 0)
<1>1. /\ r.memory \in [Slots -> Data]
      /\ r.wptr \in Slots
      /\ r.rptr \in Slots
      /\ r.fifo_level \in 0 .. SLOTS
      /\ enq_data \in Data
  BY DEF FifoTypeOK, Registers, Ports
<1>2. rp \in Slots /\ Inc(r.wptr) \in Slots
  BY <1>1, IncType
<1>3. lv \in 0 .. SLOTS
  BY <1>1, DepthAssumption DEF LevelIsDistance, Taken, Stored
<1>4. Shown(r, rp, stored, enq_data) \in Data
  BY <1>1, <1>2 DEF Shown
<1>5. [r.memory EXCEPT ![r.wptr] = enq_data] \in [Slots -> Data]
  BY <1>1
<1> HIDE DEF rp, lv, stored, taken
<1>6. v = [memory     |-> IF stored THEN [r.memory EXCEPT ![r.wptr] = enq_data]
                                  ELSE r.memory,
           wptr       |-> IF stored THEN Inc(r.wptr) ELSE r.wptr,
           rptr       |-> rp,
           deq_data   |-> Shown(r, rp, stored, enq_data),
           fifo_full  |-> lv >= SLOTS,
           fifo_empty |-> lv = 0,
           fifo_level |-> lv]
  BY DEF Transfer, rp, lv, stored, taken
<1>7. QED
  BY <1>1, <1>2, <1>3, <1>4, <1>5, <1>6 DEF Registers

\* The same clock keeps the level equal to the distance between the pointers.
LEMMA TransferLevel ==
    ASSUME FifoTypeOK, LevelIsDistance, r' = Transfer(r, enq_strobe, enq_data, deq_strobe)
    PROVE  LevelIsDistance'
<1>1. /\ r.wptr \in 0 .. SLOTS - 1
      /\ r.rptr \in 0 .. SLOTS - 1
      /\ r.fifo_level \in 0 .. SLOTS
      /\ SLOTS \in Nat \ {0}
  BY DepthAssumption DEF FifoTypeOK, Registers, Slots
<1> DEFINE taken == Taken(r, deq_strobe)
           stored == Stored(r, enq_strobe)
           lv == r.fifo_level + (IF stored THEN 1 ELSE 0) - (IF taken THEN 1 ELSE 0)
<1>2. /\ r'.wptr = IF stored THEN Inc(r.wptr) ELSE r.wptr
      /\ r'.rptr = IF taken THEN Inc(r.rptr) ELSE r.rptr
      /\ r'.fifo_level = lv
      /\ r'.fifo_empty <=> (lv = 0)
      /\ r'.fifo_full <=> (lv >= SLOTS)
  BY DEF Transfer
<1>3. /\ taken => r.fifo_level # 0
      /\ stored => r.fifo_level # SLOTS
  BY DEF LevelIsDistance, Taken, Stored
<1> HIDE DEF taken, stored
<1>4. lv \in 0 .. SLOTS
  BY <1>1, <1>3
<1>5. \/ r'.wptr = r'.rptr + r'.fifo_level
      \/ r'.wptr = r'.rptr + r'.fifo_level - SLOTS
  <2>1. CASE taken /\ stored
    BY <1>1, <1>2, <1>3, <2>1 DEF LevelIsDistance, Inc
  <2>2. CASE taken /\ ~ stored
    BY <1>1, <1>2, <1>3, <2>2 DEF LevelIsDistance, Inc
  <2>3. CASE ~ taken /\ stored
    BY <1>1, <1>2, <1>3, <2>3 DEF LevelIsDistance, Inc
  <2>4. CASE ~ taken /\ ~ stored
    BY <1>1, <1>2, <2>4 DEF LevelIsDistance
  <2>5. QED
    BY <2>1, <2>2, <2>3, <2>4
<1> HIDE DEF lv
<1>6. /\ r'.fifo_empty <=> (r'.fifo_level = 0)
      /\ r'.fifo_full <=> (r'.fifo_level = SLOTS)
  BY <1>1, <1>2, <1>4
<1>7. QED
  BY <1>5, <1>6 DEF LevelIsDistance

\* The same clock leaves the oldest element on deq_data: either the slot under
\* rptr was filled earlier, or it is the one being written and the bypass acts.
LEMMA TransferHead ==
    ASSUME FifoTypeOK, LevelIsDistance, HeadShown,
           r' = Transfer(r, enq_strobe, enq_data, deq_strobe)
    PROVE  HeadShown'
<1> DEFINE taken == Taken(r, deq_strobe)
           stored == Stored(r, enq_strobe)
           rp == IF taken THEN Inc(r.rptr) ELSE r.rptr
<1>1. /\ r.memory \in [Slots -> Data]
      /\ r.wptr \in Slots
      /\ rp \in Slots
  BY IncType DEF FifoTypeOK, Registers
<1>2. /\ r'.rptr = rp
      /\ r'.memory = IF stored THEN [r.memory EXCEPT ![r.wptr] = enq_data] ELSE r.memory
      /\ r'.deq_data = Shown(r, rp, stored, enq_data)
  BY DEF Transfer
<1> HIDE DEF rp, stored, taken
<1>3. r'.deq_data = r'.memory[r'.rptr]
  BY <1>1, <1>2 DEF Shown
<1>4. QED
  BY <1>3 DEF HeadShown

\* The invariant holds after a reset, on whatever memory.
LEMMA ResetOK ==
    ASSUME NEW memory \in [Slots -> Data]
    PROVE  /\ ResetOn(memory) \in Registers
           /\ r = ResetOn(memory) => LevelIsDistance /\ HeadShown
<1>1. ResetOn(memory) \in Registers
  BY DepthAssumption, ZeroAssumption DEF ResetOn, Registers, Slots
<1>2. r = ResetOn(memory) => LevelIsDistance /\ HeadShown
  BY DepthAssumption DEF ResetOn, LevelIsDistance, HeadShown
<1>3. QED
  BY <1>1, <1>2

\* The reset state is an empty queue, whatever the memory holds.
LEMMA InitOK == FifoInit => IInv
BY ResetOK DEF FifoInit, IInv, FifoTypeOK

\* A clock with any strobes and resets keeps the invariant.
LEMMA StepOK == IInv /\ [FifoNext]_fifoVars => IInv'
<1> SUFFICES ASSUME IInv, [FifoNext]_fifoVars
             PROVE  IInv'
  OBVIOUS
<1>1. CASE FifoNext
  <2> DEFINE v == Transfer(r, enq_strobe, enq_data, deq_strobe)
  <2>1. v \in Registers
    BY TransferType DEF IInv
  <2>2. Ports'
    BY <1>1 DEF FifoNext, Clock, Ports
  <2>3. CASE ~ fifo_rst
    <3>1. r' = v
      BY <1>1, <2>3 DEF FifoNext, Clock, FifoStep
    <3>2. LevelIsDistance' /\ HeadShown'
      BY <3>1, TransferLevel, TransferHead DEF IInv
    <3>3. QED
      BY <2>1, <2>2, <3>1, <3>2 DEF IInv, FifoTypeOK
  <2>4. CASE fifo_rst
    <3>1. r' = ResetOn(v.memory)
      BY <1>1, <2>4 DEF FifoNext, Clock, FifoStep
    <3>2. v.memory \in [Slots -> Data]
      BY <2>1 DEF Registers
    <3> HIDE DEF v
    <3>3. r' \in Registers
      BY <3>1, <3>2, ResetOK
    <3>4. LevelIsDistance' /\ HeadShown'
      BY <3>1, DepthAssumption DEF ResetOn, LevelIsDistance, HeadShown
    <3>5. QED
      BY <2>2, <3>3, <3>4 DEF IInv, FifoTypeOK
  <2>5. QED
    BY <2>3, <2>4
<1>2. CASE UNCHANGED fifoVars
  BY <1>2 DEF fifoVars, ports, IInv, FifoTypeOK, Ports, LevelIsDistance, HeadShown
<1>3. QED
  BY <1>1, <1>2

\* For every depth and every traffic the registers keep their types, the level
\* register is the pointer distance and the oldest element is shown on deq_data.
THEOREM Consistent == FifoSpec => []IInv
BY InitOK, StepOK, PTL DEF FifoSpec

\* Pointers, level, flags and memory keep the ranges the entity declares.
THEOREM TypeCorrect == FifoSpec => []FifoTypeOK
<1>1. IInv => FifoTypeOK
  BY DEF IInv
<1>2. QED
  BY <1>1, Consistent, PTL

\* The consumer always sees the oldest descriptor without dequeuing it.
THEOREM HeadAlwaysShown == FifoSpec => []HeadShown
<1>1. IInv => HeadShown
  BY DEF IInv
<1>2. QED
  BY <1>1, Consistent, PTL

\* The level register never drifts from the pointers.
THEOREM LevelAlwaysDistance == FifoSpec => []LevelIsDistance
<1>1. IInv => LevelIsDistance
  BY DEF IInv
<1>2. QED
  BY <1>1, Consistent, PTL

----------------------------------------------------------------------------
(* The refinement                                                           *)

\* A function on 1 .. n is a sequence of length n.
LEMMA FunctionIsSeq ==
    ASSUME NEW S, NEW n \in Nat, NEW s \in [1 .. n -> S]
    PROVE  s \in Seq(S) /\ Len(s) = n
OBVIOUS

\* The contents are the descriptors in the slots from rptr on.
LEMMA ContentsIsSeq ==
    ASSUME FifoTypeOK
    PROVE  /\ Contents \in Seq(Data)
           /\ Len(Contents) = r.fifo_level
           /\ \A i \in 1 .. r.fifo_level : Contents[i] = r.memory[SlotOf(i - 1)]
<1>1. /\ r.memory \in [Slots -> Data] /\ r.rptr \in 0 .. SLOTS - 1
      /\ r.fifo_level \in 0 .. SLOTS /\ SLOTS \in Nat
  BY DepthAssumption DEF FifoTypeOK, Registers, Slots
<1>2. \A i \in 1 .. r.fifo_level : SlotOf(i - 1) \in Slots
  BY <1>1 DEF SlotOf, Slots
<1>3. \A i \in 1 .. r.fifo_level : r.memory[SlotOf(i - 1)] \in Data
  BY <1>1, <1>2
<1>4. Contents \in [1 .. r.fifo_level -> Data]
  BY <1>3 DEF Contents
<1>5. Contents \in Seq(Data) /\ Len(Contents) = r.fifo_level
  BY <1>1, <1>4, FunctionIsSeq
<1>6. QED
  BY <1>5 DEF Contents

\* What a dequeue leaves, element by element.
LEMMA DequeuedIs ==
    ASSUME FifoTypeOK, LevelIsDistance
    PROVE  LET taken == Taken(r, deq_strobe)
               left == r.fifo_level - (IF taken THEN 1 ELSE 0)
           IN  /\ Abstract!Dequeued \in Seq(Data)
               /\ Len(Abstract!Dequeued) = left
               /\ \A i \in 1 .. left :
                    Abstract!Dequeued[i] = r.memory[SlotOf(i - (IF taken THEN 0 ELSE 1))]
<1> DEFINE taken == Taken(r, deq_strobe)
<1>1. r.fifo_level \in Nat
  BY DEF FifoTypeOK, Registers
<1>2. Contents = << >> <=> r.fifo_level = 0
  BY <1>1, ContentsIsSeq, EmptySeq
<1>3. taken <=> deq_strobe /\ Contents # << >>
  BY <1>2 DEF Taken, LevelIsDistance
<1>4. CASE taken
  <2>1. Abstract!Dequeued = Tail(Contents) /\ Contents # << >>
    BY <1>3, <1>4 DEF Abstract!Dequeued
  <2>2. /\ Tail(Contents) \in Seq(Data)
        /\ Len(Tail(Contents)) = r.fifo_level - 1
        /\ \A i \in 1 .. r.fifo_level - 1 : Tail(Contents)[i] = Contents[i + 1]
    BY <2>1, ContentsIsSeq, HeadTailProperties
  <2>3. \A i \in 1 .. r.fifo_level - 1 : Contents[i + 1] = r.memory[SlotOf(i)]
    <3> SUFFICES ASSUME NEW i \in 1 .. r.fifo_level - 1
                 PROVE  Contents[i + 1] = r.memory[SlotOf(i)]
      OBVIOUS
    <3>1. i + 1 \in 1 .. r.fifo_level /\ (i + 1) - 1 = i
      BY <1>1
    <3>2. QED
      BY <3>1, ContentsIsSeq
  <2>4. QED
    BY <1>4, <2>1, <2>2, <2>3
<1>5. CASE ~ taken
  <2>1. Abstract!Dequeued = Contents
    BY <1>3, <1>5 DEF Abstract!Dequeued
  <2>2. QED
    BY <1>1, <1>5, <2>1, ContentsIsSeq
<1>6. QED
  BY <1>4, <1>5

\* Where the elements stand after a clock without reset: a kept element in the slot
\* it was in, which the write does not touch, and the new one in the slot written.
LEMMA SlotsAfter ==
    ASSUME FifoTypeOK, LevelIsDistance, r' = Transfer(r, enq_strobe, enq_data, deq_strobe)
    PROVE  LET taken == Taken(r, deq_strobe)
               stored == Stored(r, enq_strobe)
               left == r.fifo_level - (IF taken THEN 1 ELSE 0)
           IN  /\ left \in Nat
               /\ r'.fifo_level = left + (IF stored THEN 1 ELSE 0)
               /\ \A i \in 1 .. left :
                    r'.memory[SlotOf(i - 1)'] = r.memory[SlotOf(i - (IF taken THEN 0 ELSE 1))]
               /\ stored => \A i \in Nat : i = left + 1 => r'.memory[SlotOf(i - 1)'] = enq_data
<1> DEFINE taken == Taken(r, deq_strobe)
           stored == Stored(r, enq_strobe)
           left == r.fifo_level - (IF taken THEN 1 ELSE 0)
           Was(i) == SlotOf(i - (IF taken THEN 0 ELSE 1))
<1>1. /\ r.memory \in [0 .. SLOTS - 1 -> Data]
      /\ r.wptr \in 0 .. SLOTS - 1 /\ r.rptr \in 0 .. SLOTS - 1
      /\ r.fifo_level \in 0 .. SLOTS /\ SLOTS \in Nat \ {0}
  BY DepthAssumption DEF FifoTypeOK, Registers, Slots
<1>2. /\ r'.memory = IF stored THEN [r.memory EXCEPT ![r.wptr] = enq_data] ELSE r.memory
      /\ r'.rptr = IF taken THEN Inc(r.rptr) ELSE r.rptr
      /\ r'.fifo_level = r.fifo_level + (IF stored THEN 1 ELSE 0) - (IF taken THEN 1 ELSE 0)
  BY DEF Transfer
<1>3. /\ taken => r.fifo_level # 0
      /\ stored => r.fifo_level # SLOTS
  BY DEF LevelIsDistance, Taken, Stored
<1> HIDE DEF taken, stored
<1>4. left \in Nat /\ r'.fifo_level = left + (IF stored THEN 1 ELSE 0)
  BY <1>1, <1>2, <1>3
<1>5. ASSUME NEW i \in 1 .. left
      PROVE  r'.memory[SlotOf(i - 1)'] = r.memory[Was(i)]
  <2>1. SlotOf(i - 1)' = Was(i)
    <3>1. CASE taken
      <4>1. /\ SLOTS \in Nat /\ r.rptr \in 0 .. SLOTS - 1 /\ i \in 1 .. SLOTS - 1
            /\ r'.rptr = IF r.rptr = SLOTS - 1 THEN 0 ELSE r.rptr + 1
        BY <1>1, <1>2, <1>3, <3>1 DEF Inc
      <4>2. CASE r.rptr = SLOTS - 1
        BY <3>1, <4>1, <4>2 DEF SlotOf
      <4>3. CASE r.rptr # SLOTS - 1
        BY <3>1, <4>1, <4>3 DEF SlotOf
      <4> QED BY <4>2, <4>3
    <3>2. CASE ~ taken
      BY <1>1, <1>2, <3>2 DEF SlotOf
    <3>3. QED
      BY <3>1, <3>2
  <2>2. stored => Was(i) # r.wptr
    <3>1. /\ r.rptr \in 0 .. SLOTS - 1 /\ r.wptr \in 0 .. SLOTS - 1 /\ SLOTS \in Nat
          /\ r.wptr = r.rptr + r.fifo_level \/ r.wptr = r.rptr + r.fifo_level - SLOTS
      BY <1>1, DepthAssumption DEF LevelIsDistance
    <3>2. CASE taken
      BY <1>1, <1>3, <3>1, <3>2 DEF SlotOf
    <3>3. CASE ~ taken
      BY <1>1, <1>3, <3>1, <3>3 DEF SlotOf
    <3> QED BY <3>2, <3>3
  <2>3. QED
    BY <1>1, <1>2, <2>1, <2>2
<1>6. ASSUME stored, NEW i \in Nat, i = left + 1
      PROVE  r'.memory[SlotOf(i - 1)'] = enq_data
  <2>1. SlotOf(i - 1)' = r.wptr
    <3>1. \/ r.wptr = r.rptr + r.fifo_level
          \/ r.wptr = r.rptr + r.fifo_level - SLOTS
      BY DEF LevelIsDistance
    <3>2. CASE taken
      <4>1. i = r.fifo_level /\ r.fifo_level # 0 /\ r'.rptr = Inc(r.rptr)
        BY <1>1, <1>2, <1>3, <1>6, <3>2
      <4>2. r'.rptr = IF r.rptr = SLOTS - 1 THEN 0 ELSE r.rptr + 1
        BY <4>1 DEF Inc
      <4>3. SlotOf(i - 1)' = IF r'.rptr + (i - 1) < SLOTS THEN r'.rptr + (i - 1)
                                                         ELSE r'.rptr + (i - 1) - SLOTS
        BY DEF SlotOf
      <4>4. /\ SLOTS \in Nat \ {0} /\ r.fifo_level \in 1 .. SLOTS
            /\ r.wptr \in 0 .. SLOTS - 1 /\ r.rptr \in 0 .. SLOTS - 1
        BY <1>1, <4>1
      <4>5. CASE r.rptr = SLOTS - 1
        <5>1. r'.rptr = 0 /\ r.wptr = r.fifo_level - 1
          BY <3>1, <4>2, <4>4, <4>5
        <5>2. QED
          BY <4>1, <4>3, <4>4, <5>1
      <4>6. CASE r.rptr # SLOTS - 1
        <5>1. r'.rptr = r.rptr + 1
          BY <4>2, <4>6
        <5>2. r'.rptr + (i - 1) = r.rptr + r.fifo_level
          BY <4>1, <4>4, <5>1
        <5>3. SlotOf(i - 1)' = IF r.rptr + r.fifo_level < SLOTS
                               THEN r.rptr + r.fifo_level ELSE r.rptr + r.fifo_level - SLOTS
          BY <4>3, <4>4, <5>1, <5>2
        <5>4. QED
          BY <3>1, <4>4, <5>3
      <4>7. QED
        BY <4>5, <4>6
    <3>3. CASE ~ taken
      <4>1. i - 1 = r.fifo_level /\ r'.rptr = r.rptr
        BY <1>1, <1>2, <1>6, <3>3
      <4>2. SlotOf(i - 1)' = IF r'.rptr + (i - 1) < SLOTS THEN r'.rptr + (i - 1)
                                                         ELSE r'.rptr + (i - 1) - SLOTS
        BY DEF SlotOf
      <4>3. SlotOf(i - 1)' = IF r.rptr + r.fifo_level < SLOTS
                             THEN r.rptr + r.fifo_level ELSE r.rptr + r.fifo_level - SLOTS
        BY <4>1, <4>2
      <4>4. QED
        BY <1>1, <3>1, <4>3
    <3>4. QED
      BY <3>2, <3>3
  <2>2. QED
    BY <1>1, <1>2, <1>6, <2>1
<1>7. QED
  BY <1>4, <1>5, <1>6 DEF taken, stored

\* A clock of the registers is a clock of the bounded queue.
LEMMA StepRefines == IInv /\ FifoNext => Abstract!Clock
<1> SUFFICES ASSUME IInv, FifoNext PROVE Abstract!Clock
  OBVIOUS
<1> DEFINE v == Transfer(r, enq_strobe, enq_data, deq_strobe)
           taken == Taken(r, deq_strobe)
           stored == Stored(r, enq_strobe)
           left == r.fifo_level - (IF taken THEN 1 ELSE 0)
           kept == Abstract!Dequeued
<1>1. FifoTypeOK /\ LevelIsDistance /\ FifoTypeOK'
  BY StepOK DEF IInv
<1>2. /\ Contents' \in Seq(Data)
      /\ Len(Contents') = r'.fifo_level
      /\ \A i \in 1 .. r'.fifo_level : Contents'[i] = r'.memory[SlotOf(i - 1)']
  <2>1. /\ r'.memory \in [Slots -> Data] /\ r'.rptr \in 0 .. SLOTS - 1
        /\ r'.fifo_level \in 0 .. SLOTS /\ SLOTS \in Nat
    BY <1>1, DepthAssumption DEF FifoTypeOK, Registers, Slots
  <2>2. \A i \in 1 .. r'.fifo_level : SlotOf(i - 1)' \in Slots
    BY <2>1 DEF SlotOf, Slots
  <2>3. Contents' \in [1 .. r'.fifo_level -> Data]
    BY <2>1, <2>2 DEF Contents
  <2>4. Contents' \in Seq(Data) /\ Len(Contents') = r'.fifo_level
    BY <2>1, <2>3, FunctionIsSeq
  <2>5. \A i \in 1 .. r'.fifo_level : Contents'[i] = r'.memory[SlotOf(i - 1)']
    BY DEF Contents
  <2>6. QED
    BY <2>4, <2>5
<1>3. CASE fifo_rst
  <2>1. r'.fifo_level = 0
    BY <1>3 DEF FifoNext, Clock, FifoStep, ResetOn
  <2>2. Contents' = << >>
    BY <1>2, <2>1, EmptySeq
  <2>3. QED
    BY <1>3, <2>2 DEF Abstract!Clock
<1>4. CASE ~ fifo_rst
  <2>1. r' = v
    BY <1>4 DEF FifoNext, Clock, FifoStep
  <2>2. /\ kept \in Seq(Data) /\ Len(kept) = left
        /\ \A i \in 1 .. left : kept[i] = r.memory[SlotOf(i - (IF taken THEN 0 ELSE 1))]
    BY <1>1, DequeuedIs
  <2>3. /\ left \in Nat
        /\ r'.fifo_level = left + (IF stored THEN 1 ELSE 0)
        /\ \A i \in 1 .. left :
             r'.memory[SlotOf(i - 1)'] = r.memory[SlotOf(i - (IF taken THEN 0 ELSE 1))]
        /\ stored => \A i \in Nat : i = left + 1 => r'.memory[SlotOf(i - 1)'] = enq_data
    BY <1>1, <2>1, SlotsAfter
  <2>4. stored <=> enq_strobe /\ Len(Contents) < SLOTS
    BY <1>1, ContentsIsSeq, DepthAssumption
       DEF FifoTypeOK, Registers, LevelIsDistance, Stored
  <2>5. enq_data \in Data
    BY <1>1 DEF FifoTypeOK, Ports
  <2> HIDE DEF left, kept, taken, stored
  <2>9. \A i \in 1 .. left : Contents'[i] = kept[i]
    <3> SUFFICES ASSUME NEW i \in 1 .. left
                 PROVE  Contents'[i] = kept[i]
      OBVIOUS
    <3>1. i \in 1 .. r'.fifo_level
      BY <2>3
    <3>2. Contents'[i] = r'.memory[SlotOf(i - 1)']
      BY <1>2, <3>1
    <3>3. kept[i] = r.memory[SlotOf(i - (IF taken THEN 0 ELSE 1))]
      BY <2>2
    <3>4. QED
      BY <2>3, <3>2, <3>3
  <2>6. CASE stored
    <3>1. /\ Append(kept, enq_data) \in Seq(Data)
          /\ Len(Append(kept, enq_data)) = left + 1
          /\ \A i \in 1 .. left : Append(kept, enq_data)[i] = kept[i]
          /\ Append(kept, enq_data)[left + 1] = enq_data
      BY <2>2, <2>3, <2>5, AppendProperties
    <3>2. \A i \in 1 .. left + 1 : Contents'[i] = Append(kept, enq_data)[i]
      <4>1. \A i \in 1 .. left : Contents'[i] = kept[i]
        BY <2>9
      <4>2. \A i \in Nat : i = left + 1 => Contents'[i] = enq_data
        <5> SUFFICES ASSUME NEW i \in Nat, i = left + 1
                     PROVE  Contents'[i] = enq_data
          OBVIOUS
        <5>1. i \in 1 .. r'.fifo_level
          BY <2>3, <2>6
        <5>2. Contents'[i] = r'.memory[SlotOf(i - 1)']
          BY <1>2, <5>1
        <5>3. QED
          BY <2>3, <2>6, <5>2
      <4>3. QED
        BY <2>3, <3>1, <4>1, <4>2
    <3>3. Contents' = Append(kept, enq_data)
      BY <1>2, <2>3, <2>6, <3>1, <3>2, SeqEqual
    <3>4. QED
      BY <1>4, <2>4, <2>6, <3>3 DEF Abstract!Clock, kept
  <2>7. CASE ~ stored
    <3>1. Contents' = kept
      BY <1>2, <2>2, <2>3, <2>7, <2>9, SeqEqual
    <3>2. QED
      BY <1>4, <2>4, <2>7, <3>1 DEF Abstract!Clock, kept
  <2>8. QED
    BY <2>6, <2>7
<1>5. QED
  BY <1>3, <1>4

\* The registers start as an empty queue.
LEMMA InitRefines == FifoInit => Abstract!Init
<1> SUFFICES ASSUME FifoInit PROVE Contents = << >>
  BY DEF Abstract!Init
<1>1. FifoTypeOK
  BY InitOK DEF IInv
<1>2. r.fifo_level = 0
  BY DEF FifoInit, ResetOn
<1>3. QED
  BY <1>1, <1>2, ContentsIsSeq, EmptySeq

\* The queue of fifo_queue.vhd is a bounded queue: no descriptor is lost, repeated or
\* reordered, for every depth, whatever strobes and resets arrive in whatever cycles.
THEOREM Implements == FifoSpec => ImplementsQueue
<1>1. IInv /\ [FifoNext]_fifoVars => [Abstract!Clock]_Contents
  <2>1. CASE UNCHANGED fifoVars
    BY <2>1 DEF fifoVars, Contents, SlotOf
  <2>2. QED
    BY <2>1, StepRefines
<1>2. QED
  BY <1>1, InitRefines, Consistent, PTL DEF FifoSpec, ImplementsQueue, Abstract!Spec
============================================================================
