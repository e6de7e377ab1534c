---------------------------- MODULE EthCommProofs ----------------------------
(***************************************************************************)
(* Theorems about the Ethernet side of v1, for frames and headers of any   *)
(* length, halves of any number of samples and any number of resets.       *)
(*                                                                         *)
(* RxInv says of the receiver which dibits of the frame are in the shift   *)
(* register, by how many of them came, and what the parser has made of the *)
(* bytes that came whole: the state it is in, what it still waits for,     *)
(* where the bytes behind the last header stand in its buffer, and how     *)
(* many requests it has made.                                              *)
(*                                                                         *)
(* StreamInv says of the stream which words of the frame are written, the  *)
(* last two of them still on their way to the buffer; how far the reader   *)
(* of UDP_BUFFER is with its half; how many edges have gone by since that  *)
(* half was full; which request is unanswered; and from which sample on    *)
(* each half counts.                                                       *)
(***************************************************************************)
EXTENDS EthComm, SequenceTheorems, TLAPS

----------------------------------------------------------------------------
(* The receiver                                                             *)

(* The ranges of what RxTypeOK leaves out.                                  *)
RxTyped ==
    /\ RxTypeOK
    /\ line \in [dv : BOOLEAN, dt : Int \X Int]
    /\ rmii \in [skip : BOOLEAN, cnt : 0 .. 3, dv : BOOLEAN, str : BOOLEAN,
                 dt_tmp : Seq(Int \X Int)]
    /\ rx \in [state : States, left : 1 .. BUFFER, buffer : [0 .. BUFFER - 1 -> Int]]
    /\ seen \in [requests : 0 .. 1, touched : BOOLEAN]
    /\ arp \in Seq(Int) /\ icmp \in Seq(Int)
    /\ rxRst \in BOOLEAN /\ resets \in Nat

\* The carrier is there, or has just fallen and rmii_to_bytestream does not know yet;
\* K dibits of the frame have been shifted in.
Carried == line.dv \/ rxQuiet = 1
K == IF line.dv THEN sent - 1 ELSE sent

LineOK ==
    /\ rxQuiet \in 0 .. SPACE /\ sent \in Nat
    /\ line.dv <=> rxQuiet = 0
    /\ \/ frame \in FRAMES /\ sent \in 1 .. Length(frame)
       \/ frame = << >> /\ sent = 0
    /\ Carried => frame # << >>
    /\ line.dv => line.dt = Dibit(frame, sent)

RmiiOK ==
    IF Carried
    THEN /\ rmii.skip = (K < 8) /\ rmii.dv = (K >= 8)
         /\ rmii.str = (K > 8 /\ K % 4 = 0)
         /\ K >= 8 => rmii.cnt = K % 4
         /\ \A j \in 1 .. 4 : K - 4 + j >= 1 => rmii.dt_tmp[j] = Dibit(frame, K - 4 + j)
    ELSE ~ rmii.dv /\ ~ rmii.str /\ rmii.skip

\* A frame makes one request at most: the parser discards what comes behind it.
Once ==
    /\ Carried /\ K <= 8 => seen.requests = 0
    /\ seen.requests = 1 => rx.state = "DISCARD" \/ ~ rmii.dv
    /\ rxRequest.ready => rx.state = "DISCARD"

(* What the first p bytes of a frame f say it is.                           *)
IsForMe(f, p) == p >= MAC /\ f[1] = ME
Arped(f, p) == IsForMe(f, p) /\ f[2] = PROTO_ARP
Iped(f, p) == IsForMe(f, p) /\ f[2] = PROTO_IP
Icmped(f, p) == Iped(f, p) /\ p >= MAC + IP /\ f[MAC + 2] = PROTO_ICMP
OtherLength(f, p) == Icmped(f, p) /\ f[MAC + 1] # IP + ICMP

\* The bytes behind the first from of them are in the buffer of what has len bytes.
Stands(x, from, len, f, p) == \A j \in 1 .. p - from : x.buffer[len - j] = f[from + j]

InMac(x, m, f, p) ==
    /\ x.state = "MAC_HEADER" /\ p < MAC /\ x.left = MAC - p /\ m = 0
    /\ Stands(x, 0, MAC, f, p)
InArp(x, m, f, p) ==
    /\ x.state = "ARP" /\ Arped(f, p) /\ p < MAC + ARP /\ x.left = MAC + ARP - p /\ m = 0
    /\ Stands(x, MAC, ARP, f, p)
InIpv4(x, m, f, p) ==
    /\ x.state = "IPV4_HEADER" /\ Iped(f, p) /\ p < MAC + IP /\ x.left = MAC + IP - p /\ m = 0
    /\ Stands(x, MAC, IP, f, p)
InIcmp(x, m, f, p) ==
    /\ x.state = "ICMP" /\ Icmped(f, p) /\ p < MAC + IP + ICMP
    /\ x.left = MAC + IP + ICMP - p /\ m = 0
    /\ Stands(x, MAC + IP, ICMP, f, p)
InDiscard(x, m, f, p) ==
    /\ x.state = "DISCARD" /\ p >= MAC
    /\ Arped(f, p) => p >= MAC + ARP
    /\ Iped(f, p) => p >= MAC + IP
    /\ Icmped(f, p) => p >= MAC + IP + ICMP
    /\ m = IF Arped(f, p) \/ (Icmped(f, p) /\ f[MAC + IP + 1] = ECHO) THEN 1 ELSE 0

\* The parser x has made m requests of the first p bytes of f, and is where it should be.
Parsed(x, m, f, p) ==
    \/ OtherLength(f, p)
    \/ InMac(x, m, f, p) \/ InArp(x, m, f, p) \/ InIpv4(x, m, f, p) \/ InIcmp(x, m, f, p)
    \/ InDiscard(x, m, f, p)

ParseOK ==
    Carried /\ ~ seen.touched =>
       IF K <= 8 THEN rx.state = "RX_IDLE" ELSE Parsed(rx, seen.requests, frame, (K - 9) \div 4)

RxInv == RxTyped /\ LineOK /\ RmiiOK /\ Once /\ ParseOK /\ EveryRequestFound

----------------------------------------------------------------------------
(* Dibits and bytes                                                         *)

LEMMA LengthOfFrame ==
    ASSUME NEW f \in FRAMES
    PROVE  f \in Seq(Nat) /\ Len(f) \in Nat \ {0} /\ Length(f) = 8 + 4 * Len(f) /\ f # << >>
BY RxAssumption DEF Length

LEMMA QuotientBy4 ==
    ASSUME NEW q \in Int, NEW e \in 0 .. 3
    PROVE  (4 * q + e) \div 4 = q /\ (4 * q + e) % 4 = e
<1>1. CASE e = 0
  BY <1>1
<1>2. CASE e = 1
  BY <1>2
<1>3. CASE e = 2
  BY <1>3
<1>4. CASE e = 3
  BY <1>4
<1>5. QED
  BY <1>1, <1>2, <1>3, <1>4

LEMMA DibitTyped ==
    ASSUME NEW f \in FRAMES, NEW k \in 1 .. Length(f)
    PROVE  Dibit(f, k) \in Int \X Int
<1>1. f \in Seq(Nat) /\ Len(f) \in Nat /\ Length(f) = 8 + 4 * Len(f)
  BY LengthOfFrame
<1>2. CASE k <= 8
  BY <1>2 DEF Dibit, One, Three, Unknown
<1>3. CASE k > 8
  <2>1. ((k - 9) \div 4) + 1 \in 1 .. Len(f) /\ ((k - 9) % 4) + 1 \in 1 .. 4
    BY <1>1, <1>3
  <2>2. f[((k - 9) \div 4) + 1] \in Nat
    BY <1>1, <2>1
  <2>3. Dibit(f, k) = <<f[((k - 9) \div 4) + 1], ((k - 9) % 4) + 1>>
    BY <1>3, <2>1 DEF Dibit, Dibits
  <2>4. QED
    BY <2>1, <2>2, <2>3
<1>4. QED
  BY <1>2, <1>3

\* A shift register.
LEMMA TailThenAppend ==
    ASSUME NEW S, NEW s \in Seq(S), s # << >>, NEW d \in S
    PROVE  LET t == Append(Tail(s), d)
           IN  /\ t \in Seq(S) /\ Len(t) = Len(s)
               /\ \A i \in 1 .. Len(Tail(s)) : t[i] = s[i + 1]
               /\ t[Len(Tail(s)) + 1] = d
               /\ Len(Tail(s)) = Len(s) - 1
<1>1. /\ Tail(s) \in Seq(S) /\ Len(Tail(s)) = Len(s) - 1
      /\ \A i \in 1 .. Len(Tail(s)) : Tail(s)[i] = s[i + 1]
  BY HeadTailProperties
<1> DEFINE u == Tail(s)
<1>2. u \in Seq(S) /\ Len(u) = Len(s) - 1 /\ Len(u) \in Nat
      /\ \A i \in 1 .. Len(u) : u[i] = s[i + 1]
  BY <1>1
<1> HIDE DEF u
<1>3. /\ Append(u, d) \in Seq(S) /\ Len(Append(u, d)) = Len(u) + 1
      /\ \A i \in 1 .. Len(u) : Append(u, d)[i] = u[i]
      /\ Append(u, d)[Len(u) + 1] = d
  BY <1>2, AppendProperties
<1>4. \A i \in 1 .. Len(u) : Append(u, d)[i] = s[i + 1]
  BY <1>2, <1>3
<1>5. QED
  BY <1>2, <1>3, <1>4 DEF u

\* A dibit shifted in behind three others.
LEMMA ShiftFacts ==
    ASSUME NEW S, NEW s \in Seq(S), Len(s) = 4, NEW d \in S
    PROVE  /\ Append(Tail(s), d) \in Seq(S) /\ Len(Append(Tail(s), d)) = 4
           /\ \A j \in 1 .. 3 : Append(Tail(s), d)[j] = s[j + 1]
           /\ Append(Tail(s), d)[4] = d
<1> DEFINE t == Append(Tail(s), d)
           m == Len(Tail(s))
<1>1. /\ t \in Seq(S) /\ Len(t) = Len(s)
      /\ \A i \in 1 .. m : t[i] = s[i + 1]
      /\ t[m + 1] = d
      /\ m = Len(s) - 1
  <2>1. s # << >>
    OBVIOUS
  <2>2. QED
    BY <2>1, TailThenAppend
<1> HIDE DEF t, m
<1>2. m = 3
  BY <1>1
<1>3. /\ t \in Seq(S) /\ Len(t) = 4
      /\ \A j \in 1 .. 3 : t[j] = s[j + 1]
      /\ t[4] = d
  BY <1>1, <1>2
<1>4. QED
  BY <1>3, Zenon DEF t

\* Four dibits of byte b of the frame make that byte.
LEMMA ByteOfDibits ==
    ASSUME NEW f \in FRAMES, NEW b \in 1 .. Len(f), NEW s \in Seq(Int \X Int), Len(s) = 4,
           \A j \in 1 .. 4 : s[j] = Dibit(f, 4 + 4 * b + j)
    PROVE  Byte(s) = f[b]
<1>1. f \in Seq(Nat) /\ Len(f) \in Nat /\ f[b] \in Nat
  BY LengthOfFrame
<1>2. ASSUME NEW j \in 1 .. 4 PROVE s[j] = <<f[b], j>>
  <2>1. ((4 + 4 * b + j - 9) \div 4) + 1 = b /\ ((4 + 4 * b + j - 9) % 4) + 1 = j /\ 4 + 4 * b + j > 8
    <3> DEFINE q == b - 1
               e == j - 1
    <3>1. q \in Int /\ e \in 0 .. 3 /\ 4 + 4 * b + j - 9 = 4 * q + e /\ q + 1 = b /\ e + 1 = j
      BY <1>1
    <3> HIDE DEF q, e
    <3>2. (4 * q + e) \div 4 = q /\ (4 * q + e) % 4 = e
      BY <3>1, QuotientBy4
    <3>3. 4 + 4 * b + j > 8
      BY <1>1
    <3>4. QED
      BY <3>1, <3>2, <3>3
  <2>2. Dibit(f, 4 + 4 * b + j) = <<f[b], j>>
    BY <2>1 DEF Dibit, Dibits
  <2>3. QED
    BY <2>2
<1>3. s[1][1] = f[b]
  BY <1>2
<1>4. s = Dibits(f[b])
  <2>1. s = [q \in 1 .. 4 |-> s[q]]
    OBVIOUS
  <2>2. QED
    BY <1>2, <2>1 DEF Dibits
<1>5. QED
  BY <1>3, <1>4 DEF Byte

LEMMA ByteTyped ==
    ASSUME NEW s \in Seq(Int \X Int), Len(s) = 4
    PROVE  Byte(s) \in Int
<1>1. s[1][1] \in Int
  <2>1. s[1] \in Int \X Int
    OBVIOUS
  <2>2. QED
    BY <2>1
<1>2. QED
  BY <1>1 DEF Byte, Unknown

----------------------------------------------------------------------------
(* The line and rmii_to_bytestream                                          *)

Drives == StartOfFrame \/ NextDibit \/ CarrierFalls \/ Quiet

LEMMA LineKept ==
    ASSUME RxTyped, LineOK, Drives
    PROVE  /\ LineOK' /\ line' \in [dv : BOOLEAN, dt : Int \X Int]
           /\ line.dv => /\ Carried /\ Carried' /\ K' = K + 1 /\ frame' = frame
                         /\ K \in Nat /\ K + 1 <= Length(frame) /\ line.dt = Dibit(frame, K + 1)
           /\ ~ line.dv /\ Carried' => ~ Carried /\ K' = 0 /\ frame' # frame
           /\ ~ line.dv /\ Carried => frame' = frame /\ sent' = sent /\ rxQuiet' = 2
<1> USE RxAssumption
<1>1. CASE StartOfFrame
  <2>1. frame' \in FRAMES /\ sent' = 1 /\ line' = [dv |-> TRUE, dt |-> Dibit(frame', 1)]
        /\ rxQuiet' = 0 /\ rxQuiet >= SPACE /\ ~ line.dv /\ frame = << >>
    BY <1>1 DEF StartOfFrame
  <2>2. frame' # << >> /\ 1 \in 1 .. Length(frame') /\ Dibit(frame', 1) \in Int \X Int
    BY <2>1, LengthOfFrame, DibitTyped
  <2>3. ~ Carried /\ Carried' /\ K' = 0
    <3>1. rxQuiet # 1 /\ line'.dv
      BY <2>1 DEF LineOK
    <3>2. QED
      BY <2>1, <3>1 DEF Carried, K
  <2>4. LineOK' /\ line' \in [dv : BOOLEAN, dt : Int \X Int]
    BY <2>1, <2>2, <2>3 DEF LineOK
  <2>5. QED
    BY <2>1, <2>2, <2>3, <2>4
<1>2. CASE NextDibit
  <2>1. line.dv /\ sent < Length(frame) /\ sent' = sent + 1 /\ frame' = frame /\ rxQuiet' = rxQuiet
        /\ line' = [dv |-> TRUE, dt |-> Dibit(frame, sent + 1)]
    BY <1>2 DEF NextDibit
  <2>2. frame \in FRAMES /\ frame # << >> /\ sent \in Nat /\ sent >= 1
    BY <2>1 DEF LineOK, Carried
  <2>3. Length(frame) \in Nat /\ sent + 1 \in 1 .. Length(frame)
    BY <2>1, <2>2, LengthOfFrame
  <2>4. Dibit(frame, sent + 1) \in Int \X Int
    BY <2>2, <2>3, DibitTyped
  <2>5. QED
    BY <2>1, <2>2, <2>3, <2>4 DEF LineOK, RxTyped, Carried, K
<1>3. CASE CarrierFalls
  <2>1. line.dv /\ line' = [line EXCEPT !.dv = FALSE] /\ rxQuiet' = 1 /\ UNCHANGED <<frame, sent>>
    BY <1>3 DEF CarrierFalls
  <2>2. frame \in FRAMES /\ frame # << >> /\ sent \in 1 .. Length(frame) /\ Length(frame) \in Nat
    BY <2>1, LengthOfFrame DEF LineOK, Carried
  <2>3. ~ line'.dv /\ line' \in [dv : BOOLEAN, dt : Int \X Int]
    BY <2>1 DEF RxTyped
  <2>4. Carried /\ Carried' /\ K = sent - 1 /\ K' = sent
    BY <2>1, <2>3 DEF Carried, K
  <2>5. LineOK' /\ line.dt = Dibit(frame, sent)
    BY <2>1, <2>2, <2>3, <2>4 DEF LineOK
  <2>6. QED
    BY <2>1, <2>2, <2>3, <2>4, <2>5
<1>4. CASE Quiet
  <2>1. ~ line.dv /\ UNCHANGED line
    BY <1>4 DEF Quiet
  <2>2. CASE rxQuiet < SPACE
    BY <1>4, <2>1, <2>2 DEF Quiet, LineOK, RxTyped, Carried, K
  <2>3. CASE ~ (rxQuiet < SPACE)
    BY <1>4, <2>1, <2>3 DEF Quiet, LineOK, RxTyped, Carried, K
  <2>4. QED
    BY <2>2, <2>3
<1>5. QED
  BY <1>1, <1>2, <1>3, <1>4 DEF Drives

LEMMA RmiiKept ==
    ASSUME RxTyped, LineOK, RmiiOK, Drives, rmii' = RmiiStep
    PROVE  /\ RmiiOK' /\ rmii'.cnt \in 0 .. 3 /\ Len(rmii'.dt_tmp) = 4
           /\ rmii' \in [skip : BOOLEAN, cnt : 0 .. 3, dv : BOOLEAN, str : BOOLEAN,
                         dt_tmp : Seq(Int \X Int)]
<1> DEFINE f == frame
           k == K
<1>0. /\ rmii \in [skip : BOOLEAN, cnt : 0 .. 3, dv : BOOLEAN, str : BOOLEAN,
                   dt_tmp : Seq(Int \X Int)]
      /\ Len(rmii.dt_tmp) = 4 /\ line.dt \in Int \X Int /\ line.dv \in BOOLEAN
  BY DEF RxTyped, RxTypeOK
<1>1. CASE ~ line.dv
  <2>1. rmii' = [rmii EXCEPT !.cnt = 0, !.skip = TRUE, !.dv = FALSE, !.str = FALSE]
    BY <1>1 DEF RmiiStep
  <2>2. Carried' => K' = 0
    BY <1>1, LineKept
  <2>3. /\ rmii' \in [skip : BOOLEAN, cnt : 0 .. 3, dv : BOOLEAN, str : BOOLEAN,
                       dt_tmp : Seq(Int \X Int)]
        /\ rmii'.dt_tmp = rmii.dt_tmp /\ rmii'.cnt = 0
        /\ rmii'.skip = TRUE /\ rmii'.dv = FALSE /\ rmii'.str = FALSE
    <3>1. rmii' = [skip |-> TRUE, cnt |-> 0, dv |-> FALSE, str |-> FALSE,
                   dt_tmp |-> rmii.dt_tmp]
      BY <1>0, <2>1
    <3>2. QED
      BY <1>0, <3>1
  <2>4. CASE Carried'
    <3>1. rmii'.skip = (K < 8)' /\ rmii'.dv = (K >= 8)' /\ rmii'.str = (K > 8 /\ K % 4 = 0)'
      BY <2>2, <2>3, <2>4
    <3>2. (K >= 8 => rmii.cnt = K % 4)'
      BY <2>2, <2>4
    <3>3. (\A j \in 1 .. 4 : K - 4 + j >= 1 => rmii.dt_tmp[j] = Dibit(frame, K - 4 + j))'
      BY <2>2, <2>4
    <3>4. RmiiOK'
      BY <2>4, <3>1, <3>2, <3>3, Zenon DEF RmiiOK
    <3>5. QED
      BY <1>0, <2>3, <3>4
  <2>5. CASE ~ Carried'
    BY <1>0, <2>3, <2>5 DEF RmiiOK
  <2>6. QED
    BY <2>4, <2>5
<1>2. CASE line.dv
  <2>1. /\ Carried /\ Carried' /\ K' = k + 1 /\ frame' = f /\ k \in Nat /\ line.dt = Dibit(f, k + 1)
    BY <1>2, LineKept
  <2>2. /\ rmii.skip = (k < 8) /\ rmii.dv = (k >= 8) /\ (k >= 8 => rmii.cnt = k % 4)
        /\ \A j \in 1 .. 4 : k - 4 + j >= 1 => rmii.dt_tmp[j] = Dibit(f, k - 4 + j)
    BY <2>1, Zenon DEF RmiiOK
  <2> DEFINE t == Shifted
  <2>3. /\ t \in Seq(Int \X Int) /\ Len(t) = 4
        /\ \A j \in 1 .. 3 : t[j] = rmii.dt_tmp[j + 1]
        /\ t[4] = line.dt
    <3> DEFINE d == rmii.dt_tmp
               i == line.dt
               P == Int \X Int
    <3>1. d \in Seq(P) /\ Len(d) = 4 /\ i \in P
      BY <1>0
    <3>2. t = Append(Tail(d), i)
      BY DEF Shifted
    <3> HIDE DEF d, t, i, P
    <3>3. /\ Append(Tail(d), i) \in Seq(P) /\ Len(Append(Tail(d), i)) = 4
          /\ \A j \in 1 .. 3 : Append(Tail(d), i)[j] = d[j + 1]
          /\ Append(Tail(d), i)[4] = i
      BY <3>1, ShiftFacts
    <3>4. /\ t \in Seq(P) /\ Len(t) = 4
          /\ \A j \in 1 .. 3 : t[j] = d[j + 1]
          /\ t[4] = i
      BY <3>2, <3>3, Zenon
    <3>5. QED
      BY <3>4, Zenon DEF d, i, P
  <2> HIDE DEF t
  <2>4. rmii' = IF rmii.skip
                THEN [rmii EXCEPT !.dt_tmp = t, !.str = FALSE,
                                  !.dv = rmii.dv \/ t = Sfd, !.skip = t # Sfd,
                                  !.cnt = IF t = Sfd THEN 0 ELSE rmii.cnt]
                ELSE [rmii EXCEPT !.dt_tmp = t, !.str = (rmii.cnt = 3),
                                  !.cnt = (rmii.cnt + 1) % 4]
    BY <1>2 DEF RmiiStep, t
  <2> HIDE DEF k, f
  <2>5. \A j \in 1 .. 4 : (k + 1) - 4 + j >= 1 => t[j] = Dibit(f, (k + 1) - 4 + j)
    <3>1. ASSUME NEW j \in 1 .. 3, (k + 1) - 4 + j >= 1 PROVE t[j] = Dibit(f, (k + 1) - 4 + j)
      <4>1. j + 1 \in 1 .. 4 /\ k - 4 + (j + 1) = (k + 1) - 4 + j
        BY <2>1
      <4>2. rmii.dt_tmp[j + 1] = Dibit(f, k - 4 + (j + 1))
        BY <2>2, <3>1, <4>1
      <4>3. QED
        BY <2>3, <4>1, <4>2
    <3>2. t[4] = Dibit(f, (k + 1) - 4 + 4)
      BY <2>1, <2>3
    <3>3. QED
      BY <3>1, <3>2
  <2>6. CASE k < 8
    <3>1. (t = Sfd) = (k + 1 = 8)
      <4>1. CASE k + 1 = 8
        <5>1. t[1] = One /\ t[2] = One /\ t[3] = One /\ t[4] = Three
          BY <2>5, <4>1 DEF Dibit
        <5>2. t = <<t[1], t[2], t[3], t[4]>>
          BY <2>3
        <5>3. QED
          BY <4>1, <5>1, <5>2 DEF Sfd
      <4>2. CASE k + 1 < 8
        <5>1. t[4] = One
          BY <2>1, <2>3, <4>2 DEF Dibit
        <5>2. One # Three /\ Sfd[4] = Three
          BY DEF One, Three, Sfd
        <5>3. QED
          BY <4>2, <5>1, <5>2
      <4>3. QED
        BY <2>1, <2>6, <4>1, <4>2
    <3>2. /\ rmii'.dt_tmp = t /\ ~ rmii'.str /\ rmii'.dv = (k + 1 = 8) /\ rmii'.skip = (k + 1 # 8)
          /\ (k + 1 = 8 => rmii'.cnt = 0)
      <4>1. rmii.skip /\ ~ rmii.dv
        BY <1>0, <2>1, <2>2, <2>6
      <4>2. rmii' = [rmii EXCEPT !.dt_tmp = t, !.str = FALSE,
                                 !.dv = rmii.dv \/ t = Sfd, !.skip = t # Sfd,
                                 !.cnt = IF t = Sfd THEN 0 ELSE rmii.cnt]
        BY <2>4, <4>1
      <4>3. /\ rmii'.dt_tmp = t /\ ~ rmii'.str /\ rmii'.dv = (t = Sfd) /\ rmii'.skip = (t # Sfd)
            /\ (t = Sfd => rmii'.cnt = 0)
        BY <1>0, <4>1, <4>2
      <4>4. QED
        BY <3>1, <4>3
    <3>3. rmii' \in [skip : BOOLEAN, cnt : 0 .. 3, dv : BOOLEAN, str : BOOLEAN,
                     dt_tmp : Seq(Int \X Int)]
      <4>1. rmii.skip
        BY <1>0, <2>1, <2>2, <2>6
      <4>2. rmii' = [rmii EXCEPT !.dt_tmp = t, !.str = FALSE,
                                 !.dv = rmii.dv \/ t = Sfd, !.skip = t # Sfd,
                                 !.cnt = IF t = Sfd THEN 0 ELSE rmii.cnt]
        BY <2>4, <4>1
      <4>3. (rmii.dv \/ t = Sfd) \in BOOLEAN /\ (t # Sfd) \in BOOLEAN
            /\ (IF t = Sfd THEN 0 ELSE rmii.cnt) \in 0 .. 3
        BY <1>0
      <4>4. QED
        BY <1>0, <2>3, <4>2, <4>3
    <3>4. RmiiOK'
      <4>1. K' = k + 1 /\ k + 1 \in Nat /\ k + 1 <= 8 /\ Carried'
        BY <2>1, <2>6
      <4>2. rmii'.skip = (K < 8)' /\ rmii'.dv = (K >= 8)'
            /\ rmii'.str = (K > 8 /\ K % 4 = 0)'
        BY <3>2, <3>3, <4>1
      <4>3. (K >= 8 => rmii.cnt = K % 4)'
        BY <3>2, <4>1
      <4>4. (\A j \in 1 .. 4 : K - 4 + j >= 1 => rmii.dt_tmp[j] = Dibit(frame, K - 4 + j))'
        BY <2>1, <2>5, <3>2, <4>1 DEF f
      <4>5. QED
        BY <4>1, <4>2, <4>3, <4>4, Zenon DEF RmiiOK
    <3>5. QED
      BY <2>3, <3>2, <3>3, <3>4
  <2>7. CASE k >= 8
    <3>1. rmii' = [rmii EXCEPT !.dt_tmp = t, !.str = (rmii.cnt = 3), !.cnt = (rmii.cnt + 1) % 4]
      <4>1. ~ rmii.skip
        BY <1>0, <2>1, <2>2, <2>7
      <4>2. QED
        BY <2>4, <4>1
    <3>2. rmii.cnt = k % 4 /\ (rmii.cnt + 1) % 4 = (k + 1) % 4 /\ (rmii.cnt = 3) = ((k + 1) % 4 = 0)
          /\ (rmii.cnt + 1) % 4 \in 0 .. 3
      <4>1. rmii.cnt = k % 4
        BY <2>2, <2>7
      <4>2. QED
        BY <2>1, <4>1
    <3>3. /\ rmii' \in [skip : BOOLEAN, cnt : 0 .. 3, dv : BOOLEAN, str : BOOLEAN,
                        dt_tmp : Seq(Int \X Int)]
          /\ rmii'.dt_tmp = t /\ rmii'.str = ((k + 1) % 4 = 0) /\ rmii'.cnt = (k + 1) % 4
          /\ rmii'.dv = rmii.dv /\ rmii'.skip = rmii.skip
      BY <1>0, <2>3, <3>1, <3>2
    <3>4. rmii'.str = (k + 1 > 8 /\ (k + 1) % 4 = 0) /\ rmii'.skip = (k + 1 < 8)
          /\ rmii'.dv = (k + 1 >= 8)
      BY <2>1, <2>2, <2>7, <3>3
    <3>5. RmiiOK'
      BY <2>1, <2>5, <3>3, <3>4 DEF RmiiOK, f
    <3>6. QED
      BY <2>3, <3>3, <3>5
  <2>8. QED
    BY <2>1, <2>6, <2>7
<1>3. QED
  BY <1>0, <1>1, <1>2

----------------------------------------------------------------------------
(* The buffer                                                               *)

LEMMA Sizes ==
    /\ MAC \in 1 .. BUFFER /\ ARP \in 1 .. BUFFER /\ IP \in 1 .. BUFFER /\ ICMP \in 1 .. BUFFER
    /\ MAC >= 2 /\ IP >= 2 /\ BUFFER \in Nat \ {0}
    /\ MAC \in Nat /\ ARP \in Nat /\ IP \in Nat /\ ICMP \in Nat
<1>1. MAC \in Nat \ {0, 1} /\ IP \in Nat \ {0, 1} /\ ARP \in Nat \ {0} /\ ICMP \in Nat \ {0}
      /\ BUFFER \in Nat
  BY RxAssumption
<1>2. MAC <= BUFFER /\ ARP <= BUFFER /\ IP <= BUFFER /\ ICMP <= BUFFER
  BY RxAssumption
<1>3. QED
  BY <1>1, <1>2

LEMMA DataTyped ==
    ASSUME RxTyped
    PROVE  /\ Data \in Int /\ Stored \in [0 .. BUFFER - 1 -> Int]
           /\ Stored = [rx.buffer EXCEPT ![rx.left - 1] = Data]
           /\ rx.buffer \in [0 .. BUFFER - 1 -> Int] /\ rx.left \in 1 .. BUFFER
<1>1. rmii.dt_tmp \in Seq(Int \X Int) /\ Len(rmii.dt_tmp) = 4
  BY DEF RxTyped, RxTypeOK
<1>2. Data \in Int
  BY <1>1, ByteTyped DEF Data
<1>3. rx.buffer \in [0 .. BUFFER - 1 -> Int] /\ rx.left \in 1 .. BUFFER
  BY DEF RxTyped
<1>4. QED
  BY <1>2, <1>3 DEF Stored

LEMMA TakenTyped ==
    ASSUME RxTyped, NEW len \in 1 .. BUFFER
    PROVE  /\ Taken(len) \in Seq(Int) /\ Len(Taken(len)) = len
           /\ \A j \in 1 .. len : Taken(len)[j] = Stored[len - j]
<1>1. Taken(len) = [j \in 1 .. len |-> Stored[len - j]] /\ len \in Nat
  BY RxAssumption DEF Taken
<1>2. \A j \in 1 .. len : Stored[len - j] \in Int
  <2>1. \A j \in 1 .. len : len - j \in 0 .. BUFFER - 1
    BY RxAssumption
  <2>2. QED
    BY <2>1, DataTyped
<1>3. QED
  BY <1>1, <1>2

\* A byte is stored behind those that stand there, the first of them highest.
LEMMA StoredStands ==
    ASSUME RxTyped, NEW f, NEW p \in Nat, NEW from \in Nat, NEW len \in 1 .. BUFFER,
           from <= p, p - from < len, rx.left = len - (p - from), Data = f[p + 1],
           Stands(rx, from, len, f, p)
    PROVE  \A j \in 1 .. (p + 1) - from : Stored[len - j] = f[from + j]
<1> USE RxAssumption
<1>1. ASSUME NEW j \in 1 .. (p + 1) - from PROVE Stored[len - j] = f[from + j]
  <2>1. len - j \in 0 .. BUFFER - 1 /\ rx.left - 1 \in 0 .. BUFFER - 1
    OBVIOUS
  <2>2. CASE j = (p + 1) - from
    <3>1. rx.left - 1 = len - j /\ from + j = p + 1
      BY <2>2
    <3>2. QED
      BY <2>1, <3>1, DataTyped
  <2>3. CASE j # (p + 1) - from
    <3>1. j \in 1 .. p - from /\ rx.left - 1 # len - j
      BY <2>3
    <3>2. rx.buffer[len - j] = f[from + j]
      BY <3>1 DEF Stands
    <3>3. QED
      BY <2>1, <3>1, <3>2, DataTyped
  <2>4. QED
    BY <2>2, <2>3
<1>2. QED
  BY <1>1

\* The last one is stored: all that was awaited is there.
LEMMA TakenStands ==
    ASSUME RxTyped, NEW f, NEW from \in Nat, NEW len \in 1 .. BUFFER,
           rx.left = 1, Data = f[from + len], Stands(rx, from, len, f, from + len - 1)
    PROVE  \A j \in 1 .. len : Taken(len)[j] = f[from + j]
<1> DEFINE p == from + len - 1
<1>1. /\ len \in Nat /\ p \in Nat /\ from <= p /\ p - from < len /\ p + 1 = from + len
      /\ rx.left = len - (p - from) /\ (p + 1) - from = len
  BY Sizes
<1>2. Stands(rx, from, len, f, p) /\ Data = f[p + 1]
  BY <1>1
<1> HIDE DEF p
<1>3. \A j \in 1 .. (p + 1) - from : Stored[len - j] = f[from + j]
  BY <1>1, <1>2, StoredStands
<1>4. QED
  BY <1>1, <1>3, TakenTyped

----------------------------------------------------------------------------
(* eth_rx_proc                                                              *)

LEMMA RxStepTyped ==
    ASSUME RxTyped, rx' = RxStep
    PROVE  /\ rx' \in [state : States, left : 1 .. BUFFER, buffer : [0 .. BUFFER - 1 -> Int]]
           /\ rx'.state \in States /\ rx'.left \in 1 .. BUFFER
<1> DEFINE R == [state : States, left : 1 .. BUFFER, buffer : [0 .. BUFFER - 1 -> Int]]
<1>0. rx \in R
  BY DEF RxTyped
<1>1. \A st \in States, lf \in 1 .. BUFFER : Await(st, lf) \in R
  BY DataTyped DEF Await
<1>2. Discard \in R
  BY <1>0, DataTyped DEF Discard, States
<1>3. Restarted \in R
  BY <1>0 DEF Restarted, States
<1>4. AfterHeader \in R
  <2>1. {"ARP", "IPV4_HEADER"} \subseteq States /\ {ARP, IP} \subseteq 1 .. BUFFER
    BY RxAssumption DEF States
  <2> HIDE DEF R
  <2>2. QED
    BY <1>1, <1>2, <2>1 DEF AfterHeader
<1>5. AfterIpv4 \in R
  <2>1. Taken(IP)[1] \in Int
    <3>1. IP \in 1 .. BUFFER /\ 1 \in 1 .. IP
      BY RxAssumption
    <3>2. IP - 1 \in 0 .. BUFFER - 1
      BY <3>1, RxAssumption
    <3>3. QED
      BY <3>1, <3>2, TakenTyped, DataTyped
  <2>2. MessageLength(Taken(IP)[1]) \in 1 .. BUFFER
    <3> DEFINE q == Taken(IP)[1] - IP - 1
    <3>1. q \in Int /\ BUFFER \in Nat \ {0}
      BY <2>1, RxAssumption
    <3>2. q % BUFFER \in 0 .. BUFFER - 1
      BY <3>1
    <3> HIDE DEF q
    <3>3. (q % BUFFER) + 1 \in 1 .. BUFFER
      BY <3>1, <3>2
    <3>4. QED
      BY <3>3 DEF MessageLength, q
  <2>3. "ICMP" \in States
    BY DEF States
  <2> HIDE DEF R
  <2>4. QED
    BY <1>1, <1>2, <2>2, <2>3 DEF AfterIpv4
<1>6. LastByte \in R
  BY <1>2, <1>4, <1>5 DEF LastByte
<1>7. [rx EXCEPT !.state = "MAC_HEADER", !.left = MAC] \in R
  BY <1>0, Sizes DEF States
<1>8. ASSUME rx.left > 1 PROVE [rx EXCEPT !.left = rx.left - 1, !.buffer = Stored] \in R
  <2>1. rx.left - 1 \in 1 .. BUFFER
    BY <1>0, <1>8, Sizes
  <2>2. QED
    BY <1>0, <2>1, DataTyped
<1> HIDE DEF R
<1>9. rx' \in R
  BY <1>0, <1>3, <1>6, <1>7, <1>8 DEF RxStep
<1>10. QED
  BY <1>9 DEF R

LEMMA ModSmall ==
    ASSUME NEW d \in Nat \ {0}, NEW a \in 0 .. d - 1
    PROVE  a % d = a
OBVIOUS

\* The parser takes the next byte p + 1 of the frame.
LEMMA ParseStep ==
    ASSUME RxTyped, NEW f, NEW p \in Nat, NEW m \in Nat, Data = f[p + 1],
           ~ rxRst, rmii.dv, rmii.str, Parsed(rx, m, f, p)
    PROVE  Parsed(RxStep, m + (IF Arp \/ Echo THEN 1 ELSE 0), f, p + 1)
<1> DEFINE x == RxStep
           k == m + (IF Arp \/ Echo THEN 1 ELSE 0)
<1>0. /\ rx \in [state : States, left : 1 .. BUFFER, buffer : [0 .. BUFFER - 1 -> Int]]
      /\ MAC \in 1 .. BUFFER /\ ARP \in 1 .. BUFFER /\ IP \in 1 .. BUFFER
      /\ ICMP \in 1 .. BUFFER /\ MAC >= 2 /\ IP >= 2 /\ BUFFER \in Nat \ {0}
      /\ MAC \in Nat /\ ARP \in Nat /\ IP \in Nat /\ ICMP \in Nat
  BY Sizes DEF RxTyped
<1>1. CASE OtherLength(f, p)
  BY <1>0, <1>1 DEF OtherLength, Icmped, Iped, IsForMe, Parsed
<1>2. ASSUME rx.state \notin {"RX_IDLE", "DISCARD"}, rx.left > 1
      PROVE  /\ x.state = rx.state /\ x.left = rx.left - 1 /\ x.buffer = Stored
             /\ ~ Arp /\ ~ Echo /\ k = m
  BY <1>0, <1>2 DEF RxStep, Arp, Echo, Ends
<1>3. ASSUME rx.state \notin {"RX_IDLE", "DISCARD"}, rx.left = 1
      PROVE  x = LastByte
  BY <1>0, <1>3 DEF RxStep
<1>4. CASE InMac(rx, m, f, p)
  <2>1. /\ rx.state = "MAC_HEADER" /\ p < MAC /\ rx.left = MAC - p /\ m = 0
        /\ Stands(rx, 0, MAC, f, p)
    BY <1>0, <1>4 DEF InMac
  <2>2. \A j \in 1 .. (p + 1) - 0 : Stored[MAC - j] = f[0 + j]
    <3>1. 0 \in Nat /\ 0 <= p /\ p - 0 < MAC /\ rx.left = MAC - (p - 0)
      BY <1>0, <2>1
    <3>2. QED
      BY <1>0, <2>1, <3>1, StoredStands, SMTT(60)
  <2>3. CASE rx.left > 1
    <3>1. Stands(x, 0, MAC, f, p + 1)
      BY <1>0, <1>2, <2>1, <2>2, <2>3 DEF Stands
    <3>2. InMac(x, k, f, p + 1)
      BY <1>0, <1>2, <2>1, <2>3, <3>1 DEF InMac
    <3>3. QED
      BY <1>0, <3>2 DEF Parsed
  <2>4. CASE rx.left = 1
    <3>1. x = AfterHeader /\ k = 0 /\ p + 1 = MAC
      BY <1>0, <1>3, <2>1, <2>4 DEF LastByte, Arp, Echo, Ends
    <3>2. Taken(MAC)[1] = f[1] /\ Taken(MAC)[2] = f[2]
      <4>1. 0 \in Nat /\ Data = f[0 + MAC] /\ Stands(rx, 0, MAC, f, 0 + MAC - 1)
        <5>1. 0 + MAC = p + 1 /\ 0 + MAC - 1 = p
          BY <1>0, <3>1
        <5>2. QED
          BY <2>1, <5>1
      <4>2. \A j \in 1 .. MAC : Taken(MAC)[j] = f[0 + j]
        BY <1>0, <2>4, <4>1, TakenStands, SMTT(60)
      <4>3. QED
        BY <1>0, <4>2
    <3>3. CASE f[1] = ME /\ f[2] = PROTO_ARP
      <4>1. x = Await("ARP", ARP)
        BY <1>0, <3>1, <3>2, <3>3 DEF AfterHeader
      <4>2. x.state = "ARP" /\ x.left = ARP
        BY <1>0, <4>1 DEF Await
      <4>3. InArp(x, k, f, p + 1)
        BY <1>0, <3>1, <3>3, <4>2 DEF InArp, Arped, IsForMe, Stands
      <4>4. QED
        BY <1>0, <4>3 DEF Parsed
    <3>4. CASE f[1] = ME /\ f[2] = PROTO_IP
      <4>1. x = Await("IPV4_HEADER", IP)
        BY <1>0, <3>1, <3>2, <3>4, RxAssumption DEF AfterHeader
      <4>2. x.state = "IPV4_HEADER" /\ x.left = IP
        BY <1>0, <4>1 DEF Await
      <4>3. InIpv4(x, k, f, p + 1)
        BY <1>0, <3>1, <3>4, <4>2 DEF InIpv4, Iped, IsForMe, Stands
      <4>4. QED
        BY <1>0, <4>3 DEF Parsed
    <3>5. CASE ~ (f[1] = ME /\ f[2] \in {PROTO_ARP, PROTO_IP})
      <4>1. x = Discard
        BY <1>0, <3>1, <3>2, <3>5 DEF AfterHeader
      <4>2. x.state = "DISCARD"
        BY <1>0, <4>1 DEF Discard
      <4>3. InDiscard(x, k, f, p + 1)
        BY <1>0, <3>1, <3>5, <4>2 DEF InDiscard, Arped, Iped, Icmped, IsForMe
      <4>4. QED
        BY <1>0, <4>3 DEF Parsed
    <3>6. QED
      BY <3>3, <3>4, <3>5
  <2>5. QED
    BY <1>0, <2>3, <2>4
<1>5. CASE InArp(rx, m, f, p)
  <2>1. /\ rx.state = "ARP" /\ Arped(f, p) /\ p < MAC + ARP /\ rx.left = MAC + ARP - p /\ m = 0
        /\ Stands(rx, MAC, ARP, f, p)
    BY <1>0, <1>5 DEF InArp
  <2>2. p >= MAC /\ Arped(f, p + 1) /\ ~ Iped(f, p + 1)
    BY <1>0, <2>1, RxAssumption DEF Arped, Iped, IsForMe
  <2>3. \A j \in 1 .. (p + 1) - MAC : Stored[ARP - j] = f[MAC + j]
    <3>1. MAC \in Nat /\ MAC <= p /\ p - MAC < ARP /\ rx.left = ARP - (p - MAC)
      BY <1>0, <2>1, <2>2
    <3>2. QED
      BY <1>0, <2>1, <3>1, StoredStands, SMTT(60)
  <2>4. CASE rx.left > 1
    <3>1. Stands(x, MAC, ARP, f, p + 1)
      BY <1>0, <1>2, <2>1, <2>3, <2>4 DEF Stands
    <3>2. InArp(x, k, f, p + 1)
      BY <1>0, <1>2, <2>1, <2>2, <2>4, <3>1 DEF InArp
    <3>3. QED
      BY <1>0, <3>2 DEF Parsed
  <2>5. CASE rx.left = 1
    <3>1. x = Discard /\ k = 1 /\ p + 1 = MAC + ARP
      BY <1>0, <1>3, <2>1, <2>5 DEF LastByte, Arp, Ends
    <3>2. x.state = "DISCARD"
      BY <1>0, <3>1 DEF Discard
    <3>3. InDiscard(x, k, f, p + 1)
      BY <1>0, <2>2, <3>1, <3>2 DEF InDiscard, Icmped
    <3>4. QED
      BY <1>0, <3>3 DEF Parsed
  <2>6. QED
    BY <1>0, <2>4, <2>5
<1>6. CASE InIpv4(rx, m, f, p)
  <2>1. /\ rx.state = "IPV4_HEADER" /\ Iped(f, p) /\ p < MAC + IP /\ rx.left = MAC + IP - p /\ m = 0
        /\ Stands(rx, MAC, IP, f, p)
    BY <1>0, <1>6 DEF InIpv4
  <2>2. p >= MAC /\ Iped(f, p + 1) /\ ~ Arped(f, p + 1)
    BY <1>0, <2>1, RxAssumption DEF Arped, Iped, IsForMe
  <2>3. \A j \in 1 .. (p + 1) - MAC : Stored[IP - j] = f[MAC + j]
    <3>1. MAC \in Nat /\ MAC <= p /\ p - MAC < IP /\ rx.left = IP - (p - MAC)
      BY <1>0, <2>1, <2>2
    <3>2. QED
      BY <1>0, <2>1, <3>1, StoredStands, SMTT(60)
  <2>4. CASE rx.left > 1
    <3>1. Stands(x, MAC, IP, f, p + 1)
      BY <1>0, <1>2, <2>1, <2>3, <2>4 DEF Stands
    <3>2. InIpv4(x, k, f, p + 1)
      BY <1>0, <1>2, <2>1, <2>2, <2>4, <3>1 DEF InIpv4
    <3>3. QED
      BY <1>0, <3>2 DEF Parsed
  <2>5. CASE rx.left = 1
    <3>1. x = AfterIpv4 /\ k = 0 /\ p + 1 = MAC + IP
      BY <1>0, <1>3, <2>1, <2>5 DEF LastByte, Arp, Echo, Ends
    <3>2. Taken(IP)[1] = f[MAC + 1] /\ Taken(IP)[2] = f[MAC + 2]
      <4>1. Data = f[MAC + IP] /\ Stands(rx, MAC, IP, f, MAC + IP - 1)
        <5>1. MAC + IP = p + 1 /\ MAC + IP - 1 = p
          BY <1>0, <3>1
        <5>2. QED
          BY <2>1, <5>1
      <4>2. \A j \in 1 .. IP : Taken(IP)[j] = f[MAC + j]
        BY <1>0, <2>5, <4>1, TakenStands, SMTT(60)
      <4>3. QED
        BY <1>0, <4>2
    <3>3. CASE f[MAC + 2] = PROTO_ICMP /\ f[MAC + 1] = IP + ICMP
      <4>1. x = Await("ICMP", MessageLength(IP + ICMP))
        BY <1>0, <3>1, <3>2, <3>3 DEF AfterIpv4
      <4>2. MessageLength(IP + ICMP) = ICMP
        <5>1. (ICMP - 1) % BUFFER = ICMP - 1
          <6>1. ICMP - 1 \in 0 .. BUFFER - 1
            BY <1>0
          <6>2. QED
            BY <1>0, <6>1, ModSmall
        <5>2. (IP + ICMP) - IP - 1 = ICMP - 1
          BY <1>0
        <5>3. QED
          BY <1>0, <5>1, <5>2 DEF MessageLength
      <4>3. x.state = "ICMP" /\ x.left = ICMP
        BY <1>0, <4>1, <4>2 DEF Await
      <4>4. InIcmp(x, k, f, p + 1)
        <5>1. Icmped(f, p + 1) /\ p + 1 < MAC + IP + ICMP /\ ICMP = MAC + IP + ICMP - (p + 1)
          BY <1>0, <2>2, <3>1, <3>3 DEF Icmped
        <5>2. Stands(x, MAC + IP, ICMP, f, p + 1)
          BY <1>0, <3>1 DEF Stands
        <5>3. QED
          BY <3>1, <4>3, <5>1, <5>2 DEF InIcmp
      <4>5. QED
        BY <1>0, <4>4 DEF Parsed
    <3>4. CASE f[MAC + 2] = PROTO_ICMP /\ f[MAC + 1] # IP + ICMP
      BY <1>0, <2>2, <3>1, <3>4 DEF OtherLength, Icmped, Parsed
    <3>5. CASE f[MAC + 2] # PROTO_ICMP
      <4>1. x = Discard
        BY <1>0, <3>1, <3>2, <3>5 DEF AfterIpv4
      <4>2. x.state = "DISCARD"
        BY <1>0, <4>1 DEF Discard
      <4>3. InDiscard(x, k, f, p + 1)
        BY <1>0, <2>2, <3>1, <3>5, <4>2 DEF InDiscard, Icmped
      <4>4. QED
        BY <1>0, <4>3 DEF Parsed
    <3>6. QED
      BY <3>3, <3>4, <3>5
  <2>6. QED
    BY <1>0, <2>4, <2>5
<1>7. CASE InIcmp(rx, m, f, p)
  <2>1. /\ rx.state = "ICMP" /\ Icmped(f, p) /\ p < MAC + IP + ICMP
        /\ rx.left = MAC + IP + ICMP - p /\ m = 0 /\ Stands(rx, MAC + IP, ICMP, f, p)
    BY <1>0, <1>7 DEF InIcmp
  <2>2. p >= MAC + IP /\ Icmped(f, p + 1) /\ Iped(f, p + 1) /\ ~ Arped(f, p + 1)
    BY <1>0, <2>1, RxAssumption DEF Arped, Iped, IsForMe, Icmped
  <2> DEFINE base == MAC + IP
  <2>2a. base \in Nat /\ base <= p /\ p - base < ICMP /\ rx.left = ICMP - (p - base)
        /\ Stands(rx, base, ICMP, f, p)
    BY <1>0, <2>1, <2>2
  <2>2b. base = MAC + IP
    OBVIOUS
  <2> HIDE DEF base
  <2>3. \A j \in 1 .. (p + 1) - base : Stored[ICMP - j] = f[base + j]
    BY <1>0, <2>2a, StoredStands, SMTT(60)
  <2>4. CASE rx.left > 1
    <3>1. Stands(x, MAC + IP, ICMP, f, p + 1)
      <4>1. Stands(x, base, ICMP, f, p + 1)
        BY <1>0, <1>2, <2>1, <2>3, <2>4 DEF Stands
      <4>2. QED
        BY <4>1 DEF base
    <3>2. InIcmp(x, k, f, p + 1)
      BY <1>0, <1>2, <2>1, <2>2, <2>4, <3>1 DEF InIcmp
    <3>3. QED
      BY <1>0, <3>2 DEF Parsed
  <2>5. CASE rx.left = 1
    <3>1. x = Discard /\ p + 1 = MAC + IP + ICMP
      BY <1>0, <1>3, <2>1, <2>5 DEF LastByte
    <3>2. Taken(ICMP)[1] = f[MAC + IP + 1]
      <4>1. Data = f[base + ICMP] /\ Stands(rx, base, ICMP, f, base + ICMP - 1)
        <5>1. base + ICMP = p + 1 /\ base + ICMP - 1 = p
          BY <1>0, <2>2a, <2>2b, <3>1
        <5>2. QED
          BY <2>2a, <5>1
      <4>2. \A j \in 1 .. ICMP : Taken(ICMP)[j] = f[base + j]
        <5>1. base \in Nat /\ ICMP \in 1 .. BUFFER
          BY <1>0, <2>2a
        <5>2. QED
          BY <2>5, <4>1, <5>1, TakenStands, SMTT(60)
      <4>3. QED
        BY <1>0, <2>2b, <4>2
    <3>3. k = IF f[MAC + IP + 1] = ECHO THEN 1 ELSE 0
      BY <1>0, <2>1, <2>5, <3>2 DEF Arp, Echo, Ends
    <3>4. x.state = "DISCARD"
      BY <1>0, <3>1 DEF Discard
    <3>5. InDiscard(x, k, f, p + 1)
      BY <1>0, <2>2, <3>1, <3>3, <3>4 DEF InDiscard
    <3>6. QED
      BY <1>0, <3>5 DEF Parsed
  <2>6. QED
    BY <1>0, <2>4, <2>5
<1>8. CASE InDiscard(rx, m, f, p)
  <2>1. x = rx /\ k = m /\ rx.state = "DISCARD"
    BY <1>0, <1>8 DEF InDiscard, RxStep, Arp, Echo, Ends
  <2>2. InDiscard(x, k, f, p + 1)
    BY <1>0, <1>8, <2>1 DEF InDiscard, Arped, Iped, Icmped, IsForMe
  <2>3. QED
    BY <1>0, <2>2 DEF Parsed
<1>9. QED
  BY <1>0, <1>1, <1>4, <1>5, <1>6, <1>7, <1>8 DEF Parsed

----------------------------------------------------------------------------
(* An edge of the clock                                                     *)

ClockStep ==
    /\ Drives /\ rmii' = RmiiStep /\ rx' = RxStep /\ rxRequest' = RequestStep
    /\ arp' = IF Arp THEN Taken(ARP) ELSE arp
    /\ icmp' = IF Echo THEN Taken(ICMP) ELSE icmp
    /\ seen' = IF frame' # frame THEN [requests |-> 0, touched |-> rxRst]
               ELSE [requests |-> seen.requests + (IF Arp \/ Echo THEN 1 ELSE 0),
                     touched |-> seen.touched \/ rxRst]
    /\ UNCHANGED <<rxRst, resets>>

LEMMA Strobes ==
    ASSUME RxTyped, RmiiOK, Carried
    PROVE  (rmii.dv <=> K >= 8) /\ (rmii.str <=> K > 8 /\ K % 4 = 0)
<1>1. rmii.dv = (K >= 8) /\ rmii.str = (K > 8 /\ K % 4 = 0)
  BY Zenon DEF RmiiOK
<1>2. rmii.dv \in BOOLEAN /\ rmii.str \in BOOLEAN
  BY DEF RxTyped
<1>3. QED
  BY <1>1, <1>2

\* The byte the parser is given is the next one of the frame.
LEMMA ByteArrives ==
    ASSUME RxTyped, LineOK, RmiiOK, rmii.str
    PROVE  /\ Carried /\ frame \in FRAMES /\ rmii.dv /\ K > 8 /\ K \in Nat
           /\ (K - 9) \div 4 \in Nat /\ (K - 8) \div 4 = (K - 9) \div 4 + 1
           /\ (K - 8) \div 4 <= Len(frame) /\ Data = frame[(K - 9) \div 4 + 1]
<1>1. Carried /\ K > 8 /\ K % 4 = 0 /\ rmii.dv
      /\ \A j \in 1 .. 4 : K - 4 + j >= 1 => rmii.dt_tmp[j] = Dibit(frame, K - 4 + j)
  <2>1. Carried
    BY DEF RmiiOK
  <2>2. rmii.str = (K > 8 /\ K % 4 = 0) /\ rmii.dv = (K >= 8)
        /\ \A j \in 1 .. 4 : K - 4 + j >= 1 => rmii.dt_tmp[j] = Dibit(frame, K - 4 + j)
    BY <2>1, Zenon DEF RmiiOK
  <2>3. K > 8 /\ K % 4 = 0
    BY <2>2
  <2>4. K \in Int
    BY DEF K, LineOK
  <2>5. K >= 8
    BY <2>3, <2>4
  <2>6. QED
    BY <2>1, <2>2, <2>3, <2>5
<1>2. frame \in FRAMES /\ sent \in Nat /\ sent <= Length(frame)
  BY <1>1 DEF LineOK
<1>3. K \in Nat /\ K <= sent
  BY <1>1, <1>2 DEF K
<1>4. Len(frame) \in Nat /\ Length(frame) = 8 + 4 * Len(frame)
  BY <1>2, LengthOfFrame
<1> DEFINE b == (K - 9) \div 4 + 1
           k == K
<1>5. (k - 9) \div 4 \in Nat /\ (k - 8) \div 4 = b /\ 4 + 4 * b = k - 4 /\ b \in 1 .. Len(frame)
  <2> HIDE DEF k
  <2>1. k > 8 /\ k % 4 = 0 /\ k \in Nat /\ k <= 8 + 4 * Len(frame)
    BY <1>1, <1>2, <1>3, <1>4 DEF k
  <2>2. PICK q \in Nat : k = 4 * q
    <3>1. k \div 4 \in Nat /\ k = 4 * (k \div 4)
      BY <2>1
    <3>2. QED
      BY <3>1
  <2>3. k - 9 = 4 * (q - 3) + 3 /\ k - 8 = 4 * (q - 2) /\ q \in Nat /\ q - 3 \in Nat
    BY <2>1, <2>2
  <2>4. (k - 9) \div 4 = q - 3 /\ (k - 8) \div 4 = q - 2
    BY <2>3
  <2>5. b = q - 2
    BY <2>3, <2>4 DEF k
  <2>6. QED
    BY <1>4, <2>1, <2>2, <2>3, <2>4, <2>5
<1>6. Data = frame[b]
  <2> DEFINE s == rmii.dt_tmp
  <2> HIDE DEF b
  <2>1. s \in Seq(Int \X Int) /\ Len(s) = 4
    BY DEF RxTyped, RxTypeOK
  <2>2. \A j \in 1 .. 4 : s[j] = Dibit(frame, 4 + 4 * b + j)
    <3>1. \A j \in 1 .. 4 : K - 4 + j >= 1
      BY <1>1, <1>3
    <3>2. QED
      BY <1>1, <1>5, <3>1
  <2> HIDE DEF s
  <2>3. Byte(s) = frame[b]
    BY <1>2, <1>5, <2>1, <2>2, ByteOfDibits
  <2>4. QED
    BY <2>3 DEF Data, s
<1>7. QED
  BY <1>1, <1>2, <1>3, <1>5, <1>6

LEMMA Parses ==
    ASSUME RxTyped, LineOK, RmiiOK, ParseOK, Carried, K > 8, ~ seen.touched, ~ rxRst
    PROVE  Parsed(RxStep, seen.requests + (IF Arp \/ Echo THEN 1 ELSE 0), frame, (K - 8) \div 4)
<1>0. /\ K \in Nat /\ seen.requests \in Nat /\ rmii.dv /\ rmii.str = (K % 4 = 0)
      /\ rmii.str \in BOOLEAN
  <2>1. K \in Int
    BY DEF LineOK, K
  <2>2. rmii.str = (K > 8 /\ K % 4 = 0) /\ rmii.dv = (K >= 8)
    BY Zenon DEF RmiiOK
  <2>3. K >= 8 /\ K \in Nat
    BY <2>1
  <2>4. seen.requests \in Nat /\ rmii.str \in BOOLEAN
    BY DEF RxTyped
  <2>5. QED
    BY <2>2, <2>3, <2>4
<1>1. Parsed(rx, seen.requests, frame, (K - 9) \div 4)
  BY <1>0 DEF ParseOK
<1>2. CASE rmii.str
  <2> DEFINE p == (K - 9) \div 4
             m == seen.requests
             f == frame
  <2>1. p \in Nat /\ (K - 8) \div 4 = p + 1 /\ Data = f[p + 1]
    BY <1>2, ByteArrives
  <2>2. m \in Nat /\ Parsed(rx, m, f, p)
    BY <1>0, <1>1
  <2> HIDE DEF p, m, f
  <2>3. Parsed(RxStep, m + (IF Arp \/ Echo THEN 1 ELSE 0), f, p + 1)
    BY <1>0, <1>2, <2>1, <2>2, ParseStep
  <2>4. QED
    BY <2>1, <2>3 DEF m, f
<1>3. CASE ~ rmii.str
  <2>1. K % 4 # 0
    BY <1>0, <1>3
  <2>2. (K - 8) \div 4 = (K - 9) \div 4
    BY <1>0, <2>1
  <2>3. ~ Arp /\ ~ Echo
    BY <1>3 DEF Arp, Echo, Ends
  <2>4. seen.requests + (IF Arp \/ Echo THEN 1 ELSE 0) = seen.requests
    BY <1>0, <2>3
  <2>5. CASE rx.state = "RX_IDLE"
    <3>1. OtherLength(frame, (K - 9) \div 4)
      BY <1>1, <2>5 DEF Parsed, InMac, InArp, InIpv4, InIcmp, InDiscard
    <3>2. QED
      BY <2>2, <3>1 DEF Parsed
  <2>6. CASE rx.state # "RX_IDLE"
    <3>1. RxStep = rx
      BY <1>0, <1>3, <2>6 DEF RxStep
    <3>2. QED
      BY <1>1, <2>2, <2>4, <3>1
  <2>7. QED
    BY <2>5, <2>6
<1>4. QED
  BY <1>0, <1>2, <1>3

LEMMA ParseKept ==
    ASSUME RxTyped, LineOK, RmiiOK, Once, ParseOK, ClockStep
    PROVE  ParseOK'
<1> SUFFICES ASSUME Carried', ~ seen'.touched
             PROVE  IF K' <= 8 THEN rx'.state = "RX_IDLE"
                    ELSE Parsed(rx', seen'.requests, frame', (K' - 9) \div 4)
  BY DEF ParseOK
<1>0. Drives /\ rx' = RxStep /\ seen \in [requests : 0 .. 1, touched : BOOLEAN]
      /\ line.dv \in BOOLEAN /\ rxRst \in BOOLEAN
      /\ rx \in [state : States, left : 1 .. BUFFER, buffer : [0 .. BUFFER - 1 -> Int]]
  BY DEF ClockStep, RxTyped
<1>1. CASE ~ line.dv
  <2>1. ~ Carried /\ K' = 0 /\ frame' # frame
    BY <1>0, <1>1, LineKept
  <2>2. ~ rxRst /\ ~ rmii.dv
    BY <2>1 DEF ClockStep, RmiiOK
  <2>3. rx'.state = "RX_IDLE"
    BY <1>0, <2>2 DEF RxStep, Restarted
  <2>4. QED
    BY <2>1, <2>3
<1>2. CASE line.dv
  <2>1. Carried /\ K' = K + 1 /\ frame' = frame /\ K \in Nat
    BY <1>0, <1>2, LineKept
  <2>2. /\ seen' = [requests |-> seen.requests + (IF Arp \/ Echo THEN 1 ELSE 0),
                    touched |-> seen.touched \/ rxRst]
        /\ ~ rxRst /\ ~ seen.touched
    BY <1>0, <2>1 DEF ClockStep
  <2>3. CASE K <= 8
    <3>1. rx.state = "RX_IDLE" /\ seen.requests = 0
      BY <2>1, <2>2, <2>3 DEF ParseOK, Once
    <3>2. ~ Arp /\ ~ Echo
      BY <3>1 DEF Arp, Echo, Ends
    <3>3. seen'.requests = 0
      BY <2>2, <3>1, <3>2
    <3>4. rmii.dv <=> K >= 8
      BY <2>1, Strobes
    <3>5. CASE K < 8
      <4>1. ~ rmii.dv /\ K' <= 8
        BY <2>1, <3>4, <3>5
      <4>2. rx'.state = "RX_IDLE"
        BY <1>0, <2>2, <4>1 DEF RxStep, Restarted
      <4>3. QED
        BY <4>1, <4>2
    <3>6. CASE K = 8
      <4>1. rmii.dv /\ K' = 9 /\ (K' - 9) \div 4 = 0
        BY <2>1, <3>4, <3>6
      <4>2. rx'.state = "MAC_HEADER" /\ rx'.left = MAC
        BY <1>0, <2>2, <3>1, <4>1 DEF RxStep
      <4>3. InMac(rx', 0, frame', 0)
        BY <4>2, Sizes DEF InMac, Stands
      <4>4. QED
        BY <3>3, <4>1, <4>3 DEF Parsed
    <3>7. QED
      BY <2>1, <2>3, <3>5, <3>6
  <2>4. CASE K > 8
    <3>1. Parsed(RxStep, seen.requests + (IF Arp \/ Echo THEN 1 ELSE 0), frame, (K - 8) \div 4)
      BY <2>1, <2>2, <2>4, Parses
    <3>2. K' - 9 = K - 8 /\ ~ (K' <= 8)
      BY <2>1, <2>4
    <3>3. seen'.requests = seen.requests + (IF Arp \/ Echo THEN 1 ELSE 0)
      BY <2>2
    <3>4. QED
      BY <1>0, <2>1, <3>1, <3>2, <3>3
  <2>5. QED
    BY <2>1, <2>3, <2>4
<1>3. QED
  BY <1>0, <1>1, <1>2

\* A request ends with the parser discarding what is left of the frame.
LEMMA RequestDiscards ==
    ASSUME RxTyped, Arp \/ Echo
    PROVE  /\ RxStep.state = "DISCARD" /\ rmii.dv /\ rmii.str /\ ~ rxRst
           /\ rx.state \in {"ARP", "ICMP"} /\ rx.left = 1
<1>1. rmii.dv /\ rmii.str /\ ~ rxRst /\ rx.state \in {"ARP", "ICMP"} /\ rx.left = 1
  BY DEF Arp, Echo, Ends
<1>2. RxStep = Discard
  BY <1>1 DEF RxStep, LastByte
<1>3. rx \in [state : States, left : 1 .. BUFFER, buffer : [0 .. BUFFER - 1 -> Int]]
  BY DEF RxTyped
<1>4. QED
  BY <1>1, <1>2, <1>3 DEF Discard

LEMMA OnceKept ==
    ASSUME RxTyped, LineOK, RmiiOK, Once, ParseOK, ClockStep
    PROVE  /\ Once' /\ seen' \in [requests : 0 .. 1, touched : BOOLEAN]
           /\ rxRequest' \in [ready : BOOLEAN, type : {"ARP", "ICMP_ECHO"}]
<1>0. /\ Drives /\ rx' = RxStep /\ rmii' = RmiiStep /\ rxRequest' = RequestStep
      /\ seen \in [requests : 0 .. 1, touched : BOOLEAN]
      /\ rxRequest \in [ready : BOOLEAN, type : {"ARP", "ICMP_ECHO"}]
      /\ rxRst \in BOOLEAN
      /\ rx \in [state : States, left : 1 .. BUFFER, buffer : [0 .. BUFFER - 1 -> Int]]
  BY DEF ClockStep, RxTyped, RxTypeOK
<1>1. Arp \/ Echo => seen.requests = 0 /\ rx'.state = "DISCARD" /\ rmii.dv /\ rmii.str
  <2>1. Arp \/ Echo => rx.state # "DISCARD" /\ rmii.dv /\ rmii.str /\ rx'.state = "DISCARD"
    BY <1>0, RequestDiscards
  <2>2. QED
    BY <1>0, <2>1 DEF Once
<1>2. /\ seen' \in [requests : 0 .. 1, touched : BOOLEAN]
      /\ seen'.requests = IF frame' # frame THEN 0 ELSE IF Arp \/ Echo THEN 1 ELSE seen.requests
  <2>1. CASE frame' # frame
    BY <1>0, <2>1 DEF ClockStep
  <2>2. CASE frame' = frame
    <3>1. seen' = [requests |-> seen.requests + (IF Arp \/ Echo THEN 1 ELSE 0),
                   touched |-> seen.touched \/ rxRst]
      BY <2>2 DEF ClockStep
    <3>2. (seen.touched \/ rxRst) \in BOOLEAN
      BY <1>0
    <3>3. seen.requests + (IF Arp \/ Echo THEN 1 ELSE 0)
            = IF Arp \/ Echo THEN 1 ELSE seen.requests
      BY <1>0, <1>1
    <3>4. QED
      BY <1>0, <2>2, <3>1, <3>2, <3>3
  <2>3. QED
    BY <2>1, <2>2
<1>3. /\ rxRequest' \in [ready : BOOLEAN, type : {"ARP", "ICMP_ECHO"}]
      /\ rxRequest'.ready => Arp \/ Echo
  <2>1. rxRequest'.ready = (\/ Arp \/ Echo
                            \/ /\ rxRequest.ready /\ ~ rxRst /\ rmii.dv /\ rx.state # "DISCARD"
                               /\ ~ (rx.state = "MAC_HEADER" /\ rmii.str))
    BY <1>0, Zenon DEF RequestStep
  <2>2. rxRequest' \in [ready : BOOLEAN, type : {"ARP", "ICMP_ECHO"}]
    <3>1. (\/ Arp \/ Echo
           \/ /\ rxRequest.ready /\ ~ rxRst /\ rmii.dv /\ rx.state # "DISCARD"
              /\ ~ (rx.state = "MAC_HEADER" /\ rmii.str)) \in BOOLEAN
      OBVIOUS
    <3>2. (IF Arp THEN "ARP" ELSE IF Echo THEN "ICMP_ECHO" ELSE rxRequest.type)
            \in {"ARP", "ICMP_ECHO"}
      BY <1>0
    <3>3. QED
      BY <1>0, <3>1, <3>2, Zenon DEF RequestStep
  <2>3. rxRequest.ready => rx.state = "DISCARD"
    BY DEF Once
  <2>4. QED
    BY <2>1, <2>2, <2>3, Zenon
<1>4. Carried' /\ K' <= 8 => seen'.requests = 0
  <2>1. CASE ~ line.dv
    BY <1>0, <1>2, <2>1, LineKept
  <2>2. CASE line.dv
    <3>1. Carried /\ K' = K + 1 /\ K \in Nat /\ frame' = frame
      BY <1>0, <2>2, LineKept
    <3>2. CASE K < 8
      <4>1. seen.requests = 0 /\ rx.state \in States
        BY <1>0, <3>1, <3>2 DEF Once
      <4>2. ~ rmii.str
        BY <3>1, <3>2, Strobes
      <4>3. QED
        BY <1>1, <1>2, <3>1, <4>1, <4>2
    <3>3. QED
      BY <3>1, <3>2
  <2>3. QED
    BY <2>1, <2>2
<1>5. seen'.requests = 1 => rx'.state = "DISCARD" \/ ~ rmii'.dv
  <2> SUFFICES ASSUME seen'.requests = 1, ~ Arp, ~ Echo PROVE rx'.state = "DISCARD" \/ ~ rmii'.dv
    BY <1>1
  <2>1. frame' = frame /\ seen.requests = 1
    BY <1>2
  <2>2. rx.state = "DISCARD" \/ ~ rmii.dv
    BY <2>1 DEF Once
  <2>3. CASE ~ line.dv
    BY <1>0, <2>3 DEF RmiiStep, RxTyped
  <2>4. CASE line.dv
    <3>1. Carried /\ K \in Nat
      BY <1>0, <2>4, LineKept
    <3>2. K > 8
      BY <2>1, <3>1 DEF Once
    <3>3. rmii.dv
      BY <3>1, <3>2, Strobes
    <3>4. rx' = rx
      BY <1>0, <2>2, <3>3 DEF RxStep
    <3>5. QED
      BY <2>2, <3>3, <3>4
  <2>5. QED
    BY <2>3, <2>4
<1>6. rxRequest'.ready => rx'.state = "DISCARD"
  BY <1>1, <1>3
<1>7. QED
  BY <1>2, <1>3, <1>4, <1>5, <1>6 DEF Once

----------------------------------------------------------------------------
(* What came of the frame                                                   *)

LEMMA WhatCame ==
    ASSUME LineOK, frame \in FRAMES
    PROVE  LET c == IF sent < 8 THEN 0 ELSE (sent - 8) \div 4
           IN  /\ c \in 0 .. Len(frame) /\ Len(Came) = c /\ Came \in Seq(Nat)
               /\ \A j \in 1 .. c : Came[j] = frame[j]
<1> DEFINE c == IF sent < 8 THEN 0 ELSE (sent - 8) \div 4
<1>1. frame \in Seq(Nat) /\ Len(frame) \in Nat /\ Length(frame) = 8 + 4 * Len(frame) /\ frame # << >>
  BY LengthOfFrame
<1>2. sent \in Nat /\ sent <= 8 + 4 * Len(frame)
  BY <1>1 DEF LineOK
<1>3. c \in 0 .. Len(frame)
  BY <1>1, <1>2
<1>4. Came = SubSeq(frame, 1, c)
  BY DEF Came
<1> HIDE DEF c
<1>5. Len(Came) = c /\ Came \in Seq(Nat) /\ \A j \in 1 .. c : Came[j] = frame[j]
  <2>1. SubSeq(frame, 1, c) = [j \in 1 .. c |-> frame[j]]
    BY <1>1, <1>3
  <2>2. \A j \in 1 .. c : frame[j] \in Nat
    BY <1>1, <1>3
  <2>3. QED
    BY <1>3, <1>4, <2>1, <2>2
<1>6. QED
  BY <1>3, <1>5 DEF c

\* What a parser that has read all of what came has made of it is right.
LEMMA Judged ==
    ASSUME NEW x, NEW m, NEW c \in Nat, Parsed(x, m, Came, c), Len(Came) = c, Standard
    PROVE  m = IF IsArp \/ IsEcho THEN 1 ELSE 0
<1>0. /\ MAC \in Nat /\ ARP \in Nat /\ IP \in Nat /\ ICMP \in Nat /\ MAC >= 2 /\ IP >= 2
      /\ PROTO_ARP # PROTO_IP
  BY Sizes, RxAssumption
<1> USE <1>0
<1>1. ~ OtherLength(Came, c)
  BY DEF OtherLength, Icmped, Iped, IsForMe, Standard, CarriesIcmp, ToMe
<1>2. CASE InMac(x, m, Came, c)
  BY <1>2 DEF InMac, IsArp, IsEcho, CarriesIcmp, ToMe
<1>3. CASE InArp(x, m, Came, c)
  BY <1>3 DEF InArp, IsArp, IsEcho, CarriesIcmp, ToMe, Arped, IsForMe
<1>4. CASE InIpv4(x, m, Came, c)
  BY <1>4 DEF InIpv4, IsArp, IsEcho, CarriesIcmp, ToMe, Iped, IsForMe
<1>5. CASE InIcmp(x, m, Came, c)
  BY <1>5 DEF InIcmp, IsArp, IsEcho, CarriesIcmp, ToMe, Icmped, Iped, IsForMe
<1>6. CASE InDiscard(x, m, Came, c)
  <2>1. Arped(Came, c) <=> IsArp
    BY <1>6 DEF InDiscard, IsArp, ToMe, Arped, IsForMe
  <2>2. Icmped(Came, c) <=> CarriesIcmp
    BY DEF CarriesIcmp, ToMe, Icmped, Iped, IsForMe
  <2>3. Icmped(Came, c) /\ Came[MAC + IP + 1] = ECHO <=> IsEcho
    BY <1>6, <2>2 DEF InDiscard, IsEcho
  <2>4. QED
    BY <1>6, <2>1, <2>3 DEF InDiscard
<1>7. QED
  BY <1>1, <1>2, <1>3, <1>4, <1>5, <1>6 DEF Parsed

\* It does not matter which bytes follow those that were parsed.
LEMMA ParsedAlike ==
    ASSUME NEW x, NEW m, NEW f, NEW g, NEW c \in Nat, \A j \in 1 .. c : f[j] = g[j],
           Parsed(x, m, f, c)
    PROVE  Parsed(x, m, g, c)
<1>0. MAC \in Nat /\ ARP \in Nat /\ IP \in Nat /\ ICMP \in Nat /\ MAC >= 2 /\ IP >= 2 /\ ICMP >= 1
  BY Sizes
<1>1. /\ c >= MAC => f[1] = g[1] /\ f[2] = g[2]
      /\ c >= MAC + IP => f[MAC + 1] = g[MAC + 1] /\ f[MAC + 2] = g[MAC + 2]
      /\ c >= MAC + IP + ICMP => f[MAC + IP + 1] = g[MAC + IP + 1]
  <2>1. c >= MAC => 1 \in 1 .. c /\ 2 \in 1 .. c
    BY <1>0
  <2>2. c >= MAC + IP => MAC + 1 \in 1 .. c /\ MAC + 2 \in 1 .. c
    BY <1>0
  <2>3. c >= MAC + IP + ICMP => MAC + IP + 1 \in 1 .. c
    BY <1>0
  <2>4. QED
    BY <2>1, <2>2, <2>3
<1>2. /\ IsForMe(f, c) <=> IsForMe(g, c)
      /\ Arped(f, c) <=> Arped(g, c)
      /\ Iped(f, c) <=> Iped(g, c)
      /\ Icmped(f, c) <=> Icmped(g, c)
  <2>1. IsForMe(f, c) <=> IsForMe(g, c)
    BY <1>1 DEF IsForMe
  <2>2. IsForMe(f, c) => c >= MAC
    BY DEF IsForMe
  <2>3. Arped(f, c) <=> Arped(g, c)
    BY <1>1, <2>1, <2>2 DEF Arped
  <2>4. Iped(f, c) <=> Iped(g, c)
    BY <1>1, <2>1, <2>2 DEF Iped
  <2>5. Icmped(f, c) <=> Icmped(g, c)
    BY <1>1, <2>4 DEF Icmped
  <2>6. QED
    BY <2>1, <2>3, <2>4, <2>5
<1>3. OtherLength(f, c) => OtherLength(g, c)
  BY <1>1, <1>2 DEF OtherLength, Icmped
<1>4. ASSUME NEW o, NEW len, o \in Nat, Stands(x, o, len, f, c) PROVE Stands(x, o, len, g, c)
  <2>1. ASSUME NEW j \in 1 .. c - o PROVE x.buffer[len - j] = g[o + j]
    <3>1. o + j \in 1 .. c
      BY <1>4
    <3>2. f[o + j] = g[o + j]
      BY <3>1
    <3>3. QED
      BY <1>4, <3>2 DEF Stands
  <2>2. QED
    BY <2>1 DEF Stands
<1>5. /\ Stands(x, 0, MAC, f, c) => Stands(x, 0, MAC, g, c)
      /\ Stands(x, MAC, ARP, f, c) => Stands(x, MAC, ARP, g, c)
      /\ Stands(x, MAC, IP, f, c) => Stands(x, MAC, IP, g, c)
      /\ Stands(x, MAC + IP, ICMP, f, c) => Stands(x, MAC + IP, ICMP, g, c)
  <2>1. 0 \in Nat /\ MAC + IP \in Nat
    BY <1>0
  <2>2. QED
    BY <1>0, <1>4, <2>1
<1>6. InDiscard(x, m, f, c) => InDiscard(x, m, g, c)
  <2>1. ASSUME InDiscard(x, m, f, c) PROVE InDiscard(x, m, g, c)
    <3>1. Icmped(f, c) => f[MAC + IP + 1] = g[MAC + IP + 1]
      BY <1>0, <1>1, <2>1 DEF InDiscard
    <3>2. (Arped(f, c) \/ (Icmped(f, c) /\ f[MAC + IP + 1] = ECHO))
            <=> (Arped(g, c) \/ (Icmped(g, c) /\ g[MAC + IP + 1] = ECHO))
      BY <1>2, <3>1
    <3>3. QED
      BY <1>2, <2>1, <3>2 DEF InDiscard
  <2>2. QED
    BY <2>1
<1>7. InMac(x, m, f, c) => InMac(x, m, g, c)
  BY <1>5 DEF InMac
<1>8. InArp(x, m, f, c) => InArp(x, m, g, c)
  BY <1>2, <1>5 DEF InArp
<1>9. InIpv4(x, m, f, c) => InIpv4(x, m, g, c)
  BY <1>2, <1>5 DEF InIpv4
<1>10. InIcmp(x, m, f, c) => InIcmp(x, m, g, c)
  BY <1>2, <1>5 DEF InIcmp
<1>11. QED
  BY <1>3, <1>6, <1>7, <1>8, <1>9, <1>10 DEF Parsed

LEMMA NothingCame ==
    ASSUME Len(Came) = 0
    PROVE  ~ IsArp /\ ~ IsEcho
BY Sizes DEF ToMe, IsArp, IsEcho, CarriesIcmp

LEMMA FoundKept ==
    ASSUME RxTyped, LineOK, RmiiOK, Once, ParseOK, EveryRequestFound, ClockStep
    PROVE  EveryRequestFound'
<1> SUFFICES ASSUME rxQuiet' >= 2, ~ seen'.touched, Standard'
             PROVE  seen'.requests = IF IsArp' \/ IsEcho' THEN 1 ELSE 0
  BY DEF EveryRequestFound
<1>0. /\ Drives /\ rx' = RxStep /\ seen \in [requests : 0 .. 1, touched : BOOLEAN]
      /\ rxQuiet \in Nat /\ rxQuiet <= SPACE /\ line.dv \in BOOLEAN
  BY RxAssumption DEF ClockStep, RxTyped, LineOK
<1>1. ~ line.dv /\ Quiet /\ rxQuiet >= 1
  <2>1. ~ StartOfFrame /\ ~ CarrierFalls
    BY DEF StartOfFrame, CarrierFalls
  <2>2. ~ NextDibit
    BY DEF NextDibit, LineOK
  <2>3. Quiet
    BY <1>0, <2>1, <2>2 DEF Drives
  <2>4. QED
    BY <1>0, <2>3 DEF Quiet, LineOK
<1>2. CASE frame' # frame
  <2>1. frame' = << >> /\ sent' = 0
    BY <1>1, <1>2 DEF Quiet
  <2>2. Came' = << >>
    BY <2>1 DEF Came
  <2>3. Len(Came') = 0
    BY <2>2
  <2>4. ~ IsArp' /\ ~ IsEcho'
    BY <2>3, Sizes DEF ToMe, IsArp, IsEcho, CarriesIcmp
  <2>5. seen'.requests = 0
    BY <1>2 DEF ClockStep
  <2>6. QED
    BY <2>4, <2>5
<1>3. CASE frame' = frame
  <2>1. ~ rxRst /\ ~ seen.touched
        /\ seen'.requests = seen.requests + (IF Arp \/ Echo THEN 1 ELSE 0)
    BY <1>3 DEF ClockStep
  <2>2. CASE rxQuiet = 1
    <3>1. sent' = sent /\ Carried /\ K = sent
      BY <1>0, <1>1, <2>2, RxAssumption DEF Quiet, Carried, K
    <3>2. Came' = Came /\ frame \in FRAMES
      BY <1>3, <3>1 DEF Came, LineOK
    <3>3. IsArp' = IsArp /\ IsEcho' = IsEcho /\ Standard
      BY <3>2 DEF IsArp, IsEcho, Standard, CarriesIcmp, ToMe
    <3> DEFINE c == IF sent < 8 THEN 0 ELSE (sent - 8) \div 4
    <3>4. c \in Nat /\ Len(Came) = c /\ \A j \in 1 .. c : Came[j] = frame[j]
      <4>1. c \in 0 .. Len(frame) /\ Len(frame) \in Nat
        BY <3>2, WhatCame, LengthOfFrame
      <4>2. QED
        BY <3>2, <4>1, WhatCame
    <3>5. sent \in Nat
      BY DEF LineOK
    <3>6. CASE K > 8
      <4>1. Parsed(RxStep, seen'.requests, frame, (K - 8) \div 4)
        BY <2>1, <3>1, <3>6, Parses
      <4>2. (K - 8) \div 4 = c
        BY <3>1, <3>5, <3>6
      <4> HIDE DEF c
      <4>3. Parsed(RxStep, seen'.requests, Came, c)
        BY <3>4, <4>1, <4>2, ParsedAlike
      <4>4. QED
        BY <3>3, <3>4, <4>3, Judged
    <3>7. CASE ~ (K > 8)
      <4>1. seen.requests = 0 /\ c = 0
        BY <3>1, <3>5, <3>7 DEF Once
      <4>2. ~ Arp /\ ~ Echo
        <5>1. ~ rmii.str
          BY <3>1, <3>7, Strobes
        <5>2. QED
          BY <5>1 DEF Arp, Echo, Ends
      <4>3. ~ IsArp /\ ~ IsEcho
        BY <3>4, <4>1, NothingCame
      <4>4. QED
        BY <2>1, <3>3, <4>1, <4>2, <4>3
    <3>8. QED
      BY <3>6, <3>7
  <2>3. CASE rxQuiet >= 2
    <3>1. ~ Carried
      BY <1>0, <1>1, <2>3 DEF Carried
    <3>2. ~ Arp /\ ~ Echo
      BY <3>1 DEF RmiiOK, Arp, Echo, Ends
    <3>3. seen'.requests = seen.requests
      BY <1>0, <2>1, <3>2
    <3>4. sent' = sent
      <4>1. CASE rxQuiet < SPACE
        BY <1>1, <4>1 DEF Quiet
      <4>2. CASE ~ (rxQuiet < SPACE)
        <5>1. frame = << >> /\ sent' = 0
          BY <1>1, <1>3, <4>2 DEF Quiet
        <5>2. sent = 0
          BY <5>1, LengthOfFrame DEF LineOK
        <5>3. QED
          BY <5>1, <5>2
      <4>3. QED
        BY <4>1, <4>2
    <3>5. Came' = Came
      BY <1>3, <3>4 DEF Came
    <3>6. IsArp' = IsArp /\ IsEcho' = IsEcho /\ Standard
      BY <3>5 DEF IsArp, IsEcho, Standard, CarriesIcmp, ToMe
    <3>7. QED
      BY <2>1, <2>3, <3>3, <3>6 DEF EveryRequestFound
  <2>4. QED
    BY <1>0, <1>1, <2>2, <2>3
<1>4. QED
  BY <1>2, <1>3

\* Where the bytes of a request stand when it is made.
LEMMA RequestHoldsTheFrame ==
    ASSUME RxTyped, LineOK, RmiiOK, Once, ParseOK, Arp \/ Echo, ~ seen.touched, Standard
    PROVE  /\ Arp => Taken(ARP) = SubSeq(Came, MAC + 1, MAC + ARP)
           /\ Echo => Taken(ICMP) = SubSeq(Came, MAC + IP + 1, MAC + IP + ICMP)
<1>0. /\ MAC \in Nat /\ ARP \in Nat /\ IP \in Nat /\ ICMP \in Nat
      /\ ARP \in 1 .. BUFFER /\ ICMP \in 1 .. BUFFER
  BY Sizes
<1>1. rmii.str /\ ~ rxRst /\ rx.left = 1
  BY RequestDiscards
<1> DEFINE p == (K - 9) \div 4
           c == IF sent < 8 THEN 0 ELSE (sent - 8) \div 4
<1>2. /\ Carried /\ frame \in FRAMES /\ K > 8 /\ K \in Nat /\ p \in Nat
      /\ (K - 8) \div 4 = p + 1 /\ Data = frame[p + 1]
  BY <1>1, ByteArrives
<1>3. Parsed(rx, seen.requests, frame, p)
  BY <1>2 DEF ParseOK
<1>4. c \in Nat /\ p + 1 <= c /\ Len(Came) = c /\ Came \in Seq(Nat)
      /\ \A j \in 1 .. c : Came[j] = frame[j]
  <2>1. c \in 0 .. Len(frame) /\ Len(frame) \in Nat
    BY <1>2, WhatCame, LengthOfFrame
  <2>2. K <= sent /\ sent \in Nat
    BY DEF K, LineOK
  <2>3. (K - 8) \div 4 <= c
    BY <1>2, <2>2
  <2>4. QED
    BY <1>2, <2>1, <2>3, WhatCame
<1> HIDE DEF p, c
<1>5. ~ OtherLength(frame, p)
  <2>1. ASSUME Icmped(frame, p) PROVE frame[MAC + 1] = IP + ICMP
    <3>1. Icmped(frame, c)
      BY <1>2, <1>4, <2>1, Sizes DEF Icmped, Iped, IsForMe
    <3>2. c >= MAC + IP /\ c >= MAC /\ 1 \in 1 .. c /\ 2 \in 1 .. c /\ MAC + 1 \in 1 .. c
          /\ MAC + 2 \in 1 .. c
      BY <1>0, <1>4, <3>1, Sizes DEF Icmped, Iped, IsForMe
    <3>3. Came[1] = frame[1] /\ Came[2] = frame[2] /\ Came[MAC + 1] = frame[MAC + 1]
          /\ Came[MAC + 2] = frame[MAC + 2]
      BY <1>4, <3>2
    <3>4. CarriesIcmp
      BY <1>4, <3>1, <3>2, <3>3 DEF CarriesIcmp, ToMe, Icmped, Iped, IsForMe
    <3>5. QED
      BY <3>3, <3>4 DEF Standard
  <2>2. QED
    BY <2>1 DEF OtherLength
<1>6. ASSUME NEW from \in Nat, NEW len \in 1 .. BUFFER, p + 1 = from + len,
             Stands(rx, from, len, frame, p)
      PROVE  Taken(len) = SubSeq(Came, from + 1, from + len)
  <2>1. len \in Nat /\ from + len - 1 = p
    BY <1>2, <1>6, Sizes
  <2>2. \A j \in 1 .. len : Taken(len)[j] = frame[from + j]
    <3>1. Data = frame[from + len] /\ Stands(rx, from, len, frame, from + len - 1)
      BY <1>2, <1>6, <2>1
    <3>2. QED
      BY <1>1, <3>1, TakenStands, SMTT(60)
  <2>3. Taken(len) = [j \in 1 .. len |-> Taken(len)[j]] 
    BY DEF Taken
  <2>4. SubSeq(Came, from + 1, from + len) = [j \in 1 .. len |-> Came[from + 1 + j - 1]]
    <3>1. from + 1 \in 1 .. c + 1 /\ from + len <= c /\ (from + len) - (from + 1) + 1 = len
      BY <1>4, <1>6, <2>1
    <3>2. QED
      BY <1>4, <2>1, <3>1
  <2>5. \A j \in 1 .. len : Came[from + 1 + j - 1] = frame[from + j]
    <3>1. ASSUME NEW j \in 1 .. len PROVE from + j \in 1 .. c /\ from + 1 + j - 1 = from + j
      BY <1>4, <1>6, <2>1
    <3>2. QED
      BY <1>4, <3>1
  <2>6. QED
    BY <2>2, <2>3, <2>4, <2>5
<1>7. ASSUME Arp PROVE Taken(ARP) = SubSeq(Came, MAC + 1, MAC + ARP)
  <2>1. rx.state = "ARP"
    BY <1>7 DEF Arp, Ends
  <2>2. InArp(rx, seen.requests, frame, p)
    BY <1>3, <1>5, <2>1 DEF Parsed, InMac, InIpv4, InIcmp, InDiscard
  <2>3. p + 1 = MAC + ARP /\ Stands(rx, MAC, ARP, frame, p)
    BY <1>0, <1>1, <1>2, <2>2 DEF InArp
  <2>4. QED
    BY <1>0, <1>6, <2>3
<1>8. ASSUME Echo PROVE Taken(ICMP) = SubSeq(Came, MAC + IP + 1, MAC + IP + ICMP)
  <2>1. rx.state = "ICMP"
    BY <1>8 DEF Echo, Ends
  <2>2. InIcmp(rx, seen.requests, frame, p)
    BY <1>3, <1>5, <2>1 DEF Parsed, InMac, InIpv4, InArp, InDiscard
  <2>3. p + 1 = MAC + IP + ICMP /\ Stands(rx, MAC + IP, ICMP, frame, p) /\ MAC + IP \in Nat
    BY <1>0, <1>1, <1>2, <2>2 DEF InIcmp
  <2>4. QED
    BY <1>0, <1>6, <2>3
<1>9. QED
  BY <1>7, <1>8

----------------------------------------------------------------------------
(* The invariant                                                            *)

LEMMA RxInitially == RxInit => RxInv
<1> SUFFICES ASSUME RxInit PROVE RxInv
  OBVIOUS
<1>1. /\ SPACE \in Nat /\ SPACE >= 2 /\ BUFFER \in Nat \ {0}
  BY RxAssumption, Sizes
<1>2. Sfd \in Seq(Int \X Int) /\ Len(Sfd) = 4 /\ One \in Int \X Int
  BY DEF Sfd, One, Three, Unknown
<1>3. /\ line = [dv |-> FALSE, dt |-> One] /\ frame = << >> /\ sent = 0 /\ rxQuiet = SPACE
      /\ rmii = [skip |-> TRUE, cnt |-> 0, dv |-> FALSE, str |-> FALSE, dt_tmp |-> Sfd]
      /\ rx = [state |-> "RX_IDLE", left |-> 1, buffer |-> [k \in 0 .. BUFFER - 1 |-> Unknown]]
      /\ rxRequest = [ready |-> FALSE, type |-> "ARP"]
      /\ arp = << >> /\ icmp = << >> /\ rxRst = FALSE /\ resets = 0
      /\ seen = [requests |-> 0, touched |-> FALSE]
  BY DEF RxInit
<1>4. ~ Carried
  BY <1>1, <1>3 DEF Carried
<1>5. RxTyped
  <2>1. Len(arp) = 0 /\ Len(icmp) = 0 /\ arp \in Seq(Int) /\ icmp \in Seq(Int)
    BY <1>3
  <2>2. rx \in [state : States, left : 1 .. BUFFER, buffer : [0 .. BUFFER - 1 -> Int]]
    BY <1>1, <1>3 DEF States, Unknown
  <2>3. RxTypeOK
    BY <1>1, <1>2, <1>3, <2>1, <2>2 DEF RxTypeOK
  <2>4. /\ line \in [dv : BOOLEAN, dt : Int \X Int] /\ rxRst \in BOOLEAN /\ resets \in Nat
        /\ seen \in [requests : 0 .. 1, touched : BOOLEAN]
    <3>1. line \in [dv : BOOLEAN, dt : Int \X Int]
      BY <1>2, <1>3
    <3>2. seen \in [requests : 0 .. 1, touched : BOOLEAN]
      BY <1>3
    <3>3. rxRst \in BOOLEAN /\ resets \in Nat
      BY <1>3
    <3>4. QED
      BY <3>1, <3>2, <3>3
  <2>5. rmii \in [skip : BOOLEAN, cnt : 0 .. 3, dv : BOOLEAN, str : BOOLEAN,
                  dt_tmp : Seq(Int \X Int)]
    BY <1>2, <1>3
  <2>6. QED
    BY <2>1, <2>2, <2>3, <2>4, <2>5 DEF RxTyped
<1>6. LineOK
  BY <1>1, <1>3, <1>4 DEF LineOK
<1>7. RmiiOK /\ Once /\ ParseOK
  BY <1>3, <1>4 DEF RmiiOK, Once, ParseOK
<1>8. EveryRequestFound
  <2>1. Came = << >>
    BY <1>3 DEF Came
  <2>2. Len(Came) = 0
    BY <2>1
  <2>3. QED
    BY <1>3, <2>2, NothingCame DEF EveryRequestFound
<1>9. QED
  BY <1>5, <1>6, <1>7, <1>8 DEF RxInv

LEMMA RxClockKept ==
    ASSUME RxInv, ClockStep
    PROVE  RxInv'
<1>0. RxTyped /\ LineOK /\ RmiiOK /\ Once /\ ParseOK /\ EveryRequestFound /\ Drives
      /\ rmii' = RmiiStep /\ rx' = RxStep
  BY DEF RxInv, ClockStep
<1>1. LineOK' /\ line' \in [dv : BOOLEAN, dt : Int \X Int]
  BY <1>0, LineKept
<1>2. /\ RmiiOK' /\ rmii'.cnt \in 0 .. 3 /\ Len(rmii'.dt_tmp) = 4
      /\ rmii' \in [skip : BOOLEAN, cnt : 0 .. 3, dv : BOOLEAN, str : BOOLEAN,
                    dt_tmp : Seq(Int \X Int)]
  BY <1>0, RmiiKept
<1>3. /\ rx' \in [state : States, left : 1 .. BUFFER, buffer : [0 .. BUFFER - 1 -> Int]]
      /\ rx'.state \in States /\ rx'.left \in 1 .. BUFFER
  BY <1>0, RxStepTyped
<1>4. /\ Once' /\ seen' \in [requests : 0 .. 1, touched : BOOLEAN]
      /\ rxRequest' \in [ready : BOOLEAN, type : {"ARP", "ICMP_ECHO"}]
  BY <1>0, OnceKept
<1>5. ParseOK' /\ EveryRequestFound'
  BY <1>0, ParseKept, FoundKept
<1>6. /\ arp' \in Seq(Int) /\ icmp' \in Seq(Int)
      /\ Len(arp') \in {0, ARP} /\ Len(icmp') \in {0, ICMP}
  <2>1. ARP \in 1 .. BUFFER /\ ICMP \in 1 .. BUFFER
    BY Sizes
  <2>2. /\ Taken(ARP) \in Seq(Int) /\ Len(Taken(ARP)) = ARP
        /\ Taken(ICMP) \in Seq(Int) /\ Len(Taken(ICMP)) = ICMP
    BY <1>0, <2>1, TakenTyped
  <2>3. arp' = (IF Arp THEN Taken(ARP) ELSE arp) /\ icmp' = (IF Echo THEN Taken(ICMP) ELSE icmp)
    BY DEF ClockStep
  <2>4. arp \in Seq(Int) /\ icmp \in Seq(Int) /\ Len(arp) \in {0, ARP} /\ Len(icmp) \in {0, ICMP}
    BY <1>0 DEF RxTyped, RxTypeOK
  <2>5. QED
    BY <2>2, <2>3, <2>4
<1>7. rxRst' \in BOOLEAN /\ resets' \in Nat
  BY <1>0 DEF ClockStep, RxTyped
<1>8. RxTyped'
  <2>1. RxTypeOK'
    BY <1>2, <1>3, <1>4, <1>6 DEF RxTypeOK
  <2>2. QED
    BY <1>1, <1>2, <1>3, <1>4, <1>6, <1>7, <2>1 DEF RxTyped
<1>9. QED
  BY <1>1, <1>2, <1>4, <1>5, <1>8 DEF RxInv

LEMMA IsClockStep ==
    ASSUME RxNext
    PROVE  ClockStep \/ RxPress \/ RxRelease
BY DEF RxNext, Clock, ClockStep, Drives

LEMMA RxResetKept ==
    ASSUME RxInv, RxPress \/ RxRelease \/ UNCHANGED rxVars
    PROVE  RxInv'
<1>1. UNCHANGED <<lineVars, registers, seen>> /\ rxRst' \in BOOLEAN /\ resets' \in Nat
  <2>1. rxRst \in BOOLEAN /\ resets \in Nat
    BY DEF RxInv, RxTyped
  <2>2. CASE RxPress
    BY <2>1, <2>2 DEF RxPress
  <2>3. CASE RxRelease
    BY <2>1, <2>3 DEF RxRelease
  <2>4. CASE UNCHANGED rxVars
    BY <2>1, <2>4 DEF rxVars
  <2>5. QED
    BY <2>2, <2>3, <2>4
<1>2. UNCHANGED <<line, frame, sent, rxQuiet, rmii, rx, rxRequest, arp, icmp, seen>>
  BY <1>1 DEF lineVars, registers
<1>3. RxTyped'
  BY <1>1, <1>2 DEF RxInv, RxTyped, RxTypeOK
<1>4. Carried' = Carried /\ K' = K /\ Came' = Came
  BY <1>2 DEF Carried, K, Came
<1>5. LineOK' /\ RmiiOK'
  BY <1>2, <1>4 DEF RxInv, LineOK, RmiiOK
<1>6. Once' /\ ParseOK'
  BY <1>2, <1>4 DEF RxInv, Once, ParseOK
<1>7. EveryRequestFound'
  BY <1>2, <1>4 DEF RxInv, EveryRequestFound, Standard, IsArp, IsEcho, CarriesIcmp, ToMe
<1>8. QED
  BY <1>3, <1>5, <1>6, <1>7 DEF RxInv

\* The receiver is where the dibits on the line have brought it, and has taken of the
\* frame what they told: the invariant of rmii_to_bytestream and eth_rx_proc.
THEOREM RxConsistent == RxSpec => []RxInv
<1>1. RxInv /\ [RxNext]_rxVars => RxInv'
  BY IsClockStep, RxClockKept, RxResetKept
<1>2. QED
  BY <1>1, RxInitially, PTL DEF RxSpec

\* A frame makes a request exactly when it is one, whatever came before it.
THEOREM RequestsAreFound == RxSpec => []EveryRequestFound
<1>1. RxInv => EveryRequestFound
  BY DEF RxInv
<1>2. QED
  BY <1>1, RxConsistent, PTL

\* The request registers hold the bytes of the frame that made the request, and the
\* request is gone after one edge.
THEOREM FrameIsHeld == RxSpec => RequestsHoldTheFrame
<1> DEFINE Held ==
      /\ rxRequest.ready /\ registers' # registers => ~ rxRequest'.ready
      /\ rxRequest'.ready /\ ~ rxRequest.ready /\ ~ seen.touched /\ Standard =>
           IF rxRequest'.type = "ARP" THEN arp' = SubSeq(Came, MAC + 1, MAC + ARP)
           ELSE icmp' = SubSeq(Came, MAC + IP + 1, MAC + IP + ICMP)
<1>1. ASSUME RxInv, RxNext PROVE Held
  <2>0. RxTyped /\ LineOK /\ RmiiOK /\ Once /\ ParseOK
    BY <1>1 DEF RxInv
  <2>1. CASE RxPress \/ RxRelease
    BY <2>1 DEF RxPress, RxRelease, registers
  <2>2. CASE ClockStep
    <3>1. /\ rxRequest'.ready = (\/ Arp \/ Echo
                                 \/ /\ rxRequest.ready /\ ~ rxRst /\ rmii.dv
                                    /\ rx.state # "DISCARD"
                                    /\ ~ (rx.state = "MAC_HEADER" /\ rmii.str))
          /\ rxRequest'.type = IF Arp THEN "ARP" ELSE IF Echo THEN "ICMP_ECHO"
                               ELSE rxRequest.type
      BY <2>2, Zenon DEF ClockStep, RequestStep
    <3>2. rxRequest.ready => rx.state = "DISCARD"
      BY <2>0 DEF Once
    <3>3. rxRequest'.ready => Arp \/ Echo
      BY <3>1, <3>2, Zenon
    <3>4. Arp \/ Echo => ~ rxRequest.ready
      BY <2>0, <3>2, RequestDiscards
    <3>5. ASSUME rxRequest'.ready, ~ seen.touched, Standard
          PROVE  IF rxRequest'.type = "ARP" THEN arp' = SubSeq(Came, MAC + 1, MAC + ARP)
                 ELSE icmp' = SubSeq(Came, MAC + IP + 1, MAC + IP + ICMP)
      <4>1. /\ Arp => Taken(ARP) = SubSeq(Came, MAC + 1, MAC + ARP)
            /\ Echo => Taken(ICMP) = SubSeq(Came, MAC + IP + 1, MAC + IP + ICMP)
        BY <2>0, <3>3, <3>5, RequestHoldsTheFrame
      <4>2. /\ arp' = IF Arp THEN Taken(ARP) ELSE arp
            /\ icmp' = IF Echo THEN Taken(ICMP) ELSE icmp
        BY <2>2 DEF ClockStep
      <4>3. CASE Arp
        BY <3>1, <4>1, <4>2, <4>3
      <4>4. CASE ~ Arp
        BY <3>1, <3>3, <3>5, <4>1, <4>2, <4>4
      <4>5. QED
        BY <4>3, <4>4
    <3>6. QED
      BY <3>3, <3>4, <3>5
  <2>3. QED
    BY <1>1, <2>1, <2>2, IsClockStep
<1>2. RxInv /\ [RxNext]_rxVars => [Held]_rxVars
  BY <1>1
<1>3. QED
  BY <1>2, RxConsistent, PTL DEF RxSpec, RequestsHoldTheFrame

----------------------------------------------------------------------------
(* The stream                                                               *)

(* The ranges of the registers.                                             *)
Kinds == {"none", "ARP", "ICMP_ECHO"}
Reply == [type : Kinds, to : 0 .. 2, of : 0 .. 2]
TxRegs == [state : TxStates, counter : Nat, udp_counter : 0 .. UDP_MOD - 1,
           reply_ready : BOOLEAN, frame : Reply, strob : BOOLEAN, pf_enq : BOOLEAN,
           len : Nat, addr : Addr, wdt : Word, wstrobe : BOOLEAN]

StreamTyped ==
    /\ w \in WriteRegs /\ r \in ReadRegs /\ ram \in [0 .. 2 * N - 1 -> Sample]
    /\ tx \in TxRegs
    /\ ram1 \in [addr : Addr, wdt : Word, wstrobe : BOOLEAN]
    /\ memory \in [Addr -> Word]
    /\ request \in [type : Kinds, arp : 0 .. 2, icmp : 0 .. 2, last : 1 .. 2]
    /\ pulse \in 0 .. 2 /\ fresh \in BOOLEAN
    /\ rst \in BOOLEAN /\ pressed \in [times : Nat, clk : BOOLEAN, signal : BOOLEAN]
    /\ n \in Sample /\ quiet \in 0 .. PACE /\ calm \in 0 .. SPACING
    /\ next \in [sample : Sample, udp : 0 .. UDP_MOD - 1,
                 phase : {"stream", "reset", "restart"}]

(* What is being built or has just been enqueued: the words so far, the     *)
(* last two of them on their way to the buffer.                             *)
Ended == tx.state = "ENQUE_DATA" \/ tx.pf_enq
LastWord == IF tx.pf_enq THEN ram1.wdt ELSE tx.wdt
AdcEnded == Ended /\ LastWord[1] = "sample"
ReplyEnded == Ended /\ LastWord[1] # "sample"
PastHeader == tx.state = "WRITE_ADC_DATA" \/ AdcEnded
BuildsAdc == tx.state \in {"PREPARE_ADC_DATA", "WRITE_ADC_HEADER"} \/ PastHeader
PastRequest == tx.state = "WRITE_REPLY_DATA" \/ ReplyEnded
BuildsReply == tx.state = "PREPARE_REPLY_DATA" \/ PastRequest

Words == IF tx.pf_enq THEN tx.len ELSE tx.counter
Pos == IF tx.pf_enq THEN tx.len + 1 ELSE tx.counter
WordAt(i) ==
    IF i = Pos - 1 THEN tx.wdt ELSE IF i = Pos - 2 THEN ram1.wdt ELSE memory[i]

Writing == {"WRITE_ADC_HEADER", "WRITE_ADC_DATA", "WRITE_REPLY_DATA", "ENQUE_DATA"}

\* The states of the machine, its counter and the two strobes of the write port.
Piped ==
    /\ tx.state \in {"PREPARE_ADC_DATA", "PREPARE_REPLY_DATA"} =>
         tx.counter = 0 /\ ~ tx.wstrobe /\ ~ ram1.wstrobe
    /\ tx.state = "TX_IDLE" => ~ tx.wstrobe
    /\ tx.state \in Writing =>
         /\ tx.wstrobe <=> tx.counter >= 1
         /\ tx.counter >= 1 => tx.addr = tx.counter - 1
         /\ ram1.wstrobe <=> tx.counter >= 2
         /\ tx.counter >= 2 => ram1.addr = tx.counter - 2
    /\ tx.pf_enq =>
         /\ tx.state = "TX_IDLE" /\ ram1.wstrobe
         /\ tx.len >= 1 /\ ram1.addr = tx.len - 1

\* How far it is, and how far UDP_BUFFER is with the half it reads.
Counted ==
    /\ tx.state = "WRITE_ADC_HEADER" => tx.counter <= 10 /\ (tx.counter = 10 => tx.strob)
    /\ tx.state = "WRITE_ADC_DATA" =>
         /\ tx.counter \in 11 .. N + 10 /\ tx.strob
         /\ r.ready => r.addr >= tx.counter - 10
    /\ AdcEnded => Words \in 12 .. N + 11 /\ ~ r.ready /\ ~ tx.strob
    /\ PastRequest => tx.frame.type \in {"ARP", "ICMP_ECHO"}
    /\ tx.state = "WRITE_REPLY_DATA" => tx.counter <= LastReplyWord(tx.frame.type)
    /\ ReplyEnded =>
         /\ Words = LastReplyWord(tx.frame.type) + 1
         /\ LastWord[1] = tx.frame.type

\* What the reset has done to the clocks it has reached.
ResetOK ==
    rst =>
    /\ next.phase = "reset" /\ pulse = 0
    /\ pressed.clk =>
         /\ tx.state = "TX_IDLE" /\ ~ tx.pf_enq /\ ~ tx.reply_ready
         /\ r.index = 1 /\ r.addr = 0 /\ asked = << >> /\ ~ fresh
    /\ pressed.signal => w = WriteReset

\* The reader is at the half that is full, edges after it was filled.
Swapped == r.index = 1 - w.index
Since == PACE * w.addr + quiet
Late == IF tx.pf_enq THEN 1 ELSE 0

\* A frame is built from a half before the next one is full.
Timely ==
    ~ rst =>
    /\ ~ Swapped => Since = 0 /\ ~ r.ready /\ ~ BuildsAdc
    /\ r.ready /\ tx.state = "TX_IDLE" =>
         Since <= PACE + (IF tx.reply_ready THEN 0 ELSE 22)
    /\ r.ready /\ tx.state = "PREPARE_REPLY_DATA" => Since <= PACE + 1
    /\ r.ready /\ tx.state \in {"WRITE_REPLY_DATA", "ENQUE_DATA"} /\ BuildsReply =>
         Since <= PACE + 2 + tx.counter
    /\ tx.state = "PREPARE_ADC_DATA" => Since <= PACE + 23
    /\ tx.state \in {"WRITE_ADC_HEADER", "WRITE_ADC_DATA"} => Since <= PACE + 24 + tx.counter
    /\ AdcEnded => Since <= PACE + 24 + Words + Late

\* A request is answered before there can be another.
Answered ==
    /\ tx.reply_ready \/ tx.state = "PREPARE_REPLY_DATA" =>
         asked = <<ReplyTo(request)>> /\ request.type # "none"
    /\ ~ (tx.reply_ready \/ tx.state = "PREPARE_REPLY_DATA") => asked = << >>
    /\ pulse > 0 => request.type # "none"
    /\ fresh => calm = 0 /\ ~ tx.reply_ready
    /\ pulse = 2 => fresh
    /\ pulse > 0 /\ ~ fresh => calm = 1 /\ tx.reply_ready
    /\ BuildsReply /\ ~ tx.pf_enq => ~ tx.reply_ready /\ pulse = 0 /\ ~ fresh
    /\ tx.reply_ready =>
         /\ tx.state = "PREPARE_ADC_DATA" => calm <= 1
         /\ tx.state \in Writing => calm <= 2 + tx.counter
         /\ tx.state = "TX_IDLE" => calm <= N + 14
    /\ tx.state = "PREPARE_REPLY_DATA" => calm <= N + 15
    /\ PastRequest => calm <= N + 16 + Words + Late

\* The words of the frame are what they should be, wherever they stand.
ReplyWords ==
    PastRequest => \A i \in 0 .. 18 : i < Words => WordAt(i) = ReplyWord(i, tx.frame)
HeaderWords(udp) == \A i \in 0 .. 10 : i < Words => WordAt(i) = HeaderWord(i, udp)
AdcWords ==
    /\ tx.state = "WRITE_ADC_HEADER" => HeaderWords(tx.udp_counter)
    /\ PastHeader =>
         /\ WordAt(0)[3] \in 0 .. UDP_MOD - 1 /\ HeaderWords(WordAt(0)[3])
         /\ tx.udp_counter = (WordAt(0)[3] + 1) % UDP_MOD
         /\ Words > 11 => WordAt(11)[3] \in Sample

\* The samples: the next is number n, the half being filled began with Base, and the other
\* half with FirstSample.
Base == (n - w.addr) % SAMPLES
FirstSample == (n - w.addr - N) % SAMPLES
Filled == \A i \in 0 .. N - 1 : i < w.addr => ram[N * w.index + i] = (Base + i) % SAMPLES

\* The half that is full is still to be sent.
Pending == r.ready \/ ~ Swapped \/ BuildsAdc

Unsent ==
    Pending => \A i \in 0 .. N - 1 : ram[N * (1 - w.index) + i] = (FirstSample + i) % SAMPLES

\* The machine and the reader keep step.
Stepped ==
    /\ tx.strob <=> \/ tx.state = "WRITE_ADC_DATA"
                    \/ tx.state = "WRITE_ADC_HEADER" /\ tx.counter = 10
    /\ r.ready /\ tx.state # "WRITE_ADC_DATA" => r.addr = 0
    /\ tx.state \in {"PREPARE_ADC_DATA", "WRITE_ADC_HEADER"} => r.ready
    /\ tx.state = "WRITE_ADC_DATA" =>
         /\ r.ready <=> tx.counter < N + 10
         /\ r.ready => r.addr = tx.counter - 10
         /\ r.data = (FirstSample + (tx.counter - 11)) % SAMPLES

\* The frame is numbered as it should be, in the header and in its samples.
Numbered ==
    /\ PastHeader => WordAt(0)[3] = next.udp
    /\ ~ PastHeader => tx.udp_counter = next.udp
    /\ PastHeader =>
         \A i \in 11 .. N + 10 :
            i < Words => WordAt(i) = SampleWord(i, (FirstSample + (i - 11)) % SAMPLES)
    /\ AdcEnded => Words = N + 11

Continuing == next.phase = "stream" => next.sample = IF Pending THEN FirstSample ELSE Base

\* All this holds from the first frame after a reset on.
InStream == next.phase # "reset" => Unsent /\ Stepped /\ Numbered /\ Continuing

StreamInv ==
    /\ StreamTyped /\ Piped /\ Counted /\ ResetOK /\ Timely /\ Answered
    /\ ReplyWords /\ AdcWords /\ Filled /\ InStream
----------------------------------------------------------------------------
(* Remainders                                                               *)

LEMMA Division ==
    ASSUME NEW b \in Nat \ {0}, NEW a \in Int
    PROVE  a \div b \in Int /\ a % b \in 0 .. b - 1 /\ a = b * (a \div b) + (a % b)
OBVIOUS

\* The quotient and the remainder are the only ones.
LEMMA SameRemainder ==
    ASSUME NEW b \in Nat \ {0}, NEW x \in Int, NEW y \in 0 .. b - 1, NEW q \in Int, x = b * q + y
    PROVE  x % b = y
<1>1. x % b \in 0 .. b - 1 /\ x \div b \in Int /\ x = b * (x \div b) + (x % b)
  BY Division
<1> DEFINE d == (x \div b) - q
<1>2. d \in Int /\ b * d = b * (x \div b) - b * q
  BY <1>1
<1>3. b * d = y - (x % b)
  BY <1>1, <1>2
<1> HIDE DEF d
<1>4. d = 0
  <2>1. CASE d >= 1
    <3>1. b * d >= b
      BY <1>2, <2>1
    <3>2. QED
      BY <1>1, <1>3, <3>1
  <2>2. CASE d <= -1
    <3>1. b * d <= -b
      BY <1>2, <2>2
    <3>2. QED
      BY <1>1, <1>3, <3>1
  <2>3. QED
    BY <1>2, <2>1, <2>2
<1>5. QED
  BY <1>1, <1>3, <1>4

\* Numbers may be reduced before they are added.
LEMMA ModSum ==
    ASSUME NEW b \in Nat \ {0}, NEW x \in Int, NEW y \in Int
    PROVE  ((x % b) + y) % b = (x + y) % b
<1> DEFINE c == x % b
           d == x \div b
           m == (x + y) % b
           e == (x + y) \div b
<1>1. d \in Int /\ c \in 0 .. b - 1 /\ x = b * d + c
  BY Division
<1>2. e \in Int /\ m \in 0 .. b - 1 /\ x + y = b * e + m
  <2>1. x + y \in Int
    OBVIOUS
  <2>2. QED
    BY <2>1, Division
<1> HIDE DEF c, d, m, e
<1>3. c + y \in Int /\ e - d \in Int /\ b * (e - d) = b * e - b * d
  BY <1>1, <1>2
<1>4. c + y = b * (e - d) + m
  BY <1>1, <1>2, <1>3
<1>5. (c + y) % b = m
  BY <1>2, <1>3, <1>4, SameRemainder
<1>6. QED
  BY <1>5 DEF c, m

----------------------------------------------------------------------------
(* Words and steps of the machine                                           *)

LEMMA StreamConstants ==
    /\ N \in Nat \ {0} /\ SAMPLES \in Nat \ {0} /\ SAMPLES > 2 * N /\ Sample = 0 .. SAMPLES - 1
    /\ PACE \in Nat \ {0} /\ SPACING \in Nat \ {0} /\ UDP_MOD \in Nat \ {0}
BY BufferAssumption, StreamAssumption

LEMMA WordsOK ==
    /\ NoWord \in Word
    /\ \A i, u \in Nat : HeaderWord(i, u) \in Word /\ HeaderWord(i, u)[1] = "header"
                         /\ HeaderWord(i, u)[3] = u
    /\ \A i, s \in Nat : SampleWord(i, s) \in Word /\ SampleWord(i, s)[1] = "sample"
                         /\ SampleWord(i, s)[3] = s
    /\ \A i \in Nat, f \in Reply : ReplyWord(i, f) \in Word /\ ReplyWord(i, f)[1] = f.type
BY DEF Word, NoWord, HeaderWord, SampleWord, ReplyWord, Reply, Kinds

\* The registers of the machine, one by one.
Regs(x, s, c, u, q, f, st, pe, l, a, wd, ws) ==
    /\ x \in TxRegs
    /\ x.state = s /\ x.counter = c /\ x.udp_counter = u /\ x.reply_ready = q /\ x.frame = f
    /\ x.strob = st /\ x.pf_enq = pe /\ x.len = l /\ x.addr = a /\ x.wdt = wd
    /\ x.wstrobe = ws

LEMMA ZeroAddr == 0 \in Addr
BY StreamConstants DEF Addr

LEMMA WriteRegisters ==
    ASSUME NEW v \in TxRegs, NEW wd \in Word, v.counter \in Addr
    PROVE  Regs(Write(v, wd), v.state, v.counter + 1, v.udp_counter, v.reply_ready, v.frame,
                v.strob, v.pf_enq, v.len, v.counter, wd, TRUE)
<1> DEFINE x == [v EXCEPT !.addr = v.counter, !.wdt = wd]
           y == [x EXCEPT !.wstrobe = TRUE, !.counter = v.counter + 1]
<1>1. Write(v, wd) = y
  BY DEF Write
<1>2. x \in TxRegs /\ v.counter + 1 \in Nat
  <2>1. x \in TxRegs
    BY DEF TxRegs
  <2>2. v.counter \in Nat
    BY DEF TxRegs
  <2>3. QED
    BY <2>1, <2>2
<1> HIDE DEF x
<1>3. y \in TxRegs
  BY <1>2 DEF TxRegs
<1>4. y.state = v.state /\ y.counter = v.counter + 1 /\ y.udp_counter = v.udp_counter
      /\ y.reply_ready = v.reply_ready /\ y.frame = v.frame /\ y.strob = v.strob
      /\ y.pf_enq = v.pf_enq /\ y.len = v.len /\ y.addr = v.counter /\ y.wdt = wd
      /\ y.wstrobe = TRUE
  BY DEF x, TxRegs
<1> HIDE DEF y
<1>5. QED
  BY <1>1, <1>3, <1>4 DEF Regs

LEMMA TxStepReset ==
    ASSUME NEW v \in TxRegs, NEW q \in BOOLEAN, NEW rq, NEW dr \in BOOLEAN, NEW d
    PROVE  Regs(TxStep(v, TRUE, q, rq, dr, d),
                "TX_IDLE", v.counter, v.udp_counter, FALSE, v.frame, v.strob, FALSE, 0, 0,
                NoWord, FALSE)
<1>1. TxStep(v, TRUE, q, rq, dr, d) = TxReset(v)
  BY DEF TxStep
<1>2. TxReset(v) \in TxRegs
  BY ZeroAddr, WordsOK DEF TxReset, TxRegs, TxStates
<1>3. QED
  BY <1>1, <1>2 DEF TxReset, TxRegs, Regs

LEMMA TxStepIdle ==
    ASSUME NEW v \in TxRegs, NEW q \in BOOLEAN, NEW rq, NEW dr \in BOOLEAN, NEW d,
           v.state = "TX_IDLE"
    PROVE  Regs(TxStep(v, FALSE, q, rq, dr, d),
                IF v.reply_ready THEN "PREPARE_REPLY_DATA"
                ELSE IF dr THEN "PREPARE_ADC_DATA" ELSE "TX_IDLE",
                0, v.udp_counter, ~ v.reply_ready /\ q, v.frame, v.strob, FALSE, 0, 0,
                NoWord, FALSE)
<1> DEFINE x == Cleared(v)
           y == TxIdle(v, dr)
           b == ~ v.reply_ready /\ q
           s == IF v.reply_ready THEN "PREPARE_REPLY_DATA"
                ELSE IF dr THEN "PREPARE_ADC_DATA" ELSE "TX_IDLE"
<1>1. x \in TxRegs
  BY ZeroAddr, WordsOK DEF Cleared, TxRegs
<1>2. Regs(x, "TX_IDLE", 0, v.udp_counter, v.reply_ready, v.frame, v.strob, FALSE, 0, 0,
           NoWord, FALSE)
  BY <1>1 DEF Cleared, TxRegs, Regs
<1>3. TxStep(v, FALSE, q, rq, dr, d) = [y EXCEPT !.reply_ready = b]
  BY DEF TxStep, IdleFlag
<1>4. y = IF v.reply_ready
          THEN [x EXCEPT !.reply_ready = FALSE, !.state = "PREPARE_REPLY_DATA"]
          ELSE IF dr THEN [x EXCEPT !.state = "PREPARE_ADC_DATA"] ELSE x
  BY DEF TxIdle
<1> HIDE DEF x, y
<1>5. y \in TxRegs
  BY <1>1, <1>4 DEF TxRegs, TxStates
<1>6. y.state = s
  BY <1>1, <1>2, <1>4 DEF TxRegs, Regs
<1>7. \E z \in BOOLEAN :
        Regs(y, s, 0, v.udp_counter, z, v.frame, v.strob, FALSE, 0, 0, NoWord, FALSE)
  <2>1. /\ y.counter = 0 /\ y.udp_counter = v.udp_counter /\ y.frame = v.frame
        /\ y.strob = v.strob /\ y.pf_enq = FALSE /\ y.len = 0 /\ y.addr = 0
        /\ y.wdt = NoWord /\ y.wstrobe = FALSE
    BY <1>1, <1>2, <1>4 DEF TxRegs, Regs
  <2>2. y.reply_ready \in BOOLEAN
    BY <1>5 DEF TxRegs
  <2>3. QED
    BY <1>5, <1>6, <2>1, <2>2 DEF Regs
<1>8. b \in BOOLEAN
  BY DEF TxRegs
<1> HIDE DEF b, s
<1>9. [y EXCEPT !.reply_ready = b] \in TxRegs
  BY <1>5, <1>8 DEF TxRegs
<1>10. Regs(TxStep(v, FALSE, q, rq, dr, d), s, 0, v.udp_counter, b, v.frame, v.strob, FALSE,
            0, 0, NoWord, FALSE)
  BY <1>3, <1>5, <1>7, <1>9 DEF TxRegs, Regs
<1>11. QED
  BY <1>10 DEF b, s

\* The flag of the request is set in every other state.
Flagged(v, q) == [v EXCEPT !.reply_ready = v.reply_ready \/ q]

LEMMA FlaggedRegisters ==
    ASSUME NEW v \in TxRegs, NEW q \in BOOLEAN
    PROVE  Regs(Flagged(v, q), v.state, v.counter, v.udp_counter, v.reply_ready \/ q, v.frame,
                v.strob, v.pf_enq, v.len, v.addr, v.wdt, v.wstrobe)
<1>1. Flagged(v, q) \in TxRegs
  BY DEF Flagged, TxRegs
<1>2. QED
  BY <1>1 DEF Flagged, TxRegs, Regs

LEMMA TxStepPrepareAdc ==
    ASSUME NEW v \in TxRegs, NEW q \in BOOLEAN, NEW rq, NEW dr \in BOOLEAN, NEW d,
           v.state = "PREPARE_ADC_DATA"
    PROVE  Regs(TxStep(v, FALSE, q, rq, dr, d),
                "WRITE_ADC_HEADER", v.counter, v.udp_counter, v.reply_ready \/ q, v.frame,
                v.strob, v.pf_enq, v.len, v.addr, v.wdt, v.wstrobe)
<1> DEFINE x == Flagged(v, q)
           y == [x EXCEPT !.state = "WRITE_ADC_HEADER"]
<1>1. TxStep(v, FALSE, q, rq, dr, d) = y
  BY DEF TxStep, Flagged
<1>2. Regs(x, v.state, v.counter, v.udp_counter, v.reply_ready \/ q, v.frame, v.strob,
           v.pf_enq, v.len, v.addr, v.wdt, v.wstrobe)
  BY FlaggedRegisters
<1> HIDE DEF x
<1>3. y \in TxRegs
  BY <1>2 DEF TxRegs, TxStates, Regs
<1>4. QED
  BY <1>1, <1>2, <1>3 DEF TxRegs, Regs

LEMMA TxStepHeader ==
    ASSUME NEW v \in TxRegs, NEW q \in BOOLEAN, NEW rq, NEW dr \in BOOLEAN, NEW d,
           v.state = "WRITE_ADC_HEADER", v.counter \in Addr
    PROVE  IF v.counter < 10
           THEN Regs(TxStep(v, FALSE, q, rq, dr, d),
                     "WRITE_ADC_HEADER", v.counter + 1, v.udp_counter, v.reply_ready \/ q,
                     v.frame, v.strob \/ v.counter = 9, v.pf_enq, v.len, v.counter,
                     HeaderWord(v.counter, v.udp_counter), TRUE)
           ELSE Regs(TxStep(v, FALSE, q, rq, dr, d),
                     "WRITE_ADC_DATA", v.counter + 1, (v.udp_counter + 1) % UDP_MOD,
                     v.reply_ready \/ q, v.frame, v.strob, v.pf_enq, v.len, v.counter,
                     HeaderWord(v.counter, v.udp_counter), TRUE)
<1> DEFINE x == Flagged(v, q)
           wd == HeaderWord(v.counter, v.udp_counter)
           y == Write(x, wd)
           b == v.reply_ready \/ q
           z == v.strob \/ v.counter = 9
           m == (v.udp_counter + 1) % UDP_MOD
<1>1. TxStep(v, FALSE, q, rq, dr, d) = WriteAdcHeader(x)
  BY DEF TxStep, Flagged
<1>2. Regs(x, v.state, v.counter, v.udp_counter, b, v.frame, v.strob, v.pf_enq, v.len, v.addr,
           v.wdt, v.wstrobe)
  BY FlaggedRegisters
<1>3. wd \in Word /\ z \in BOOLEAN /\ m \in 0 .. UDP_MOD - 1
  BY WordsOK, StreamConstants DEF TxRegs
<1>4. WriteAdcHeader(x) =
        IF v.counter < 10 THEN [y EXCEPT !.strob = z]
        ELSE [y EXCEPT !.udp_counter = m, !.state = "WRITE_ADC_DATA"]
  BY <1>2 DEF WriteAdcHeader, LastHeaderWord, StrobDue, Regs
<1> HIDE DEF x, wd, b, z, m
<1>5. Regs(y, v.state, v.counter + 1, v.udp_counter, b, v.frame, v.strob, v.pf_enq, v.len,
           v.counter, wd, TRUE)
  <2>1. x \in TxRegs /\ x.counter \in Addr
    BY <1>2 DEF Regs
  <2>2. Regs(y, x.state, x.counter + 1, x.udp_counter, x.reply_ready, x.frame, x.strob,
             x.pf_enq, x.len, x.counter, wd, TRUE)
    BY <1>3, <2>1, WriteRegisters
  <2>3. QED
    BY <1>2, <2>2 DEF Regs
<1> HIDE DEF y
<1>6. CASE v.counter < 10
  <2>1. [y EXCEPT !.strob = z] \in TxRegs
    BY <1>3, <1>5 DEF TxRegs, Regs
  <2>2. Regs([y EXCEPT !.strob = z], v.state, v.counter + 1, v.udp_counter, b, v.frame, z,
             v.pf_enq, v.len, v.counter, wd, TRUE)
    BY <1>5, <2>1 DEF TxRegs, Regs
  <2>3. QED
    BY <1>1, <1>4, <1>6, <2>2 DEF b, z, wd
<1>7. CASE ~ v.counter < 10
  <2> DEFINE t == [y EXCEPT !.udp_counter = m, !.state = "WRITE_ADC_DATA"]
  <2>1. t \in TxRegs
    BY <1>3, <1>5 DEF TxRegs, TxStates, Regs
  <2>2. Regs(t, "WRITE_ADC_DATA", v.counter + 1, m, b, v.frame, v.strob, v.pf_enq, v.len,
             v.counter, wd, TRUE)
    BY <1>5, <2>1 DEF TxRegs, Regs
  <2>3. QED
    BY <1>1, <1>4, <1>7, <2>2 DEF b, m, wd
<1>8. QED
  BY <1>6, <1>7

LEMMA TxStepData ==
    ASSUME NEW v \in TxRegs, NEW q \in BOOLEAN, NEW rq, NEW dr \in BOOLEAN, NEW d \in Sample,
           v.state = "WRITE_ADC_DATA", v.counter \in Addr
    PROVE  Regs(TxStep(v, FALSE, q, rq, dr, d),
                IF dr THEN "WRITE_ADC_DATA" ELSE "ENQUE_DATA", v.counter + 1, v.udp_counter,
                v.reply_ready \/ q, v.frame, dr /\ v.strob, v.pf_enq, v.len, v.counter,
                SampleWord(v.counter, d), TRUE)
<1> DEFINE x == Flagged(v, q)
           wd == SampleWord(v.counter, d)
           y == Write(x, wd)
           b == v.reply_ready \/ q
           z == dr /\ v.strob
           s == IF dr THEN "WRITE_ADC_DATA" ELSE "ENQUE_DATA"
           t == [y EXCEPT !.state = "ENQUE_DATA", !.strob = FALSE]
<1>1. TxStep(v, FALSE, q, rq, dr, d) = WriteAdcData(x, dr, d)
  BY DEF TxStep, Flagged
<1>2. Regs(x, v.state, v.counter, v.udp_counter, b, v.frame, v.strob, v.pf_enq, v.len, v.addr,
           v.wdt, v.wstrobe)
  BY FlaggedRegisters
<1>3. wd \in Word /\ v.strob \in BOOLEAN
  BY WordsOK, StreamConstants DEF TxRegs
<1>4. WriteAdcData(x, dr, d) = IF dr THEN y ELSE t
  BY <1>2 DEF WriteAdcData, Regs
<1> HIDE DEF x, wd, b
<1>5. Regs(y, v.state, v.counter + 1, v.udp_counter, b, v.frame, v.strob, v.pf_enq, v.len,
           v.counter, wd, TRUE)
  <2>1. x \in TxRegs /\ x.counter \in Addr
    BY <1>2 DEF Regs
  <2>2. Regs(y, x.state, x.counter + 1, x.udp_counter, x.reply_ready, x.frame, x.strob,
             x.pf_enq, x.len, x.counter, wd, TRUE)
    BY <1>3, <2>1, WriteRegisters
  <2>3. QED
    BY <1>2, <2>2 DEF Regs
<1> HIDE DEF y
<1>6. CASE dr
  <2>1. z = v.strob /\ s = v.state
    BY <1>3, <1>6
  <2>2. QED
    BY <1>1, <1>4, <1>5, <1>6, <2>1 DEF b, wd
<1>7. CASE ~ dr
  <2>1. t \in TxRegs
    BY <1>5 DEF TxRegs, TxStates, Regs
  <2>2. Regs(t, "ENQUE_DATA", v.counter + 1, v.udp_counter, b, v.frame, FALSE, v.pf_enq, v.len,
             v.counter, wd, TRUE)
    BY <1>5, <2>1 DEF TxRegs, Regs
  <2>3. z = FALSE /\ s = "ENQUE_DATA"
    BY <1>7
  <2>4. QED
    BY <1>1, <1>4, <1>7, <2>2, <2>3 DEF b, wd
<1>8. QED
  BY <1>6, <1>7

LEMMA TxStepPrepareReply ==
    ASSUME NEW v \in TxRegs, NEW q \in BOOLEAN, NEW rq, NEW dr \in BOOLEAN, NEW d,
           v.state = "PREPARE_REPLY_DATA", ReplyTo(rq) \in Reply
    PROVE  Regs(TxStep(v, FALSE, q, rq, dr, d),
                "WRITE_REPLY_DATA", v.counter, v.udp_counter, v.reply_ready \/ q, ReplyTo(rq),
                v.strob, v.pf_enq, v.len, v.addr, v.wdt, v.wstrobe)
<1> DEFINE x == Flagged(v, q)
           f == ReplyTo(rq)
           y == [x EXCEPT !.frame = f, !.state = "WRITE_REPLY_DATA"]
<1>1. TxStep(v, FALSE, q, rq, dr, d) = y
  BY DEF TxStep, Flagged
<1>2. Regs(x, v.state, v.counter, v.udp_counter, v.reply_ready \/ q, v.frame, v.strob,
           v.pf_enq, v.len, v.addr, v.wdt, v.wstrobe)
  BY FlaggedRegisters
<1> HIDE DEF x, f
<1>3. y \in TxRegs
  BY <1>2 DEF f, TxRegs, TxStates, Regs
<1>4. Regs(y, "WRITE_REPLY_DATA", v.counter, v.udp_counter, v.reply_ready \/ q, f,
           v.strob, v.pf_enq, v.len, v.addr, v.wdt, v.wstrobe)
  BY <1>2, <1>3 DEF TxRegs, Regs
<1>5. QED
  BY <1>1, <1>4 DEF f

LEMMA TxStepReply ==
    ASSUME NEW v \in TxRegs, NEW q \in BOOLEAN, NEW rq, NEW dr \in BOOLEAN, NEW d,
           v.state = "WRITE_REPLY_DATA", v.counter \in Addr
    PROVE  Regs(TxStep(v, FALSE, q, rq, dr, d),
                IF v.counter < LastReplyWord(v.frame.type) THEN "WRITE_REPLY_DATA"
                ELSE "ENQUE_DATA", v.counter + 1, v.udp_counter, v.reply_ready \/ q, v.frame,
                v.strob, v.pf_enq, v.len, v.counter, ReplyWord(v.counter, v.frame), TRUE)
<1> DEFINE x == Flagged(v, q)
           wd == ReplyWord(v.counter, v.frame)
           y == Write(x, wd)
           b == v.reply_ready \/ q
           g == v.counter < LastReplyWord(v.frame.type)
           s == IF g THEN "WRITE_REPLY_DATA" ELSE "ENQUE_DATA"
           t == [y EXCEPT !.state = "ENQUE_DATA"]
<1>1. TxStep(v, FALSE, q, rq, dr, d) = WriteReplyData(x)
  BY DEF TxStep, Flagged
<1>2. Regs(x, v.state, v.counter, v.udp_counter, b, v.frame, v.strob, v.pf_enq, v.len, v.addr,
           v.wdt, v.wstrobe)
  BY FlaggedRegisters
<1>3. wd \in Word
  BY WordsOK DEF TxRegs
<1>4. WriteReplyData(x) = IF g THEN y ELSE t
  BY <1>2 DEF WriteReplyData, ReplyGoesOn, Regs
<1> HIDE DEF x, wd, b, g
<1>5. Regs(y, v.state, v.counter + 1, v.udp_counter, b, v.frame, v.strob, v.pf_enq, v.len,
           v.counter, wd, TRUE)
  <2>1. x \in TxRegs /\ x.counter \in Addr
    BY <1>2 DEF Regs
  <2>2. Regs(y, x.state, x.counter + 1, x.udp_counter, x.reply_ready, x.frame, x.strob,
             x.pf_enq, x.len, x.counter, wd, TRUE)
    BY <1>3, <2>1, WriteRegisters
  <2>3. QED
    BY <1>2, <2>2 DEF Regs
<1> HIDE DEF y
<1>6. CASE g
  BY <1>1, <1>4, <1>5, <1>6 DEF b, wd, g
<1>7. CASE ~ g
  <2>1. t \in TxRegs
    BY <1>5 DEF TxRegs, TxStates, Regs
  <2>2. Regs(t, "ENQUE_DATA", v.counter + 1, v.udp_counter, b, v.frame, v.strob, v.pf_enq,
             v.len, v.counter, wd, TRUE)
    BY <1>5, <2>1 DEF TxRegs, Regs
  <2>3. QED
    BY <1>1, <1>4, <1>7, <2>2 DEF b, wd, g
<1>8. QED
  BY <1>6, <1>7

LEMMA TxStepEnque ==
    ASSUME NEW v \in TxRegs, NEW q \in BOOLEAN, NEW rq, NEW dr \in BOOLEAN, NEW d,
           v.state = "ENQUE_DATA"
    PROVE  Regs(TxStep(v, FALSE, q, rq, dr, d),
                "TX_IDLE", 0, v.udp_counter, v.reply_ready \/ q, v.frame, v.strob, TRUE,
                v.counter, v.addr, v.wdt, FALSE)
<1> DEFINE x == Flagged(v, q)
           b == v.reply_ready \/ q
<1>1. TxStep(v, FALSE, q, rq, dr, d) = EnqueData(x)
  BY DEF TxStep, Flagged
<1>2. Regs(x, v.state, v.counter, v.udp_counter, b, v.frame, v.strob, v.pf_enq, v.len, v.addr,
           v.wdt, v.wstrobe)
  BY FlaggedRegisters
<1> HIDE DEF x, b
<1>3. EnqueData(x) \in TxRegs
  BY <1>2 DEF EnqueData, TxRegs, TxStates, Regs
<1>4. Regs(EnqueData(x), "TX_IDLE", 0, v.udp_counter, b, v.frame, v.strob, TRUE, v.counter,
           v.addr, v.wdt, FALSE)
  BY <1>2, <1>3 DEF EnqueData, TxRegs, Regs
<1>5. QED
  BY <1>1, <1>4 DEF b

----------------------------------------------------------------------------
(* An edge of the 50 MHz clock                                              *)

LEMMA RepliesTyped == StreamTyped => ReplyTo(request) \in Reply
<1> SUFFICES ASSUME StreamTyped PROVE ReplyTo(request) \in Reply
  OBVIOUS
<1>1. request.type \in Kinds /\ request.arp \in 0 .. 2 /\ request.icmp \in 0 .. 2
  BY DEF StreamTyped
<1>2. QED
  BY <1>1 DEF ReplyTo, Reply

LEMMA Cells == \A x \in 0 .. 1, a \in 0 .. N - 1 :
                 /\ N * x + a \in 0 .. 2 * N - 1
                 /\ N * x = IF x = 0 THEN 0 ELSE N
                 /\ \A b \in 0 .. N - 1 : N * (1 - x) + b # N * x + a
<1> SUFFICES ASSUME NEW x \in 0 .. 1, NEW a \in 0 .. N - 1
             PROVE  /\ N * x + a \in 0 .. 2 * N - 1
                    /\ N * x = IF x = 0 THEN 0 ELSE N
                    /\ \A b \in 0 .. N - 1 : N * (1 - x) + b # N * x + a
  OBVIOUS
<1>1. N \in Nat \ {0}
  BY StreamConstants
<1>2. CASE x = 0
  BY <1>1, <1>2
<1>3. CASE x = 1
  BY <1>1, <1>3
<1>4. QED
  BY <1>2, <1>3

\* read_RAM_proc.
LEMMA Reads ==
    ASSUME StreamTyped, ClkEdge
    PROVE  /\ r' \in ReadRegs
           /\ rst => r'.index = 1 /\ r'.addr = 0 /\ r'.ready = r.ready /\ r'.data = r.data
           /\ ~ rst /\ ~ Swapped =>
                r'.index = 1 - w.index /\ r'.addr = 0 /\ r'.ready = TRUE /\ r'.data = r.data
           /\ ~ rst /\ Swapped =>
                /\ r'.index = r.index /\ r'.data = ram[N * r.index + r.addr]
                /\ ~ tx.strob => r'.addr = r.addr /\ r'.ready = r.ready
                /\ tx.strob /\ r.addr = N - 1 => r'.addr = 0 /\ r'.ready = FALSE
                /\ tx.strob /\ r.addr # N - 1 => r'.addr = r.addr + 1 /\ r'.ready = r.ready
<1>1. r' = ReadStep(r, rst, w, ram, tx.strob)
  BY DEF ClkEdge
<1>2. /\ r \in ReadRegs /\ w.index \in 0 .. 1 /\ rst \in BOOLEAN /\ tx.strob \in BOOLEAN
      /\ r.index \in 0 .. 1 /\ r.addr \in 0 .. N - 1 /\ r.ready \in BOOLEAN
      /\ r.data \in Sample /\ ram \in [0 .. 2 * N - 1 -> Sample]
  BY DEF StreamTyped, ReadRegs, WriteRegs, TxRegs
<1>3. N \in Nat \ {0} /\ ram[N * r.index + r.addr] \in Sample
  BY <1>2, Cells, StreamConstants
<1>4. CASE rst
  <2>1. r' = [r EXCEPT !.index = 1, !.addr = 0]
    BY <1>1, <1>4 DEF ReadStep
  <2>2. r' \in ReadRegs
    <3>1. 0 \in 0 .. N - 1 /\ 1 \in 0 .. 1 /\ r \in ReadRegs
      BY <1>2, <1>3
    <3>2. QED
      BY <2>1, <3>1 DEF ReadRegs
  <2>3. r'.index = 1 /\ r'.addr = 0 /\ r'.ready = r.ready /\ r'.data = r.data
    BY <1>2, <2>1 DEF ReadRegs
  <2>4. QED
    BY <1>4, <2>2, <2>3
<1>5. CASE ~ rst /\ ~ Swapped
  <2>1. r' = [r EXCEPT !.index = 1 - w.index, !.addr = 0, !.ready = TRUE]
    BY <1>1, <1>5 DEF ReadStep, Swap, Swapped
  <2>2. 1 - w.index \in 0 .. 1 /\ 0 \in 0 .. N - 1
    BY <1>2, <1>3
  <2>3. r' \in ReadRegs
    BY <1>2, <2>1, <2>2 DEF ReadRegs
  <2>4. r'.index = 1 - w.index /\ r'.addr = 0 /\ r'.ready = TRUE /\ r'.data = r.data
    BY <1>2, <2>1 DEF ReadRegs
  <2>5. QED
    BY <1>5, <2>3, <2>4
<1>6. CASE ~ rst /\ Swapped
  <2> DEFINE cell == ram[N * r.index + r.addr]
             x == [r EXCEPT !.data = cell]
  <2>1. r' = IF ~ tx.strob THEN x
             ELSE IF r.addr = N - 1 THEN [x EXCEPT !.ready = FALSE, !.addr = 0]
             ELSE [x EXCEPT !.addr = r.addr + 1]
    BY <1>1, <1>6 DEF ReadStep, Swap, Swapped, Cell
  <2>2. cell \in Sample
    BY <1>3
  <2> HIDE DEF cell
  <2>3. /\ x \in ReadRegs /\ x.index = r.index /\ x.addr = r.addr /\ x.ready = r.ready
        /\ x.data = cell
    BY <1>2, <2>2 DEF ReadRegs
  <2> HIDE DEF x
  <2>4. CASE ~ tx.strob
    BY <1>6, <2>1, <2>3, <2>4 DEF cell
  <2>5. CASE tx.strob /\ r.addr = N - 1
    <3>1. r' = [x EXCEPT !.ready = FALSE, !.addr = 0]
      BY <2>1, <2>5
    <3>2. r'.index = x.index /\ r'.addr = 0 /\ r'.ready = FALSE /\ r'.data = x.data
      BY <2>3, <3>1 DEF ReadRegs
    <3>3. 0 \in 0 .. N - 1
      BY <1>3
    <3>4. r' \in ReadRegs
      BY <2>3, <3>1, <3>3 DEF ReadRegs
    <3>5. QED
      BY <1>6, <2>3, <2>5, <3>2, <3>4 DEF cell
  <2>6. CASE tx.strob /\ r.addr # N - 1
    <3>1. r' = [x EXCEPT !.addr = r.addr + 1]
      BY <2>1, <2>6
    <3>2. r'.index = x.index /\ r'.addr = r.addr + 1 /\ r'.ready = x.ready /\ r'.data = x.data
      BY <2>3, <3>1 DEF ReadRegs
    <3>3. r.addr + 1 \in 0 .. N - 1
      BY <1>2, <1>3, <2>6
    <3>4. r' \in ReadRegs
      BY <2>3, <3>1, <3>3 DEF ReadRegs
    <3>5. QED
      BY <1>6, <2>3, <2>6, <3>2, <3>4 DEF cell
  <2>7. QED
    BY <2>4, <2>5, <2>6
<1>7. QED
  BY <1>2, <1>4, <1>5, <1>6

\* The write port, the counters and what the edge leaves alone.
LEMMA Clocks ==
    ASSUME StreamTyped, ClkEdge
    PROVE  /\ ram1' \in [addr : Addr, wdt : Word, wstrobe : BOOLEAN]
           /\ ram1'.addr = tx.addr /\ ram1'.wdt = tx.wdt /\ ram1'.wstrobe = tx.wstrobe
           /\ memory' \in [Addr -> Word]
           /\ \A a \in Addr : memory'[a] = IF ram1.wstrobe /\ ram1.addr = a THEN ram1.wdt
                                           ELSE memory[a]
           /\ w' = w /\ ram' = ram /\ n' = n /\ request' = request /\ rst' = rst
           /\ quiet < PACE /\ quiet' = quiet + 1 /\ quiet' \in 0 .. PACE
           /\ calm' = IF calm < SPACING THEN calm + 1 ELSE calm
           /\ calm' \in 0 .. SPACING
           /\ pulse' = IF pulse > 0 THEN pulse - 1 ELSE 0
           /\ pulse' \in 0 .. 2 /\ fresh' = FALSE
           /\ pressed' \in [times : Nat, clk : BOOLEAN, signal : BOOLEAN]
           /\ pressed'.clk = rst /\ pressed'.signal = pressed.signal
<1>1. tx.addr \in Addr /\ tx.wdt \in Word /\ tx.wstrobe \in BOOLEAN
  BY DEF StreamTyped, TxRegs
<1>2. ram1' = [addr |-> tx.addr, wdt |-> tx.wdt, wstrobe |-> tx.wstrobe]
  BY DEF ClkEdge, WritePort
<1>3. ram1.addr \in Addr /\ ram1.wdt \in Word /\ memory \in [Addr -> Word]
  BY DEF StreamTyped
<1>4. memory' = IF ram1.wstrobe THEN [memory EXCEPT ![ram1.addr] = ram1.wdt] ELSE memory
  BY DEF ClkEdge, WritePort
<1>5. /\ memory' \in [Addr -> Word]
      /\ \A a \in Addr : memory'[a] = IF ram1.wstrobe /\ ram1.addr = a THEN ram1.wdt
                                      ELSE memory[a]
  BY <1>3, <1>4
<1>6. pressed' = [pressed EXCEPT !.clk = rst] /\ rst \in BOOLEAN
      /\ pressed \in [times : Nat, clk : BOOLEAN, signal : BOOLEAN]
  BY DEF ClkEdge, StreamTyped
<1>7. /\ w' = w /\ ram' = ram /\ n' = n /\ request' = request /\ rst' = rst
      /\ quiet < PACE /\ quiet' = quiet + 1 /\ fresh' = FALSE
      /\ calm' = IF calm < SPACING THEN calm + 1 ELSE calm
      /\ pulse' = IF pulse > 0 THEN pulse - 1 ELSE 0
  BY DEF ClkEdge, bufferVars
<1>8. quiet \in 0 .. PACE /\ calm \in 0 .. SPACING /\ pulse \in 0 .. 2
      /\ PACE \in Nat /\ SPACING \in Nat
  BY StreamConstants DEF StreamTyped
<1>9. quiet' \in 0 .. PACE /\ calm' \in 0 .. SPACING /\ pulse' \in 0 .. 2
  BY <1>7, <1>8
<1>10. /\ pressed' \in [times : Nat, clk : BOOLEAN, signal : BOOLEAN]
       /\ pressed'.clk = rst /\ pressed'.signal = pressed.signal
  BY <1>6
<1>11. /\ ram1' \in [addr : Addr, wdt : Word, wstrobe : BOOLEAN]
       /\ ram1'.addr = tx.addr /\ ram1'.wdt = tx.wdt /\ ram1'.wstrobe = tx.wstrobe
  BY <1>1, <1>2
<1>12. QED
  BY <1>5, <1>7, <1>9, <1>10, <1>11

\* eth_tx_proc.
LEMMA TxSteps ==
    ASSUME StreamTyped, Counted, ClkEdge
    PROVE  LET q == pulse > 0
           IN
           /\ rst =>
                Regs(tx', "TX_IDLE", tx.counter, tx.udp_counter, FALSE, tx.frame, tx.strob,
                     FALSE, 0, 0, NoWord, FALSE)
           /\ ~ rst /\ tx.state = "TX_IDLE" =>
                Regs(tx', IF tx.reply_ready THEN "PREPARE_REPLY_DATA"
                          ELSE IF r.ready THEN "PREPARE_ADC_DATA" ELSE "TX_IDLE",
                     0, tx.udp_counter, ~ tx.reply_ready /\ q, tx.frame, tx.strob, FALSE, 0, 0,
                     NoWord, FALSE)
           /\ ~ rst /\ tx.state = "PREPARE_ADC_DATA" =>
                Regs(tx', "WRITE_ADC_HEADER", tx.counter, tx.udp_counter, tx.reply_ready \/ q,
                     tx.frame, tx.strob, tx.pf_enq, tx.len, tx.addr, tx.wdt, tx.wstrobe)
           /\ ~ rst /\ tx.state = "WRITE_ADC_HEADER" /\ tx.counter < 10 =>
                Regs(tx', "WRITE_ADC_HEADER", tx.counter + 1, tx.udp_counter,
                     tx.reply_ready \/ q, tx.frame, tx.strob \/ tx.counter = 9, tx.pf_enq,
                     tx.len, tx.counter, HeaderWord(tx.counter, tx.udp_counter), TRUE)
           /\ ~ rst /\ tx.state = "WRITE_ADC_HEADER" /\ tx.counter = 10 =>
                Regs(tx', "WRITE_ADC_DATA", tx.counter + 1, (tx.udp_counter + 1) % UDP_MOD,
                     tx.reply_ready \/ q, tx.frame, tx.strob, tx.pf_enq, tx.len, tx.counter,
                     HeaderWord(tx.counter, tx.udp_counter), TRUE)
           /\ ~ rst /\ tx.state = "WRITE_ADC_DATA" =>
                Regs(tx', IF r.ready THEN "WRITE_ADC_DATA" ELSE "ENQUE_DATA", tx.counter + 1,
                     tx.udp_counter, tx.reply_ready \/ q, tx.frame, r.ready /\ tx.strob,
                     tx.pf_enq, tx.len, tx.counter, SampleWord(tx.counter, r.data), TRUE)
           /\ ~ rst /\ tx.state = "PREPARE_REPLY_DATA" =>
                Regs(tx', "WRITE_REPLY_DATA", tx.counter, tx.udp_counter, tx.reply_ready \/ q,
                     ReplyTo(request), tx.strob, tx.pf_enq, tx.len, tx.addr, tx.wdt,
                     tx.wstrobe)
           /\ ~ rst /\ tx.state = "WRITE_REPLY_DATA" =>
                Regs(tx', IF tx.counter < LastReplyWord(tx.frame.type) THEN "WRITE_REPLY_DATA"
                          ELSE "ENQUE_DATA", tx.counter + 1, tx.udp_counter,
                     tx.reply_ready \/ q, tx.frame, tx.strob, tx.pf_enq, tx.len, tx.counter,
                     ReplyWord(tx.counter, tx.frame), TRUE)
           /\ ~ rst /\ tx.state = "ENQUE_DATA" =>
                Regs(tx', "TX_IDLE", 0, tx.udp_counter, tx.reply_ready \/ q, tx.frame, tx.strob,
                     TRUE, tx.counter, tx.addr, tx.wdt, FALSE)
<1> DEFINE q == pulse > 0
<1>1. tx' = TxStep(tx, rst, q, request, r.ready, r.data)
  BY DEF ClkEdge
<1>2. tx \in TxRegs /\ rst \in BOOLEAN /\ r.ready \in BOOLEAN /\ r.data \in Sample
      /\ ReplyTo(request) \in Reply /\ q \in BOOLEAN /\ tx.counter \in Nat
  BY RepliesTyped DEF StreamTyped, ReadRegs, TxRegs
<1>3. tx.state \in {"WRITE_ADC_HEADER", "WRITE_ADC_DATA", "WRITE_REPLY_DATA"}
        => tx.counter \in Addr
  BY <1>2, StreamConstants DEF Counted, Addr, LastReplyWord
<1> HIDE DEF q
<1>4. rst =>
       Regs(tx', "TX_IDLE", tx.counter, tx.udp_counter, FALSE, tx.frame, tx.strob,
            FALSE, 0, 0, NoWord, FALSE)
  <2>1. rst => rst = TRUE
    BY <1>2
  <2>2. rst => tx' = TxStep(tx, TRUE, q, request, r.ready, r.data)
    BY <1>1, <2>1, Zenon
  <2>3. QED
    BY <1>2, <2>2, TxStepReset
<1>5. ~ rst => tx' = TxStep(tx, FALSE, q, request, r.ready, r.data)
  <2>1. ~ rst => rst = FALSE
    BY <1>2
  <2>2. QED
    BY <1>1, <2>1, Zenon
<1>6. ~ rst /\ tx.state = "TX_IDLE" =>
       Regs(tx', IF tx.reply_ready THEN "PREPARE_REPLY_DATA"
                 ELSE IF r.ready THEN "PREPARE_ADC_DATA" ELSE "TX_IDLE",
            0, tx.udp_counter, ~ tx.reply_ready /\ q, tx.frame, tx.strob, FALSE, 0, 0,
            NoWord, FALSE)
  BY <1>2, <1>5, TxStepIdle
<1>7. ~ rst /\ tx.state = "PREPARE_ADC_DATA" =>
       Regs(tx', "WRITE_ADC_HEADER", tx.counter, tx.udp_counter, tx.reply_ready \/ q,
            tx.frame, tx.strob, tx.pf_enq, tx.len, tx.addr, tx.wdt, tx.wstrobe)
  BY <1>2, <1>5, TxStepPrepareAdc
<1>8. ~ rst /\ tx.state = "WRITE_ADC_DATA" =>
       Regs(tx', IF r.ready THEN "WRITE_ADC_DATA" ELSE "ENQUE_DATA", tx.counter + 1,
            tx.udp_counter, tx.reply_ready \/ q, tx.frame, r.ready /\ tx.strob,
            tx.pf_enq, tx.len, tx.counter, SampleWord(tx.counter, r.data), TRUE)
  BY <1>2, <1>3, <1>5, TxStepData
<1>9. ~ rst /\ tx.state = "PREPARE_REPLY_DATA" =>
       Regs(tx', "WRITE_REPLY_DATA", tx.counter, tx.udp_counter, tx.reply_ready \/ q,
            ReplyTo(request), tx.strob, tx.pf_enq, tx.len, tx.addr, tx.wdt,
            tx.wstrobe)
  BY <1>2, <1>5, TxStepPrepareReply
<1>10. ~ rst /\ tx.state = "WRITE_REPLY_DATA" =>
       Regs(tx', IF tx.counter < LastReplyWord(tx.frame.type) THEN "WRITE_REPLY_DATA"
                 ELSE "ENQUE_DATA", tx.counter + 1, tx.udp_counter,
            tx.reply_ready \/ q, tx.frame, tx.strob, tx.pf_enq, tx.len, tx.counter,
            ReplyWord(tx.counter, tx.frame), TRUE)
  BY <1>2, <1>3, <1>5, TxStepReply
<1>11. ~ rst /\ tx.state = "ENQUE_DATA" =>
       Regs(tx', "TX_IDLE", 0, tx.udp_counter, tx.reply_ready \/ q, tx.frame, tx.strob,
            TRUE, tx.counter, tx.addr, tx.wdt, FALSE)
  BY <1>2, <1>5, TxStepEnque
<1>12. ~ rst /\ tx.state = "WRITE_ADC_HEADER" /\ tx.counter < 10 =>
       Regs(tx', "WRITE_ADC_HEADER", tx.counter + 1, tx.udp_counter,
            tx.reply_ready \/ q, tx.frame, tx.strob \/ tx.counter = 9, tx.pf_enq,
            tx.len, tx.counter, HeaderWord(tx.counter, tx.udp_counter), TRUE)
  BY <1>2, <1>3, <1>5, TxStepHeader
<1>13. ~ rst /\ tx.state = "WRITE_ADC_HEADER" /\ tx.counter = 10 =>
       Regs(tx', "WRITE_ADC_DATA", tx.counter + 1, (tx.udp_counter + 1) % UDP_MOD,
            tx.reply_ready \/ q, tx.frame, tx.strob, tx.pf_enq, tx.len, tx.counter,
            HeaderWord(tx.counter, tx.udp_counter), TRUE)
  <2>1. tx.counter = 10 => ~ tx.counter < 10
    OBVIOUS
  <2>2. ~ rst /\ tx.state = "WRITE_ADC_HEADER" /\ ~ tx.counter < 10 =>
          Regs(tx', "WRITE_ADC_DATA", tx.counter + 1, (tx.udp_counter + 1) % UDP_MOD,
               tx.reply_ready \/ q, tx.frame, tx.strob, tx.pf_enq, tx.len, tx.counter,
               HeaderWord(tx.counter, tx.udp_counter), TRUE)
    BY <1>2, <1>3, <1>5, TxStepHeader, Zenon
  <2>3. QED
    BY <2>1, <2>2, Zenon
<1>14. QED
  BY <1>4, <1>6, <1>7, <1>8, <1>9, <1>10, <1>11, <1>12, <1>13 DEF q

----------------------------------------------------------------------------
(* The machine keeps its pace                                               *)

LEMMA TxTyped ==
    ASSUME StreamTyped, Counted, ClkEdge
    PROVE  tx' \in TxRegs
<1>1. tx.state \in TxStates /\ rst \in BOOLEAN /\ tx.counter \in Nat
  BY DEF StreamTyped, TxRegs
<1>2. tx.state = "WRITE_ADC_HEADER" => tx.counter < 10 \/ tx.counter = 10
  BY <1>1 DEF Counted
<1>3. QED
  BY <1>1, <1>2, TxSteps DEF Regs, TxStates

(* What the registers hold after an edge without reset.                     *)
LEMMA PipedKept ==
    ASSUME StreamTyped, Piped, Counted, ClkEdge, ~ rst
    PROVE  Piped'
<1>1. /\ tx.state \in TxStates /\ tx.counter \in Nat /\ tx.pf_enq \in BOOLEAN
      /\ tx.wstrobe \in BOOLEAN /\ tx.len \in Nat
  BY DEF StreamTyped, TxRegs
<1>2. ram1'.addr = tx.addr /\ ram1'.wstrobe = tx.wstrobe
  BY Clocks
<1>3. CASE tx.state = "TX_IDLE"
  BY <1>1, <1>2, <1>3, TxSteps DEF Regs, Piped, Writing
<1>4. CASE tx.state = "PREPARE_ADC_DATA"
  BY <1>1, <1>2, <1>4, TxSteps DEF Regs, Piped, Writing
<1>5. CASE tx.state = "WRITE_ADC_HEADER"
  <2>1. tx.counter < 10 \/ tx.counter = 10
    BY <1>1, <1>5 DEF Counted
  <2>2. /\ tx'.state \in {"WRITE_ADC_HEADER", "WRITE_ADC_DATA"}
        /\ tx'.counter = tx.counter + 1 /\ tx'.addr = tx.counter /\ tx'.wstrobe = TRUE
        /\ tx'.pf_enq = tx.pf_enq
    BY <1>5, <2>1, TxSteps DEF Regs
  <2>3. QED
    BY <1>1, <1>2, <1>5, <2>2 DEF Piped, Writing
<1>6. CASE tx.state = "WRITE_ADC_DATA"
  <2>1. /\ tx'.state \in {"ENQUE_DATA", "WRITE_ADC_DATA"}
        /\ tx'.counter = tx.counter + 1 /\ tx'.addr = tx.counter /\ tx'.wstrobe = TRUE
        /\ tx'.pf_enq = tx.pf_enq
    BY <1>6, TxSteps DEF Regs
  <2>2. QED
    BY <1>1, <1>2, <1>6, <2>1 DEF Piped, Writing
<1>7. CASE tx.state = "PREPARE_REPLY_DATA"
  BY <1>1, <1>2, <1>7, TxSteps DEF Regs, Piped, Writing
<1>8. CASE tx.state = "WRITE_REPLY_DATA"
  <2>1. /\ tx'.state \in {"ENQUE_DATA", "WRITE_REPLY_DATA"}
        /\ tx'.counter = tx.counter + 1 /\ tx'.addr = tx.counter /\ tx'.wstrobe = TRUE
        /\ tx'.pf_enq = tx.pf_enq
    BY <1>8, TxSteps DEF Regs
  <2>2. QED
    BY <1>1, <1>2, <1>8, <2>1 DEF Piped, Writing
<1>9. CASE tx.state = "ENQUE_DATA"
  <2>1. tx.counter >= 1
    BY <1>1, <1>9 DEF Counted, AdcEnded, ReplyEnded, Ended, Words, Piped, LastReplyWord
  <2>2. /\ tx'.state = "TX_IDLE" /\ tx'.pf_enq = TRUE /\ tx'.len = tx.counter
        /\ tx'.addr = tx.addr /\ tx'.wstrobe = FALSE
    BY <1>9, TxSteps DEF Regs
  <2>3. QED
    BY <1>1, <1>2, <1>9, <2>1, <2>2 DEF Piped, Writing
<1>10. QED
  BY <1>1, <1>3, <1>4, <1>5, <1>6, <1>7, <1>8, <1>9 DEF TxStates

(* What is ended after an edge: the frame whose last word has just been     *)
(* written, or the one that has just been enqueued.                         *)
LEMMA EndsAfter ==
    ASSUME StreamTyped, Piped, Counted, ClkEdge
    PROVE  /\ rst => ~ Ended' /\ tx'.state = "TX_IDLE" /\ ~ tx'.pf_enq
           /\ ~ rst =>
              /\ tx.state \in {"TX_IDLE", "PREPARE_ADC_DATA", "PREPARE_REPLY_DATA",
                               "WRITE_ADC_HEADER"} => ~ Ended'
              /\ tx.state = "WRITE_ADC_DATA" =>
                   IF r.ready THEN ~ Ended' ELSE AdcEnded' /\ ~ ReplyEnded'
              /\ tx.state = "WRITE_REPLY_DATA" =>
                   IF tx.counter < LastReplyWord(tx.frame.type) THEN ~ Ended'
                   ELSE ReplyEnded' /\ ~ AdcEnded' /\ LastWord'[1] = tx.frame.type
              /\ tx.state = "ENQUE_DATA" =>
                   /\ Ended' /\ LastWord' = LastWord /\ Words' = Words
                   /\ AdcEnded' <=> AdcEnded
                   /\ ReplyEnded' <=> ReplyEnded
<1>1. /\ tx.state \in TxStates /\ tx.counter \in Nat /\ tx.pf_enq \in BOOLEAN
      /\ tx.frame \in Reply /\ rst \in BOOLEAN /\ r.ready \in BOOLEAN
      /\ r.data \in Nat
      /\ tx.pf_enq => tx.state = "TX_IDLE"
  BY StreamConstants DEF StreamTyped, TxRegs, ReadRegs, Piped
<1>2. rst => ~ Ended' /\ tx'.state = "TX_IDLE" /\ ~ tx'.pf_enq
  BY TxSteps DEF Regs, Ended
<1>3. ~ rst /\ tx.state \in {"TX_IDLE", "PREPARE_ADC_DATA", "PREPARE_REPLY_DATA"} => ~ Ended'
  BY <1>1, TxSteps DEF Regs, Ended
<1>4. ~ rst /\ tx.state = "WRITE_ADC_HEADER" => ~ Ended'
  <2>1. tx.state = "WRITE_ADC_HEADER" => tx.counter < 10 \/ tx.counter = 10
    BY <1>1 DEF Counted
  <2>2. QED
    BY <1>1, <2>1, TxSteps DEF Regs, Ended
<1>5. ASSUME ~ rst, tx.state = "WRITE_ADC_DATA"
      PROVE  IF r.ready THEN ~ Ended' ELSE AdcEnded' /\ ~ ReplyEnded'
  <2>1. /\ tx'.state = IF r.ready THEN "WRITE_ADC_DATA" ELSE "ENQUE_DATA"
        /\ ~ tx'.pf_enq /\ tx'.wdt = SampleWord(tx.counter, r.data)
    BY <1>1, <1>5, TxSteps DEF Regs
  <2>2. SampleWord(tx.counter, r.data)[1] = "sample"
    BY <1>1, WordsOK
  <2>3. QED
    BY <1>1, <2>1, <2>2 DEF Ended, AdcEnded, ReplyEnded, LastWord
<1>6. ASSUME ~ rst, tx.state = "WRITE_REPLY_DATA"
      PROVE  IF tx.counter < LastReplyWord(tx.frame.type) THEN ~ Ended'
             ELSE ReplyEnded' /\ ~ AdcEnded' /\ LastWord'[1] = tx.frame.type
  <2>1. /\ tx'.state = IF tx.counter < LastReplyWord(tx.frame.type) THEN "WRITE_REPLY_DATA"
                       ELSE "ENQUE_DATA"
        /\ ~ tx'.pf_enq /\ tx'.wdt = ReplyWord(tx.counter, tx.frame)
    BY <1>1, <1>6, TxSteps DEF Regs
  <2>2. ReplyWord(tx.counter, tx.frame)[1] = tx.frame.type
    BY <1>1, WordsOK
  <2>3. tx.frame.type # "sample"
    BY <1>6 DEF Counted, PastRequest
  <2>4. QED
    BY <2>1, <2>2, <2>3 DEF Ended, AdcEnded, ReplyEnded, LastWord
<1>7. ASSUME ~ rst, tx.state = "ENQUE_DATA"
      PROVE  /\ Ended' /\ LastWord' = LastWord /\ Words' = Words
             /\ AdcEnded' <=> AdcEnded
             /\ ReplyEnded' <=> ReplyEnded
  <2>1. tx'.pf_enq = TRUE /\ tx'.len = tx.counter
    BY <1>7, TxSteps DEF Regs
  <2>2. ram1'.wdt = tx.wdt
    BY Clocks
  <2>3. LastWord' = LastWord /\ Words' = Words
    BY <1>1, <1>7, <2>1, <2>2 DEF LastWord, Words
  <2>4. QED
    BY <1>7, <2>1, <2>3 DEF Ended, AdcEnded, ReplyEnded
<1>8. QED
  BY <1>1, <1>2, <1>3, <1>4, <1>5, <1>6, <1>7

LEMMA CountedKept ==
    ASSUME StreamTyped, Piped, Counted, Timely, Answered, ClkEdge, ~ rst
    PROVE  Counted'
<1>1. /\ tx.state \in TxStates /\ tx.counter \in Nat /\ tx.pf_enq \in BOOLEAN
      /\ tx.strob \in BOOLEAN /\ tx.len \in Nat
      /\ tx.frame.type \in Kinds /\ N \in Nat \ {0}
      /\ r.ready \in BOOLEAN /\ r.addr \in 0 .. N - 1
      /\ r'.ready \in BOOLEAN /\ r'.addr \in 0 .. N - 1
  BY Reads, StreamConstants DEF StreamTyped, TxRegs, ReadRegs, Reply
<1>2. tx.pf_enq => tx.state = "TX_IDLE"
  BY DEF Piped
<1>3. CASE tx.state \in {"TX_IDLE", "PREPARE_ADC_DATA", "PREPARE_REPLY_DATA"}
  <2>1. ~ Ended'
    BY <1>3, EndsAfter
  <2>2. CASE tx.state = "TX_IDLE"
    <3>1. tx'.state \in {"PREPARE_REPLY_DATA", "PREPARE_ADC_DATA", "TX_IDLE"}
      BY <2>2, TxSteps DEF Regs
    <3>2. QED
      BY <2>1, <3>1 DEF Counted, PastRequest, AdcEnded, ReplyEnded
  <2>3. CASE tx.state = "PREPARE_ADC_DATA"
    <3>1. tx'.state = "WRITE_ADC_HEADER" /\ tx'.counter = 0
      BY <2>3, TxSteps DEF Regs, Piped
    <3>2. QED
      BY <2>1, <3>1 DEF Counted, PastRequest, AdcEnded, ReplyEnded
  <2>4. CASE tx.state = "PREPARE_REPLY_DATA"
    <3>1. tx'.state = "WRITE_REPLY_DATA" /\ tx'.counter = 0 /\ tx'.frame = ReplyTo(request)
      BY <2>4, TxSteps DEF Regs, Piped
    <3>2. ReplyTo(request).type \in {"ARP", "ICMP_ECHO"}
      BY <2>4 DEF Answered, StreamTyped, Kinds, ReplyTo
    <3>3. QED
      BY <2>1, <3>1, <3>2 DEF Counted, PastRequest, AdcEnded, ReplyEnded, LastReplyWord
  <2>5. QED
    BY <1>3, <2>2, <2>3, <2>4
<1>4. CASE tx.state = "WRITE_ADC_HEADER"
  <2>1. ~ Ended'
    BY <1>4, EndsAfter
  <2>2. tx.counter < 10 \/ tx.counter = 10
    BY <1>1, <1>4 DEF Counted
  <2>3. CASE tx.counter < 10
    <3>1. /\ tx'.state = "WRITE_ADC_HEADER" /\ tx'.counter = tx.counter + 1
          /\ tx.counter = 9 => tx'.strob
      BY <1>4, <2>3, TxSteps DEF Regs
    <3>2. tx'.counter = 10 => tx'.strob
      BY <1>1, <3>1
    <3>3. QED
      BY <1>1, <2>1, <2>3, <3>1, <3>2 DEF Counted, PastRequest, AdcEnded, ReplyEnded
  <2>4. CASE tx.counter = 10
    <3>1. tx'.state = "WRITE_ADC_DATA" /\ tx'.counter = 11 /\ tx'.strob = tx.strob
      BY <1>1, <1>4, <2>4, TxSteps DEF Regs
    <3>2. tx.strob /\ Swapped
      BY <1>4, <2>4 DEF Counted, Timely, BuildsAdc
    <3>3. r'.ready => r'.addr >= 1
      <4>1. \/ r'.ready = FALSE
            \/ r'.addr = r.addr + 1
        BY <3>2, Reads
      <4>2. QED
        BY <1>1, <4>1
    <3>4. QED
      BY <1>1, <2>1, <3>1, <3>2, <3>3 DEF Counted, PastRequest, AdcEnded, ReplyEnded
  <2>5. QED
    BY <2>2, <2>3, <2>4
<1>5. CASE tx.state = "WRITE_ADC_DATA"
  <2>1. /\ tx'.state = IF r.ready THEN "WRITE_ADC_DATA" ELSE "ENQUE_DATA"
        /\ tx'.counter = tx.counter + 1 /\ ~ tx'.pf_enq
        /\ tx'.strob <=> r.ready /\ tx.strob
    BY <1>1, <1>2, <1>5, TxSteps DEF Regs
  <2>2. /\ Swapped /\ tx.strob /\ tx.counter \in 11 .. N + 10
        /\ r.ready => r.addr >= tx.counter - 10
    BY <1>5 DEF Counted, Timely, BuildsAdc, PastHeader
  <2>3. CASE r.ready
    <3>1. r'.ready => r'.addr >= tx.counter + 1 - 10
      BY <1>1, <2>2, <2>3, Reads
    <3>2. tx.counter + 1 \in 11 .. N + 10
      BY <1>1, <2>2, <2>3
    <3>3. ~ Ended'
      BY <1>5, <2>3, EndsAfter
    <3>4. QED
      BY <2>1, <2>2, <2>3, <3>1, <3>2, <3>3 DEF Counted, PastRequest, AdcEnded, ReplyEnded
  <2>4. CASE ~ r.ready
    <3>1. ~ ReplyEnded'
      BY <1>5, <2>4, EndsAfter
    <3>2. ~ r'.ready
      BY <1>1, <2>2, <2>4, Reads
    <3>3. Words' \in 12 .. N + 11
      BY <1>1, <2>1, <2>2 DEF Words
    <3>4. QED
      BY <2>1, <2>4, <3>1, <3>2, <3>3 DEF Counted, PastRequest
  <2>5. QED
    BY <2>3, <2>4
<1>6. CASE tx.state = "WRITE_REPLY_DATA"
  <2>1. /\ tx'.state = IF tx.counter < LastReplyWord(tx.frame.type) THEN "WRITE_REPLY_DATA"
                       ELSE "ENQUE_DATA"
        /\ tx'.counter = tx.counter + 1 /\ tx'.frame = tx.frame /\ ~ tx'.pf_enq
    BY <1>2, <1>6, TxSteps DEF Regs
  <2>2. /\ tx.frame.type \in {"ARP", "ICMP_ECHO"}
        /\ tx.counter <= LastReplyWord(tx.frame.type)
        /\ LastReplyWord(tx.frame.type) \in Nat
    BY <1>6 DEF Counted, PastRequest, LastReplyWord
  <2>3. CASE tx.counter < LastReplyWord(tx.frame.type)
    <3>1. ~ Ended'
      BY <1>6, <2>3, EndsAfter
    <3>2. tx.counter + 1 <= LastReplyWord(tx.frame.type)
      BY <1>1, <2>2, <2>3
    <3>3. QED
      BY <2>1, <2>2, <2>3, <3>1, <3>2 DEF Counted, PastRequest, AdcEnded, ReplyEnded
  <2>4. CASE ~ tx.counter < LastReplyWord(tx.frame.type)
    <3>1. ~ AdcEnded' /\ LastWord'[1] = tx.frame.type
      BY <1>6, <2>4, EndsAfter
    <3>2. Words' = LastReplyWord(tx.frame.type) + 1
      BY <1>1, <2>1, <2>2, <2>4 DEF Words
    <3>3. QED
      BY <2>1, <2>2, <2>4, <3>1, <3>2 DEF Counted, PastRequest
  <2>5. QED
    BY <2>3, <2>4
<1>7. CASE tx.state = "ENQUE_DATA"
  <2>1. /\ tx'.state = "TX_IDLE" /\ tx'.frame = tx.frame /\ tx'.strob = tx.strob
    BY <1>7, TxSteps DEF Regs
  <2>2. /\ LastWord' = LastWord /\ Words' = Words
        /\ AdcEnded' <=> AdcEnded
        /\ ReplyEnded' <=> ReplyEnded
    BY <1>7, EndsAfter
  <2>3. ASSUME AdcEnded PROVE Words' \in 12 .. N + 11 /\ ~ r'.ready /\ ~ tx'.strob
    <3>1. Words \in 12 .. N + 11 /\ ~ r.ready /\ ~ tx.strob /\ Swapped
      BY <2>3 DEF Counted, Timely, BuildsAdc, PastHeader
    <3>2. ~ r'.ready
      BY <1>1, <3>1, Reads
    <3>3. QED
      BY <2>1, <2>2, <3>1, <3>2
  <2>4. ASSUME ReplyEnded
        PROVE  /\ tx'.frame.type \in {"ARP", "ICMP_ECHO"}
               /\ Words' = LastReplyWord(tx'.frame.type) + 1
               /\ LastWord'[1] = tx'.frame.type
    BY <2>1, <2>2, <2>4 DEF Counted, PastRequest
  <2>5. QED
    BY <2>1, <2>2, <2>3, <2>4 DEF Counted, PastRequest
<1>8. QED
  BY <1>1, <1>3, <1>4, <1>5, <1>6, <1>7 DEF TxStates

LEMMA SinceTyped ==
    ASSUME StreamTyped
    PROVE  Since \in Nat /\ PACE * w.addr \in Nat
<1>1. w.addr \in Nat /\ quiet \in Nat /\ PACE \in Nat
  BY StreamConstants DEF StreamTyped, WriteRegs
<1>2. PACE * w.addr \in Nat
  BY <1>1
<1>3. QED
  BY <1>1, <1>2 DEF Since

LEMMA TimelyKept ==
    ASSUME StreamTyped, Piped, Counted, Timely, Answered, ClkEdge, ~ rst
    PROVE  Timely'
<1>1. /\ tx.state \in TxStates /\ tx.counter \in Nat /\ tx.pf_enq \in BOOLEAN
      /\ tx.len \in Nat /\ tx.reply_ready \in BOOLEAN /\ N \in Nat \ {0} /\ PACE \in Nat \ {0}
      /\ r.ready \in BOOLEAN /\ r'.ready \in BOOLEAN
      /\ r.index \in 0 .. 1 /\ r'.index \in 0 .. 1 /\ w.index \in 0 .. 1
  BY Reads, StreamConstants DEF StreamTyped, TxRegs, ReadRegs, WriteRegs
<1>2. tx.pf_enq => tx.state = "TX_IDLE"
  BY DEF Piped
<1>3. Since \in Nat /\ Since' = Since + 1
  <2>1. w' = w /\ quiet' = quiet + 1 /\ quiet \in Nat
    BY StreamConstants DEF ClkEdge, bufferVars, StreamTyped
  <2>2. PACE * w.addr \in Nat /\ PACE * w.addr + (quiet + 1) = PACE * w.addr + quiet + 1
    BY <2>1, SinceTyped
  <2>3. QED
    BY <2>1, <2>2, SinceTyped DEF Since
<1>4. Swapped'
  <2>1. w' = w
    BY DEF ClkEdge, bufferVars
  <2>2. r'.index = 1 - w.index
    BY <1>1, Reads DEF Swapped
  <2>3. QED
    BY <2>1, <2>2 DEF Swapped
<1>5. r'.ready => r.ready \/ Since = 0
  BY <1>1, Reads DEF Timely
<1>6. BuildsAdc => Swapped
  BY DEF Timely
<1>7. CASE tx.state = "TX_IDLE"
  <2>1. /\ tx'.state = (IF tx.reply_ready THEN "PREPARE_REPLY_DATA"
                        ELSE IF r.ready THEN "PREPARE_ADC_DATA" ELSE "TX_IDLE")
        /\ tx'.reply_ready \in BOOLEAN
    BY <1>7, TxSteps, TxTyped DEF Regs, TxRegs
  <2>2. ~ Ended'
    BY <1>7, EndsAfter
  <2>3. r.ready => Since <= PACE + (IF tx.reply_ready THEN 0 ELSE 22)
    BY <1>7 DEF Timely
  <2>4. CASE tx.reply_ready
    <3>1. tx'.state = "PREPARE_REPLY_DATA" /\ (r'.ready => Since' <= PACE + 1)
      BY <1>1, <1>3, <1>5, <2>1, <2>3, <2>4
    <3>2. QED
      BY <1>4, <2>2, <3>1 DEF Timely, AdcEnded, ReplyEnded
  <2>5. CASE ~ tx.reply_ready /\ r.ready
    <3>1. tx'.state = "PREPARE_ADC_DATA" /\ Since' <= PACE + 23
      BY <1>1, <1>3, <2>1, <2>3, <2>5
    <3>2. QED
      BY <1>4, <2>2, <3>1 DEF Timely, AdcEnded, ReplyEnded
  <2>6. CASE ~ tx.reply_ready /\ ~ r.ready
    <3>1. tx'.state = "TX_IDLE" /\ (r'.ready => Since' <= PACE)
      BY <1>1, <1>3, <1>5, <2>1, <2>6
    <3>2. r'.ready => Since' <= PACE + (IF tx'.reply_ready THEN 0 ELSE 22)
      BY <1>1, <1>3, <2>1, <3>1
    <3>3. QED
      BY <1>4, <2>2, <3>1, <3>2 DEF Timely, AdcEnded, ReplyEnded
  <2>7. QED
    BY <2>4, <2>5, <2>6
<1>8. CASE tx.state = "PREPARE_ADC_DATA"
  <2>1. tx'.state = "WRITE_ADC_HEADER" /\ tx'.counter = 0
    BY <1>8, TxSteps DEF Regs, Piped
  <2>2. ~ Ended'
    BY <1>8, EndsAfter
  <2>3. Since' <= PACE + 24 + tx'.counter
    BY <1>1, <1>3, <1>8, <2>1 DEF Timely
  <2>4. QED
    BY <1>4, <2>1, <2>2, <2>3 DEF Timely, AdcEnded, ReplyEnded
<1>9. CASE tx.state = "WRITE_ADC_HEADER"
  <2>1. tx.counter < 10 \/ tx.counter = 10
    BY <1>1, <1>9 DEF Counted
  <2>2. tx'.state \in {"WRITE_ADC_HEADER", "WRITE_ADC_DATA"} /\ tx'.counter = tx.counter + 1
    BY <1>9, <2>1, TxSteps DEF Regs
  <2>3. ~ Ended'
    BY <1>9, EndsAfter
  <2>4. Since' <= PACE + 24 + tx'.counter
    BY <1>1, <1>3, <1>9, <2>2 DEF Timely
  <2>5. QED
    BY <1>4, <2>2, <2>3, <2>4 DEF Timely, AdcEnded, ReplyEnded
<1>10. CASE tx.state = "WRITE_ADC_DATA"
  <2>1. /\ tx'.state = (IF r.ready THEN "WRITE_ADC_DATA" ELSE "ENQUE_DATA")
        /\ tx'.counter = tx.counter + 1 /\ ~ tx'.pf_enq
    BY <1>2, <1>10, TxSteps DEF Regs
  <2>2. Since' <= PACE + 24 + tx'.counter
    BY <1>1, <1>3, <1>10, <2>1 DEF Timely
  <2>3. CASE r.ready
    <3>1. ~ Ended'
      BY <1>10, <2>3, EndsAfter
    <3>2. QED
      BY <1>4, <2>1, <2>2, <2>3, <3>1 DEF Timely, AdcEnded, ReplyEnded
  <2>4. CASE ~ r.ready
    <3>1. ~ ReplyEnded'
      BY <1>10, <2>4, EndsAfter
    <3>2. Words' = tx'.counter /\ Late' = 0
      BY <2>1 DEF Words, Late
    <3>3. Since' <= PACE + 24 + Words' + Late'
      BY <1>1, <1>3, <2>1, <2>2, <3>2
    <3>4. QED
      BY <1>4, <2>1, <2>4, <3>1, <3>3 DEF Timely, BuildsReply, PastRequest
  <2>5. QED
    BY <2>3, <2>4
<1>11. CASE tx.state = "PREPARE_REPLY_DATA"
  <2>1. tx'.state = "WRITE_REPLY_DATA" /\ tx'.counter = 0
    BY <1>11, TxSteps DEF Regs, Piped
  <2>2. ~ Ended'
    BY <1>11, EndsAfter
  <2>3. r'.ready => Since' <= PACE + 2 + tx'.counter
    BY <1>1, <1>3, <1>5, <1>11, <2>1 DEF Timely
  <2>4. QED
    BY <1>4, <2>1, <2>2, <2>3 DEF Timely, AdcEnded, ReplyEnded
<1>12. CASE tx.state = "WRITE_REPLY_DATA"
  <2>1. /\ tx'.state \in {"WRITE_REPLY_DATA", "ENQUE_DATA"}
        /\ tx'.counter = tx.counter + 1 /\ ~ tx'.pf_enq
    BY <1>2, <1>12, TxSteps DEF Regs
  <2>2. r'.ready => Since' <= PACE + 2 + tx'.counter
    BY <1>1, <1>3, <1>5, <1>12, <2>1 DEF Timely, BuildsReply, PastRequest
  <2>3. ~ AdcEnded'
    <3>1. CASE tx.counter < LastReplyWord(tx.frame.type)
      BY <1>12, <3>1, EndsAfter DEF AdcEnded
    <3>2. CASE ~ tx.counter < LastReplyWord(tx.frame.type)
      BY <1>12, <3>2, EndsAfter
    <3>3. QED
      BY <3>1, <3>2
  <2>4. QED
    BY <1>4, <2>1, <2>2, <2>3 DEF Timely
<1>13. CASE tx.state = "ENQUE_DATA"
  <2>1. /\ tx'.state = "TX_IDLE" /\ tx'.pf_enq = TRUE
        /\ tx'.reply_ready = (tx.reply_ready \/ pulse > 0)
    BY <1>13, TxSteps DEF Regs
  <2>2. /\ Words' = Words
        /\ AdcEnded' <=> AdcEnded
    BY <1>13, EndsAfter
  <2>3. Words = tx.counter /\ Late = 0 /\ Late' = 1
    BY <1>2, <1>13, <2>1 DEF Words, Late
  <2>4. CASE AdcEnded
    <3>1. Since <= PACE + 24 + tx.counter + 0 /\ ~ r.ready /\ Swapped
      BY <1>6, <2>3, <2>4 DEF Timely, Counted, BuildsAdc, PastHeader
    <3>2. ~ r'.ready
      BY <1>1, <3>1, Reads
    <3>3. Since' <= PACE + 24 + Words' + Late'
      BY <1>1, <1>3, <2>2, <2>3, <3>1
    <3>4. QED
      BY <1>4, <2>1, <2>2, <3>2, <3>3 DEF Timely
  <2>5. CASE ~ AdcEnded
    <3>1. ReplyEnded
      BY <1>13, <2>5 DEF AdcEnded, ReplyEnded, Ended
    <3>2. ~ tx'.reply_ready
      BY <1>2, <1>13, <2>1, <3>1 DEF Answered, BuildsReply, PastRequest
    <3>3. tx.counter <= 19
      BY <1>13, <2>3, <3>1 DEF Counted, LastReplyWord
    <3>4. r.ready => Since <= PACE + 2 + tx.counter
      BY <1>13, <3>1 DEF Timely, BuildsReply, PastRequest
    <3>5. r'.ready => Since' <= PACE + 22
      BY <1>1, <1>3, <1>5, <3>3, <3>4
    <3>6. QED
      BY <1>1, <1>4, <2>1, <2>2, <2>5, <3>2, <3>5 DEF Timely
  <2>6. QED
    BY <2>4, <2>5
<1>14. QED
  BY <1>1, <1>7, <1>8, <1>9, <1>10, <1>11, <1>12, <1>13 DEF TxStates

LEMMA Single ==
    ASSUME NEW S, NEW x \in S
    PROVE  Tail(<<x>>) = << >> /\ << >> \o <<x>> = <<x>> /\ <<x>> # << >>
<1>1. <<x>> \in Seq(S) /\ Len(<<x>>) = 1
  OBVIOUS
<1>2. Tail(<<x>>) \in Seq(S) /\ Len(Tail(<<x>>)) = 0
  BY <1>1
<1>3. Tail(<<x>>) = << >>
  BY <1>2, EmptySeq
<1>4. << >> \o <<x>> = <<x>>
  BY <1>1, ConcatEmptySeq
<1>5. QED
  BY <1>3, <1>4

(* The requests seen and not yet answered.                                  *)
LEMMA AskedStep ==
    ASSUME StreamTyped, Piped, Answered, ClkEdge, ~ rst
    PROVE  IF pulse > 0 /\ fresh THEN asked' = <<ReplyTo(request)>>
           ELSE IF tx.state = "PREPARE_REPLY_DATA" THEN asked' = << >>
           ELSE asked' = asked
<1> DEFINE b == pulse > 0 /\ fresh
           left == IF tx.state = "PREPARE_REPLY_DATA" /\ asked # << >> THEN Tail(asked)
                   ELSE asked
<1>1. asked' = left \o (IF b THEN <<ReplyTo(request)>> ELSE << >>)
  BY DEF ClkEdge, Asked
<1>2. tx.state = "PREPARE_REPLY_DATA" => asked = <<ReplyTo(request)>> /\ ~ fresh
  BY DEF Answered, BuildsReply, Piped
<1>3. fresh => asked = << >>
  BY <1>2 DEF Answered
<1>4. asked = << >> \/ asked = <<ReplyTo(request)>>
  BY DEF Answered
<1>4a. ReplyTo(request) \in Reply
  BY RepliesTyped
<1>5. CASE b
  <2>1. left = << >>
    BY <1>2, <1>3, <1>5
  <2>2. asked' = << >> \o <<ReplyTo(request)>>
    BY <1>1, <1>5, <2>1
  <2>3. QED
    BY <1>5, <1>4a, <2>2, Single
<1>6. CASE ~ b /\ tx.state = "PREPARE_REPLY_DATA"
  <2>1. left = << >>
    BY <1>2, <1>6, <1>4a, Single
  <2>2. asked' = << >> \o << >>
    BY <1>1, <1>6, <2>1
  <2>3. QED
    BY <1>6, <2>2
<1>7. CASE ~ b /\ tx.state # "PREPARE_REPLY_DATA"
  <2>1. asked' = asked \o << >>
    BY <1>1, <1>7
  <2>2. QED
    BY <1>4, <1>7, <2>1
<1>8. QED
  BY <1>5, <1>6, <1>7

LEMMA AnsweredKept ==
    ASSUME StreamTyped, Piped, Counted, Timely, Answered, ClkEdge, ~ rst
    PROVE  Answered'
<1>1. /\ tx.state \in TxStates /\ tx.counter \in Nat /\ tx.pf_enq \in BOOLEAN
      /\ tx.len \in Nat /\ tx.reply_ready \in BOOLEAN /\ N \in Nat \ {0}
      /\ SPACING \in Nat \ {0} /\ SPACING >= N + 36 /\ calm \in 0 .. SPACING
      /\ pulse \in 0 .. 2 /\ fresh \in BOOLEAN
  BY BuildTiming, StreamConstants DEF StreamTyped, TxRegs
<1>2. /\ request' = request /\ fresh' = FALSE
      /\ calm' <= calm + 1 /\ calm' \in 0 .. SPACING
      /\ pulse' = IF pulse > 0 THEN pulse - 1 ELSE 0
  <2>1. calm' = IF calm < SPACING THEN calm + 1 ELSE calm
    BY DEF ClkEdge
  <2>2. calm' <= calm + 1 /\ calm' \in 0 .. SPACING
    BY <1>1, <2>1
  <2>3. QED
    BY <2>2 DEF ClkEdge
<1>3. tx.pf_enq => tx.state = "TX_IDLE"
  BY DEF Piped
<1>4. /\ pulse > 0 /\ fresh => calm' = 1 /\ ~ tx.reply_ready
                               /\ tx.state # "PREPARE_REPLY_DATA"
      /\ pulse > 0 /\ ~ fresh => pulse = 1 /\ calm = 1 /\ tx.reply_ready
  <2>1. calm = 0 => calm' = 1
    BY <1>1 DEF ClkEdge
  <2>2. QED
    BY <1>1, <1>3, <2>1 DEF Answered, BuildsReply
<1>5. /\ tx'.reply_ready \in BOOLEAN
      /\ tx.state = "TX_IDLE" => (tx'.reply_ready <=> ~ tx.reply_ready /\ pulse > 0)
      /\ tx.state # "TX_IDLE" => (tx'.reply_ready <=> tx.reply_ready \/ pulse > 0)
      /\ tx'.state = "PREPARE_REPLY_DATA" <=> tx.state = "TX_IDLE" /\ tx.reply_ready
  <2>1. tx.state = "WRITE_ADC_HEADER" => tx.counter < 10 \/ tx.counter = 10
    BY <1>1 DEF Counted
  <2>2. tx'.reply_ready \in BOOLEAN
    BY TxTyped DEF TxRegs
  <2>3. QED
    BY <1>1, <2>1, <2>2, TxSteps DEF Regs, TxStates
<1>6. /\ tx'.reply_ready \/ tx'.state = "PREPARE_REPLY_DATA" =>
           asked' = <<ReplyTo(request)>> /\ request.type # "none"
      /\ ~ (tx'.reply_ready \/ tx'.state = "PREPARE_REPLY_DATA") => asked' = << >>
  <2>1. CASE pulse > 0 /\ fresh
    BY <1>1, <1>4, <1>5, <2>1, AskedStep DEF Answered
  <2>2. CASE ~ (pulse > 0 /\ fresh) /\ tx.state = "PREPARE_REPLY_DATA"
    <3>1. ~ tx.reply_ready /\ pulse = 0 /\ asked' = << >>
      BY <1>3, <2>2, AskedStep DEF Answered, BuildsReply
    <3>2. QED
      BY <1>5, <2>2, <3>1
  <2>3. CASE ~ (pulse > 0 /\ fresh) /\ tx.state # "PREPARE_REPLY_DATA"
    <3>1. asked' = asked /\ (pulse > 0 => tx.reply_ready)
      BY <1>4, <2>3, AskedStep
    <3>2. tx'.reply_ready \/ tx'.state = "PREPARE_REPLY_DATA" <=> tx.reply_ready
      BY <1>5, <2>3, <3>1
    <3>3. QED
      BY <2>3, <3>1, <3>2 DEF Answered
  <2>4. QED
    BY <2>1, <2>2, <2>3
<1>7. /\ pulse' > 0 => request.type # "none"
      /\ pulse' # 2
  BY <1>1, <1>2 DEF Answered
<1>8. pulse' > 0 => calm' = 1 /\ tx'.reply_ready
  <2>1. pulse' > 0 => pulse = 2 /\ fresh
    BY <1>1, <1>2, <1>4
  <2>2. QED
    BY <1>1, <1>4, <1>5, <2>1
<1>9. BuildsReply' /\ ~ tx'.pf_enq => ~ tx'.reply_ready /\ pulse' = 0
  <2>1. CASE tx.state = "TX_IDLE"
    <3>1. ~ Ended' /\ tx'.state # "WRITE_REPLY_DATA"
      BY <2>1, EndsAfter, TxSteps DEF Regs
    <3>2. BuildsReply' => tx'.state = "PREPARE_REPLY_DATA"
      BY <3>1 DEF BuildsReply, PastRequest, ReplyEnded
    <3>3. tx.reply_ready => ~ tx'.reply_ready /\ pulse' = 0
      BY <1>1, <1>2, <1>4, <1>5, <2>1
    <3>4. QED
      BY <1>5, <3>2, <3>3
  <2>2. CASE tx.state \in {"PREPARE_REPLY_DATA", "WRITE_REPLY_DATA"}
    <3>1. ~ tx.reply_ready /\ pulse = 0
      BY <1>3, <2>2 DEF Answered, BuildsReply, PastRequest
    <3>2. QED
      BY <1>2, <1>5, <2>2, <3>1
  <2>3. CASE tx.state \in {"PREPARE_ADC_DATA", "WRITE_ADC_HEADER", "WRITE_ADC_DATA"}
    <3>1. ~ ReplyEnded'
      BY <2>3, EndsAfter DEF ReplyEnded
    <3>2. tx'.state \notin {"PREPARE_REPLY_DATA", "WRITE_REPLY_DATA"}
      <4>1. tx.state = "WRITE_ADC_HEADER" => tx.counter < 10 \/ tx.counter = 10
        BY <1>1 DEF Counted
      <4>2. QED
        BY <2>3, <4>1, TxSteps DEF Regs
    <3>3. QED
      BY <3>1, <3>2 DEF BuildsReply, PastRequest
  <2>4. CASE tx.state = "ENQUE_DATA"
    BY <2>4, TxSteps DEF Regs
  <2>5. QED
    BY <1>1, <2>1, <2>2, <2>3, <2>4 DEF TxStates
<1>10. tx'.reply_ready =>
         /\ tx'.state = "PREPARE_ADC_DATA" => calm' <= 1
         /\ tx'.state \in Writing => calm' <= 2 + tx'.counter
         /\ tx'.state = "TX_IDLE" => calm' <= N + 14
  <2>1. CASE tx.state = "TX_IDLE"
    <3>1. tx'.state \notin Writing
      BY <2>1, TxSteps DEF Regs, Writing
    <3>2. tx'.reply_ready => calm' = 1
      BY <1>4, <1>5, <2>1
    <3>3. QED
      BY <1>1, <3>1, <3>2
  <2>2. CASE tx.state = "PREPARE_ADC_DATA"
    <3>1. tx'.state = "WRITE_ADC_HEADER" /\ tx'.counter = 0
      BY <2>2, TxSteps DEF Regs, Piped
    <3>2. tx'.reply_ready => calm' <= 2
      BY <1>1, <1>2, <1>4, <1>5, <2>2 DEF Answered
    <3>3. QED
      BY <1>1, <3>1, <3>2
  <2>3. CASE tx.state \in {"WRITE_ADC_HEADER", "WRITE_ADC_DATA", "WRITE_REPLY_DATA"}
    <3>1. /\ tx'.state \in {"WRITE_ADC_HEADER", "WRITE_ADC_DATA", "WRITE_REPLY_DATA",
                            "ENQUE_DATA"}
          /\ tx'.counter = tx.counter + 1
      <4>1. tx.state = "WRITE_ADC_HEADER" => tx.counter < 10 \/ tx.counter = 10
        BY <1>1 DEF Counted
      <4>2. QED
        BY <2>3, <4>1, TxSteps DEF Regs
    <3>2. tx'.reply_ready => calm' <= 2 + tx'.counter
      <4>1. tx.reply_ready => calm <= 2 + tx.counter
        BY <2>3 DEF Answered, Writing
      <4>2. QED
        BY <1>1, <1>2, <1>4, <1>5, <2>3, <3>1, <4>1
    <3>3. QED
      BY <3>1, <3>2
  <2>4. CASE tx.state = "PREPARE_REPLY_DATA"
    BY <1>3, <1>5, <2>4 DEF Answered, BuildsReply
  <2>5. CASE tx.state = "ENQUE_DATA"
    <3>1. tx'.state = "TX_IDLE"
      BY <2>5, TxSteps DEF Regs
    <3>2. tx.counter <= N + 11 \/ ~ tx'.reply_ready
      <4>1. CASE AdcEnded
        BY <1>1, <1>3, <2>5, <4>1 DEF Counted, Words
      <4>2. CASE ~ AdcEnded
        <5>1. BuildsReply
          BY <2>5, <4>2 DEF BuildsReply, PastRequest, ReplyEnded, AdcEnded, Ended
        <5>2. ~ tx.reply_ready /\ pulse = 0
          BY <1>3, <2>5, <5>1 DEF Answered
        <5>3. QED
          BY <1>5, <2>5, <5>2
      <4>3. QED
        BY <4>1, <4>2
    <3>3. tx.reply_ready => calm <= 2 + tx.counter
      BY <2>5 DEF Answered, Writing
    <3>4. tx'.reply_ready => calm' <= N + 14
      BY <1>1, <1>2, <1>4, <1>5, <2>5, <3>2, <3>3
    <3>5. QED
      BY <3>1, <3>4 DEF Writing
  <2>6. QED
    BY <1>1, <2>1, <2>2, <2>3, <2>4, <2>5 DEF TxStates
<1>11. tx'.state = "PREPARE_REPLY_DATA" => calm' <= N + 15
  <2>1. tx.state = "TX_IDLE" /\ tx.reply_ready => calm <= N + 14
    BY DEF Answered
  <2>2. QED
    BY <1>1, <1>2, <1>5, <2>1
<1>12. PastRequest' => calm' <= N + 16 + Words' + Late'
  <2>1. CASE tx.state = "PREPARE_REPLY_DATA"
    <3>1. tx'.state = "WRITE_REPLY_DATA" /\ tx'.counter = 0 /\ tx'.pf_enq = tx.pf_enq
      BY <2>1, TxSteps DEF Regs, Piped
    <3>2. Words' = 0 /\ Late' = 0
      BY <1>1, <1>3, <2>1, <3>1 DEF Words, Late
    <3>3. calm <= N + 15
      BY <2>1 DEF Answered
    <3>4. QED
      BY <1>1, <1>2, <3>2, <3>3
  <2>2. CASE tx.state = "WRITE_REPLY_DATA"
    <3>1. tx'.counter = tx.counter + 1 /\ tx'.pf_enq = tx.pf_enq
      BY <2>2, TxSteps DEF Regs
    <3>2. Words' = tx.counter + 1 /\ Late' = 0 /\ Words = tx.counter /\ Late = 0
      BY <1>1, <1>3, <2>2, <3>1 DEF Words, Late
    <3>3. calm <= N + 16 + Words + Late
      BY <2>2 DEF Answered, PastRequest
    <3>4. QED
      BY <1>1, <1>2, <3>2, <3>3
  <2>3. CASE tx.state = "ENQUE_DATA"
    <3>1. tx'.state = "TX_IDLE" /\ tx'.pf_enq = TRUE
      BY <2>3, TxSteps DEF Regs
    <3>2. /\ Words' = Words
          /\ ReplyEnded' <=> ReplyEnded
      BY <2>3, EndsAfter
    <3>3. Words = tx.counter /\ Late = 0 /\ Late' = 1
      BY <1>1, <1>3, <2>3, <3>1 DEF Words, Late
    <3>4. ReplyEnded => calm <= N + 16 + Words + Late
      BY DEF Answered, PastRequest
    <3>5. QED
      BY <1>1, <1>2, <3>1, <3>2, <3>3, <3>4 DEF PastRequest
  <2>4. CASE tx.state \in {"TX_IDLE", "PREPARE_ADC_DATA", "WRITE_ADC_HEADER",
                           "WRITE_ADC_DATA"}
    <3>1. ~ ReplyEnded'
      BY <2>4, EndsAfter DEF ReplyEnded
    <3>2. tx'.state # "WRITE_REPLY_DATA"
      <4>1. tx.state = "WRITE_ADC_HEADER" => tx.counter < 10 \/ tx.counter = 10
        BY <1>1 DEF Counted
      <4>2. QED
        BY <2>4, <4>1, TxSteps DEF Regs
    <3>3. QED
      BY <3>1, <3>2 DEF PastRequest
  <2>5. QED
    BY <1>1, <2>1, <2>2, <2>3, <2>4 DEF TxStates
<1>13. QED
  BY <1>2, <1>6, <1>7, <1>8, <1>9, <1>10, <1>11, <1>12 DEF Answered

----------------------------------------------------------------------------
(* The words on their way to the buffer                                     *)

LEMMA WordsKept ==
    ASSUME StreamTyped, Piped, Counted, ClkEdge, ~ rst, tx.state \in Writing
    PROVE  /\ \A i \in Nat : i < tx.counter => WordAt(i)' = WordAt(i)
           /\ tx.state # "ENQUE_DATA" =>
                \A i \in Nat : i = tx.counter => WordAt(i)' = tx'.wdt
           /\ Words = tx.counter
           /\ Words' = tx.counter + (IF tx.state = "ENQUE_DATA" THEN 0 ELSE 1)
<1>1. tx.counter \in Nat /\ tx.pf_enq \in BOOLEAN /\ tx.wstrobe \in BOOLEAN
      /\ ram1.wstrobe \in BOOLEAN /\ N \in Nat
  BY StreamConstants DEF StreamTyped, TxRegs
<1>2. ~ tx.pf_enq
  BY DEF Piped, Writing
<1>3. /\ tx.state # "ENQUE_DATA" => tx'.counter = tx.counter + 1 /\ ~ tx'.pf_enq
      /\ tx.state = "ENQUE_DATA" => tx'.len = tx.counter /\ tx'.pf_enq
  <2>1. tx.state = "WRITE_ADC_HEADER" => tx.counter < 10 \/ tx.counter = 10
    BY <1>1 DEF Counted
  <2>2. QED
    BY <1>2, <2>1, TxSteps DEF Regs, Writing
<1>4. Pos = tx.counter /\ Pos' = tx.counter + 1
  BY <1>2, <1>3 DEF Pos
<1>5. tx.counter <= 11 + (IF N > 8 THEN N ELSE 8)
  <2>1. CASE tx.state = "ENQUE_DATA"
    <3>1. Words = tx.counter /\ Ended
      BY <1>2, <2>1 DEF Words, Ended
    <3>2. QED
      BY <1>1, <3>1 DEF Counted, AdcEnded, ReplyEnded, LastReplyWord
  <2>2. CASE tx.state # "ENQUE_DATA"
    BY <1>1, <2>2 DEF Counted, Writing, LastReplyWord
  <2>3. QED
    BY <2>1, <2>2
<1>6. \A i \in Nat : i < tx.counter => i \in Addr
  BY <1>1, <1>5 DEF Addr
<1>7. /\ ram1'.wdt = tx.wdt
      /\ \A a \in Addr : memory'[a] = IF ram1.wstrobe /\ ram1.addr = a THEN ram1.wdt
                                      ELSE memory[a]
  BY Clocks
<1>8. /\ ram1.wstrobe <=> tx.counter >= 2
      /\ tx.counter >= 2 => ram1.addr = tx.counter - 2
  BY DEF Piped
<1>9. ASSUME NEW i \in Nat, i < tx.counter PROVE WordAt(i)' = WordAt(i)
  <2>1. CASE i = tx.counter - 1
    BY <1>1, <1>4, <1>7, <2>1 DEF WordAt
  <2>2. CASE i = tx.counter - 2
    <3>1. memory'[i] = ram1.wdt
      BY <1>1, <1>6, <1>7, <1>8, <1>9, <2>2
    <3>2. WordAt(i) = ram1.wdt /\ WordAt(i)' = memory'[i]
      BY <1>1, <1>4, <2>2 DEF WordAt
    <3>3. QED
      BY <3>1, <3>2
  <2>3. CASE i < tx.counter - 2
    <3>1. memory'[i] = memory[i]
      BY <1>1, <1>6, <1>7, <1>8, <1>9, <2>3
    <3>2. WordAt(i) = memory[i] /\ WordAt(i)' = memory'[i]
      BY <1>1, <1>4, <2>3 DEF WordAt
    <3>3. QED
      BY <3>1, <3>2
  <2>4. QED
    BY <1>1, <1>9, <2>1, <2>2, <2>3
<1>10. \A i \in Nat : i = tx.counter => WordAt(i)' = tx'.wdt
  BY <1>1, <1>4 DEF WordAt
<1>11. Words = tx.counter /\ Words' = tx.counter + (IF tx.state = "ENQUE_DATA" THEN 0 ELSE 1)
  BY <1>1, <1>2, <1>3 DEF Words
<1>12. QED
  BY <1>9, <1>10, <1>11

LEMMA FrameEnqueued ==
    ASSUME StreamTyped, Piped, Counted, ClkEdge, tx.pf_enq
    PROVE  /\ tx.len \in Nat \ {0}
           /\ FrameOf(tx.len) = [i \in 1 .. tx.len |-> WordAt(i - 1)]
<1>1. tx.len \in Nat \ {0} /\ ram1.wstrobe /\ ram1.addr = tx.len - 1 /\ N \in Nat
  BY StreamConstants DEF StreamTyped, TxRegs, Piped
<1>2. tx.len <= 11 + (IF N > 8 THEN N ELSE 8)
  BY <1>1 DEF Counted, AdcEnded, ReplyEnded, Ended, Words, LastReplyWord
<1>3. Pos = tx.len + 1
  BY DEF Pos
<1>4. \A a \in Addr : memory'[a] = IF ram1.wstrobe /\ ram1.addr = a THEN ram1.wdt
                                   ELSE memory[a]
  BY Clocks
<1>5. ASSUME NEW i \in 1 .. tx.len PROVE memory'[i - 1] = WordAt(i - 1)
  <2>1. i - 1 \in Addr
    BY <1>1, <1>2 DEF Addr
  <2>2. CASE i = tx.len
    BY <1>1, <1>3, <1>4, <2>1, <2>2 DEF WordAt
  <2>3. CASE i # tx.len
    <3>1. memory'[i - 1] = memory[i - 1]
      BY <1>1, <1>4, <2>1, <2>3
    <3>2. i - 1 # Pos - 1 /\ i - 1 # Pos - 2
      BY <1>1, <1>3, <2>3
    <3>3. QED
      BY <3>1, <3>2 DEF WordAt
  <2>4. QED
    BY <2>2, <2>3
<1>6. QED
  BY <1>1, <1>5 DEF FrameOf

LEMMA ReplyWordsKept ==
    ASSUME StreamTyped, Piped, Counted, ReplyWords, ClkEdge, ~ rst
    PROVE  ReplyWords'
<1>1. tx.state \in TxStates /\ tx.counter \in Nat /\ tx.pf_enq \in BOOLEAN
  BY DEF StreamTyped, TxRegs
<1>2. tx.pf_enq => tx.state = "TX_IDLE"
  BY DEF Piped
<1>3. CASE tx.state \in {"TX_IDLE", "PREPARE_ADC_DATA", "WRITE_ADC_HEADER", "WRITE_ADC_DATA"}
  <2>1. ~ ReplyEnded'
    BY <1>3, EndsAfter DEF ReplyEnded
  <2>2. tx'.state # "WRITE_REPLY_DATA"
    <3>1. tx.state = "WRITE_ADC_HEADER" => tx.counter < 10 \/ tx.counter = 10
      BY <1>1 DEF Counted
    <3>2. QED
      BY <1>3, <3>1, TxSteps DEF Regs
  <2>3. QED
    BY <2>1, <2>2 DEF ReplyWords, PastRequest
<1>4. CASE tx.state = "PREPARE_REPLY_DATA"
  <2>1. tx'.counter = 0 /\ tx'.pf_enq = tx.pf_enq
    BY <1>4, TxSteps DEF Regs, Piped
  <2>2. Words' = 0
    BY <1>1, <1>2, <1>4, <2>1 DEF Words
  <2>3. QED
    BY <2>2 DEF ReplyWords
<1>5. CASE tx.state = "WRITE_REPLY_DATA"
  <2>1. tx'.frame = tx.frame /\ tx'.wdt = ReplyWord(tx.counter, tx.frame)
    BY <1>5, TxSteps DEF Regs
  <2>2. Words = tx.counter /\ Words' = tx.counter + 1
    BY <1>5, WordsKept DEF Writing
  <2>3. ASSUME NEW i \in 0 .. 18, i < Words' PROVE WordAt(i)' = ReplyWord(i, tx.frame)
    <3>1. CASE i < tx.counter
      <4>1. WordAt(i) = ReplyWord(i, tx.frame)
        BY <1>5, <2>2, <3>1 DEF ReplyWords, PastRequest
      <4>2. QED
        BY <1>5, <3>1, <4>1, WordsKept DEF Writing
    <3>2. CASE i = tx.counter
      BY <1>5, <2>1, <3>2, WordsKept DEF Writing
    <3>3. QED
      BY <1>1, <2>2, <2>3, <3>1, <3>2
  <2>4. QED
    BY <2>1, <2>3 DEF ReplyWords
<1>6. CASE tx.state = "ENQUE_DATA"
  <2>1. tx'.frame = tx.frame /\ tx'.state = "TX_IDLE"
    BY <1>6, TxSteps DEF Regs
  <2>2. /\ Words = tx.counter /\ Words' = Words
        /\ ReplyEnded' <=> ReplyEnded
    BY <1>6, WordsKept, EndsAfter DEF Writing
  <2>3. ASSUME ReplyEnded, NEW i \in 0 .. 18, i < Words PROVE WordAt(i)' = ReplyWord(i, tx.frame)
    <3>1. WordAt(i) = ReplyWord(i, tx.frame)
      BY <2>3 DEF ReplyWords, PastRequest
    <3>2. QED
      BY <1>6, <2>2, <2>3, <3>1, WordsKept DEF Writing
  <2>4. QED
    BY <2>1, <2>2, <2>3 DEF ReplyWords, PastRequest
<1>7. QED
  BY <1>1, <1>3, <1>4, <1>5, <1>6 DEF TxStates

LEMMA AdcWordsKept ==
    ASSUME StreamTyped, Piped, Counted, AdcWords, ClkEdge, ~ rst
    PROVE  AdcWords'
<1>1. /\ tx.state \in TxStates /\ tx.counter \in Nat /\ tx.pf_enq \in BOOLEAN
      /\ tx.udp_counter \in 0 .. UDP_MOD - 1 /\ UDP_MOD \in Nat \ {0}
      /\ r.data \in Sample /\ r.data \in Nat
  BY StreamConstants DEF StreamTyped, TxRegs, ReadRegs
<1>2. tx.pf_enq => tx.state = "TX_IDLE"
  BY DEF Piped
<1>3. CASE tx.state \in {"TX_IDLE", "PREPARE_REPLY_DATA", "WRITE_REPLY_DATA"}
  <2>1. ~ AdcEnded'
    BY <1>3, EndsAfter DEF AdcEnded
  <2>2. tx'.state \notin {"WRITE_ADC_HEADER", "WRITE_ADC_DATA"}
    BY <1>3, TxSteps DEF Regs
  <2>3. QED
    BY <2>1, <2>2 DEF AdcWords, PastHeader
<1>4. CASE tx.state = "PREPARE_ADC_DATA"
  <2>1. tx'.counter = 0 /\ tx'.pf_enq = tx.pf_enq /\ tx'.state = "WRITE_ADC_HEADER"
    BY <1>4, TxSteps DEF Regs, Piped
  <2>2. Words' = 0 /\ ~ AdcEnded'
    BY <1>1, <1>2, <1>4, <2>1, EndsAfter DEF Words, AdcEnded
  <2>3. HeaderWords(tx.udp_counter)'
    BY <2>2 DEF HeaderWords
  <2>4. QED
    BY <2>1, <2>2, <2>3 DEF AdcWords, PastHeader
<1>5. CASE tx.state = "WRITE_ADC_HEADER"
  <2>1. ~ AdcEnded' /\ (tx.counter < 10 \/ tx.counter = 10)
    BY <1>1, <1>5, EndsAfter DEF Counted, AdcEnded
  <2>2. /\ tx'.wdt = HeaderWord(tx.counter, tx.udp_counter)
        /\ tx.counter < 10 => tx'.state = "WRITE_ADC_HEADER" /\ tx'.udp_counter = tx.udp_counter
        /\ tx.counter = 10 => /\ tx'.state = "WRITE_ADC_DATA"
                              /\ tx'.udp_counter = (tx.udp_counter + 1) % UDP_MOD
    BY <1>5, <2>1, TxSteps DEF Regs
  <2>3. Words = tx.counter /\ Words' = tx.counter + 1
    BY <1>5, WordsKept DEF Writing
  <2>4. ASSUME NEW i \in 0 .. 10, i < Words' PROVE WordAt(i)' = HeaderWord(i, tx.udp_counter)
    <3>1. CASE i < tx.counter
      <4>1. WordAt(i) = HeaderWord(i, tx.udp_counter)
        BY <1>5, <2>3, <3>1 DEF AdcWords, HeaderWords
      <4>2. QED
        BY <1>5, <3>1, <4>1, WordsKept DEF Writing
    <3>2. CASE i = tx.counter
      BY <1>5, <2>2, <3>2, WordsKept DEF Writing
    <3>3. QED
      BY <1>1, <2>3, <2>4, <3>1, <3>2
  <2>5. CASE tx.counter < 10
    BY <2>1, <2>2, <2>4, <2>5 DEF AdcWords, HeaderWords, PastHeader
  <2>6. CASE tx.counter = 10
    <3>1. Words' = 11
      BY <2>3, <2>6
    <3>2. WordAt(0)' = HeaderWord(0, tx.udp_counter)
      BY <2>4, <3>1
    <3>3. WordAt(0)'[3] = tx.udp_counter
      <4>1. HeaderWord(0, tx.udp_counter)[3] = tx.udp_counter
        BY DEF HeaderWord
      <4>2. QED
        BY <3>2, <4>1
    <3>4. HeaderWords(WordAt(0)[3])'
      BY <2>4, <3>3 DEF HeaderWords
    <3>5. QED
      BY <1>1, <2>1, <2>2, <2>6, <3>1, <3>3, <3>4 DEF AdcWords, PastHeader
  <2>7. QED
    BY <2>1, <2>5, <2>6
<1>6. CASE tx.state = "WRITE_ADC_DATA"
  <2>1. /\ tx'.state \in {"WRITE_ADC_DATA", "ENQUE_DATA"} /\ tx'.udp_counter = tx.udp_counter
        /\ tx'.wdt = SampleWord(tx.counter, r.data)
    BY <1>6, TxSteps DEF Regs
  <2>2. Words = tx.counter /\ Words' = tx.counter + 1 /\ tx.counter >= 11
    BY <1>6, WordsKept DEF Writing, Counted
  <2>3. \A i \in 0 .. 10 : WordAt(i)' = WordAt(i)
    BY <1>1, <1>6, <2>2, WordsKept DEF Writing
  <2>4. /\ WordAt(0)[3] \in 0 .. UDP_MOD - 1 /\ HeaderWords(WordAt(0)[3])
        /\ tx.udp_counter = (WordAt(0)[3] + 1) % UDP_MOD
        /\ Words > 11 => WordAt(11)[3] \in Sample
    BY <1>6 DEF AdcWords, PastHeader
  <2>5. WordAt(0)' = WordAt(0)
    BY <2>3
  <2>6. HeaderWords(WordAt(0)[3])'
    BY <1>1, <2>2, <2>3, <2>4, <2>5 DEF HeaderWords
  <2>7. WordAt(11)'[3] \in Sample
    <3>1. CASE tx.counter = 11
      <4>1. WordAt(11)' = SampleWord(tx.counter, r.data)
        BY <1>6, <2>1, <3>1, WordsKept DEF Writing
      <4>2. QED
        BY <1>1, <4>1, WordsOK
    <3>2. CASE tx.counter > 11
      <4>1. WordAt(11)' = WordAt(11)
        BY <1>1, <1>6, <3>2, WordsKept DEF Writing
      <4>2. QED
        BY <2>2, <2>4, <3>2, <4>1
    <3>3. QED
      BY <1>1, <2>2, <3>1, <3>2
  <2>8. QED
    BY <2>1, <2>4, <2>5, <2>6, <2>7 DEF AdcWords
<1>7. CASE tx.state = "ENQUE_DATA"
  <2>1. tx'.udp_counter = tx.udp_counter /\ tx'.state = "TX_IDLE"
    BY <1>7, TxSteps DEF Regs
  <2>2. /\ Words = tx.counter /\ Words' = Words
        /\ AdcEnded' <=> AdcEnded
    BY <1>7, WordsKept, EndsAfter DEF Writing
  <2>3. CASE ~ AdcEnded
    BY <2>1, <2>2, <2>3 DEF AdcWords, PastHeader
  <2>4. CASE AdcEnded
    <3>1. Words >= 12
      BY <2>4 DEF Counted
    <3>2. \A i \in 0 .. 11 : WordAt(i)' = WordAt(i)
      BY <1>1, <1>7, <2>2, <3>1, WordsKept DEF Writing
    <3>3. /\ WordAt(0)[3] \in 0 .. UDP_MOD - 1 /\ HeaderWords(WordAt(0)[3])
          /\ tx.udp_counter = (WordAt(0)[3] + 1) % UDP_MOD
          /\ Words > 11 => WordAt(11)[3] \in Sample
      BY <2>4 DEF AdcWords, PastHeader
    <3>4. WordAt(0)' = WordAt(0) /\ WordAt(11)' = WordAt(11)
      BY <3>2
    <3>5. HeaderWords(WordAt(0)[3])'
      BY <2>2, <3>2, <3>3, <3>4 DEF HeaderWords
    <3>6. QED
      BY <2>1, <2>2, <3>3, <3>4, <3>5 DEF AdcWords
  <2>5. QED
    BY <2>3, <2>4
<1>8. QED
  BY <1>1, <1>3, <1>4, <1>5, <1>6, <1>7 DEF TxStates

----------------------------------------------------------------------------
(* The numbers of the samples                                               *)

LEMMA Numbers ==
    ASSUME NEW m \in Int, NEW a \in Int
    PROVE  /\ (m - a) % SAMPLES \in Sample /\ (m - a - N) % SAMPLES \in Sample
           /\ (((m - a - N) % SAMPLES) + N) % SAMPLES = (m - a) % SAMPLES
           /\ (((m + 1) % SAMPLES) - (a + 1)) % SAMPLES = (m - a) % SAMPLES
           /\ (((m + 1) % SAMPLES) - (a + 1) - N) % SAMPLES = (m - a - N) % SAMPLES
           /\ (((m - a) % SAMPLES) + a) % SAMPLES = m % SAMPLES
           /\ a = N - 1 => (((m + 1) % SAMPLES) - 0 - N) % SAMPLES = (m - a) % SAMPLES
<1> DEFINE S == SAMPLES
<1>1. S \in Nat \ {0} /\ Sample = 0 .. S - 1 /\ N \in Nat
  BY StreamConstants
<1> HIDE DEF S
<1>2. \A x \in Int : x % S \in 0 .. S - 1
  BY <1>1, Division
<1>3. (m - a) % S \in Sample /\ (m - a - N) % S \in Sample
  <2>1. m - a \in Int /\ m - a - N \in Int
    BY <1>1
  <2>2. (m - a) % S \in 0 .. S - 1 /\ (m - a - N) % S \in 0 .. S - 1
    BY <1>2, <2>1
  <2>3. QED
    BY <1>1, <2>2
<1>4. (((m - a - N) % S) + N) % S = (m - a) % S
  <2> DEFINE x == m - a - N
  <2>1. x \in Int /\ N \in Int /\ x + N = m - a
    BY <1>1
  <2> HIDE DEF x
  <2>2. ((x % S) + N) % S = (x + N) % S
    BY <1>1, <2>1, ModSum
  <2>3. ((x % S) + N) % S = (m - a) % S
    BY <2>1, <2>2
  <2>4. QED
    BY <2>3 DEF x
<1>5. (((m + 1) % S) - (a + 1)) % S = (m - a) % S
  <2>1. m + 1 \in Int /\ -(a + 1) \in Int /\ (m + 1) + (-(a + 1)) = m - a
    OBVIOUS
  <2>2. (((m + 1) % S) + (-(a + 1))) % S = (m - a) % S
    BY <1>1, <2>1, ModSum
  <2>3. ((m + 1) % S) - (a + 1) = ((m + 1) % S) + (-(a + 1))
    BY <1>1, <1>2, <2>1
  <2>4. QED
    BY <2>2, <2>3
<1>6. (((m + 1) % S) - (a + 1) - N) % S = (m - a - N) % S
  <2>1. m + 1 \in Int /\ -(a + 1) - N \in Int /\ (m + 1) + (-(a + 1) - N) = m - a - N
    BY <1>1
  <2>2. (((m + 1) % S) + (-(a + 1) - N)) % S = (m - a - N) % S
    BY <1>1, <2>1, ModSum
  <2>3. (m + 1) % S \in Int
    BY <1>1, <1>2, <2>1
  <2>4. ((m + 1) % S) - (a + 1) - N = ((m + 1) % S) + (-(a + 1) - N)
    BY <1>1, <2>3
  <2>5. QED
    BY <2>2, <2>4
<1>7. (((m - a) % S) + a) % S = m % S
  <2>1. m - a \in Int /\ (m - a) + a = m
    OBVIOUS
  <2>2. QED
    BY <1>1, <2>1, ModSum
<1>8. ASSUME a = N - 1 PROVE (((m + 1) % S) - 0 - N) % S = (m - a) % S
  <2>1. m + 1 \in Int /\ -N \in Int /\ (m + 1) + (-N) = m - a
    BY <1>1, <1>8
  <2>2. (((m + 1) % S) + (-N)) % S = (m - a) % S
    BY <1>1, <2>1, ModSum
  <2>3. (m + 1) % S \in Int
    BY <1>1, <1>2, <2>1
  <2>4. ((m + 1) % S) - 0 - N = ((m + 1) % S) + (-N)
    BY <1>1, <2>3
  <2>5. QED
    BY <2>2, <2>4
<1>9. QED
  BY <1>3, <1>4, <1>5, <1>6, <1>7, <1>8 DEF S

----------------------------------------------------------------------------
(* An edge of the sample clock                                              *)

\* write_RAM_proc without reset.
LEMMA Sampled ==
    ASSUME StreamTyped, SampleEdge, ~ rst
    PROVE  /\ w' \in WriteRegs /\ ram' \in [0 .. 2 * N - 1 -> Sample] /\ n' \in Sample
           /\ \A c \in 0 .. 2 * N - 1 :
                ram'[c] = IF c = N * w.index + w.addr THEN n ELSE ram[c]
           /\ n' = (n + 1) % SAMPLES
           /\ IF w.addr = N - 1
              THEN /\ w'.index = 1 - w.index /\ w'.addr = 0
                   /\ Since = N * PACE /\ Since' = 0
              ELSE w'.index = w.index /\ w'.addr = w.addr + 1 /\ Since' = Since
<1>1. /\ quiet = PACE /\ quiet' = 0 /\ n' = (n + 1) % SAMPLES
      /\ w' = IF HalfFull(w) THEN [index |-> 1 - w.index, addr |-> 0]
              ELSE [w EXCEPT !.addr = w.addr + 1]
      /\ ram' = [ram EXCEPT ![N * w.index + w.addr] = n]
  BY DEF SampleEdge, WriteStep, RamStep, Cell
<1>2. /\ w \in WriteRegs /\ w.index \in 0 .. 1 /\ w.addr \in 0 .. N - 1
      /\ n \in Sample /\ n \in Int /\ N \in Nat \ {0} /\ PACE \in Nat \ {0}
      /\ SAMPLES \in Nat \ {0} /\ Sample = 0 .. SAMPLES - 1
      /\ ram \in [0 .. 2 * N - 1 -> Sample]
  BY StreamConstants DEF StreamTyped, WriteRegs
<1>3. N * w.index + w.addr \in 0 .. 2 * N - 1
  BY <1>2, Cells
<1>4. n' \in Sample
  <2>1. n + 1 \in Int
    BY <1>2
  <2>2. (n + 1) % SAMPLES \in 0 .. SAMPLES - 1
    BY <1>2, <2>1, Division
  <2>3. QED
    BY <1>1, <1>2, <2>2
<1>5. /\ ram' \in [0 .. 2 * N - 1 -> Sample]
      /\ \A c \in 0 .. 2 * N - 1 :
           ram'[c] = IF c = N * w.index + w.addr THEN n ELSE ram[c]
  <2>1. ram' = [ram EXCEPT ![N * w.index + w.addr] = n] /\ n \in Sample
        /\ ram \in [0 .. 2 * N - 1 -> Sample]
    BY <1>1, <1>2
  <2>2. QED
    BY <1>3, <2>1
<1>6. CASE w.addr = N - 1
  <2>1. w' = [index |-> 1 - w.index, addr |-> 0]
    BY <1>1, <1>6 DEF HalfFull
  <2>2. 1 - w.index \in 0 .. 1 /\ 0 \in 0 .. N - 1
    BY <1>2
  <2>3. w' \in WriteRegs /\ w'.index = 1 - w.index /\ w'.addr = 0
    BY <2>1, <2>2 DEF WriteRegs
  <2>4. PACE * (N - 1) + PACE = N * PACE /\ PACE * 0 + 0 = 0
    BY <1>2
  <2>5. Since = N * PACE /\ Since' = 0
    BY <1>1, <1>6, <2>3, <2>4 DEF Since
  <2>6. QED
    BY <1>1, <1>4, <1>5, <1>6, <2>3, <2>5
<1>7. CASE w.addr # N - 1
  <2>1. w' = [w EXCEPT !.addr = w.addr + 1]
    BY <1>1, <1>7 DEF HalfFull
  <2>2. w.addr + 1 \in 0 .. N - 1
    BY <1>2, <1>7
  <2>3. w' \in WriteRegs /\ w'.index = w.index /\ w'.addr = w.addr + 1
    BY <1>2, <2>1, <2>2 DEF WriteRegs
  <2>4. PACE * (w.addr + 1) + 0 = PACE * w.addr + PACE
    BY <1>2
  <2>5. Since' = Since
    BY <1>1, <2>3, <2>4 DEF Since
  <2>6. QED
    BY <1>1, <1>4, <1>5, <1>7, <2>3, <2>5
<1>8. QED
  BY <1>6, <1>7

\* When a half is full, nothing is left of the other one.
LEMMA NothingLeft ==
    ASSUME StreamTyped, Piped, Counted, Timely, SampleEdge, ~ rst, w.addr = N - 1
    PROVE  Swapped /\ ~ r.ready /\ ~ BuildsAdc
<1>1. /\ Since = N * PACE /\ N * PACE >= PACE + N + 37 /\ N \in Nat \ {0}
      /\ PACE \in Nat \ {0} /\ N * PACE \in Nat
      /\ tx.counter \in Nat /\ tx.pf_enq \in BOOLEAN /\ tx.state \in TxStates
      /\ r.ready \in BOOLEAN /\ tx.reply_ready \in BOOLEAN /\ tx.len \in Nat
  BY Sampled, BuildTiming, StreamConstants DEF StreamTyped, TxRegs, ReadRegs
<1> DEFINE X == N * PACE
<1>2. Since = X /\ X >= PACE + N + 37 /\ X \in Nat
  BY <1>1
<1> HIDE DEF X
<1>3. Swapped
  BY <1>1, <1>2 DEF Timely
<1>4. tx.state # "PREPARE_ADC_DATA" /\ tx.state # "WRITE_ADC_HEADER"
      /\ tx.state # "WRITE_ADC_DATA"
  BY <1>1, <1>2 DEF Timely, Counted
<1>5. ~ AdcEnded
  <2>1. SUFFICES ASSUME AdcEnded PROVE FALSE
    OBVIOUS
  <2>2. Since <= PACE + 24 + Words + Late /\ Words \in 12 .. N + 11 /\ Late \in 0 .. 1
    BY <2>1 DEF Timely, Counted, Late
  <2>3. QED
    BY <1>1, <1>2, <2>2
<1>6. ~ r.ready
  <2>1. SUFFICES ASSUME r.ready PROVE FALSE
    OBVIOUS
  <2>2. CASE tx.state = "TX_IDLE"
    BY <1>1, <1>2, <2>1, <2>2 DEF Timely
  <2>3. CASE tx.state = "PREPARE_REPLY_DATA"
    BY <1>1, <1>2, <2>1, <2>3 DEF Timely
  <2>4. CASE tx.state \in {"WRITE_REPLY_DATA", "ENQUE_DATA"}
    <3>1. BuildsReply /\ PastRequest
      BY <1>5, <2>4 DEF BuildsReply, PastRequest, ReplyEnded, AdcEnded, Ended
    <3>2. tx.counter <= 19
      <4>1. ~ tx.pf_enq
        BY <2>4 DEF Piped
      <4>2. QED
        BY <1>1, <2>4, <3>1, <4>1
           DEF Counted, LastReplyWord, Words, PastRequest
    <3>3. Since <= PACE + 2 + tx.counter
      BY <2>1, <2>4, <3>1 DEF Timely
    <3>4. QED
      BY <1>1, <1>2, <3>2, <3>3
  <2>5. QED
    BY <1>1, <1>4, <2>2, <2>3, <2>4 DEF TxStates
<1>7. QED
  BY <1>3, <1>4, <1>5, <1>6 DEF BuildsAdc, PastHeader

LEMMA SampleTimely ==
    ASSUME StreamTyped, Piped, Counted, Timely, SampleEdge, ~ rst
    PROVE  Timely'
<1>1. rst' = rst /\ r' = r /\ tx' = tx /\ ram1' = ram1
  BY DEF SampleEdge
<1>2. /\ BuildsAdc' <=> BuildsAdc
      /\ AdcEnded' <=> AdcEnded
      /\ BuildsReply' <=> BuildsReply
      /\ Words' = Words /\ Late' = Late
  BY <1>1 DEF BuildsAdc, PastHeader, AdcEnded, ReplyEnded, Ended, LastWord, BuildsReply,
              PastRequest, Words, Late
<1>3. CASE w.addr = N - 1
  <2>1. ~ r.ready /\ ~ BuildsAdc /\ Since' = 0
    BY <1>3, NothingLeft, Sampled
  <2>2. QED
    BY <1>1, <1>2, <2>1 DEF Timely, BuildsAdc, PastHeader
<1>4. CASE w.addr # N - 1
  <2>1. Since' = Since /\ w'.index = w.index
    BY <1>4, Sampled
  <2>2. Swapped' <=> Swapped
    BY <1>1, <2>1 DEF Swapped
  <2>3. QED
    BY <1>1, <1>2, <2>1, <2>2 DEF Timely
<1>5. QED
  BY <1>3, <1>4

----------------------------------------------------------------------------
(* The frame that is enqueued, and what is expected after it                *)

LEMMA FrameKind ==
    ASSUME StreamTyped, Piped, Counted, ReplyWords, AdcWords, ClkEdge, tx.pf_enq
    PROVE  /\ IsAdc(FrameOf(tx.len)) <=> AdcEnded
           /\ AdcEnded => /\ FrameOf(tx.len)[1] = WordAt(0)
                          /\ FrameOf(tx.len)[12] = WordAt(11)
<1>1. /\ tx.len \in Nat \ {0}
      /\ FrameOf(tx.len) = [i \in 1 .. tx.len |-> WordAt(i - 1)]
  BY FrameEnqueued
<1> DEFINE F == FrameOf(tx.len)
<1>2. F = [i \in 1 .. tx.len |-> WordAt(i - 1)]
  BY <1>1
<1> HIDE DEF F
<1>3. F # << >>
  <2>1. DOMAIN F = 1 .. tx.len /\ 1 \in 1 .. tx.len
    BY <1>1, <1>2
  <2>2. DOMAIN << >> = {}
    OBVIOUS
  <2>3. QED
    BY <2>1, <2>2
<1>4. F[1] = WordAt(0)
  <2>1. 1 \in 1 .. tx.len /\ 1 - 1 = 0
    BY <1>1
  <2>2. F[1] = WordAt(1 - 1)
    BY <1>2, <2>1
  <2>3. QED
    BY <2>1, <2>2
<1>5. Words = tx.len
  BY DEF Words
<1>6. ASSUME AdcEnded
      PROVE  F[1][1] = "header" /\ F[12] = WordAt(11)
  <2>1. tx.len >= 12 /\ PastHeader
    BY <1>5, <1>6 DEF Counted, PastHeader
  <2>2. HeaderWords(WordAt(0)[3]) /\ WordAt(0)[3] \in 0 .. UDP_MOD - 1
    BY <2>1 DEF AdcWords
  <2>3. WordAt(0) = HeaderWord(0, WordAt(0)[3])
    BY <1>1, <1>5, <2>2 DEF HeaderWords
  <2>4. HeaderWord(0, WordAt(0)[3])[1] = "header"
    BY DEF HeaderWord
  <2>5. 12 \in 1 .. tx.len /\ 12 - 1 = 11
    BY <1>1, <2>1
  <2>6. F[12] = WordAt(12 - 1)
    BY <1>2, <2>5
  <2>7. QED
    BY <1>4, <2>3, <2>4, <2>5, <2>6
<1>7. ASSUME ~ AdcEnded PROVE F[1][1] # "header"
  <2>1. PastRequest
    BY <1>7 DEF PastRequest, ReplyEnded, AdcEnded, Ended
  <2>2. WordAt(0) = ReplyWord(0, tx.frame)
    BY <1>1, <1>5, <2>1 DEF ReplyWords
  <2>3. tx.frame.type # "header"
    BY <2>1 DEF Counted
  <2>4. QED
    BY <1>4, <2>2, <2>3 DEF ReplyWord
<1>8. (F # << >> /\ F[1][1] = "header") <=> AdcEnded
  BY <1>3, <1>6, <1>7
<1>9. QED
  BY <1>4, <1>6, <1>8 DEF F, IsAdc

LEMMA NextStep ==
    ASSUME StreamTyped, Piped, Counted, ReplyWords, AdcWords, ClkEdge
    PROVE  /\ rst \/ ~ (AdcEnded /\ tx.pf_enq) => next' = next
           /\ ~ rst /\ AdcEnded /\ tx.pf_enq =>
                next' = [sample |-> (WordAt(11)[3] + N) % SAMPLES, udp |-> tx.udp_counter,
                         phase |-> IF next.phase = "reset" THEN "restart" ELSE "stream"]
           /\ next' \in [sample : Sample, udp : 0 .. UDP_MOD - 1,
                         phase : {"stream", "reset", "restart"}]
<1> DEFINE F == FrameOf(tx.len)
           e == [sample |-> (F[12][3] + N) % SAMPLES, udp |-> (F[1][3] + 1) % UDP_MOD,
                 phase |-> IF next.phase = "reset" THEN "restart" ELSE "stream"]
           Next_ == [sample : Sample, udp : 0 .. UDP_MOD - 1,
                     phase : {"stream", "reset", "restart"}]
<1>1. next' = IF rst \/ ~ tx.pf_enq \/ ~ IsAdc(F) THEN next ELSE e
  BY DEF ClkEdge, Expect
<1>2. tx.pf_enq => (IsAdc(F) <=> AdcEnded)
  BY FrameKind
<1>3. next \in Next_ /\ tx.pf_enq \in BOOLEAN /\ rst \in BOOLEAN
  BY DEF StreamTyped, TxRegs
<1>4. ASSUME AdcEnded, tx.pf_enq
      PROVE  e = [sample |-> (WordAt(11)[3] + N) % SAMPLES, udp |-> tx.udp_counter,
                  phase |-> IF next.phase = "reset" THEN "restart" ELSE "stream"]
             /\ e \in Next_
  <2>1. F[1] = WordAt(0) /\ F[12] = WordAt(11)
    BY <1>4, FrameKind
  <2>2. Words > 11 /\ PastHeader
    BY <1>4 DEF Counted, PastHeader
  <2>3. tx.udp_counter = (WordAt(0)[3] + 1) % UDP_MOD /\ WordAt(11)[3] \in Sample
    BY <2>2 DEF AdcWords
  <2>4. tx.udp_counter \in 0 .. UDP_MOD - 1
    BY DEF StreamTyped, TxRegs
  <2>5. (WordAt(11)[3] + N) % SAMPLES \in Sample
    <3>1. WordAt(11)[3] + N \in Int /\ SAMPLES \in Nat \ {0}
      BY <2>3, StreamConstants
    <3>2. QED
      BY <3>1, Division, StreamConstants
  <2>6. QED
    BY <2>1, <2>3, <2>4, <2>5
<1> HIDE DEF e, F
<1>5. rst \/ ~ (AdcEnded /\ tx.pf_enq) => next' = next
  BY <1>1, <1>2
<1>6. ~ rst /\ AdcEnded /\ tx.pf_enq => next' = e
  BY <1>1, <1>2
<1>7. QED
  BY <1>3, <1>4, <1>5, <1>6

LEMMA TypedKept ==
    ASSUME StreamTyped, Piped, Counted, ReplyWords, AdcWords, ClkEdge
    PROVE  StreamTyped'
<1>1. next' \in [sample : Sample, udp : 0 .. UDP_MOD - 1, phase : {"stream", "reset", "restart"}]
  BY NextStep
<1>2. tx' \in TxRegs /\ r' \in ReadRegs
  BY TxTyped, Reads
<1>3. w' = w /\ ram' = ram /\ n' = n /\ request' = request /\ rst' = rst
  BY DEF ClkEdge, bufferVars
<1>4. ram1' \in [addr : Addr, wdt : Word, wstrobe : BOOLEAN] /\ memory' \in [Addr -> Word]
  BY Clocks
<1>5. quiet' \in 0 .. PACE /\ calm' \in 0 .. SPACING /\ pulse' \in 0 .. 2 /\ fresh' \in BOOLEAN
      /\ pressed' \in [times : Nat, clk : BOOLEAN, signal : BOOLEAN]
  BY Clocks
<1>6. QED
  BY <1>1, <1>2, <1>3, <1>4, <1>5 DEF StreamTyped
----------------------------------------------------------------------------
(* The stream, from the first frame after a reset on                        *)

\* The clock edge leaves the numbers alone.
LEMMA SameNumbers ==
    ASSUME StreamTyped, ClkEdge
    PROVE  /\ Base' = Base /\ FirstSample' = FirstSample /\ Since' = Since + 1
           /\ w' = w /\ ram' = ram /\ n' = n /\ rst' = rst
<1>1. w' = w /\ ram' = ram /\ n' = n /\ rst' = rst /\ quiet' = quiet + 1
  BY DEF ClkEdge, bufferVars
<1>2. quiet \in Int /\ PACE * w.addr \in Int
  BY StreamConstants, SinceTyped DEF StreamTyped
<1>3. Since' = Since + 1
  BY <1>1, <1>2 DEF Since
<1>4. QED
  BY <1>1, <1>3 DEF Base, FirstSample

\* Where an ADC frame begins, passes its header and ends.
LEMMA BuildsStep ==
    ASSUME StreamTyped, Piped, Counted, ClkEdge, ~ rst
    PROVE  /\ AdcEnded /\ tx.pf_enq =>
                /\ ~ PastHeader' /\ ~ AdcEnded' /\ tx'.udp_counter = tx.udp_counter
                /\ BuildsAdc' <=> ~ tx.reply_ready /\ r.ready
           /\ ~ (AdcEnded /\ tx.pf_enq) =>
                /\ BuildsAdc' <=>
                     BuildsAdc \/ (tx.state = "TX_IDLE" /\ ~ tx.reply_ready /\ r.ready)
                /\ PastHeader' <=>
                     PastHeader \/ (tx.state = "WRITE_ADC_HEADER" /\ tx.counter = 10)
                /\ ~ PastHeader' => tx'.udp_counter = tx.udp_counter
<1>1. /\ tx.state \in TxStates /\ tx.counter \in Nat /\ tx.pf_enq \in BOOLEAN
      /\ r.ready \in BOOLEAN /\ tx.reply_ready \in BOOLEAN
      /\ tx.pf_enq => tx.state = "TX_IDLE"
  BY DEF StreamTyped, TxRegs, ReadRegs, Piped
<1>2. CASE tx.state = "TX_IDLE"
  <2>1. ~ Ended' /\ ~ AdcEnded'
    BY <1>2, EndsAfter DEF AdcEnded
  <2>2. /\ tx'.state = IF tx.reply_ready THEN "PREPARE_REPLY_DATA"
                       ELSE IF r.ready THEN "PREPARE_ADC_DATA" ELSE "TX_IDLE"
        /\ tx'.udp_counter = tx.udp_counter
    BY <1>2, TxSteps DEF Regs
  <2>3. PastHeader => AdcEnded /\ tx.pf_enq
    BY <1>1, <1>2 DEF PastHeader, AdcEnded, Ended
  <2>4. BuildsAdc => AdcEnded /\ tx.pf_enq
    BY <1>2, <2>3 DEF BuildsAdc
  <2>5. ~ PastHeader'
    BY <2>1, <2>2 DEF PastHeader
  <2>6. BuildsAdc' <=> ~ tx.reply_ready /\ r.ready
    BY <1>1, <2>2, <2>5 DEF BuildsAdc
  <2>7. QED
    BY <1>2, <2>1, <2>2, <2>3, <2>4, <2>5, <2>6
<1>3. CASE tx.state \in {"PREPARE_REPLY_DATA", "WRITE_REPLY_DATA"}
  <2>1. ~ AdcEnded' /\ ~ AdcEnded /\ ~ tx.pf_enq
    BY <1>1, <1>3, EndsAfter DEF AdcEnded, Ended
  <2>2. /\ tx'.state \in {"WRITE_REPLY_DATA", "ENQUE_DATA"}
        /\ tx'.udp_counter = tx.udp_counter
    BY <1>3, TxSteps DEF Regs
  <2>3. QED
    BY <1>3, <2>1, <2>2 DEF PastHeader, BuildsAdc
<1>4. CASE tx.state = "PREPARE_ADC_DATA"
  <2>1. ~ AdcEnded' /\ ~ AdcEnded /\ ~ tx.pf_enq
    BY <1>1, <1>4, EndsAfter DEF AdcEnded, Ended
  <2>2. tx'.state = "WRITE_ADC_HEADER" /\ tx'.udp_counter = tx.udp_counter
    BY <1>4, TxSteps DEF Regs
  <2>3. ~ PastHeader /\ ~ PastHeader'
    BY <1>4, <2>1, <2>2 DEF PastHeader
  <2>4. BuildsAdc /\ BuildsAdc'
    BY <1>4, <2>2 DEF BuildsAdc
  <2>5. QED
    BY <1>4, <2>1, <2>2, <2>3, <2>4
<1>5. CASE tx.state = "WRITE_ADC_HEADER"
  <2>1. ~ AdcEnded' /\ ~ AdcEnded /\ ~ tx.pf_enq
    BY <1>1, <1>5, EndsAfter DEF AdcEnded, Ended
  <2>2. tx.counter < 10 \/ tx.counter = 10
    BY <1>1, <1>5 DEF Counted
  <2>3. /\ tx.counter < 10 => tx'.state = "WRITE_ADC_HEADER" /\ tx'.udp_counter = tx.udp_counter
        /\ tx.counter = 10 => tx'.state = "WRITE_ADC_DATA"
    BY <1>5, <2>2, TxSteps DEF Regs
  <2>4. BuildsAdc /\ ~ PastHeader
    BY <1>5, <2>1 DEF PastHeader, BuildsAdc
  <2>5. PastHeader' <=> tx.counter = 10
    BY <1>1, <2>1, <2>2, <2>3 DEF PastHeader
  <2>6. BuildsAdc'
    BY <2>2, <2>3 DEF BuildsAdc, PastHeader
  <2>7. ~ PastHeader' => tx'.udp_counter = tx.udp_counter
    BY <2>2, <2>3, <2>5
  <2>8. QED
    BY <1>5, <2>1, <2>4, <2>5, <2>6, <2>7
<1>6. CASE tx.state = "WRITE_ADC_DATA"
  <2>1. ~ AdcEnded /\ ~ tx.pf_enq
    BY <1>1, <1>6 DEF AdcEnded, Ended
  <2>2. /\ tx'.state = IF r.ready THEN "WRITE_ADC_DATA" ELSE "ENQUE_DATA"
        /\ ~ r.ready => AdcEnded'
    BY <1>6, EndsAfter, TxSteps DEF Regs
  <2>3. PastHeader' /\ PastHeader
    BY <1>1, <1>6, <2>2 DEF PastHeader
  <2>4. BuildsAdc' /\ BuildsAdc
    BY <2>3 DEF BuildsAdc
  <2>5. QED
    BY <1>6, <2>1, <2>3, <2>4
<1>7. CASE tx.state = "ENQUE_DATA"
  <2>1. AdcEnded' <=> AdcEnded
    BY <1>7, EndsAfter
  <2>2. tx'.state = "TX_IDLE" /\ tx'.udp_counter = tx.udp_counter /\ ~ tx.pf_enq
    BY <1>1, <1>7, TxSteps DEF Regs
  <2>3. PastHeader' <=> PastHeader
    BY <1>7, <2>1, <2>2 DEF PastHeader
  <2>4. BuildsAdc' <=> BuildsAdc
    BY <1>7, <2>2, <2>3 DEF BuildsAdc
  <2>5. QED
    BY <1>7, <2>1, <2>2, <2>3, <2>4
<1>8. QED
  BY <1>1, <1>2, <1>3, <1>4, <1>5, <1>6, <1>7 DEF TxStates

\* What the reader of UDP_BUFFER does while the machine does not strobe it.
LEMMA Unstrobed ==
    ASSUME StreamTyped, Timely, ClkEdge, ~ rst, ~ tx.strob, r.ready => r.addr = 0
    PROVE  /\ r'.ready <=> r.ready \/ ~ Swapped
           /\ r'.ready => r'.addr = 0
           /\ Swapped'
<1>1. r.ready \in BOOLEAN /\ r'.ready \in BOOLEAN
  BY Reads DEF StreamTyped, ReadRegs
<1>2. w' = w
  BY DEF ClkEdge, bufferVars
<1>3. CASE Swapped
  <2>1. r'.index = r.index /\ r'.addr = r.addr /\ r'.ready = r.ready
    BY <1>3, Reads
  <2>2. QED
    BY <1>2, <1>3, <2>1 DEF Swapped
<1>4. CASE ~ Swapped
  <2>1. r'.index = 1 - w.index /\ r'.addr = 0 /\ r'.ready = TRUE
    BY <1>4, Reads
  <2>2. QED
    BY <1>2, <1>4, <2>1 DEF Swapped
<1>5. QED
  BY <1>3, <1>4

\* The half that is full stays to be sent until its frame is enqueued.
LEMMA PendingStep ==
    ASSUME StreamTyped, Piped, Counted, Timely, ClkEdge, ~ rst, Stepped
    PROVE  ~ (AdcEnded /\ tx.pf_enq) => (Pending' <=> Pending)
<1> SUFFICES ASSUME ~ (AdcEnded /\ tx.pf_enq) PROVE Pending' <=> Pending
  OBVIOUS
<1>1. BuildsAdc' <=> BuildsAdc \/ (tx.state = "TX_IDLE" /\ ~ tx.reply_ready /\ r.ready)
  BY BuildsStep
<1>2. CASE BuildsAdc
  <2>1. BuildsAdc'
    BY <1>1, <1>2
  <2>2. Pending /\ Pending'
    BY <1>2, <2>1 DEF Pending
  <2>3. QED
    BY <2>2
<1>3. CASE ~ BuildsAdc
  <2>1. ~ tx.strob /\ (r.ready => r.addr = 0)
    BY <1>3 DEF Stepped, BuildsAdc, PastHeader
  <2>2. (r'.ready <=> r.ready \/ ~ Swapped) /\ Swapped'
    BY <2>1, Unstrobed
  <2>3. QED
    BY <1>1, <1>3, <2>2 DEF Pending
<1>4. QED
  BY <1>2, <1>3

\* The frame has been enqueued: the next one starts where it ended.
LEMMA FrameDone ==
    ASSUME StreamTyped, Piped, Counted, ReplyWords, AdcWords, Timely, InStream,
           ClkEdge, ~ rst, AdcEnded, tx.pf_enq
    PROVE  InStream'
<1>1. next' = [sample |-> (WordAt(11)[3] + N) % SAMPLES, udp |-> tx.udp_counter,
               phase |-> IF next.phase = "reset" THEN "restart" ELSE "stream"]
  BY NextStep
<1>2. /\ ~ r.ready /\ ~ tx.strob /\ Swapped /\ tx.state = "TX_IDLE"
      /\ Words \in 12 .. N + 11 /\ PastHeader
  BY DEF Counted, Timely, Piped, BuildsAdc, PastHeader
<1>3. ~ r'.ready /\ Swapped'
  BY <1>2, Unstrobed
<1>4. ~ PastHeader' /\ ~ AdcEnded' /\ tx'.udp_counter = tx.udp_counter /\ ~ BuildsAdc'
  BY <1>2, BuildsStep
<1>5. ~ Pending'
  BY <1>3, <1>4 DEF Pending
<1>6. /\ tx'.state \in {"TX_IDLE", "PREPARE_REPLY_DATA"}
      /\ tx'.strob = tx.strob
  <2>1. tx'.state = (IF tx.reply_ready THEN "PREPARE_REPLY_DATA"
                     ELSE IF r.ready THEN "PREPARE_ADC_DATA" ELSE "TX_IDLE")
        /\ tx'.strob = tx.strob
    BY <1>2, TxSteps DEF Regs
  <2>2. QED
    BY <1>2, <2>1
<1>7. Stepped'
  BY <1>2, <1>3, <1>6 DEF Stepped
<1>8. next'.udp = tx.udp_counter /\ next'.sample = (WordAt(11)[3] + N) % SAMPLES
      /\ next'.phase = IF next.phase = "reset" THEN "restart" ELSE "stream"
  BY <1>1
<1>9. Numbered'
  BY <1>4, <1>8 DEF Numbered
<1>10. ASSUME next.phase # "reset" PROVE next'.sample = Base'
  <2>1. Numbered
    BY <1>10 DEF InStream
  <2>2. /\ n \in Int /\ w.addr \in Int /\ N \in Nat \ {0} /\ Sample = 0 .. SAMPLES - 1
        /\ SAMPLES \in Nat
    BY StreamConstants DEF StreamTyped, WriteRegs
  <2>3. WordAt(11) = SampleWord(11, FirstSample)
    <3>1. 11 \in 11 .. N + 10 /\ 11 < Words /\ 11 - 11 = 0
      BY <1>2, <2>2
    <3>2. WordAt(11) = SampleWord(11, (FirstSample + (11 - 11)) % SAMPLES)
      BY <1>2, <2>1, <3>1 DEF Numbered
    <3>3. FirstSample \in 0 .. SAMPLES - 1
      BY <2>2, Numbers DEF FirstSample
    <3>4. FirstSample + 0 = FirstSample /\ FirstSample % SAMPLES = FirstSample
      BY <3>3, ModSmall, StreamConstants
    <3>5. QED
      BY <3>1, <3>2, <3>4
  <2>4. WordAt(11)[3] = FirstSample
    BY <2>3 DEF SampleWord
  <2>5. (FirstSample + N) % SAMPLES = Base
    BY <2>2, Numbers DEF FirstSample, Base
  <2>6. Base' = Base
    BY SameNumbers
  <2>7. QED
    BY <1>8, <2>4, <2>5, <2>6
<1>11. Continuing'
  BY <1>5, <1>8, <1>10 DEF Continuing
<1>12. Unsent'
  BY <1>5 DEF Unsent
<1>13. QED
  BY <1>7, <1>9, <1>11, <1>12 DEF InStream

LEMMA SteppedKept ==
    ASSUME StreamTyped, Piped, Counted, Timely, ClkEdge, ~ rst, Unsent, Stepped,
           ~ (AdcEnded /\ tx.pf_enq)
    PROVE  Stepped'
<1>1. /\ tx.state \in TxStates /\ tx.counter \in Nat /\ tx.pf_enq \in BOOLEAN
      /\ tx.strob \in BOOLEAN /\ r.ready \in BOOLEAN /\ tx.reply_ready \in BOOLEAN
      /\ r.addr \in 0 .. N - 1 /\ N \in Nat \ {0} /\ w.index \in 0 .. 1
      /\ FirstSample' = FirstSample
  BY StreamConstants, SameNumbers DEF StreamTyped, TxRegs, ReadRegs, WriteRegs
<1>2. CASE tx.state \in {"TX_IDLE", "PREPARE_ADC_DATA", "PREPARE_REPLY_DATA",
                         "WRITE_REPLY_DATA", "ENQUE_DATA"}
  <2>1. ~ tx.strob /\ (r.ready => r.addr = 0)
    BY <1>2 DEF Stepped
  <2>2. (r'.ready <=> r.ready \/ ~ Swapped) /\ (r'.ready => r'.addr = 0)
    BY <2>1, Unstrobed
  <2>3. tx'.strob = tx.strob
        /\ tx'.state \notin {"WRITE_ADC_DATA"}
        /\ (tx'.state = "WRITE_ADC_HEADER" => tx.state = "PREPARE_ADC_DATA" /\ tx'.counter = 0)
        /\ (tx'.state = "PREPARE_ADC_DATA" => tx.state = "TX_IDLE" /\ r.ready)
    BY <1>1, <1>2, TxSteps DEF Regs, Piped
  <2>4. tx'.state \in {"PREPARE_ADC_DATA", "WRITE_ADC_HEADER"} => r.ready
    BY <2>3 DEF Stepped
  <2>5. QED
    BY <2>1, <2>2, <2>3, <2>4 DEF Stepped
<1>3. CASE tx.state = "WRITE_ADC_HEADER" /\ tx.counter < 10
  <2>1. ~ tx.strob /\ r.ready /\ r.addr = 0
    BY <1>1, <1>3 DEF Stepped
  <2>2. r'.ready /\ r'.addr = 0
    BY <2>1, Unstrobed
  <2>3. /\ tx'.state = "WRITE_ADC_HEADER" /\ tx'.counter = tx.counter + 1
        /\ tx'.strob = (tx.strob \/ tx.counter = 9)
    BY <1>3, TxSteps DEF Regs
  <2>4. tx'.strob <=> tx.counter = 9
    BY <2>1, <2>3, Zenon
  <2>5. tx.counter = 9 <=> tx'.counter = 10
    BY <1>1, <2>3
  <2>6. QED
    BY <2>2, <2>3, <2>4, <2>5 DEF Stepped
<1>4. CASE tx.state = "WRITE_ADC_HEADER" /\ tx.counter = 10
  <2>1. tx.strob /\ r.ready /\ r.addr = 0 /\ Swapped
    BY <1>4 DEF Stepped, Timely, BuildsAdc
  <2>2. /\ tx'.state = "WRITE_ADC_DATA" /\ tx'.counter = 11 /\ tx'.strob = tx.strob
    BY <1>4, TxSteps DEF Regs
  <2>3. /\ r'.ready <=> N # 1
        /\ r'.ready => r'.addr = 1
        /\ r'.data = ram[N * (1 - w.index) + 0]
    <3>1. r'.data = ram[N * r.index + r.addr] /\ r.index = 1 - w.index
      BY <2>1, Reads DEF Swapped
    <3>2. (N = 1 <=> r.addr = N - 1) /\ r.addr + 1 = 1
      BY <1>1, <2>1
    <3>3. r.addr = N - 1 => r'.ready = FALSE
      BY <2>1, Reads
    <3>4. r.addr # N - 1 => r'.ready = r.ready /\ r'.addr = r.addr + 1
      BY <2>1, Reads
    <3>5. QED
      BY <2>1, <3>1, <3>2, <3>3, <3>4
  <2>4. r'.data = (FirstSample + (11 - 11)) % SAMPLES
    <3>1. Pending /\ 0 \in 0 .. N - 1 /\ 11 - 11 = 0
      BY <1>1, <2>1 DEF Pending
    <3>2. QED
      BY <2>3, <3>1 DEF Unsent
  <2>5. (N # 1 <=> 11 < N + 10) /\ 11 - 10 = 1
    BY <1>1
  <2>6. QED
    BY <1>1, <2>1, <2>2, <2>3, <2>4, <2>5 DEF Stepped
<1>5. CASE tx.state = "WRITE_ADC_DATA" /\ r.ready
  <2>1. tx.strob /\ r.addr = tx.counter - 10 /\ Swapped /\ tx.counter < N + 10
        /\ tx.counter >= 11
    BY <1>5 DEF Stepped, Timely, BuildsAdc, PastHeader, Counted
  <2>2. /\ tx'.state = "WRITE_ADC_DATA" /\ tx'.counter = tx.counter + 1
        /\ tx'.strob = (r.ready /\ tx.strob)
    BY <1>5, TxSteps DEF Regs
  <2>3. /\ r'.data = ram[N * (1 - w.index) + r.addr]
        /\ r.addr = N - 1 => r'.ready = FALSE
        /\ r.addr # N - 1 => r'.ready = r.ready /\ r'.addr = r.addr + 1
    BY <2>1, Reads DEF Swapped
  <2>4. r'.data = (FirstSample + (tx'.counter - 11)) % SAMPLES
    <3>1. Pending /\ tx'.counter - 11 = r.addr
      BY <1>1, <1>5, <2>1, <2>2 DEF Pending
    <3>2. QED
      BY <1>1, <2>3, <3>1 DEF Unsent
  <2>5. /\ r'.ready <=> tx'.counter < N + 10
        /\ r'.ready => r'.addr = tx'.counter - 10
    <3>1. r.addr = N - 1 <=> ~ (tx'.counter < N + 10)
      BY <1>1, <2>1, <2>2
    <3>2. r.addr + 1 = tx'.counter - 10
      BY <1>1, <2>1, <2>2
    <3>3. QED
      BY <1>5, <2>3, <3>1, <3>2
  <2>6. tx'.strob = TRUE
    BY <1>5, <2>1, <2>2
  <2>7. QED
    BY <1>1, <2>2, <2>4, <2>5, <2>6 DEF Stepped
<1>6. CASE tx.state = "WRITE_ADC_DATA" /\ ~ r.ready
  <2>1. tx.strob /\ Swapped
    BY <1>6 DEF Stepped, Timely, BuildsAdc, PastHeader
  <2>2. tx'.state = "ENQUE_DATA" /\ ~ tx'.strob
    <3>1. tx'.state = (IF r.ready THEN "WRITE_ADC_DATA" ELSE "ENQUE_DATA")
          /\ tx'.strob = (r.ready /\ tx.strob)
      BY <1>6, TxSteps DEF Regs
    <3>2. QED
      BY <1>6, <3>1
  <2>3. ~ r'.ready
    BY <1>1, <1>6, <2>1, Reads
  <2>4. QED
    BY <2>2, <2>3 DEF Stepped
<1>7. tx.state = "WRITE_ADC_HEADER" => tx.counter < 10 \/ tx.counter = 10
  BY <1>1 DEF Counted
<1>8. QED
  BY <1>1, <1>2, <1>3, <1>4, <1>5, <1>6, <1>7 DEF TxStates

LEMMA NumberedKept ==
    ASSUME StreamTyped, Piped, Counted, AdcWords, ClkEdge, ~ rst, Stepped, Numbered,
           ~ (AdcEnded /\ tx.pf_enq), next' = next
    PROVE  Numbered'
<1>1. /\ tx.state \in TxStates /\ tx.counter \in Nat /\ tx.pf_enq \in BOOLEAN
      /\ N \in Nat \ {0} /\ FirstSample' = FirstSample /\ tx.udp_counter \in Nat
  BY StreamConstants, SameNumbers DEF StreamTyped, TxRegs
<1>2. /\ PastHeader' <=> PastHeader \/ (tx.state = "WRITE_ADC_HEADER" /\ tx.counter = 10)
      /\ ~ PastHeader' => tx'.udp_counter = tx.udp_counter
  BY BuildsStep
<1>3. CASE ~ PastHeader'
  <2>1. ~ PastHeader /\ ~ AdcEnded'
    BY <1>2, <1>3 DEF PastHeader
  <2>2. QED
    BY <1>2, <1>3, <2>1 DEF Numbered
<1>4. CASE ~ PastHeader /\ PastHeader'
  <2>1. tx.state = "WRITE_ADC_HEADER" /\ tx.counter = 10
    BY <1>2, <1>4
  <2>2. Words = 10 /\ Words' = 11 /\ WordAt(0)' = WordAt(0)
    BY <2>1, WordsKept DEF Writing
  <2>3. WordAt(0) = HeaderWord(0, tx.udp_counter)
    BY <2>1, <2>2 DEF AdcWords, HeaderWords
  <2>4. WordAt(0)[3] = next.udp
    BY <1>1, <1>4, <2>3, WordsOK DEF Numbered
  <2>5. ~ AdcEnded'
    BY <2>1, EndsAfter DEF AdcEnded
  <2>6. QED
    BY <1>1, <1>4, <2>2, <2>4, <2>5 DEF Numbered
<1>5. CASE PastHeader
  <2>1. PastHeader' /\ tx.state \in {"WRITE_ADC_DATA", "ENQUE_DATA"}
    <3>1. tx.pf_enq \/ tx.state \in {"WRITE_ADC_DATA", "ENQUE_DATA"}
      BY <1>5 DEF PastHeader, AdcEnded, Ended
    <3>2. tx.pf_enq => tx.state = "TX_IDLE"
      BY DEF Piped
    <3>3. QED
      BY <1>2, <1>5, <3>1, <3>2 DEF PastHeader
  <2>2. /\ \A i \in Nat : i < tx.counter => WordAt(i)' = WordAt(i)
        /\ tx.state # "ENQUE_DATA" => \A i \in Nat : i = tx.counter => WordAt(i)' = tx'.wdt
        /\ Words = tx.counter
        /\ Words' = tx.counter + (IF tx.state = "ENQUE_DATA" THEN 0 ELSE 1)
    BY <2>1, WordsKept DEF Writing
  <2>3. Words >= 11
    BY <1>1, <1>5, <2>2 DEF Counted, PastHeader
  <2>4. WordAt(0)' = WordAt(0)
    <3>1. 0 \in Nat /\ 0 < tx.counter
      BY <1>1, <2>2, <2>3
    <3>2. QED
      BY <2>2, <3>1
  <2>5. WordAt(0)'[3] = next.udp
    BY <1>5, <2>4 DEF Numbered
  <2>6. ASSUME NEW i \in 11 .. N + 10, i < Words'
        PROVE  WordAt(i)' = SampleWord(i, (FirstSample + (i - 11)) % SAMPLES)
    <3>1. CASE i < tx.counter
      <4>1. WordAt(i) = SampleWord(i, (FirstSample + (i - 11)) % SAMPLES)
        BY <1>5, <2>2, <2>6, <3>1 DEF Numbered
      <4>2. QED
        BY <1>1, <2>2, <3>1, <4>1
    <3>2. CASE i = tx.counter /\ tx.state = "WRITE_ADC_DATA"
      <4>1. r.data = (FirstSample + (i - 11)) % SAMPLES
        BY <3>2 DEF Stepped
      <4>2. tx'.wdt = SampleWord(tx.counter, r.data)
        BY <3>2, TxSteps DEF Regs
      <4>3. WordAt(i)' = tx'.wdt
        BY <1>1, <2>2, <3>2
      <4>4. QED
        BY <3>2, <4>1, <4>2, <4>3
    <3>3. QED
      BY <1>1, <2>1, <2>2, <2>6, <3>1, <3>2
  <2>7. AdcEnded' => Words' = N + 11
    <3>1. CASE tx.state = "ENQUE_DATA"
      <4>1. (AdcEnded' <=> AdcEnded) /\ Words' = Words
        BY <3>1, EndsAfter
      <4>2. QED
        BY <4>1 DEF Numbered
    <3>2. CASE tx.state = "WRITE_ADC_DATA" /\ r.ready
      BY <3>2, EndsAfter DEF AdcEnded
    <3>3. CASE tx.state = "WRITE_ADC_DATA" /\ ~ r.ready
      <4>1. tx.counter = N + 10
        BY <1>1, <3>3 DEF Stepped, Counted
      <4>2. QED
        BY <1>1, <2>2, <3>3, <4>1
    <3>4. QED
      BY <2>1, <3>1, <3>2, <3>3
  <2>8. QED
    BY <1>1, <2>1, <2>5, <2>6, <2>7 DEF Numbered
<1>6. QED
  BY <1>3, <1>4, <1>5

LEMMA InStreamKept ==
    ASSUME StreamTyped, Piped, Counted, ReplyWords, AdcWords, Timely, InStream, ClkEdge, ~ rst
    PROVE  InStream'
<1>1. CASE AdcEnded /\ tx.pf_enq
  BY <1>1, FrameDone
<1>2. CASE ~ (AdcEnded /\ tx.pf_enq)
  <2>1. next' = next
    BY <1>2, NextStep
  <2>2. SUFFICES ASSUME next.phase # "reset"
                 PROVE  Unsent' /\ Stepped' /\ Numbered' /\ Continuing'
    BY <2>1 DEF InStream
  <2>3. Unsent /\ Stepped /\ Numbered /\ Continuing
    BY <2>2 DEF InStream
  <2>4. Pending' <=> Pending
    BY <1>2, <2>3, PendingStep
  <2>5. Base' = Base /\ FirstSample' = FirstSample /\ w' = w /\ ram' = ram
    BY SameNumbers
  <2>6. Unsent'
    BY <2>3, <2>4, <2>5 DEF Unsent
  <2>7. Stepped'
    BY <1>2, <2>3, SteppedKept
  <2>8. Numbered'
    BY <1>2, <2>1, <2>3, NumberedKept
  <2>9. Continuing'
    BY <2>1, <2>3, <2>4, <2>5 DEF Continuing
  <2>10. QED
    BY <2>6, <2>7, <2>8, <2>9
<1>3. QED
  BY <1>1, <1>2

\* Edges of the sample clock go on filling the half, and hand it over when it is full.
LEMMA FilledKept ==
    ASSUME StreamTyped, Filled, SampleEdge, ~ rst
    PROVE  Filled'
<1>1. /\ n \in Sample /\ n \in Int /\ w.index \in 0 .. 1 /\ w.addr \in 0 .. N - 1
      /\ w.addr \in Int /\ N \in Nat \ {0} /\ SAMPLES \in Nat \ {0} /\ Sample = 0 .. SAMPLES - 1
  BY StreamConstants DEF StreamTyped, WriteRegs
<1>2. CASE w.addr = N - 1
  <2>1. w'.addr = 0
    BY <1>2, Sampled
  <2>2. QED
    BY <2>1 DEF Filled
<1>3. CASE w.addr # N - 1
  <2>1. w'.index = w.index /\ w'.addr = w.addr + 1 /\ n' = (n + 1) % SAMPLES
    BY <1>3, Sampled
  <2>2. Base' = Base
    <3>1. (((n + 1) % SAMPLES) - (w.addr + 1)) % SAMPLES = (n - w.addr) % SAMPLES
      BY <1>1, Numbers
    <3>2. QED
      BY <2>1, <3>1 DEF Base
  <2>3. (Base + w.addr) % SAMPLES = n
    <3>1. (Base + w.addr) % SAMPLES = n % SAMPLES
      BY <1>1, Numbers DEF Base
    <3>2. n % SAMPLES = n
      BY <1>1, ModSmall
    <3>3. QED
      BY <3>1, <3>2
  <2>4. ASSUME NEW i \in 0 .. N - 1, i < w.addr + 1
        PROVE  ram'[N * w.index + i] = (Base + i) % SAMPLES
    <3>1. N * w.index + i \in 0 .. 2 * N - 1
      BY <1>1, Cells
    <3>2. ram'[N * w.index + i] = IF N * w.index + i = N * w.index + w.addr THEN n
                                  ELSE ram[N * w.index + i]
      BY <3>1, Sampled
    <3>3. N * w.index \in Int
      BY <1>1
    <3>4. CASE i = w.addr
      BY <2>3, <3>2, <3>4
    <3>5. CASE i < w.addr
      <4>1. N * w.index + i # N * w.index + w.addr
        BY <1>1, <3>3, <3>5
      <4>2. ram[N * w.index + i] = (Base + i) % SAMPLES
        BY <3>5 DEF Filled
      <4>3. QED
        BY <3>2, <4>1, <4>2
    <3>6. QED
      BY <1>1, <2>4, <3>4, <3>5
  <2>5. QED
    BY <2>1, <2>2, <2>4 DEF Filled
<1>4. QED
  BY <1>2, <1>3

\* What does not change where the transmitter does not move.
LEMMA Still ==
    ASSUME UNCHANGED <<r, tx, ram1, memory>>
    PROVE  /\ Ended' = Ended /\ LastWord' = LastWord /\ Words' = Words /\ Pos' = Pos
           /\ \A i : WordAt(i)' = WordAt(i)
           /\ Late' = Late
           /\ AdcEnded' = AdcEnded /\ ReplyEnded' = ReplyEnded
           /\ PastHeader' = PastHeader /\ BuildsAdc' = BuildsAdc
           /\ PastRequest' = PastRequest /\ BuildsReply' = BuildsReply
           /\ Piped => Piped'
           /\ Counted => Counted'
           /\ ReplyWords => ReplyWords'
           /\ AdcWords => AdcWords'
<1>1. /\ Ended' = Ended /\ LastWord' = LastWord /\ Words' = Words /\ Pos' = Pos /\ Late' = Late
  BY DEF Ended, LastWord, Words, Pos, Late
<1>2. \A i : WordAt(i)' = WordAt(i)
  BY <1>1 DEF WordAt
<1>3. AdcEnded' = AdcEnded /\ ReplyEnded' = ReplyEnded
  BY <1>1 DEF AdcEnded, ReplyEnded
<1>4. PastHeader' = PastHeader /\ PastRequest' = PastRequest
  BY <1>3 DEF PastHeader, PastRequest
<1>5. BuildsAdc' = BuildsAdc /\ BuildsReply' = BuildsReply
  BY <1>4 DEF BuildsAdc, BuildsReply
<1>6. Piped => Piped'
  BY DEF Piped
<1>7. Counted => Counted'
  BY <1>1, <1>3, <1>4 DEF Counted
<1>8. ReplyWords => ReplyWords'
  BY <1>1, <1>2, <1>4 DEF ReplyWords
<1>9. \A u : HeaderWords(u)' = HeaderWords(u)
  BY <1>1, <1>2 DEF HeaderWords
<1>10. AdcWords => AdcWords'
  BY <1>1, <1>2, <1>4, <1>9 DEF AdcWords
<1>11. QED
  BY <1>1, <1>2, <1>3, <1>4, <1>5, <1>6, <1>7, <1>8, <1>10

LEMMA SampleInStream ==
    ASSUME StreamTyped, Piped, Counted, Timely, Filled, InStream, SampleEdge, ~ rst
    PROVE  InStream'
<1>1. /\ n \in Sample /\ n \in Int /\ w.index \in 0 .. 1 /\ w.addr \in 0 .. N - 1
      /\ w.addr \in Int /\ N \in Nat \ {0} /\ SAMPLES \in Nat \ {0} /\ Sample = 0 .. SAMPLES - 1
  BY StreamConstants DEF StreamTyped, WriteRegs
<1>2. /\ UNCHANGED <<r, tx, ram1, memory>> /\ next' = next
      /\ n' = (n + 1) % SAMPLES
  BY Sampled DEF SampleEdge
<1>3. SUFFICES ASSUME Unsent, Stepped, Numbered, Continuing
               PROVE  Unsent' /\ Stepped' /\ Numbered' /\ Continuing'
  BY <1>2 DEF InStream
<1>4. CASE w.addr # N - 1
  <2>1. w'.index = w.index /\ w'.addr = w.addr + 1
    BY <1>4, Sampled
  <2>2. Base' = Base /\ FirstSample' = FirstSample
    <3>1. /\ (((n + 1) % SAMPLES) - (w.addr + 1)) % SAMPLES = (n - w.addr) % SAMPLES
          /\ (((n + 1) % SAMPLES) - (w.addr + 1) - N) % SAMPLES = (n - w.addr - N) % SAMPLES
      BY <1>1, Numbers
    <3>2. QED
      BY <1>2, <2>1, <3>1 DEF Base, FirstSample
  <2>3. Pending' <=> Pending
    BY <1>2, <2>1, Still DEF Pending, Swapped
  <2>4. \A i \in 0 .. N - 1 : ram'[N * (1 - w.index) + i] = ram[N * (1 - w.index) + i]
    <3>1. TAKE i \in 0 .. N - 1
    <3>2. 1 - w.index \in 0 .. 1
      BY <1>1
    <3>3. N * (1 - w.index) + i \in 0 .. 2 * N - 1
          /\ N * (1 - w.index) + i # N * w.index + w.addr
      BY <1>1, <3>2, Cells
    <3>4. QED
      BY <3>3, Sampled
  <2>5. Unsent'
    BY <1>3, <2>1, <2>2, <2>3, <2>4 DEF Unsent
  <2>6. Stepped'
    BY <1>2, <1>3, <2>2 DEF Stepped
  <2>7. Numbered'
    BY <1>2, <1>3, <2>2, Still DEF Numbered
  <2>8. Continuing'
    BY <1>2, <1>3, <2>2, <2>3 DEF Continuing
  <2>9. QED
    BY <2>5, <2>6, <2>7, <2>8
<1>5. CASE w.addr = N - 1
  <2>1. w'.index = 1 - w.index /\ w'.addr = 0
    BY <1>5, Sampled
  <2>2. Swapped /\ ~ r.ready /\ ~ BuildsAdc
    BY <1>5, NothingLeft
  <2>3. ~ Pending
    BY <2>2 DEF Pending
  <2>4. FirstSample' = Base
    BY <1>1, <1>2, <1>5, <2>1, Numbers DEF Base, FirstSample
  <2>5. Pending'
    BY <1>1, <1>2, <2>1, <2>2 DEF Pending, Swapped
  <2>6. ~ PastHeader /\ ~ AdcEnded
    BY <2>2 DEF BuildsAdc, PastHeader
  <2>7. Unsent'
    <3>1. ASSUME NEW i \in 0 .. N - 1
          PROVE  ram'[N * w.index + i] = (Base + i) % SAMPLES
      <4>1. N * w.index + i \in 0 .. 2 * N - 1
        BY <1>1, Cells
      <4>2. ram'[N * w.index + i] = IF N * w.index + i = N * w.index + w.addr THEN n
                                    ELSE ram[N * w.index + i]
        BY <4>1, Sampled
      <4>3. N * w.index \in Int
        BY <1>1
      <4>4. CASE i = w.addr
        <5>1. (Base + w.addr) % SAMPLES = n % SAMPLES
          BY <1>1, Numbers DEF Base
        <5>2. n % SAMPLES = n
          BY <1>1, ModSmall
        <5>3. QED
          BY <4>2, <4>4, <5>1, <5>2
      <4>5. CASE i # w.addr
        <5>1. N * w.index + i # N * w.index + w.addr /\ i < w.addr
          BY <1>1, <1>5, <4>3, <4>5
        <5>2. ram[N * w.index + i] = (Base + i) % SAMPLES
          BY <5>1 DEF Filled
        <5>3. QED
          BY <4>2, <5>1, <5>2
      <4>6. QED
        BY <4>4, <4>5
    <3>2. 1 - w'.index = w.index
      BY <1>1, <2>1
    <3>3. QED
      BY <2>4, <3>1, <3>2 DEF Unsent
  <2>8. Stepped'
    BY <1>2, <1>3, <2>2 DEF Stepped, BuildsAdc, PastHeader
  <2>9. Numbered'
    BY <1>2, <1>3, <2>6, Still DEF Numbered
  <2>10. Continuing'
    BY <1>2, <1>3, <2>3, <2>4, <2>5 DEF Continuing
  <2>11. QED
    BY <2>7, <2>8, <2>9, <2>10
<1>6. QED
  BY <1>4, <1>5

LEMMA SampleKeeps == StreamInv /\ SampleEdge => StreamInv'
<1> SUFFICES ASSUME StreamInv, SampleEdge PROVE StreamInv'
  OBVIOUS
<1>1. /\ StreamTyped /\ Piped /\ Counted /\ ResetOK /\ Timely /\ Answered
      /\ ReplyWords /\ AdcWords /\ Filled /\ InStream
  BY DEF StreamInv
<1>2. /\ UNCHANGED <<r, tx, ram1, memory, link, pulse, fresh, calm, queue, asked, next, request,
                     rst>>
      /\ quiet' = 0 /\ pressed' = [pressed EXCEPT !.signal = rst]
      /\ n' = (n + 1) % SAMPLES
  BY DEF SampleEdge
<1>3. Piped' /\ Counted' /\ ReplyWords' /\ AdcWords'
  BY <1>1, <1>2, Still
<1>4. Answered'
  BY <1>1, <1>2, Still DEF Answered
<1>5. pressed' \in [times : Nat, clk : BOOLEAN, signal : BOOLEAN] /\ pressed'.clk = pressed.clk
      /\ pressed'.signal = rst /\ rst \in BOOLEAN
  BY <1>1, <1>2 DEF StreamTyped
<1>6. quiet' \in 0 .. PACE
  BY <1>2, StreamConstants
<1>7. CASE ~ rst
  <2>1. w' \in WriteRegs /\ ram' \in [0 .. 2 * N - 1 -> Sample] /\ n' \in Sample
    BY <1>1, <1>7, Sampled
  <2>2. StreamTyped'
    BY <1>1, <1>2, <1>5, <1>6, <2>1 DEF StreamTyped
  <2>3. ResetOK'
    BY <1>2, <1>7 DEF ResetOK
  <2>4. Timely' /\ Filled' /\ InStream'
    BY <1>1, <1>7, SampleTimely, FilledKept, SampleInStream
  <2>5. QED
    BY <1>3, <1>4, <2>2, <2>3, <2>4 DEF StreamInv
<1>8. CASE rst
  <2>1. w' = WriteReset /\ ram' = ram
    BY <1>8 DEF SampleEdge, WriteStep, RamStep
  <2>2. WriteReset \in WriteRegs /\ WriteReset.addr = 0
    BY StreamConstants DEF WriteReset, WriteRegs
  <2>3. n' \in Sample
    <3>1. n + 1 \in Int
      BY <1>1, StreamConstants DEF StreamTyped
    <3>2. QED
      BY <1>2, <3>1, Division, StreamConstants
  <2>4. StreamTyped'
    BY <1>1, <1>2, <1>5, <1>6, <2>1, <2>2, <2>3 DEF StreamTyped
  <2>5. ResetOK' /\ next'.phase = "reset"
    BY <1>1, <1>2, <1>5, <1>8, <2>1 DEF ResetOK
  <2>6. Timely'
    BY <1>2, <1>8 DEF Timely
  <2>7. Filled'
    BY <2>1, <2>2 DEF Filled
  <2>8. InStream'
    BY <2>5 DEF InStream
  <2>9. QED
    BY <1>3, <1>4, <2>4, <2>5, <2>6, <2>7, <2>8 DEF StreamInv
<1>9. QED
  BY <1>7, <1>8
----------------------------------------------------------------------------
(* The other actions                                                        *)

LEMMA ClkKeeps == StreamInv /\ ClkEdge /\ ~ rst => StreamInv'
<1> SUFFICES ASSUME StreamInv, ClkEdge, ~ rst PROVE StreamInv'
  OBVIOUS
<1>1. /\ StreamTyped /\ Piped /\ Counted /\ ResetOK /\ Timely /\ Answered
      /\ ReplyWords /\ AdcWords /\ Filled /\ InStream
  BY DEF StreamInv
<1>2. rst' = rst /\ w' = w /\ ram' = ram /\ Base' = Base
  BY <1>1, SameNumbers
<1>3. StreamTyped' /\ Piped' /\ Counted' /\ Timely' /\ Answered'
  BY <1>1, TypedKept, PipedKept, CountedKept, TimelyKept, AnsweredKept
<1>4. ReplyWords' /\ AdcWords' /\ InStream'
  BY <1>1, ReplyWordsKept, AdcWordsKept, InStreamKept
<1>5. ResetOK'
  BY <1>2 DEF ResetOK
<1>6. Filled'
  BY <1>1, <1>2 DEF Filled
<1>7. QED
  BY <1>3, <1>4, <1>5, <1>6 DEF StreamInv

LEMMA ClkResets == StreamInv /\ ClkEdge /\ rst => StreamInv'
<1> SUFFICES ASSUME StreamInv, ClkEdge, rst PROVE StreamInv'
  OBVIOUS
<1>1. /\ StreamTyped /\ Piped /\ Counted /\ ResetOK /\ Timely /\ Answered
      /\ ReplyWords /\ AdcWords /\ Filled /\ InStream
  BY DEF StreamInv
<1>2. rst' = rst /\ w' = w /\ ram' = ram /\ Base' = Base
  BY <1>1, SameNumbers
<1>3. StreamTyped'
  BY <1>1, TypedKept
<1>4. /\ tx'.state = "TX_IDLE" /\ ~ tx'.pf_enq /\ ~ tx'.reply_ready /\ ~ tx'.wstrobe
      /\ r'.index = 1 /\ r'.addr = 0
  BY <1>1, TxSteps, Reads DEF Regs
<1>5. asked' = << >> /\ ~ fresh' /\ next' = next
  BY <1>1, NextStep DEF ClkEdge, Asked
<1>6. next.phase = "reset" /\ pulse = 0
  BY <1>1 DEF ResetOK
<1>7. pulse' = 0
  BY <1>6 DEF ClkEdge
<1>8. pressed'.signal = pressed.signal
  BY <1>1, Clocks
<1>9. ~ Ended' /\ ~ AdcEnded' /\ ~ ReplyEnded'
  BY <1>4 DEF Ended, AdcEnded, ReplyEnded
<1>10. ~ PastHeader' /\ ~ PastRequest'
  BY <1>4, <1>9 DEF PastHeader, PastRequest
<1>11. ~ BuildsReply'
  BY <1>4, <1>10 DEF BuildsReply
<1>12. Piped'
  BY <1>4 DEF Piped, Writing
<1>13. Counted'
  BY <1>4, <1>9, <1>10 DEF Counted
<1>14. ResetOK'
  BY <1>1, <1>2, <1>4, <1>5, <1>6, <1>7, <1>8 DEF ResetOK
<1>15. Timely'
  BY <1>2 DEF Timely
<1>16. Answered'
  BY <1>4, <1>5, <1>7, <1>10, <1>11 DEF Answered
<1>17. ReplyWords' /\ AdcWords'
  BY <1>4, <1>10 DEF ReplyWords, AdcWords
<1>18. Filled' /\ InStream'
  BY <1>1, <1>2, <1>5, <1>6 DEF Filled, InStream
<1>19. QED
  BY <1>3, <1>12, <1>13, <1>14, <1>15, <1>16, <1>17, <1>18 DEF StreamInv

\* When a request can come, the one before it has long been answered.
LEMMA Calm ==
    ASSUME StreamTyped, Piped, Counted, Answered, calm = SPACING
    PROVE  /\ ~ tx.reply_ready /\ tx.state # "PREPARE_REPLY_DATA" /\ asked = << >>
           /\ BuildsReply => tx.pf_enq
<1>1. /\ tx.state \in TxStates /\ tx.counter \in Nat /\ tx.pf_enq \in BOOLEAN
      /\ tx.reply_ready \in BOOLEAN /\ tx.len \in Nat /\ N \in Nat \ {0}
      /\ SPACING \in Nat /\ SPACING >= N + 36 /\ calm = SPACING
  BY BuildTiming, StreamConstants DEF StreamTyped, TxRegs
<1>2. tx.state # "PREPARE_REPLY_DATA"
  BY <1>1 DEF Answered
<1>3. tx.state \in Writing => tx.counter <= N + 11 \/ tx.counter <= 19
  <2>1. ASSUME tx.state = "ENQUE_DATA" PROVE tx.counter <= N + 11 \/ tx.counter <= 19
    <3>1. ~ tx.pf_enq
      BY <2>1 DEF Piped
    <3>2. Words = tx.counter /\ (AdcEnded \/ ReplyEnded)
      BY <2>1, <3>1 DEF Words, AdcEnded, ReplyEnded, Ended
    <3>3. QED
      BY <1>1, <3>2 DEF Counted, LastReplyWord
  <2>2. ASSUME tx.state \in Writing, tx.state # "ENQUE_DATA"
        PROVE  tx.counter <= N + 11 \/ tx.counter <= 19
    BY <1>1, <2>2 DEF Counted, Writing, LastReplyWord
  <2>3. QED
    BY <2>1, <2>2
<1>4. ~ tx.reply_ready
  <2>1. SUFFICES ASSUME tx.reply_ready PROVE FALSE
    BY <1>1
  <2>2. CASE tx.state \in Writing
    BY <1>1, <1>3, <2>1, <2>2 DEF Answered
  <2>3. CASE tx.state = "PREPARE_ADC_DATA"
    BY <1>1, <2>1, <2>3 DEF Answered
  <2>4. CASE tx.state = "TX_IDLE"
    BY <1>1, <2>1, <2>4 DEF Answered
  <2>5. QED
    BY <1>1, <1>2, <2>2, <2>3, <2>4 DEF TxStates, Writing
<1>5. asked = << >>
  BY <1>2, <1>4 DEF Answered
<1>6. BuildsReply => tx.pf_enq
  <2>1. SUFFICES ASSUME BuildsReply, ~ tx.pf_enq PROVE FALSE
    BY <1>1
  <2>2. PastRequest
    BY <1>2, <2>1 DEF BuildsReply
  <2>3. Words = tx.counter /\ Late = 0
    BY <2>1 DEF Words, Late
  <2>4. tx.counter <= 19
    BY <1>1, <2>2, <2>3 DEF Counted, PastRequest, LastReplyWord
  <2>5. calm <= N + 16 + Words + Late
    BY <2>2 DEF Answered
  <2>6. QED
    BY <1>1, <2>3, <2>4, <2>5
<1>7. QED
  BY <1>2, <1>4, <1>5, <1>6

LEMMA RequestKeeps == StreamInv /\ Request => StreamInv'
<1> SUFFICES ASSUME StreamInv, Request PROVE StreamInv'
  OBVIOUS
<1>1. /\ StreamTyped /\ Piped /\ Counted /\ ResetOK /\ Timely /\ Answered
      /\ ReplyWords /\ AdcWords /\ Filled /\ InStream
  BY DEF StreamInv
<1>2. /\ UNCHANGED <<w, ram, n, r, tx, ram1, memory, link, queue, asked, next, rst, pressed,
                     quiet>>
      /\ ~ rst /\ calm = SPACING /\ pulse' \in WIDTHS /\ fresh' = TRUE /\ calm' = 0
  BY DEF Request, bufferVars
<1>3. PICK type \in {"ARP", "ICMP_ECHO"} :
        request' = [request EXCEPT !.type = type, !.last = 3 - request.last,
                      ![IF type = "ARP" THEN "arp" ELSE "icmp"] = 3 - request.last]
  BY DEF Request
<1> DEFINE k == 3 - request.last
           q == [request EXCEPT !.type = type, !.last = k]
<1>4. k \in 1 .. 2 /\ k \in 0 .. 2
  BY <1>1 DEF StreamTyped
<1>5. request' = [q EXCEPT ![IF type = "ARP" THEN "arp" ELSE "icmp"] = k]
  BY <1>3
<1> HIDE DEF k
<1>6. /\ q \in [type : Kinds, arp : 0 .. 2, icmp : 0 .. 2, last : 1 .. 2] /\ q.type = type
  BY <1>1, <1>4 DEF StreamTyped, Kinds
<1> HIDE DEF q
<1>7. /\ request' \in [type : Kinds, arp : 0 .. 2, icmp : 0 .. 2, last : 1 .. 2]
      /\ request'.type = type
  <2>1. CASE type = "ARP"
    BY <1>4, <1>5, <1>6, <2>1
  <2>2. CASE type # "ARP"
    BY <1>4, <1>5, <1>6, <2>2
  <2>3. QED
    BY <2>1, <2>2
<1>8. pulse' \in 0 .. 2 /\ calm' \in 0 .. SPACING
  BY <1>2, StreamAssumption, StreamConstants
<1>9. StreamTyped'
  BY <1>1, <1>2, <1>7, <1>8 DEF StreamTyped
<1>10. Piped' /\ Counted' /\ ReplyWords' /\ AdcWords'
  BY <1>1, <1>2, Still
<1>11. ResetOK'
  BY <1>2 DEF ResetOK
<1>12. Since' = Since
  BY <1>2 DEF Since
<1>13. Timely'
  BY <1>1, <1>2, <1>12, Still DEF Timely, Swapped
<1>14. Answered'
  <2>1. /\ ~ tx.reply_ready /\ tx.state # "PREPARE_REPLY_DATA" /\ asked = << >>
        /\ BuildsReply => tx.pf_enq
    BY <1>1, <1>2, Calm
  <2>2. ASSUME PastRequest' PROVE calm' <= N + 16 + Words' + Late'
    <3>1. Words \in Nat /\ Late \in Nat /\ N \in Nat
      BY <1>1, StreamConstants DEF Words, Late, StreamTyped, TxRegs
    <3>2. 0 <= N + 16 + Words + Late
      BY <3>1
    <3>3. Words' = Words /\ Late' = Late /\ calm' = 0
      BY <1>2, Still
    <3>4. QED
      BY <3>2, <3>3
  <2>3. /\ request'.type # "none"
        /\ BuildsReply' <=> BuildsReply
    BY <1>2, <1>7, Still
  <2>4. QED
    BY <1>2, <2>1, <2>2, <2>3 DEF Answered
<1>15. Filled'
  BY <1>1, <1>2 DEF Filled, Base
<1>16. InStream'
  <2>1. Base' = Base /\ FirstSample' = FirstSample
    BY <1>2 DEF Base, FirstSample
  <2>2. Pending' <=> Pending
    BY <1>2, Still DEF Pending, Swapped
  <2>3. ASSUME Unsent PROVE Unsent'
    BY <1>2, <2>1, <2>2, <2>3 DEF Unsent
  <2>4. ASSUME Stepped PROVE Stepped'
    BY <1>2, <2>1, <2>4 DEF Stepped
  <2>5. ASSUME Numbered PROVE Numbered'
    BY <1>2, <2>1, <2>5, Still DEF Numbered
  <2>6. ASSUME Continuing PROVE Continuing'
    BY <1>2, <2>1, <2>2, <2>6 DEF Continuing
  <2>7. QED
    BY <1>1, <1>2, <2>3, <2>4, <2>5, <2>6 DEF InStream
<1>17. QED
  BY <1>9, <1>10, <1>11, <1>13, <1>14, <1>15, <1>16 DEF StreamInv

LEMMA PressKeeps == StreamInv /\ Press => StreamInv'
<1> SUFFICES ASSUME StreamInv, Press PROVE StreamInv'
  OBVIOUS
<1>1. /\ StreamTyped /\ Piped /\ Counted /\ ResetOK /\ Timely /\ Answered
      /\ ReplyWords /\ AdcWords /\ Filled /\ InStream
  BY DEF StreamInv
<1>2. /\ UNCHANGED <<w, ram, n, r, tx, ram1, memory, link, fresh, calm, queue, asked, request,
                     quiet>>
      /\ rst' = TRUE /\ pulse' = 0
      /\ pressed' = [times |-> pressed.times + 1, clk |-> FALSE, signal |-> FALSE]
      /\ next' = [next EXCEPT !.phase = "reset"]
  BY DEF Press, bufferVars
<1>3. /\ next' \in [sample : Sample, udp : 0 .. UDP_MOD - 1,
                    phase : {"stream", "reset", "restart"}]
      /\ next'.phase = "reset"
  BY <1>1, <1>2 DEF StreamTyped
<1>4. StreamTyped'
  BY <1>1, <1>2, <1>3 DEF StreamTyped
<1>5. Piped' /\ Counted' /\ ReplyWords' /\ AdcWords'
  BY <1>1, <1>2, Still
<1>6. ResetOK' /\ Timely' /\ InStream'
  BY <1>2, <1>3 DEF ResetOK, Timely, InStream
<1>7. Answered'
  BY <1>1, <1>2, Still DEF Answered
<1>8. Filled'
  BY <1>1, <1>2 DEF Filled, Base
<1>9. QED
  BY <1>4, <1>5, <1>6, <1>7, <1>8 DEF StreamInv

LEMMA ReleaseKeeps == StreamInv /\ Release => StreamInv'
<1> SUFFICES ASSUME StreamInv, Release PROVE StreamInv'
  OBVIOUS
<1>1. /\ StreamTyped /\ Piped /\ Counted /\ ResetOK /\ Timely /\ Answered
      /\ ReplyWords /\ AdcWords /\ Filled /\ InStream
  BY DEF StreamInv
<1>2. /\ UNCHANGED <<w, ram, n, r, tx, ram1, memory, link, pulse, fresh, calm, queue, asked,
                     request, quiet, next, pressed>>
      /\ rst' = FALSE
  BY DEF Release, bufferVars, txVars
<1>3. /\ next.phase = "reset" /\ tx.state = "TX_IDLE" /\ ~ tx.pf_enq /\ ~ tx.reply_ready
      /\ r.index = 1 /\ w = WriteReset
  BY <1>1 DEF Release, ResetOK
<1>4. StreamTyped'
  BY <1>1, <1>2 DEF StreamTyped
<1>5. Piped' /\ Counted' /\ ReplyWords' /\ AdcWords'
  BY <1>1, <1>2, Still
<1>6. ~ AdcEnded /\ ~ PastHeader /\ ~ BuildsAdc /\ ~ BuildsReply
  BY <1>3 DEF AdcEnded, ReplyEnded, Ended, PastHeader, BuildsAdc, PastRequest, BuildsReply
<1>7. Swapped /\ Since <= PACE
  <2>1. w.index = 0 /\ w.addr = 0
    BY <1>3 DEF WriteReset
  <2>2. PACE * 0 + quiet <= PACE
    BY <1>1, StreamConstants DEF StreamTyped
  <2>3. QED
    BY <1>3, <2>1, <2>2 DEF Swapped, Since
<1>8. Timely'
  <2>1. Swapped' /\ Since' = Since
    BY <1>2, <1>7 DEF Swapped, Since
  <2>2. ~ AdcEnded' /\ ~ BuildsAdc' /\ ~ BuildsReply'
    BY <1>2, <1>6, Still
  <2>3. Since' \in Int /\ PACE \in Int
    BY <1>1, <2>1, SinceTyped, StreamConstants
  <2>4. tx'.state = "TX_IDLE" /\ ~ tx'.reply_ready
    BY <1>2, <1>3
  <2>5. Since' <= PACE + 22
    BY <1>7, <2>1, <2>3
  <2>6. QED
    BY <2>1, <2>2, <2>4, <2>5 DEF Timely
<1>9. ResetOK' /\ InStream'
  BY <1>2, <1>3 DEF ResetOK, InStream
<1>10. Answered'
  BY <1>1, <1>2, Still DEF Answered
<1>11. Filled'
  BY <1>1, <1>2 DEF Filled, Base
<1>12. QED
  BY <1>4, <1>5, <1>8, <1>9, <1>10, <1>11 DEF StreamInv

LEMMA StreamInit == Init => StreamInv
<1> SUFFICES ASSUME Init PROVE StreamInv
  OBVIOUS
<1>1. /\ w = WriteReset /\ r = ReadReset(0) /\ ram = [c \in 0 .. 2 * N - 1 |-> 0]
      /\ tx = TxPowerUp /\ ram1 = [addr |-> 0, wdt |-> NoWord, wstrobe |-> FALSE]
      /\ memory = [a \in Addr |-> NoWord]
      /\ request = NoRequest /\ pulse = 0 /\ fresh = FALSE
      /\ rst = FALSE /\ pressed = [times |-> 0, clk |-> FALSE, signal |-> FALSE]
      /\ n = 0 /\ quiet = 0 /\ calm = SPACING /\ asked = << >>
      /\ next = [sample |-> 0, udp |-> 0, phase |-> "stream"]
  BY DEF Init
<1>2. /\ N \in Nat \ {0} /\ SAMPLES \in Nat \ {0} /\ SAMPLES > 2 * N
      /\ Sample = 0 .. SAMPLES - 1 /\ 0 \in Sample /\ PACE \in Nat \ {0}
      /\ SPACING \in Nat \ {0} /\ UDP_MOD \in Nat \ {0}
  BY StreamConstants
<1>3. tx \in TxRegs
  BY <1>1, <1>2, ZeroAddr, WordsOK DEF TxPowerUp, TxRegs, TxStates, Reply, Kinds, NoReply
<1>4. w \in WriteRegs /\ r \in ReadRegs /\ ram \in [0 .. 2 * N - 1 -> Sample]
  BY <1>1, <1>2 DEF WriteReset, ReadReset, WriteRegs, ReadRegs
<1>5. ram1 \in [addr : Addr, wdt : Word, wstrobe : BOOLEAN] /\ memory \in [Addr -> Word]
  BY <1>1, ZeroAddr, WordsOK
<1>6. request \in [type : Kinds, arp : 0 .. 2, icmp : 0 .. 2, last : 1 .. 2]
  BY <1>1 DEF NoRequest, Kinds
<1>7. StreamTyped
  <2>1. pulse \in 0 .. 2 /\ n \in Sample
    BY <1>1, <1>2
  <2>7. fresh \in BOOLEAN /\ rst \in BOOLEAN
    BY <1>1, Zenon
  <2>6. pressed \in [times : Nat, clk : BOOLEAN, signal : BOOLEAN]
    <3>1. pressed = [times |-> 0, clk |-> FALSE, signal |-> FALSE]
      BY <1>1
    <3>2. QED
      BY <3>1
  <2>5. quiet \in 0 .. PACE /\ calm \in 0 .. SPACING
    BY <1>1, <1>2
  <2>2. 0 \in 0 .. UDP_MOD - 1
    BY <1>2
  <2>3. next \in [sample : Sample, udp : 0 .. UDP_MOD - 1,
                  phase : {"stream", "reset", "restart"}]
    BY <1>1, <1>2, <2>2
  <2>4. QED
    BY <1>3, <1>4, <1>5, <1>6, <2>1, <2>3, <2>5, <2>6, <2>7 DEF StreamTyped
<1>8. /\ tx.state = "TX_IDLE" /\ ~ tx.pf_enq /\ ~ tx.wstrobe /\ ~ tx.strob /\ ~ tx.reply_ready
      /\ tx.udp_counter = 0 /\ ~ r.ready /\ r.index = 1 /\ w.index = 0 /\ w.addr = 0
  BY <1>1 DEF TxPowerUp, ReadReset, WriteReset
<1>9. ~ Ended /\ ~ AdcEnded /\ ~ ReplyEnded /\ ~ PastHeader /\ ~ BuildsAdc /\ ~ PastRequest
      /\ ~ BuildsReply
  BY <1>8 DEF Ended, AdcEnded, ReplyEnded, PastHeader, BuildsAdc, PastRequest, BuildsReply
<1>10. Piped
  BY <1>8 DEF Piped, Writing
<1>11. Counted
  BY <1>8, <1>9 DEF Counted
<1>12. ResetOK
  BY <1>1 DEF ResetOK
<1>13. Swapped
  BY <1>8 DEF Swapped
<1>14. Timely
  BY <1>8, <1>9, <1>13 DEF Timely
<1>15. Answered
  BY <1>1, <1>8, <1>9 DEF Answered
<1>16. ReplyWords /\ AdcWords
  BY <1>8, <1>9 DEF ReplyWords, AdcWords
<1>17. Filled
  BY <1>8 DEF Filled
<1>18. InStream
  <2>1. ~ Pending
    BY <1>8, <1>9, <1>13 DEF Pending
  <2>2. Base = 0
    <3>1. n - w.addr = 0 /\ 0 \in 0 .. SAMPLES - 1
      BY <1>1, <1>2, <1>8
    <3>2. 0 % SAMPLES = 0
      BY <1>2, <3>1, ModSmall
    <3>3. QED
      BY <3>1, <3>2 DEF Base
  <2>3. Stepped /\ Unsent
    BY <1>8, <2>1 DEF Stepped, Unsent
  <2>4. Numbered
    BY <1>1, <1>8, <1>9 DEF Numbered
  <2>5. Continuing
    BY <1>1, <2>1, <2>2 DEF Continuing
  <2>6. QED
    BY <2>3, <2>4, <2>5 DEF InStream
<1>19. QED
  BY <1>7, <1>10, <1>11, <1>12, <1>14, <1>15, <1>16, <1>17, <1>18 DEF StreamInv

LEMMA StreamStutters == StreamInv /\ UNCHANGED vars => StreamInv'
<1> SUFFICES ASSUME StreamInv, UNCHANGED vars PROVE StreamInv'
  OBVIOUS
<1>1. /\ StreamTyped /\ Piped /\ Counted /\ ResetOK /\ Timely /\ Answered
      /\ ReplyWords /\ AdcWords /\ Filled /\ InStream
  BY DEF StreamInv
<1>2. UNCHANGED <<w, ram, n, r, tx, ram1, memory, link, pulse, fresh, calm, queue, asked, next,
                  request, rst, pressed, quiet>>
  BY DEF vars, bufferVars, txVars
<1>3. StreamTyped'
  BY <1>1, <1>2 DEF StreamTyped
<1>4. Piped' /\ Counted' /\ ReplyWords' /\ AdcWords'
  BY <1>1, <1>2, Still
<1>5. Since' = Since /\ (Swapped' <=> Swapped) /\ Base' = Base /\ FirstSample' = FirstSample
      /\ (Pending' <=> Pending)
  BY <1>2, Still DEF Since, Swapped, Base, FirstSample, Pending
<1>6. Timely' /\ ResetOK'
  BY <1>1, <1>2, <1>5, Still DEF Timely, ResetOK
<1>7. Answered' /\ Filled'
  BY <1>1, <1>2, <1>5, Still DEF Answered, Filled
<1>8. ASSUME Unsent, Stepped PROVE Unsent' /\ Stepped'
  BY <1>2, <1>5, <1>8 DEF Unsent, Stepped
<1>9. ASSUME Numbered, Continuing PROVE Numbered' /\ Continuing'
  BY <1>2, <1>5, <1>9, Still DEF Numbered, Continuing
<1>10. InStream'
  BY <1>1, <1>2, <1>8, <1>9 DEF InStream
<1>11. QED
  BY <1>3, <1>4, <1>6, <1>7, <1>10 DEF StreamInv

\* UDP_BUFFER, eth_tx_proc and the frame buffer stay in step: whatever the order of the two
\* clocks, of requests and of resets, the registers keep their ranges, a half is sent before
\* the next is full, and every word of the frame being built is where it belongs.
THEOREM StreamConsistent == Spec => []StreamInv
<1>1. Init => StreamInv
  BY StreamInit
<1>2. StreamInv /\ [Next]_vars => StreamInv'
  <2> SUFFICES ASSUME StreamInv, [Next]_vars PROVE StreamInv'
    OBVIOUS
  <2>1. CASE SampleEdge
    BY <2>1, SampleKeeps
  <2>2. CASE ClkEdge /\ ~ rst
    BY <2>2, ClkKeeps
  <2>3. CASE ClkEdge /\ rst
    BY <2>3, ClkResets
  <2>4. CASE Request
    BY <2>4, RequestKeeps
  <2>5. CASE Press
    BY <2>5, PressKeeps
  <2>6. CASE Release
    BY <2>6, ReleaseKeeps
  <2>7. CASE UNCHANGED vars
    BY <2>7, StreamStutters
  <2>8. QED
    BY <2>1, <2>2, <2>3, <2>4, <2>5, <2>6, <2>7 DEF Next
<1>3. QED
  BY <1>1, <1>2, PTL DEF Spec

\* A reply answers the oldest request there is, with what the receiver stored for it, and no
\* request waits behind another.
THEOREM RequestsAnswered == Spec => []AnswersWhatWasAsked
<1>1. StreamInv => AnswersWhatWasAsked
  <2> SUFFICES ASSUME StreamInv PROVE AnswersWhatWasAsked
    OBVIOUS
  <2>1. Answered
    BY DEF StreamInv
  <2>2. CASE tx.reply_ready \/ tx.state = "PREPARE_REPLY_DATA"
    <3>1. asked = <<ReplyTo(request)>>
      BY <2>1, <2>2 DEF Answered
    <3>2. Len(asked) = 1 /\ asked # << >> /\ Head(asked) = ReplyTo(request)
      BY <3>1
    <3>3. QED
      BY <3>2 DEF AnswersWhatWasAsked
  <2>3. CASE ~ (tx.reply_ready \/ tx.state = "PREPARE_REPLY_DATA")
    <3>1. Len(asked) = 0
      BY <2>1, <2>3 DEF Answered
    <3>2. QED
      BY <2>3, <3>1 DEF AnswersWhatWasAsked
  <2>4. QED
    BY <2>2, <2>3
<1>2. QED
  BY <1>1, StreamConsistent, PTL

\* Only an edge of the 50 MHz clock enqueues a frame.
LEMMA EnqueuesAtClock ==
    ASSUME [Next]_vars, Enqueues
    PROVE  ClkEdge /\ tx.pf_enq /\ ~ rst
<1>1. tx' # tx /\ tx.pf_enq /\ ~ rst
  BY DEF Enqueues
<1>2. QED
  BY <1>1 DEF Next, SampleEdge, Request, Press, Release, vars, txVars

\* A reply is enqueued with all the words of the request it answers and no other.
THEOREM RepliesComplete == Spec => RepliesAreWhole
<1>1. StreamInv /\ [Next]_vars => RepliesWhole
  <2> SUFFICES ASSUME StreamInv, [Next]_vars, Enqueues, ~ IsAdc(FrameOf(tx.len))
               PROVE  FrameOf(tx.len) = [i \in 1 .. IF tx.frame.type = "ARP" THEN 11 ELSE 19 |->
                                           ReplyWord(i - 1, tx.frame)]
    BY DEF RepliesWhole
  <2>1. ClkEdge /\ tx.pf_enq /\ ~ rst
    BY EnqueuesAtClock
  <2>2. /\ StreamTyped /\ Piped /\ Counted /\ ReplyWords /\ AdcWords
    BY DEF StreamInv
  <2>3. ~ AdcEnded
    BY <2>1, <2>2, FrameKind
  <2>4. ReplyEnded /\ PastRequest
    BY <2>1, <2>3 DEF ReplyEnded, AdcEnded, Ended, PastRequest
  <2>5. FrameOf(tx.len) = [i \in 1 .. tx.len |-> WordAt(i - 1)]
    BY <2>1, <2>2, FrameEnqueued
  <2>6. tx.len = (IF tx.frame.type = "ARP" THEN 11 ELSE 19) /\ Words = tx.len
    BY <2>1, <2>2, <2>4 DEF Counted, Words, LastReplyWord
  <2>7. ASSUME NEW i \in 1 .. tx.len PROVE WordAt(i - 1) = ReplyWord(i - 1, tx.frame)
    <3>1. i - 1 \in 0 .. 18 /\ i - 1 < Words
      BY <2>6
    <3>2. QED
      BY <2>2, <2>4, <3>1 DEF ReplyWords
  <2>8. QED
    BY <2>5, <2>6, <2>7
<1>2. QED
  BY <1>1, StreamConsistent, PTL DEF Spec, RepliesAreWhole

\* Every ADC frame continues the stream where the one before it ended, for every size of the
\* buffer and every pace of the samples that leaves time to build a frame.
THEOREM StreamContinues == Spec => StreamContinuous
<1>1. StreamInv /\ [Next]_vars => ContinuesStream
  <2> DEFINE F == FrameOf(tx.len)
  <2> SUFFICES ASSUME StreamInv, [Next]_vars, Enqueues, IsAdc(F) PROVE Continues(F)
    BY DEF ContinuesStream
  <2>1. ClkEdge /\ tx.pf_enq /\ ~ rst
    BY EnqueuesAtClock
  <2>2. /\ StreamTyped /\ Piped /\ Counted /\ ReplyWords /\ AdcWords /\ InStream
    BY DEF StreamInv
  <2>3. AdcEnded /\ PastHeader /\ Pending
    BY <2>1, <2>2, FrameKind DEF PastHeader, BuildsAdc, Pending
  <2>4. F = [i \in 1 .. tx.len |-> WordAt(i - 1)]
    BY <2>1, <2>2, FrameEnqueued
  <2>5. /\ n \in Int /\ w.addr \in Int /\ N \in Nat \ {0} /\ tx.len \in Nat
        /\ next.phase \in {"stream", "reset", "restart"}
    BY <2>2, StreamConstants DEF StreamTyped, WriteRegs, TxRegs
  <2> HIDE DEF F
  <2>6. ASSUME next.phase # "reset" PROVE F = FrameFrom(FirstSample, next.udp)
    <3>1. Numbered
      BY <2>2, <2>6 DEF InStream
    <3>2. tx.len = 11 + N /\ Words = 11 + N
      BY <2>1, <2>3, <2>5, <3>1 DEF Numbered, Words
    <3>3. HeaderWords(next.udp)
      BY <2>2, <2>3, <3>1 DEF AdcWords, Numbered
    <3>4. ASSUME NEW i \in 1 .. 11 + N
          PROVE  WordAt(i - 1) = IF i <= 11 THEN HeaderWord(i - 1, next.udp)
                                 ELSE SampleWord(i - 1, (FirstSample + i - 12) % SAMPLES)
      <4>1. CASE i <= 11
        <5>1. i - 1 \in 0 .. 10 /\ i - 1 < Words
          BY <2>5, <3>2, <4>1
        <5>2. QED
          BY <3>3, <4>1, <5>1 DEF HeaderWords
      <4>2. CASE i > 11
        <5>1. i - 1 \in 11 .. N + 10 /\ i - 1 < Words /\ ~ (i <= 11)
          BY <2>5, <3>2, <4>2
        <5>2. WordAt(i - 1) = SampleWord(i - 1, (FirstSample + ((i - 1) - 11)) % SAMPLES)
          BY <2>3, <3>1, <5>1 DEF Numbered
        <5>3. FirstSample \in Int
          BY <2>5, Numbers, StreamConstants DEF FirstSample
        <5>4. FirstSample + ((i - 1) - 11) = FirstSample + i - 12
          BY <5>3
        <5>5. QED
          BY <5>1, <5>2, <5>4
      <4>3. QED
        BY <4>1, <4>2
    <3>5. QED
      BY <2>4, <3>2, <3>4 DEF FrameFrom
  <2>7. FirstSample \in Sample
    BY <2>5, Numbers DEF FirstSample
  <2>8. ASSUME next.phase = "stream" PROVE next.sample = FirstSample
    BY <2>2, <2>3, <2>8 DEF InStream, Continuing
  <2>9. QED
    BY <2>5, <2>6, <2>7, <2>8 DEF Continues
<1>2. QED
  BY <1>1, StreamConsistent, PTL DEF Spec, StreamContinuous
==============================================================================
