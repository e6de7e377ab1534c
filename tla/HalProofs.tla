----------------------------- MODULE HalProofs -----------------------------
(***************************************************************************)
(* Proofs about the HAL: its descriptors, its alarms and its interrupts.   *)
(*                                                                         *)
(* Files, for pools of every size and any devices: locks are respected,    *)
(* and the pool is what the calls that succeeded made of it.  Both rest on *)
(* the high-water mark: what is in use lies below it, so that the search   *)
(* for a lock, which ends there, misses nothing; and on what               *)
(* alt_io_redirect does with the lowest free descriptor, which is the      *)
(* fourth as long as nobody else has opened one.                           *)
(*                                                                         *)
(* Alarms, for any number of alarms and counters of every size: the links  *)
(* stay one ring, and every alarm is called back in the tick it has asked  *)
(* for, neither before nor after.  Who is still to be visited by alt_tick  *)
(* depends on the order of the list.  The invariant speaks of it through a *)
(* rank that falls along the links: a new alarm takes the rank of the      *)
(* head, which goes one higher.                                            *)
(*                                                                         *)
(* Irq, for any number of interrupts and handlers and nesting of every     *)
(* depth: handlers are called with their own context, only higher          *)
(* priorities interrupt lower ones, and the program finds the masks as it  *)
(* left them.  The argument is about who can be interrupted at all: the    *)
(* program when it holds no lock, and a handler that has narrowed the      *)
(* mask.  The mask in force then belongs to the innermost of these, and    *)
(* what a handler will restore is the mask of the level below it.          *)
(***************************************************************************)
EXTENDS Files, Alarms, Irq, WellFoundedInduction, TLAPS

\* A set of numbers that is not empty has a least element.
LEMMA LeastElement ==
    ASSUME NEW S \in SUBSET Nat, S # {}
    PROVE  \E i \in S : \A j \in S : i <= j
<1>1. PICK x \in S : \A y \in S : ~ (<<y, x>> \in OpToRel(<, Nat))
  BY WFMin, NatLessThanWellFounded
<1>2. \A y \in S : ~ (y < x)
  BY <1>1 DEF OpToRel
<1>3. QED
  BY <1>2

----------------------------------------------------------------------------
(* Descriptors: what the invariant says                                     *)

Descriptors ==
    [dev : DEVICES \union {"none"}, excl : BOOLEAN, mode : Modes, nonblock : BOOLEAN]

\* Where a descriptor that alt_io_redirect has dealt with leads.
Redirected(i, mode) == alt_fd_list[i].dev = "uart" /\ alt_fd_list[i].mode = mode

Streams ==
    /\ \A i \in 0 .. 2 : InUse(i)
    /\ boot # <<1, 0, 2>> => Redirected(1, "O_WRONLY")
    /\ boot \notin {<<1, 0, 2>>, <<0, 2>>} => Redirected(0, "O_RDONLY")
    /\ boot = << >> => Redirected(2, "O_WRONLY")

\* Until alt_io_redirect is over no descriptor of the pool is in use, and none is locked.
Booting ==
    boot # << >> =>
        last = Other /\ \A i \in Fds : (i > 2 => ~ InUse(i)) /\ ~ alt_fd_list[i].excl

\* A descriptor that is not in use is as alt_release_fd leaves it.
Fresh == \A i \in Fds : ~ InUse(i) => alt_fd_list[i] = Unallocated

FilesInv == FilesTypeOK /\ HighWater /\ Streams /\ Booting /\ Fresh

----------------------------------------------------------------------------
\* The numbers of the descriptors, and the modes they are opened with.
LEMMA Numbered ==
    /\ 0 .. 3 \subseteq Fds /\ Fds \subseteq Nat
    /\ "O_RDONLY" \in Modes /\ "O_WRONLY" \in Modes
    /\ Unallocated \in Descriptors
BY FilesAssumption DEF Fds, Modes, Unallocated, Descriptors

\* alt_get_fd finds a free descriptor if there is one.
LEMMA FirstIsFree ==
    ASSUME Free # {}
    PROVE  First \in Free /\ \A j \in Free : First <= j
<1>1. Free \in SUBSET Nat
  BY Numbered DEF Free
<1>2. \E i \in Free : \A j \in Free : i <= j
  BY <1>1, LeastElement
<1>3. QED
  BY <1>2 DEF First

\* It is never standard input, output or error, which are always in use.
LEMMA FirstIsNew ==
    ASSUME FilesInv, Free # {}
    PROVE  First \in Fds /\ First \in Nat /\ First > 2 /\ alt_fd_list[First] = Unallocated
<1>1. First \in Fds /\ ~ InUse(First) /\ First \in Nat
  BY FirstIsFree, Numbered DEF Free
<1>2. QED
  BY <1>1 DEF FilesInv, Streams, Fresh

\* While alt_io_redirect runs it is the fourth.
LEMMA FirstIsFourth ==
    ASSUME FilesInv, boot # << >>
    PROVE  Free # {} /\ First = 3
<1>1. 3 \in Free
  BY Numbered DEF FilesInv, Booting, Free
<1>2. First <= 3
  BY <1>1, FirstIsFree
<1>3. QED
  BY <1>1, <1>2, FirstIsNew

\* The mark stays in the pool, and only rises.
LEMMA MarkRises ==
    ASSUME FilesInv, NEW i \in Fds
    PROVE  /\ Mark(i) \in -1 .. ALT_MAX_FD - 1 /\ Mark(i) >= i /\ Mark(i) >= alt_max_fd
           /\ 0 .. Mark(i) \subseteq Fds
<1>1. i \in 0 .. ALT_MAX_FD - 1 /\ alt_max_fd \in -1 .. ALT_MAX_FD - 1 /\ ALT_MAX_FD \in Nat
  BY FilesAssumption DEF Fds, FilesInv, FilesTypeOK
<1>2. QED
  BY <1>1 DEF Mark, Fds

\* What alt_open_fd leaves: the standard descriptor leads to the UART, and the one it opened
\* is free again.
LEMMA RedirectStep ==
    ASSUME FilesInv, Redirect("uart")
    PROVE  /\ boot # << >> /\ boot' = Tail(boot) /\ boot[1] \in 0 .. 2
           /\ alt_max_fd' = Mark(3)
           /\ alt_fd_list' = [alt_fd_list EXCEPT ![boot[1]] =
                [dev |-> "uart", excl |-> FALSE,
                 mode |-> IF boot[1] = 0 THEN "O_RDONLY" ELSE "O_WRONLY", nonblock |-> FALSE]]
           /\ last' = last
<1>1. boot # << >> /\ Free # {} /\ First = 3 /\ 3 \in Fds /\ alt_fd_list[3] = Unallocated
  BY FirstIsFourth, FirstIsNew DEF Redirect
<1>2. boot[1] \in 0 .. 2 /\ boot[1] \in Fds /\ boot[1] # 3
  BY <1>1, Numbered DEF FilesInv, FilesTypeOK
<1> DEFINE b == boot[1]
           mode == IF b = 0 THEN "O_RDONLY" ELSE "O_WRONLY"
           uart == [dev |-> "uart", excl |-> FALSE, mode |-> mode, nonblock |-> FALSE]
           taken == [alt_fd_list EXCEPT ![3] = uart]
<1>3. ~ Locked("uart", 3, Mark(3))
  BY <1>1, MarkRises DEF Locked, FilesInv, Booting
<1>4. Opened("uart", mode, FALSE, 3, TRUE) = taken
  BY <1>3 DEF Opened
<1>5. alt_fd_list' = [[taken EXCEPT ![b] = taken[3]] EXCEPT ![3] = Unallocated]
  <2>1. alt_fd_list' = LET opened == Opened("uart", mode, FALSE, 3, TRUE)
                       IN  Released([opened EXCEPT ![b] = opened[3]], 3)
    BY <1>1 DEF Redirect
  <2> HIDE DEF taken, b
  <2>2. alt_fd_list' = Released([taken EXCEPT ![b] = taken[3]], 3)
    BY <1>4, <2>1
  <2>3. QED
    BY <2>2 DEF Released
<1>6. DOMAIN alt_fd_list = Fds
  BY DEF FilesInv, FilesTypeOK
<1>7. alt_fd_list' = [alt_fd_list EXCEPT ![b] = uart]
  <2> HIDE DEF uart, b
  <2>1. taken[3] = uart
    BY <1>1, <1>6
  <2>2. b \in Fds /\ b # 3
    BY <1>2 DEF b
  <2>3. QED
    BY <1>1, <1>5, <1>6, <2>1, <2>2
<1>8. QED
  BY <1>1, <1>2, <1>7 DEF Redirect

\* What open() leaves: the pool as it was, or a descriptor more, for a device that nobody
\* has locked.
LEMMA OpenStep ==
    ASSUME FilesInv, Open
    PROVE  /\ boot = << >> /\ boot' = boot
           /\ \/ alt_max_fd' = alt_max_fd
              \/ Free # {} /\ alt_max_fd' = Mark(First)
           /\ \/ UNCHANGED alt_fd_list /\ last' = [op |-> "open", fd |-> -1]
              \/ /\ Free # {} /\ alt_max_fd' = Mark(First) /\ last' = [op |-> "open", fd |-> First]
                 /\ \E new \in Descriptors :
                      /\ new.dev # "none"
                      /\ alt_fd_list' = [alt_fd_list EXCEPT ![First] = new]
                      /\ \A j \in Fds : j # First /\ alt_fd_list[j].dev = new.dev
                                          => ~ alt_fd_list[j].excl
<1>1. boot = << >> /\ boot' = boot
  BY DEF Open
<1>2. PICK dev \in DEVICES \union {"unknown"}, mode \in Modes, nonblock \in BOOLEAN, opens \in BOOLEAN :
        IF dev = "unknown" \/ Free = {}
        THEN /\ last' = [op |-> "open", fd |-> -1]
             /\ UNCHANGED <<alt_fd_list, alt_max_fd>>
        ELSE /\ alt_fd_list' = Opened(dev, mode, nonblock, First, opens)
             /\ alt_max_fd' = Mark(First)
             /\ last' = [op |-> "open", fd |-> IF alt_fd_list'[First].dev = dev THEN First ELSE -1]
  BY DEF Open
<1>3. CASE dev = "unknown" \/ Free = {}
  BY <1>1, <1>2, <1>3
<1>4. CASE ~ (dev = "unknown" \/ Free = {})
  <2> DEFINE new == [dev |-> dev, excl |-> FALSE, mode |-> mode, nonblock |-> nonblock]
             taken == [alt_fd_list EXCEPT ![First] = new]
  <2>1. /\ dev \in DEVICES /\ dev # "none" /\ Free # {} /\ alt_max_fd' = Mark(First)
        /\ alt_fd_list' = Opened(dev, mode, nonblock, First, opens)
        /\ last' = [op |-> "open", fd |-> IF alt_fd_list'[First].dev = dev THEN First ELSE -1]
    BY <1>2, <1>4, FilesAssumption
  <2>2. /\ First \in Fds /\ First > 2 /\ alt_fd_list[First] = Unallocated
        /\ DOMAIN alt_fd_list = Fds /\ First \in Nat
    BY <2>1, FirstIsNew DEF FilesInv, FilesTypeOK
  <2>3. new \in Descriptors /\ new.dev = dev
    BY <2>1 DEF Descriptors
  <2>4. CASE Locked(dev, First, Mark(First)) \/ ~ opens
    <3>1. alt_fd_list' = [taken EXCEPT ![First] = Unallocated]
      BY <2>1, <2>2, <2>4 DEF Opened, Released
    <3>2. alt_fd_list' = alt_fd_list
      <4> HIDE DEF new
      <4>1. QED
        BY <2>2, <3>1 DEF FilesInv, FilesTypeOK
    <3>3. alt_fd_list'[First].dev # dev
      BY <2>1, <2>2, <3>2 DEF Unallocated
    <3>4. QED
      BY <1>1, <2>1, <3>2, <3>3
  <2>5. CASE ~ (Locked(dev, First, Mark(First)) \/ ~ opens)
    <3>1. alt_fd_list' = taken
      BY <2>1, <2>5 DEF Opened
    <3>2. \A j \in Fds : j # First /\ alt_fd_list[j].dev = dev => ~ alt_fd_list[j].excl
      <4>1. TAKE j \in Fds
      <4>2. HAVE j # First /\ alt_fd_list[j].dev = dev
      <4>3. InUse(j) /\ boot # <<1, 0, 2>>
        BY <1>1, <2>1, <4>2 DEF InUse
      <4>4. j \in Nat /\ j <= alt_max_fd
        BY <4>3, Numbered DEF FilesInv, HighWater
      <4>5. j \in 0 .. Mark(First)
        BY <2>2, <4>4, MarkRises DEF FilesInv, FilesTypeOK
      <4>6. QED
        BY <2>5, <4>2, <4>5 DEF Locked
    <3>3. alt_fd_list'[First].dev = dev
      BY <2>2, <2>3, <3>1
    <3>4. QED
      <4> HIDE DEF new
      <4>1. QED
        BY <1>1, <2>1, <2>3, <3>1, <3>2, <3>3
  <2>6. QED
    BY <2>4, <2>5
<1>5. QED
  BY <1>3, <1>4

\* What the calls on a descriptor leave: the same device and access.
LEMMA CallStep ==
    ASSUME FilesInv, NEW i \in Fds, Lock(i) \/ Unlock(i) \/ SetFlags(i)
    PROVE  /\ boot = << >> /\ UNCHANGED <<alt_max_fd, boot>> /\ InUse(i) /\ last' = Other
           /\ \E new \in Descriptors :
                /\ new.dev = alt_fd_list[i].dev /\ new.mode = alt_fd_list[i].mode
                /\ alt_fd_list' = [alt_fd_list EXCEPT ![i] = new]
<1>1. /\ boot = << >> /\ UNCHANGED <<alt_max_fd, boot>> /\ InUse(i) /\ last' = Other
  BY DEF Lock, Unlock, SetFlags, Call
<1>2. alt_fd_list \in [Fds -> Descriptors] /\ alt_fd_list[i] \in Descriptors
  BY DEF FilesInv, FilesTypeOK, Descriptors
<1>3. \/ alt_fd_list' = alt_fd_list
      \/ \E e \in BOOLEAN : alt_fd_list' = [alt_fd_list EXCEPT ![i].excl = e]
      \/ \E n \in BOOLEAN : alt_fd_list' = [alt_fd_list EXCEPT ![i].nonblock = n]
  BY DEF Lock, Unlock, SetFlags
<1>4. CASE alt_fd_list' = alt_fd_list
  BY <1>1, <1>2, <1>4
<1>5. CASE \E e \in BOOLEAN : alt_fd_list' = [alt_fd_list EXCEPT ![i].excl = e]
  <2>1. PICK e \in BOOLEAN : alt_fd_list' = [alt_fd_list EXCEPT ![i].excl = e]
    BY <1>5
  <2> DEFINE new == [alt_fd_list[i] EXCEPT !.excl = e]
  <2>2. new \in Descriptors /\ new.dev = alt_fd_list[i].dev /\ new.mode = alt_fd_list[i].mode
    BY <1>2 DEF Descriptors
  <2>3. alt_fd_list' = [alt_fd_list EXCEPT ![i] = new]
    BY <2>1
  <2> HIDE DEF new
  <2>4. QED
    BY <1>1, <2>2, <2>3
<1>6. CASE \E n \in BOOLEAN : alt_fd_list' = [alt_fd_list EXCEPT ![i].nonblock = n]
  <2>1. PICK n \in BOOLEAN : alt_fd_list' = [alt_fd_list EXCEPT ![i].nonblock = n]
    BY <1>6
  <2> DEFINE new == [alt_fd_list[i] EXCEPT !.nonblock = n]
  <2>2. new \in Descriptors /\ new.dev = alt_fd_list[i].dev /\ new.mode = alt_fd_list[i].mode
    BY <1>2 DEF Descriptors
  <2>3. alt_fd_list' = [alt_fd_list EXCEPT ![i] = new]
    BY <2>1
  <2> HIDE DEF new
  <2>4. QED
    BY <1>1, <2>2, <2>3
<1>7. QED
  BY <1>3, <1>4, <1>5, <1>6

\* What close() leaves: the descriptor released, unless it is a standard one.
LEMMA CloseStep ==
    ASSUME FilesInv, NEW i \in Fds, Close(i)
    PROVE  /\ boot = << >> /\ UNCHANGED <<alt_max_fd, boot>>
           /\ last' = [op |-> "close", fd |-> i]
           /\ \/ UNCHANGED alt_fd_list
              \/ i > 2 /\ alt_fd_list' = [alt_fd_list EXCEPT ![i] = Unallocated]
BY DEF Close, Call, Released

\* One descriptor changes, the others stay.
LEMMA OneChanged ==
    ASSUME FilesInv, NEW i \in Fds, NEW new \in Descriptors,
           alt_fd_list' = [alt_fd_list EXCEPT ![i] = new]
    PROVE  /\ alt_fd_list' \in [Fds -> Descriptors] /\ alt_fd_list'[i] = new
           /\ \A j \in Fds : j # i => alt_fd_list'[j] = alt_fd_list[j]
<1>1. alt_fd_list \in [Fds -> Descriptors]
  BY DEF FilesInv, FilesTypeOK, Descriptors
<1>2. QED
  BY <1>1

\* What is left of alt_io_redirect after one more of its descriptors.
LEMMA BootGoesOn ==
    ASSUME boot \in {<< >>, << 2 >>, <<0, 2>>, <<1, 0, 2>>}, boot # << >>
    PROVE  LET rest == Tail(boot)
           IN  \/ boot = <<1, 0, 2>> /\ boot[1] = 1 /\ rest = <<0, 2>>
               \/ boot = <<0, 2>> /\ boot[1] = 0 /\ rest = << 2 >>
               \/ boot = << 2 >> /\ boot[1] = 2 /\ rest = << >>
<1>1. Tail(<<1, 0, 2>>) = <<0, 2>> /\ Tail(<<0, 2>>) = << 2 >> /\ Tail(<< 2 >>) = << >>
  OBVIOUS
<1>2. CASE boot = <<1, 0, 2>>
  BY <1>1, <1>2
<1>3. CASE boot = <<0, 2>>
  BY <1>1, <1>3
<1>4. CASE boot = << 2 >>
  BY <1>1, <1>4
<1>5. QED
  BY <1>2, <1>3, <1>4

----------------------------------------------------------------------------
LEMMA FilesInitConsistent == ASSUME FilesInit PROVE FilesInv
<1>1. /\ boot = <<1, 0, 2>> /\ alt_max_fd = -1 /\ last = Other
      /\ alt_fd_list = [i \in Fds |-> IF i > 2 THEN Unallocated
                                              ELSE [Unallocated EXCEPT !.dev = "null"]]
  BY DEF FilesInit
<1> DEFINE standard == [Unallocated EXCEPT !.dev = "null"]
<1>2. /\ standard \in Descriptors /\ standard.dev = "null" /\ ~ standard.excl
      /\ Unallocated.dev = "none" /\ ~ Unallocated.excl /\ "null" # "none"
  BY FilesAssumption DEF Descriptors, Unallocated, Modes
<1> HIDE DEF standard
<1>3. /\ alt_fd_list \in [Fds -> Descriptors]
      /\ \A i \in Fds : i > 2 => alt_fd_list[i] = Unallocated
      /\ \A i \in Fds : ~ i > 2 => alt_fd_list[i] = standard
  BY <1>1, <1>2, Numbered DEF standard
<1>4. FilesTypeOK
  BY <1>1, <1>3, FilesAssumption DEF FilesTypeOK, Descriptors, Other
<1>5. HighWater
  BY <1>1 DEF HighWater
<1>6. Streams
  <2>1. \A i \in 0 .. 2 : InUse(i)
    BY <1>2, <1>3, Numbered DEF InUse
  <2>2. QED
    BY <1>1, <2>1 DEF Streams
<1>7. Booting
  BY <1>1, <1>2, <1>3 DEF Booting, InUse
<1>8. Fresh
  BY <1>2, <1>3 DEF Fresh, InUse
<1>9. QED
  BY <1>4, <1>5, <1>6, <1>7, <1>8 DEF FilesInv

\* After start-up a descriptor changes, its new contents fit, and the mark still bounds the
\* pool: then all is as consistent as before.
LEMMA ChangeKeeps ==
    ASSUME FilesInv, boot = << >>, boot' = boot,
           NEW i \in Fds, NEW new \in Descriptors,
           alt_fd_list' = [alt_fd_list EXCEPT ![i] = new],
           new.dev = "none" => new = Unallocated /\ i > 2,
           i \in 0 .. 2 => new.dev = alt_fd_list[i].dev /\ new.mode = alt_fd_list[i].mode,
           alt_max_fd' \in -1 .. ALT_MAX_FD - 1, alt_max_fd' >= alt_max_fd,
           new.dev # "none" => i <= alt_max_fd',
           last' \in [op : {"open", "close", "other"}, fd : Fds \union {-1}]
    PROVE  FilesInv'
<1>1. /\ alt_fd_list' \in [Fds -> Descriptors] /\ alt_fd_list'[i] = new
      /\ \A j \in Fds : j # i => alt_fd_list'[j] = alt_fd_list[j]
  BY OneChanged
<1>2. boot # <<1, 0, 2>> /\ boot' = << >> /\ << >> # <<1, 0, 2>> /\ << >> # <<0, 2>>
  OBVIOUS
<1>3. FilesTypeOK'
  BY <1>1, <1>2 DEF FilesTypeOK, Descriptors
<1>4. HighWater'
  <2>1. \A j \in Fds : InUse(j)' => j <= alt_max_fd'
    <3>1. TAKE j \in Fds
    <3>2. CASE j = i
      BY <1>1, <3>2 DEF InUse
    <3>3. CASE j # i
      BY <1>1, <1>2, <3>3, Numbered, FilesAssumption DEF InUse, FilesInv, HighWater, FilesTypeOK
    <3>4. QED
      BY <3>2, <3>3
  <2>2. QED
    BY <2>1 DEF HighWater
<1>5. Streams'
  <2>1. \A j \in 0 .. 2 : alt_fd_list'[j].dev = alt_fd_list[j].dev
                       /\ alt_fd_list'[j].mode = alt_fd_list[j].mode
    BY <1>1, Numbered
  <2>2. QED
    BY <1>2, <2>1 DEF FilesInv, Streams, InUse, Redirected
<1>6. Booting'
  BY <1>2 DEF Booting
<1>7. Fresh'
  BY <1>1 DEF Fresh, InUse, FilesInv
<1>8. QED
  BY <1>3, <1>4, <1>5, <1>6, <1>7 DEF FilesInv

\* A standard descriptor is redirected.
LEMMA RedirectKeeps == ASSUME FilesInv, Redirect("uart") PROVE FilesInv'
<1> DEFINE b == boot[1]
           mode == IF b = 0 THEN "O_RDONLY" ELSE "O_WRONLY"
           new == [dev |-> "uart", excl |-> FALSE, mode |-> mode, nonblock |-> FALSE]
<1>1. /\ boot # << >> /\ boot' = Tail(boot) /\ b \in 0 .. 2 /\ b \in Fds
      /\ alt_max_fd' = Mark(3) /\ last' = last
      /\ alt_fd_list' = [alt_fd_list EXCEPT ![b] = new]
  BY RedirectStep, Numbered
<1>2. \/ boot = <<1, 0, 2>> /\ b = 1 /\ boot' = <<0, 2>>
      \/ boot = <<0, 2>> /\ b = 0 /\ boot' = << 2 >>
      \/ boot = << 2 >> /\ b = 2 /\ boot' = << >>
  BY <1>1, BootGoesOn DEF FilesInv, FilesTypeOK
<1>3. /\ new \in Descriptors /\ new.dev = "uart" /\ "uart" # "none" /\ ~ new.excl
      /\ new.mode = mode
  BY Numbered, FilesAssumption DEF Descriptors
<1> HIDE DEF new
<1>4. /\ alt_fd_list' \in [Fds -> Descriptors] /\ alt_fd_list'[b] = new
      /\ \A j \in Fds : j # b => alt_fd_list'[j] = alt_fd_list[j]
  BY <1>1, <1>3, OneChanged
<1>5. alt_max_fd' \in -1 .. ALT_MAX_FD - 1 /\ alt_max_fd' >= 3
  BY <1>1, MarkRises, Numbered
<1>6. FilesTypeOK'
  BY <1>1, <1>2, <1>4, <1>5 DEF FilesInv, FilesTypeOK, Descriptors
<1>7. \A j \in Fds : j > 2 => ~ InUse(j)'
  BY <1>1, <1>4, Numbered DEF FilesInv, Booting, InUse
<1>8. HighWater'
  BY <1>5, <1>7, Numbered, FilesAssumption DEF HighWater, FilesTypeOK
<1>9. Streams'
  <2>1. \A i \in 0 .. 2 : InUse(i)'
    BY <1>3, <1>4, Numbered DEF FilesInv, Streams, InUse
  <2>2. boot' # <<1, 0, 2>> => Redirected(1, "O_WRONLY")'
    BY <1>2, <1>3, <1>4, Numbered DEF FilesInv, Streams, Redirected
  <2>3. boot' \notin {<<1, 0, 2>>, <<0, 2>>} => Redirected(0, "O_RDONLY")'
    BY <1>2, <1>3, <1>4, Numbered DEF FilesInv, Streams, Redirected
  <2>4. boot' = << >> => Redirected(2, "O_WRONLY")'
    BY <1>2, <1>3, <1>4, Numbered DEF FilesInv, Streams, Redirected
  <2>5. QED
    BY <2>1, <2>2, <2>3, <2>4 DEF Streams
<1>10. Booting'
  BY <1>1, <1>3, <1>4, <1>7 DEF FilesInv, Booting
<1>11. Fresh'
  BY <1>3, <1>4 DEF FilesInv, Fresh, InUse
<1>12. QED
  BY <1>6, <1>8, <1>9, <1>10, <1>11 DEF FilesInv

LEMMA FilesNextKeeps == ASSUME FilesInv, [FilesNext]_fileVars PROVE FilesInv'
<1>1. CASE Redirect("uart")
  BY <1>1, RedirectKeeps
<1>2. CASE Open
  <2>1. /\ boot = << >> /\ boot' = boot
        /\ \/ alt_max_fd' = alt_max_fd
           \/ Free # {} /\ alt_max_fd' = Mark(First)
    BY <1>2, OpenStep
  <2>2. alt_max_fd' \in -1 .. ALT_MAX_FD - 1 /\ alt_max_fd' >= alt_max_fd
    BY <2>1, FirstIsNew, MarkRises, FilesAssumption DEF FilesInv, FilesTypeOK
  <2>3. CASE UNCHANGED alt_fd_list /\ last' = [op |-> "open", fd |-> -1]
    <3>1. FilesTypeOK' /\ Streams' /\ Booting' /\ Fresh'
      BY <2>1, <2>2, <2>3 DEF FilesInv, FilesTypeOK, Streams, Booting, Fresh, InUse, Redirected
    <3>2. HighWater'
      BY <2>1, <2>2, <2>3, Numbered, FilesAssumption DEF FilesInv, HighWater, InUse, FilesTypeOK
    <3>3. QED
      BY <3>1, <3>2 DEF FilesInv
  <2>4. CASE /\ Free # {} /\ alt_max_fd' = Mark(First) /\ last' = [op |-> "open", fd |-> First]
             /\ \E new \in Descriptors :
                   /\ new.dev # "none"
                   /\ alt_fd_list' = [alt_fd_list EXCEPT ![First] = new]
    <3>1. PICK new \in Descriptors :
            new.dev # "none" /\ alt_fd_list' = [alt_fd_list EXCEPT ![First] = new]
      BY <2>4
    <3>2. First \in Fds /\ First > 2 /\ First \in Nat
      BY <2>4, FirstIsNew
    <3>3. First <= alt_max_fd'
      BY <2>4, <3>2, MarkRises
    <3>4. last' \in [op : {"open", "close", "other"}, fd : Fds \union {-1}]
      BY <2>4, <3>2
    <3>5. /\ new.dev = "none" => new = Unallocated /\ First > 2
          /\ First \in 0 .. 2 => new.dev = alt_fd_list[First].dev
                                /\ new.mode = alt_fd_list[First].mode
          /\ new.dev # "none" => First <= alt_max_fd'
      BY <3>1, <3>2, <3>3
    <3>6. QED
      BY <2>1, <2>2, <3>1, <3>2, <3>4, <3>5, ChangeKeeps, Zenon
  <2>5. QED
    BY <1>2, <2>3, <2>4, OpenStep
<1>3. ASSUME NEW i \in Fds, Close(i) PROVE FilesInv'
  <2>1. /\ boot = << >> /\ UNCHANGED <<alt_max_fd, boot>>
        /\ last' = [op |-> "close", fd |-> i]
        /\ \/ UNCHANGED alt_fd_list
           \/ i > 2 /\ alt_fd_list' = [alt_fd_list EXCEPT ![i] = Unallocated]
    BY <1>3, CloseStep
  <2>2. CASE UNCHANGED alt_fd_list
    BY <2>1, <2>2
       DEF FilesInv, FilesTypeOK, HighWater, Streams, Booting, Fresh, InUse, Redirected
  <2>3. CASE i > 2 /\ alt_fd_list' = [alt_fd_list EXCEPT ![i] = Unallocated]
    <3>1. Unallocated \in Descriptors /\ Unallocated.dev = "none"
      BY Numbered DEF Unallocated
    <3>2. last' \in [op : {"open", "close", "other"}, fd : Fds \union {-1}]
      BY <2>1
    <3>3. alt_max_fd' \in -1 .. ALT_MAX_FD - 1 /\ alt_max_fd' >= alt_max_fd
      BY <2>1, FilesAssumption DEF FilesInv, FilesTypeOK
    <3>4. /\ Unallocated.dev = "none" => Unallocated = Unallocated /\ i > 2
          /\ i \in 0 .. 2 => Unallocated.dev = alt_fd_list[i].dev
                             /\ Unallocated.mode = alt_fd_list[i].mode
          /\ Unallocated.dev # "none" => i <= alt_max_fd'
      BY <2>3, <3>1, Numbered
    <3>5. QED
      BY <2>1, <2>3, <3>1, <3>2, <3>3, <3>4, ChangeKeeps, Zenon
  <2>4. QED
    BY <2>1, <2>2, <2>3
<1>4. ASSUME NEW i \in Fds, Lock(i) \/ Unlock(i) \/ SetFlags(i) PROVE FilesInv'
  <2>1. /\ boot = << >> /\ UNCHANGED <<alt_max_fd, boot>> /\ InUse(i) /\ last' = Other
    BY <1>4, CallStep
  <2>2. PICK new \in Descriptors :
          /\ new.dev = alt_fd_list[i].dev /\ new.mode = alt_fd_list[i].mode
          /\ alt_fd_list' = [alt_fd_list EXCEPT ![i] = new]
    BY <1>4, CallStep
  <2>3. new.dev # "none" /\ i <= alt_max_fd'
    BY <2>1, <2>2 DEF InUse, FilesInv, HighWater
  <2>4. alt_max_fd' \in -1 .. ALT_MAX_FD - 1 /\ alt_max_fd' >= alt_max_fd
    BY <2>1, FilesAssumption DEF FilesInv, FilesTypeOK
  <2>5. last' \in [op : {"open", "close", "other"}, fd : Fds \union {-1}]
    BY <2>1 DEF Other
  <2>6. QED
    BY <2>1, <2>2, <2>3, <2>4, <2>5, ChangeKeeps
<1>5. CASE UNCHANGED fileVars
  BY <1>5 DEF fileVars, FilesInv, FilesTypeOK, HighWater, Streams, Booting, Fresh, InUse, Redirected
<1>6. QED
  BY <1>1, <1>2, <1>3, <1>4, <1>5 DEF FilesNext

\* The pool is consistent after any calls.
THEOREM FilesConsistent == FilesSpec => []FilesInv
<1>1. FilesInit => FilesInv
  BY FilesInitConsistent
<1>2. FilesInv /\ [FilesNext]_fileVars => FilesInv'
  BY FilesNextKeeps
<1>3. QED
  BY <1>1, <1>2, PTL DEF FilesSpec

----------------------------------------------------------------------------
\* The only descriptor that joins a device is one open() has just opened, and it has searched
\* for locks up to the high-water mark, below which every descriptor in use lies.
LEMMA JoinsKeep == ASSUME FilesInv, [FilesNext]_fileVars PROVE JoinsNoLocked
<1> SUFFICES ASSUME NEW i \in Fds, NEW j \in Fds, ~ InUse(i), InUse(i)', i # j,
                    alt_fd_list'[j].dev = alt_fd_list'[i].dev
             PROVE  ~ alt_fd_list'[j].excl
  BY DEF JoinsNoLocked
<1>1. CASE Redirect("uart")
  BY <1>1, RedirectStep, Numbered DEF FilesInv, FilesTypeOK, Streams, InUse
<1>2. CASE Open
  <2>1. UNCHANGED alt_fd_list => FALSE
    BY DEF InUse
  <2>2. /\ Free # {}
        /\ \E new \in Descriptors :
             /\ new.dev # "none"
             /\ alt_fd_list' = [alt_fd_list EXCEPT ![First] = new]
             /\ \A k \in Fds : k # First /\ alt_fd_list[k].dev = new.dev
                                 => ~ alt_fd_list[k].excl
    BY <1>2, <2>1, OpenStep
  <2>3. PICK new \in Descriptors :
             /\ alt_fd_list' = [alt_fd_list EXCEPT ![First] = new]
             /\ \A k \in Fds : k # First /\ alt_fd_list[k].dev = new.dev
                                 => ~ alt_fd_list[k].excl
    BY <2>2
  <2>4. First \in Fds
    BY <2>2, FirstIsNew
  <2>5. /\ alt_fd_list'[First] = new
        /\ \A k \in Fds : k # First => alt_fd_list'[k] = alt_fd_list[k]
    BY <2>3, <2>4, OneChanged
  <2>6. i = First
    BY <2>5 DEF InUse
  <2>7. QED
    BY <2>3, <2>5, <2>6
<1>3. CASE \E k \in Fds : Close(k)
  <2>1. PICK k \in Fds : Close(k)
    BY <1>3
  <2>2. \/ UNCHANGED alt_fd_list
        \/ alt_fd_list' = [alt_fd_list EXCEPT ![k] = Unallocated]
    BY <2>1, CloseStep
  <2>3. CASE alt_fd_list' = [alt_fd_list EXCEPT ![k] = Unallocated]
    <3>1. /\ alt_fd_list'[k] = Unallocated
          /\ \A m \in Fds : m # k => alt_fd_list'[m] = alt_fd_list[m]
      BY <2>3, Numbered, OneChanged
    <3>2. ~ InUse(k)'
      BY <3>1 DEF InUse, Unallocated
    <3>3. QED
      BY <3>1, <3>2 DEF InUse
  <2>4. QED
    BY <2>2, <2>3 DEF InUse
<1>4. CASE \E k \in Fds : Lock(k) \/ Unlock(k) \/ SetFlags(k)
  <2>1. PICK k \in Fds : Lock(k) \/ Unlock(k) \/ SetFlags(k)
    BY <1>4
  <2>2. PICK new \in Descriptors :
          new.dev = alt_fd_list[k].dev /\ alt_fd_list' = [alt_fd_list EXCEPT ![k] = new]
    BY <2>1, CallStep
  <2>3. QED
    BY <2>2, OneChanged DEF InUse
<1>5. CASE UNCHANGED fileVars
  BY <1>5 DEF fileVars, InUse
<1>6. QED
  BY <1>1, <1>2, <1>3, <1>4, <1>5 DEF FilesNext

\* Locks are respected, whatever the size of the pool and the calls.
THEOREM Locks == FilesSpec => LocksRespected
<1>1. FilesInv /\ [FilesNext]_fileVars => [JoinsNoLocked]_fileVars
  BY JoinsKeep
<1>2. QED
  BY <1>1, FilesConsistent, PTL DEF FilesSpec, LocksRespected

\* What a call may change in the pool, besides the descriptor it opens or closes.
LEMMA PoolSteps ==
    ASSUME FilesInv, [FilesNext]_fileVars
    PROVE  (FailureLeavesNoTrace /\ DescriptorsKept) \/ UNCHANGED fileVars
<1>1. CASE Redirect("uart")
  BY <1>1, RedirectStep DEF FilesInv, Booting, Other, FailureLeavesNoTrace, DescriptorsKept
<1>2. CASE Open
  <2>1. CASE UNCHANGED alt_fd_list
    BY <2>1 DEF FailureLeavesNoTrace, DescriptorsKept
  <2>2. CASE /\ Free # {} /\ last' = [op |-> "open", fd |-> First]
             /\ \E new \in Descriptors : alt_fd_list' = [alt_fd_list EXCEPT ![First] = new]
    <3>1. First \in Fds /\ First \in Nat /\ ~ InUse(First)
      BY <2>2, FirstIsNew DEF InUse, Unallocated
    <3>2. FailureLeavesNoTrace
      BY <2>2, <3>1 DEF FailureLeavesNoTrace
    <3>3. \A j \in Fds : j # First => alt_fd_list'[j] = alt_fd_list[j]
      BY <2>2, <3>1, OneChanged
    <3>4. QED
      BY <3>1, <3>2, <3>3 DEF DescriptorsKept
  <2>3. QED
    BY <1>2, <2>1, <2>2, OpenStep
<1>3. CASE \E k \in Fds : Close(k)
  <2>1. PICK k \in Fds : Close(k)
    BY <1>3
  <2>2. /\ last' = [op |-> "close", fd |-> k]
        /\ \/ UNCHANGED alt_fd_list
           \/ alt_fd_list' = [alt_fd_list EXCEPT ![k] = Unallocated]
    BY <2>1, CloseStep
  <2>3. \A j \in Fds : j # k => alt_fd_list'[j] = alt_fd_list[j]
    BY <2>2, Numbered, OneChanged
  <2>4. QED
    BY <2>2, <2>3 DEF FailureLeavesNoTrace, DescriptorsKept
<1>4. CASE \E k \in Fds : Lock(k) \/ Unlock(k) \/ SetFlags(k)
  <2>1. PICK k \in Fds : Lock(k) \/ Unlock(k) \/ SetFlags(k)
    BY <1>4
  <2>2. PICK new \in Descriptors :
          /\ new.dev = alt_fd_list[k].dev /\ new.mode = alt_fd_list[k].mode
          /\ alt_fd_list' = [alt_fd_list EXCEPT ![k] = new]
    BY <2>1, CallStep
  <2>3. /\ alt_fd_list'[k] = new /\ last' = Other
        /\ \A j \in Fds : j # k => alt_fd_list'[j] = alt_fd_list[j]
    BY <2>1, <2>2, OneChanged, CallStep
  <2>4. QED
    BY <2>2, <2>3 DEF FailureLeavesNoTrace, DescriptorsKept, Other
<1>5. QED
  BY <1>1, <1>2, <1>3, <1>4 DEF FilesNext

\* After any calls the pool is what the calls that succeeded made of it.
THEOREM Kept == FilesSpec => PoolKept
<1>1. FilesInv => HighWater /\ StandardStreams
  <2>1. << >> \notin {<<1, 0, 2>>, <<0, 2>>}
    OBVIOUS
  <2>2. \A i \in 0 .. 2 : i \in {0, 1, 2}
    OBVIOUS
  <2>3. FilesInv /\ boot = << >> =>
          Redirected(0, "O_RDONLY") /\ Redirected(1, "O_WRONLY") /\ Redirected(2, "O_WRONLY")
    BY <2>1 DEF FilesInv, Streams
  <2>4. QED
    BY <2>2, <2>3 DEF FilesInv, StandardStreams, Redirected
<1>2. FilesInv /\ [FilesNext]_fileVars => [FailureLeavesNoTrace /\ DescriptorsKept]_fileVars
  BY PoolSteps
<1>3. QED
  BY <1>1, <1>2, FilesConsistent, PTL DEF FilesSpec, PoolKept

----------------------------------------------------------------------------
(* Alarms: what the invariant says                                          *)

\* The links in the other direction are the inverse of next.
Linked == \A l \in Links : previous[next[l]] = l /\ next[previous[l]] = l

InRing(l) == l = HEAD \/ Listed(l)

\* The rank falls along the links, from the head on, and skips nobody.
Ordered(rank) ==
    /\ rank \in [Links -> Nat]
    /\ \A a, b \in ALARMS : Listed(a) /\ Listed(b) /\ rank[a] = rank[b] => a = b
    /\ \A a \in ALARMS : Listed(a) => rank[a] < rank[HEAD]
    /\ \A l \in Links : InRing(l) => next[l] = HEAD \/ rank[next[l]] < rank[l]
    /\ \A l \in Links, b \in ALARMS : InRing(l) /\ Listed(b) /\ rank[b] < rank[l] =>
         next[l] # HEAD /\ rank[b] <= rank[next[l]]

\* The alarms alt_tick is at or has still to visit.
Ahead(rank, b) ==
    /\ tick.alarm # HEAD
    /\ b = tick.alarm \/ (tick.next # HEAD /\ rank[b] <= rank[tick.next])

\* Where the loop is, and where it goes next: also when the alarm it is at was stopped.
Walk ==
    tick.alarm # HEAD =>
        /\ tick.next # tick.alarm
        /\ tick.next # HEAD => Listed(tick.next)
        /\ Listed(tick.alarm) => next[tick.alarm] = tick.next

\* The time of an alarm is its due time in 32 bits, and its flag says on which side of the
\* counter's end it lies.
Timed ==
    \A b \in ALARMS : Listed(b) =>
        /\ time[b] = nticks + due[b] \/ time[b] = nticks + due[b] - WRAP
        /\ Flag(b) <=> time[b] < nticks

\* Who is not ahead is not due, and has no flag left from before the counter rolled over.
Waiting(rank) ==
    \A b \in ALARMS : Listed(b) /\ ~ Ahead(rank, b) =>
        due[b] > 0 /\ (nticks = 0 => ~ rollover[b])

AlarmsInv ==
    /\ AlarmsTypeOK /\ Linked /\ Walk /\ Timed
    /\ \E rank \in [Links -> Nat] : Ordered(rank) /\ Waiting(rank)

----------------------------------------------------------------------------
\* Sums of two numbers below WRAP lose WRAP or nothing.
LEMMA LaterIs ==
    ASSUME NEW t \in 0 .. WRAP - 1, NEW n \in 0 .. WRAP - 1
    PROVE  /\ Later(t, n) \in 0 .. WRAP - 1
           /\ t + n < WRAP => Later(t, n) = t + n
           /\ t + n >= WRAP => Later(t, n) = t + n - WRAP
<1>1. WRAP \in Nat \ {0}
  BY AlarmsAssumption
<1>2. ASSUME NEW x \in 0 .. WRAP - 1 PROVE x % WRAP = x
  BY <1>1
<1>3. ASSUME NEW x \in 0 .. WRAP - 1 PROVE (x + WRAP) % WRAP = x
  BY <1>1
<1>4. CASE t + n < WRAP
  BY <1>1, <1>2, <1>4 DEF Later
<1>5. CASE t + n >= WRAP
  <2> DEFINE x == t + n - WRAP
  <2>1. x \in 0 .. WRAP - 1 /\ x + WRAP = t + n
    BY <1>1, <1>5
  <2>2. (x + WRAP) % WRAP = x
    BY <2>1, <1>3
  <2>3. Later(t, n) = x
    BY <1>1, <2>1, <2>2 DEF Later
  <2> QED BY <1>1, <1>5, <2>1, <2>3
<1> QED BY <1>1, <1>4, <1>5

\* Who is behind somebody in the ring is in it.
LEMMA NextInRing ==
    ASSUME AlarmsTypeOK, Linked, NEW l \in Links, InRing(l)
    PROVE  next[l] \in Links /\ InRing(next[l])
BY DEF AlarmsTypeOK, Linked, InRing, Listed, Links

\* Removing an alarm takes it out of the ring and changes nothing else in it.
LEMMA RemoveKeeps ==
    ASSUME AlarmsTypeOK, Linked, NEW rank, Ordered(rank), NEW a \in ALARMS, Remove(a)
    PROVE  /\ next' \in [Links -> Links] /\ previous' \in [Links -> Links]
           /\ Linked' /\ Ordered(rank)'
           /\ \A b \in ALARMS : Listed(b)' <=> Listed(b) /\ b # a
           /\ \A l \in Links : l # a /\ next[l] # a => next'[l] = next[l]
<1> DEFINE p == previous[a]
           n == next[a]
<1>1. /\ a \in Links /\ p \in Links /\ n \in Links /\ HEAD \in Links /\ HEAD # a
      /\ next \in [Links -> Links] /\ previous \in [Links -> Links]
      /\ next[p] = a /\ previous[n] = a
  BY AlarmsAssumption DEF Links, AlarmsTypeOK, Linked
<1>2. /\ \A l \in Links : next'[l] = IF l = a THEN a ELSE IF l = p THEN n ELSE next[l]
      /\ \A l \in Links : previous'[l] = IF l = a THEN a ELSE IF l = n THEN p ELSE previous[l]
      /\ next' \in [Links -> Links] /\ previous' \in [Links -> Links]
  BY <1>1 DEF Remove, Unlinked
<1>3. \A l \in Links : l # a /\ next[l] # a => next'[l] = next[l]
  BY <1>1, <1>2
<1>4. Linked'
  BY <1>1, <1>2 DEF Linked
<1>5. ~ Listed(a) => p = a /\ n = a
  BY <1>1 DEF Listed, Linked
<1>6. Listed(a) => InRing(p) /\ InRing(n) /\ p # a /\ n # a
  BY <1>1 DEF Listed, Linked, InRing
<1>7. Listed(a) /\ n # HEAD => rank[n] < rank[a]
  BY <1>1 DEF Ordered, InRing
<1>8. Listed(a) => rank[a] < rank[p]
  BY <1>1, <1>6 DEF Ordered, InRing
<1>9. rank \in [Links -> Nat]
  BY DEF Ordered
<1>10. \A b \in ALARMS : Listed(b)' <=> Listed(b) /\ b # a
  <2> SUFFICES ASSUME NEW b \in ALARMS
               PROVE  next'[b] # b <=> next[b] # b /\ b # a
    BY DEF Listed
  <2>1. b \in Links /\ b # HEAD
    BY AlarmsAssumption DEF Links
  <2>2. CASE b = a
    BY <1>1, <1>2, <2>2
  <2>3. CASE b # a /\ b = p
    <3>1. Listed(a)
      BY <1>5, <2>3
    <3>2. n # b
      BY <1>1, <1>7, <1>8, <1>9, <2>1, <2>3, <3>1
    <3>3. next[b] # b
      BY <1>1, <2>3
    <3> QED BY <1>2, <2>1, <2>3, <3>2, <3>3
  <2>4. CASE b # a /\ b # p
    BY <1>2, <2>1, <2>4
  <2> QED BY <2>2, <2>3, <2>4
<1>11. \A l \in Links : InRing(l)' <=> InRing(l) /\ l # a
  BY <1>1, <1>10 DEF InRing, Links
<1>12. \A l \in Links : InRing(l)' => next'[l] = HEAD \/ rank[next'[l]] < rank[l]
  <2> SUFFICES ASSUME NEW l \in Links, InRing(l), l # a, next'[l] # HEAD
               PROVE  rank[next'[l]] < rank[l]
    BY <1>11
  <2>1. CASE l = p /\ Listed(a)
    BY <1>1, <1>2, <1>7, <1>8, <1>9, <2>1
  <2>2. CASE ~ (l = p /\ Listed(a))
    BY <1>1, <1>2, <1>5, <2>2 DEF Ordered
  <2> QED BY <2>1, <2>2
<1>13. \A l \in Links, b \in ALARMS : InRing(l)' /\ Listed(b)' /\ rank[b] < rank[l] =>
         next'[l] # HEAD /\ rank[b] <= rank[next'[l]]
  <2> SUFFICES ASSUME NEW l \in Links, NEW b \in ALARMS, InRing(l), l # a, Listed(b), b # a,
                      rank[b] < rank[l]
               PROVE  next'[l] # HEAD /\ rank[b] <= rank[next'[l]]
    BY <1>10, <1>11
  <2>1. CASE l = p /\ Listed(a)
    <3>1. rank[b] <= rank[a]
      BY <1>1, <2>1 DEF Ordered
    <3>2. rank[b] < rank[a]
      BY <1>1, <1>9, <2>1, <3>1 DEF Ordered, Links
    <3>3. n # HEAD /\ rank[b] <= rank[n]
      BY <1>1, <2>1, <3>2 DEF Ordered, InRing
    <3> QED BY <1>2, <2>1, <3>3
  <2>2. CASE ~ (l = p /\ Listed(a))
    BY <1>1, <1>2, <1>5, <2>2 DEF Ordered
  <2> QED BY <2>1, <2>2
<1>14. Ordered(rank)'
  BY <1>9, <1>10, <1>12, <1>13 DEF Ordered
<1> QED BY <1>2, <1>3, <1>4, <1>10, <1>14

\* A new alarm comes first in the ring and changes nothing else in it.
LEMMA InsertKeeps ==
    ASSUME AlarmsTypeOK, Linked, NEW rank, Ordered(rank), NEW a \in ALARMS, ~ Listed(a),
           Insert(next, previous, a), NEW higher \in [Links -> Nat],
           \A l \in Links : higher[l] = IF l = HEAD THEN rank[HEAD] + 1
                                        ELSE IF l = a THEN rank[HEAD] ELSE rank[l]
    PROVE  /\ next' \in [Links -> Links] /\ previous' \in [Links -> Links]
           /\ Linked' /\ Ordered(higher)'
           /\ \A b \in ALARMS : b # a => higher[b] = rank[b]
           /\ \A b \in ALARMS : Listed(b)' <=> Listed(b) \/ b = a
           /\ \A b \in ALARMS : b # a => next'[b] = next[b]
<1> DEFINE n == next[HEAD]
<1>1. /\ a \in Links /\ n \in Links /\ HEAD \in Links /\ HEAD # a
      /\ next \in [Links -> Links] /\ previous \in [Links -> Links]
      /\ previous[n] = HEAD /\ next[a] = a /\ previous[a] = a /\ n # a
      /\ rank \in [Links -> Nat]
  BY AlarmsAssumption DEF Links, AlarmsTypeOK, Linked, Listed, Ordered
<1>2. /\ \A l \in Links : next'[l] = IF l = HEAD THEN a ELSE IF l = a THEN n ELSE next[l]
      /\ \A l \in Links : previous'[l] = IF l = n THEN a ELSE IF l = a THEN HEAD ELSE previous[l]
      /\ next' \in [Links -> Links] /\ previous' \in [Links -> Links]
  BY <1>1 DEF Insert
<1>3. /\ \A l \in Links : higher[l] = IF l = HEAD THEN rank[HEAD] + 1
                                      ELSE IF l = a THEN rank[HEAD] ELSE rank[l]
      /\ higher \in [Links -> Nat]
  BY <1>1
<1>4. Linked'
  BY <1>1, <1>2 DEF Linked
<1>5. \A b \in ALARMS : Listed(b)' <=> Listed(b) \/ b = a
  BY <1>1, <1>2, AlarmsAssumption DEF Listed, Links
<1>6. \A l \in Links : InRing(l)' <=> InRing(l) \/ l = a
  BY <1>1, <1>5 DEF InRing, Links
<1>7. \A b \in ALARMS : Listed(b) => rank[b] < rank[HEAD] /\ b # a /\ b # HEAD /\ b \in Links
  BY AlarmsAssumption DEF Ordered, Links
<1>8. n # HEAD => Listed(n) /\ n \in ALARMS
  BY <1>1, NextInRing DEF InRing, Links
<1>9. \A b \in ALARMS : Listed(b) => n # HEAD /\ rank[b] <= rank[n]
  BY <1>1, <1>7 DEF Ordered, InRing
<1>10. \A b, c \in ALARMS : Listed(b)' /\ Listed(c)' /\ higher[b] = higher[c] => b = c
  <2> SUFFICES ASSUME NEW b \in ALARMS, NEW c \in ALARMS, Listed(b) \/ b = a, Listed(c) \/ c = a,
                      higher[b] = higher[c]
               PROVE  b = c
    BY <1>5
  <2>1. Listed(b) => higher[b] = rank[b] /\ rank[b] < rank[HEAD]
    BY <1>3, <1>7
  <2>2. Listed(c) => higher[c] = rank[c] /\ rank[c] < rank[HEAD]
    BY <1>3, <1>7
  <2>3. higher[a] = rank[HEAD] /\ rank[HEAD] \in Nat
    BY <1>1, <1>3
  <2>4. Listed(b) /\ Listed(c) => b = c
    BY <2>1, <2>2 DEF Ordered
  <2> QED BY <2>1, <2>2, <2>3, <2>4
<1>11. \A b \in ALARMS : Listed(b)' => higher[b] < higher[HEAD]
  BY <1>1, <1>3, <1>5, <1>7
<1>12. \A l \in Links : InRing(l)' => next'[l] = HEAD \/ higher[next'[l]] < higher[l]
  <2> SUFFICES ASSUME NEW l \in Links, InRing(l) \/ l = a, next'[l] # HEAD
               PROVE  higher[next'[l]] < higher[l]
    BY <1>6
  <2>1. CASE l = HEAD
    BY <1>1, <1>2, <1>3, <2>1
  <2>2. CASE l = a
    BY <1>1, <1>2, <1>3, <1>7, <1>8, <2>2
  <2>3. CASE l # HEAD /\ l # a
    <3>1. next'[l] = next[l] /\ next[l] # HEAD /\ rank[next[l]] < rank[l] /\ Listed(l) /\ l \in ALARMS
      BY <1>2, <2>3 DEF Ordered, InRing, Links
    <3>2. next[l] # a
      BY <1>1, <2>3 DEF Linked
    <3> QED BY <1>1, <1>3, <2>3, <3>1, <3>2
  <2> QED BY <2>1, <2>2, <2>3
<1>13. \A l \in Links, b \in ALARMS : InRing(l)' /\ Listed(b)' /\ higher[b] < higher[l] =>
         next'[l] # HEAD /\ higher[b] <= higher[next'[l]]
  <2> SUFFICES ASSUME NEW l \in Links, NEW b \in ALARMS, InRing(l) \/ l = a, Listed(b) \/ b = a,
                      higher[b] < higher[l]
               PROVE  next'[l] # HEAD /\ higher[b] <= higher[next'[l]]
    BY <1>5, <1>6
  <2>1. CASE l = HEAD
    BY <1>1, <1>2, <1>3, <1>7, <2>1
  <2>2. CASE l = a
    <3>1. Listed(b)
      BY <1>1, <1>3, <2>2
    <3>2. n # HEAD /\ rank[b] <= rank[n] /\ higher[b] = rank[b] /\ higher[n] = rank[n]
      BY <1>1, <1>3, <1>7, <1>9, <3>1
    <3> QED BY <1>1, <1>2, <2>2, <3>2
  <2>3. CASE l # HEAD /\ l # a
    <3>1. next'[l] = next[l] /\ Listed(l) /\ l \in ALARMS /\ higher[l] = rank[l]
      BY <1>2, <1>3, <2>3 DEF InRing, Links
    <3>2. b # a
      BY <1>1, <1>3, <1>7, <2>3, <3>1
    <3>3. Listed(b) /\ higher[b] = rank[b] /\ b # HEAD
      BY <1>3, <1>7, <3>2, AlarmsAssumption
    <3>4. next[l] # HEAD /\ rank[b] <= rank[next[l]]
      BY <2>3, <3>1, <3>3 DEF Ordered, InRing
    <3>5. next[l] # a
      BY <1>1, <2>3 DEF Linked
    <3>6. next[l] \in Links
      BY <1>1
    <3> QED BY <1>3, <3>1, <3>3, <3>4, <3>5, <3>6
  <2> QED BY <2>1, <2>2, <2>3
<1>14. Ordered(higher)'
  BY <1>3, <1>10, <1>11, <1>12, <1>13 DEF Ordered
<1>15. \A b \in ALARMS : b # a => higher[b] = rank[b] /\ next'[b] = next[b]
  BY <1>2, <1>3, AlarmsAssumption DEF Links
<1> QED BY <1>2, <1>3, <1>4, <1>5, <1>14, <1>15

\* Along the links from the head comes every alarm of the list: of those that do not, the one
\* with the highest rank would come behind one that does.
LEMMA AllReached ==
    ASSUME AlarmsTypeOK, Linked, NEW rank, Ordered(rank)
    PROVE  Ring
<1> SUFFICES ASSUME NEW S \in SUBSET Links, HEAD \in S, \A l \in S : next[l] \in S,
                    NEW a \in ALARMS, Listed(a), a \notin S
             PROVE  FALSE
  BY DEF Ring, Linked
<1> DEFINE Below(b) == rank[HEAD] - rank[b]
           T == {b \in ALARMS : Listed(b) /\ b \notin S}
           Depths == {Below(b) : b \in T}
<1>1. \A b \in T : Below(b) \in Nat /\ b \in Links /\ HEAD \in Links
  BY DEF Ordered, Links
<1>2. Depths \in SUBSET Nat /\ Depths # {}
  BY <1>1
<1>3. PICK d \in Depths : \A e \in Depths : d <= e
  BY <1>2, LeastElement
<1>4. PICK b \in T : \A c \in T : Below(b) <= Below(c)
  BY <1>3
<1> DEFINE p == previous[b]
<1>5. p \in Links /\ next[p] = b /\ p \notin S /\ p # HEAD
  BY <1>1, <1>4 DEF AlarmsTypeOK, Linked
<1>6. p # b
  BY <1>4, <1>5 DEF Listed
<1>7. Listed(p) /\ p \in T
  BY <1>5, <1>6 DEF Listed, Links
<1>8. rank[b] < rank[p]
  BY <1>4, <1>5, <1>7, AlarmsAssumption DEF Ordered, InRing
<1>9. rank[b] \in Nat /\ rank[p] \in Nat /\ rank[HEAD] \in Nat
  BY <1>1, <1>4, <1>5 DEF Ordered
<1>10. Below(b) <= Below(p)
  BY <1>4, <1>7
<1> QED BY <1>8, <1>9, <1>10

\* The counter goes one up, or back to 0.
LEMMA NextTick ==
    ASSUME AlarmsTypeOK, nticks' = (nticks + 1) % WRAP
    PROVE  /\ nticks' \in 0 .. WRAP - 1
           /\ nticks + 1 < WRAP => nticks' = nticks + 1
           /\ nticks + 1 = WRAP => nticks' = 0
BY AlarmsAssumption DEF AlarmsTypeOK

----------------------------------------------------------------------------
(* What each step does to the invariant                                     *)

\* Starting an alarm, from the program or from a callback of another one.
LEMMA StartKeeps ==
    ASSUME AlarmsInv, NEW a \in ALARMS, Start(a), a # tick.alarm, UNCHANGED <<nticks, tick>>
    PROVE  AlarmsInv'
<1>1. AlarmsTypeOK /\ Linked /\ Walk /\ Timed
  BY DEF AlarmsInv
<1>2. PICK rank \in [Links -> Nat] : Ordered(rank) /\ Waiting(rank)
  BY DEF AlarmsInv
<1>3. PICK n \in 0 .. WRAP - 2 :
        /\ ~ Listed(a)
        /\ time' = [time EXCEPT ![a] = Later(nticks, n + 1)]
        /\ rollover' = [rollover EXCEPT ![a] = Rolls(time'[a])]
        /\ Insert(next, previous, a)
        /\ due' = [due EXCEPT ![a] = n + 1]
  BY DEF Start
<1>4. /\ WRAP \in Nat \ {0} /\ n + 1 \in 0 .. WRAP - 1 /\ nticks \in 0 .. WRAP - 1
      /\ nticks' = nticks /\ tick' = tick
  BY <1>1, <1>3, AlarmsAssumption DEF AlarmsTypeOK
<1> DEFINE raised == [l \in Links |-> IF l = HEAD THEN rank[HEAD] + 1
                                       ELSE IF l = a THEN rank[HEAD] ELSE rank[l]]
<1>0. PICK higher \in [Links -> Nat] :
        \A l \in Links : higher[l] = IF l = HEAD THEN rank[HEAD] + 1
                                     ELSE IF l = a THEN rank[HEAD] ELSE rank[l]
  <2>1. rank[HEAD] \in Nat
    BY DEF Links
  <2>2. raised \in [Links -> Nat]
    BY <2>1
  <2> QED BY <2>2
<1> HIDE DEF raised
<1>5. /\ next' \in [Links -> Links] /\ previous' \in [Links -> Links]
      /\ Linked' /\ Ordered(higher)'
      /\ \A b \in ALARMS : b # a => higher[b] = rank[b]
      /\ \A b \in ALARMS : Listed(b)' <=> Listed(b) \/ b = a
      /\ \A b \in ALARMS : b # a => next'[b] = next[b]
  BY <1>0, <1>1, <1>2, <1>3, InsertKeeps
<1>6. Later(nticks, n + 1) \in 0 .. WRAP - 1
  BY <1>4, LaterIs
<1>7. /\ time'[a] = nticks + (n + 1) \/ time'[a] = nticks + (n + 1) - WRAP
      /\ rollover'[a] <=> time'[a] < nticks
      /\ due'[a] = n + 1
      /\ time'[a] \in 0 .. WRAP - 1
  <2>1. Later(nticks, n + 1) = nticks + (n + 1) \/ Later(nticks, n + 1) = nticks + (n + 1) - WRAP
    BY <1>4, LaterIs
  <2>2. time'[a] = Later(nticks, n + 1) /\ due'[a] = n + 1 /\ rollover'[a] = Rolls(time'[a])
    BY <1>1, <1>3 DEF AlarmsTypeOK
  <2> QED BY <1>6, <2>1, <2>2 DEF Rolls
<1>8. \A b \in ALARMS : b # a => time'[b] = time[b] /\ rollover'[b] = rollover[b] /\ due'[b] = due[b]
  BY <1>1, <1>3 DEF AlarmsTypeOK
<1>9. AlarmsTypeOK'
  BY <1>1, <1>3, <1>4, <1>5, <1>6 DEF AlarmsTypeOK, Rolls
<1>10. tick.alarm # HEAD => tick.next # a
  BY <1>1, <1>3, AlarmsAssumption DEF Walk
<1>11. tick.alarm # HEAD =>
         tick.alarm \in ALARMS /\ (tick.next # HEAD => tick.next \in ALARMS)
  BY <1>1 DEF AlarmsTypeOK, Links
<1>12. Walk'
  BY <1>1, <1>4, <1>5, <1>10, <1>11 DEF Walk
<1>13. Timed'
  <2> SUFFICES ASSUME NEW b \in ALARMS, Listed(b)'
               PROVE  /\ time'[b] = nticks + due'[b] \/ time'[b] = nticks + due'[b] - WRAP
                      /\ Flag(b)' <=> time'[b] < nticks
    BY <1>4 DEF Timed
  <2>1. CASE b = a
    BY <1>4, <1>7, <2>1 DEF Flag
  <2>2. CASE b # a
    BY <1>1, <1>4, <1>5, <1>8, <2>2 DEF Timed, Flag
  <2> QED BY <2>1, <2>2
<1>14. Waiting(higher)'
  <2> SUFFICES ASSUME NEW b \in ALARMS, Listed(b)', ~ Ahead(higher, b)'
               PROVE  due'[b] > 0 /\ (nticks = 0 => ~ rollover'[b])
    BY <1>4 DEF Waiting
  <2>1. CASE b = a
    BY <1>3, <1>4, <1>7, <2>1
  <2>2. CASE b # a
    <3>1. Listed(b) /\ higher[b] = rank[b]
      BY <1>5, <2>2
    <3>2. ~ Ahead(rank, b)
      BY <1>4, <1>5, <1>10, <1>11, <3>1 DEF Ahead
    <3> QED BY <1>2, <1>8, <2>2, <3>1, <3>2 DEF Waiting
  <2> QED BY <2>1, <2>2
<1> QED BY <1>5, <1>9, <1>12, <1>13, <1>14 DEF AlarmsInv

\* Stopping an alarm that alt_tick does not visit next.
LEMMA StopKeeps ==
    ASSUME AlarmsInv, NEW a \in ALARMS, Stop(a), tick.alarm # HEAD => a # tick.next,
           UNCHANGED <<nticks, tick>>
    PROVE  AlarmsInv'
<1>1. AlarmsTypeOK /\ Linked /\ Walk /\ Timed
  BY DEF AlarmsInv
<1>2. PICK rank \in [Links -> Nat] : Ordered(rank) /\ Waiting(rank)
  BY DEF AlarmsInv
<1>3. /\ Remove(a) /\ time' = time /\ rollover' = rollover /\ nticks' = nticks /\ tick' = tick
      /\ due' = [due EXCEPT ![a] = 0]
  BY DEF Stop
<1>4. /\ next' \in [Links -> Links] /\ previous' \in [Links -> Links]
      /\ Linked' /\ Ordered(rank)'
      /\ \A b \in ALARMS : Listed(b)' <=> Listed(b) /\ b # a
      /\ \A l \in Links : l # a /\ next[l] # a => next'[l] = next[l]
  BY <1>1, <1>2, <1>3, RemoveKeeps
<1>5. /\ AlarmsTypeOK'
      /\ \A b \in ALARMS : b # a => due'[b] = due[b]
  BY <1>1, <1>3, <1>4, AlarmsAssumption DEF AlarmsTypeOK
<1>6. tick.alarm # HEAD =>
         /\ tick.alarm \in ALARMS /\ tick.alarm \in Links
         /\ tick.next # HEAD => tick.next \in ALARMS
  BY <1>1 DEF AlarmsTypeOK, Links
<1>7. Walk'
  BY <1>1, <1>3, <1>4, <1>6, AlarmsAssumption DEF Walk
<1>8. Timed'
  BY <1>1, <1>3, <1>4, <1>5 DEF Timed, Flag
<1>9. Waiting(rank)'
  BY <1>2, <1>3, <1>4, <1>5 DEF Waiting, Ahead
<1> QED BY <1>2, <1>4, <1>5, <1>7, <1>8, <1>9 DEF AlarmsInv

\* Going on to the next alarm: nobody is passed over, whether the one alt_tick leaves stays in
\* the list or not.
LEMMA GoingOn ==
    ASSUME AlarmsTypeOK, Linked, Walk, NEW rank, Ordered(rank), tick.alarm # HEAD,
           UNCHANGED <<next, previous>> \/ Remove(tick.alarm), Goto(tick.next)
    PROVE  /\ next' \in [Links -> Links] /\ previous' \in [Links -> Links]
           /\ tick' \in [alarm : Links, next : Links]
           /\ Linked' /\ Ordered(rank)' /\ Walk'
           /\ \A b \in ALARMS : Listed(b)' => Listed(b)
           /\ \A b \in ALARMS : Listed(b)' /\ ~ Ahead(rank, b)' =>
                b = tick.alarm \/ ~ Ahead(rank, b)
<1> PICK a, x, y : a = tick.alarm /\ x = tick.next /\ y = next'[x]
  OBVIOUS
<1>1. /\ a \in ALARMS /\ x \in Links /\ x # a /\ HEAD \notin ALARMS
      /\ x # HEAD => x \in ALARMS /\ Listed(x)
      /\ tick' = [alarm |-> x, next |-> y]
  BY AlarmsAssumption DEF AlarmsTypeOK, Links, Walk, Goto
<1>2. /\ next' \in [Links -> Links] /\ previous' \in [Links -> Links] /\ Linked' /\ Ordered(rank)'
      /\ \A b \in ALARMS : b # a => (Listed(b)' <=> Listed(b))
      /\ \A b \in ALARMS : Listed(b)' => Listed(b)
  <2>1. CASE UNCHANGED <<next, previous>>
    BY <2>1 DEF AlarmsTypeOK, Linked, Ordered, InRing, Listed
  <2>2. CASE Remove(a)
    BY <1>1, <2>2, RemoveKeeps
  <2> QED BY <2>1, <2>2
<1>3. x # HEAD => Listed(x)' /\ y # x
  BY <1>1, <1>2 DEF Listed
<1>4. y \in Links /\ (y # HEAD => y \in ALARMS)
  BY <1>1, <1>2 DEF Links
<1>5. x # HEAD /\ y # HEAD => Listed(y)'
  BY <1>1, <1>2, <1>3, <1>4 DEF Listed, Linked
<1>6. Walk'
  BY <1>1, <1>3, <1>5 DEF Walk
<1>7. ASSUME NEW b \in ALARMS, Listed(b)', ~ Ahead(rank, b)', b # a
      PROVE  ~ Ahead(rank, b)
  <2>1. CASE x = HEAD
    BY <1>7, <2>1 DEF Ahead
  <2>2. CASE x # HEAD
    <3>1. b # x /\ ~ (y # HEAD /\ rank[b] <= rank[y])
      BY <1>1, <1>7, <2>2 DEF Ahead
    <3>2. Listed(b) /\ Listed(x)' /\ x \in ALARMS
      BY <1>1, <1>2, <1>3, <1>7, <2>2
    <3>3. ~ (rank[b] < rank[x])
      BY <1>1, <1>2, <1>7, <2>2, <3>1, <3>2 DEF Ordered, InRing
    <3>4. rank[b] # rank[x]
      BY <1>1, <2>2, <3>1, <3>2 DEF Ordered
    <3>5. rank[b] \in Nat /\ rank[x] \in Nat
      BY <1>1 DEF Ordered, Links
    <3> QED BY <1>7, <3>3, <3>4, <3>5 DEF Ahead
  <2> QED BY <2>1, <2>2
<1>8. tick' \in [alarm : Links, next : Links]
  BY <1>1, <1>4
<1> QED BY <1>2, <1>6, <1>7, <1>8

\* An alarm that is not expired has time to go, and its flag is brought up to date.
LEMMA SkipKeeps ==
    ASSUME AlarmsInv, Skip
    PROVE  AlarmsInv'
<1> DEFINE a == tick.alarm
<1>1. AlarmsTypeOK /\ Linked /\ Walk /\ Timed
  BY DEF AlarmsInv
<1>2. PICK rank \in [Links -> Nat] : Ordered(rank) /\ Waiting(rank)
  BY DEF AlarmsInv
<1>3. /\ a # HEAD /\ ~ Expired(a) /\ a \in ALARMS
      /\ rollover' = [rollover EXCEPT ![a] = Flag(a)]
      /\ next' = next /\ previous' = previous /\ time' = time /\ nticks' = nticks /\ due' = due
      /\ Goto(tick.next)
  BY <1>1 DEF Skip, AlarmsTypeOK, Links
<1>4. /\ tick' \in [alarm : Links, next : Links]
      /\ Linked' /\ Ordered(rank)' /\ Walk'
      /\ \A b \in ALARMS : Listed(b)' => Listed(b)
      /\ \A b \in ALARMS : Listed(b)' /\ ~ Ahead(rank, b)' => b = a \/ ~ Ahead(rank, b)
  BY <1>1, <1>2, <1>3, GoingOn
<1>5. AlarmsTypeOK'
  BY <1>1, <1>3, <1>4 DEF AlarmsTypeOK, Flag
<1>6. \A b \in ALARMS : rollover'[b] = IF b = a THEN Flag(a) ELSE rollover[b]
  BY <1>1, <1>3 DEF AlarmsTypeOK
<1>7. \A b \in ALARMS : Flag(b)' <=> Flag(b)
  BY <1>3, <1>6 DEF Flag
<1>8. Timed'
  BY <1>1, <1>3, <1>4, <1>7 DEF Timed
<1>9. Listed(a) => due[a] > 0
  BY <1>1, <1>3, AlarmsAssumption DEF Timed, Expired, AlarmsTypeOK
<1>10. nticks = 0 => ~ rollover'[a]
  BY <1>3, <1>6 DEF Flag
<1>11. Waiting(rank)'
  <2> SUFFICES ASSUME NEW b \in ALARMS, Listed(b)', ~ Ahead(rank, b)'
               PROVE  due[b] > 0 /\ (nticks = 0 => ~ rollover'[b])
    BY <1>3 DEF Waiting
  <2>1. CASE b = a
    BY <1>4, <1>9, <1>10, <2>1
  <2>2. CASE b # a
    BY <1>2, <1>4, <1>6, <2>2 DEF Waiting
  <2> QED BY <2>1, <2>2
<1> QED BY <1>2, <1>4, <1>5, <1>8, <1>11 DEF AlarmsInv

\* An alarm that is called back is due; it is stopped, or due again later.
LEMMA CallBackKeeps ==
    ASSUME AlarmsInv, CallBack
    PROVE  AlarmsInv'
<1> DEFINE a == tick.alarm
<1>1. AlarmsTypeOK /\ Linked /\ Walk /\ Timed
  BY DEF AlarmsInv
<1>2. PICK rank \in [Links -> Nat] : Ordered(rank) /\ Waiting(rank)
  BY DEF AlarmsInv
<1>3. /\ a # HEAD /\ Expired(a) /\ a \in ALARMS /\ nticks' = nticks
      /\ Goto(tick.next)
      /\ Stop(a) \/ \E n \in 1 .. WRAP - 1 : Again(a, n)
  BY <1>1 DEF CallBack, AlarmsTypeOK, Links
<1>4. UNCHANGED <<next, previous>> \/ Remove(a)
  BY <1>3 DEF Stop, Again
<1>5. /\ next' \in [Links -> Links] /\ previous' \in [Links -> Links]
      /\ tick' \in [alarm : Links, next : Links]
      /\ Linked' /\ Ordered(rank)' /\ Walk'
      /\ \A b \in ALARMS : Listed(b)' => Listed(b)
      /\ \A b \in ALARMS : Listed(b)' /\ ~ Ahead(rank, b)' => b = a \/ ~ Ahead(rank, b)
  BY <1>1, <1>2, <1>3, <1>4, GoingOn
<1>6. CASE Stop(a)
  <2>1. /\ time' = time /\ rollover' = rollover /\ due' = [due EXCEPT ![a] = 0] /\ Remove(a)
    BY <1>6 DEF Stop
  <2>2. \A b \in ALARMS : Listed(b)' => b # a
    BY <1>1, <1>2, <1>3, <2>1, RemoveKeeps
  <2>3. \A b \in ALARMS : b # a => due'[b] = due[b]
    BY <1>1, <2>1 DEF AlarmsTypeOK
  <2>4. AlarmsTypeOK'
    BY <1>1, <1>3, <1>5, <2>1, AlarmsAssumption DEF AlarmsTypeOK
  <2>5. Timed'
    BY <1>1, <1>3, <1>5, <2>1, <2>2, <2>3 DEF Timed, Flag
  <2>6. Waiting(rank)'
    BY <1>2, <1>3, <1>5, <2>1, <2>2, <2>3 DEF Waiting
  <2> QED BY <1>2, <1>5, <2>4, <2>5, <2>6 DEF AlarmsInv
<1>7. CASE \E n \in 1 .. WRAP - 1 : Again(a, n)
  <2>1. PICK n \in 1 .. WRAP - 1 : Again(a, n)
    BY <1>7
  <2>2. /\ time' = [time EXCEPT ![a] = Later(time[a], n)]
        /\ rollover' = [rollover EXCEPT ![a] = Rolls(time'[a])]
        /\ due' = [due EXCEPT ![a] = n]
    BY <2>1 DEF Again
  <2>3. /\ WRAP \in Nat \ {0} /\ time[a] \in 0 .. WRAP - 1 /\ n \in 0 .. WRAP - 1
        /\ nticks \in 0 .. WRAP - 1
    BY <1>1, <1>3, AlarmsAssumption DEF AlarmsTypeOK
  <2>4. /\ Later(time[a], n) \in 0 .. WRAP - 1
        /\ time[a] + n < WRAP => Later(time[a], n) = time[a] + n
        /\ time[a] + n >= WRAP => Later(time[a], n) = time[a] + n - WRAP
    BY <2>3, LaterIs
  <2>5. /\ \A b \in ALARMS : b # a =>
             time'[b] = time[b] /\ rollover'[b] = rollover[b] /\ due'[b] = due[b]
        /\ time'[a] = Later(time[a], n) /\ (rollover'[a] <=> time'[a] < nticks) /\ due'[a] = n
    BY <1>1, <1>3, <2>2 DEF AlarmsTypeOK, Rolls
  <2>6. AlarmsTypeOK'
    BY <1>1, <1>3, <1>5, <2>2, <2>3, <2>4 DEF AlarmsTypeOK, Rolls
  <2>7. Listed(a) => time[a] = nticks
    BY <1>1, <1>3, <2>3 DEF Timed, Expired
  <2>8. Timed'
    <3> SUFFICES ASSUME NEW b \in ALARMS, Listed(b)'
                 PROVE  /\ time'[b] = nticks + due'[b] \/ time'[b] = nticks + due'[b] - WRAP
                        /\ Flag(b)' <=> time'[b] < nticks
      BY <1>3 DEF Timed
    <3>1. CASE b = a
      BY <1>3, <1>5, <2>3, <2>4, <2>5, <2>7, <3>1 DEF Flag
    <3>2. CASE b # a
      BY <1>1, <1>3, <1>5, <2>5, <3>2 DEF Timed, Flag
    <3> QED BY <3>1, <3>2
  <2>9. Waiting(rank)'
    <3> SUFFICES ASSUME NEW b \in ALARMS, Listed(b)', ~ Ahead(rank, b)'
                 PROVE  due'[b] > 0 /\ (nticks = 0 => ~ rollover'[b])
      BY <1>3 DEF Waiting
    <3>1. CASE b = a
      BY <2>3, <2>4, <2>5, <3>1
    <3>2. CASE b # a
      BY <1>2, <1>5, <2>5, <3>2 DEF Waiting
    <3> QED BY <3>1, <3>2
  <2> QED BY <1>2, <1>5, <2>6, <2>8, <2>9 DEF AlarmsInv
<1> QED BY <1>3, <1>6, <1>7

\* A tick begins: every alarm of the list is ahead, and has one tick less to go.
LEMMA BeginKeeps ==
    ASSUME AlarmsInv, Begin
    PROVE  AlarmsInv'
<1> DEFINE x == next[HEAD]
           y == next[next[HEAD]]
<1>1. AlarmsTypeOK /\ Linked /\ Timed
  BY DEF AlarmsInv
<1>2. PICK rank \in [Links -> Nat] : Ordered(rank) /\ Waiting(rank)
  BY DEF AlarmsInv
<1>3. /\ tick.alarm = HEAD /\ x # HEAD /\ nticks' = (nticks + 1) % WRAP
      /\ tick' = [alarm |-> x, next |-> y]
      /\ due' = [b \in ALARMS |-> IF Listed(b) THEN due[b] - 1 ELSE 0]
      /\ next' = next /\ previous' = previous /\ time' = time /\ rollover' = rollover
  BY DEF Begin
<1>4. /\ WRAP \in Nat \ {0} /\ nticks \in 0 .. WRAP - 1 /\ nticks' \in 0 .. WRAP - 1
      /\ nticks + 1 < WRAP => nticks' = nticks + 1
      /\ nticks + 1 = WRAP => nticks' = 0
  BY <1>1, <1>3, NextTick, AlarmsAssumption DEF AlarmsTypeOK
<1>5. /\ HEAD \in Links /\ x \in Links /\ y \in Links /\ x \in ALARMS /\ Listed(x)
      /\ y # x /\ (y # HEAD => y \in ALARMS /\ Listed(y))
  <2>1. HEAD \in Links /\ x \in Links /\ InRing(x)
    BY <1>1, NextInRing DEF Links, InRing
  <2>2. y \in Links /\ InRing(y)
    BY <1>1, <2>1, NextInRing
  <2> QED BY <1>3, <2>1, <2>2 DEF Links, InRing, Listed
<1>6. \A b \in ALARMS : Listed(b) => due[b] \in 1 .. WRAP - 1 /\ (nticks = 0 => ~ rollover[b])
  BY <1>1, <1>2, <1>3, <1>4 DEF Waiting, Ahead, AlarmsTypeOK
<1>7. \A b \in ALARMS : (Listed(b)' <=> Listed(b)) /\ (Listed(b) => due'[b] = due[b] - 1)
  BY <1>3 DEF Listed
<1>8. AlarmsTypeOK'
  BY <1>1, <1>3, <1>4, <1>5, <1>6 DEF AlarmsTypeOK
<1>9. Linked' /\ Ordered(rank)' /\ Walk'
  BY <1>1, <1>2, <1>3, <1>5 DEF Linked, Ordered, InRing, Listed, Walk
<1>10. Timed'
  <2> SUFFICES ASSUME NEW b \in ALARMS, Listed(b)
               PROVE  /\ time[b] = nticks' + (due[b] - 1) \/ time[b] = nticks' + (due[b] - 1) - WRAP
                      /\ Flag(b)' <=> time[b] < nticks'
    BY <1>3, <1>7 DEF Timed
  <2>1. /\ due[b] \in 1 .. WRAP - 1 /\ time[b] \in 0 .. WRAP - 1
        /\ time[b] = nticks + due[b] \/ time[b] = nticks + due[b] - WRAP
        /\ (rollover[b] /\ nticks # 0) <=> time[b] < nticks
        /\ nticks = 0 => ~ rollover[b]
    BY <1>1, <1>6 DEF Timed, Flag, AlarmsTypeOK
  <2>2. Flag(b)' <=> (rollover[b] /\ nticks' # 0)
    BY <1>3 DEF Flag
  <2>3. CASE nticks + 1 < WRAP
    BY <1>4, <2>1, <2>2, <2>3
  <2>4. CASE nticks + 1 = WRAP
    BY <1>4, <2>1, <2>2, <2>4
  <2> QED BY <1>4, <2>3, <2>4
<1>11. \A b \in ALARMS : Listed(b) => Ahead(rank, b)'
  <2> SUFFICES ASSUME NEW b \in ALARMS, Listed(b), b # x
               PROVE  y # HEAD /\ rank[b] <= rank[y]
    BY <1>3, <1>5 DEF Ahead
  <2>1. rank[b] < rank[HEAD] /\ rank[b] <= rank[x]
    BY <1>2, <1>5 DEF Ordered, InRing
  <2>2. rank[b] # rank[x] /\ rank[b] \in Nat /\ rank[x] \in Nat
    BY <1>2, <1>5 DEF Ordered, Links
  <2>3. rank[b] < rank[x]
    BY <2>1, <2>2
  <2> QED BY <1>2, <1>5, <2>3 DEF Ordered, InRing
<1>12. Waiting(rank)'
  BY <1>7, <1>11 DEF Waiting
<1> QED BY <1>2, <1>8, <1>9, <1>10, <1>12 DEF AlarmsInv

\* A tick of an empty list.
LEMMA EmptyKeeps ==
    ASSUME AlarmsInv, Empty
    PROVE  AlarmsInv'
<1>1. AlarmsTypeOK /\ Linked /\ Walk
  BY DEF AlarmsInv
<1>2. PICK rank \in [Links -> Nat] : Ordered(rank) /\ Waiting(rank)
  BY DEF AlarmsInv
<1>3. /\ tick.alarm = HEAD /\ next[HEAD] = HEAD /\ nticks' = (nticks + 1) % WRAP
      /\ next' = next /\ previous' = previous /\ time' = time /\ rollover' = rollover
      /\ tick' = tick /\ due' = due
  BY DEF Empty
<1>4. nticks' \in 0 .. WRAP - 1
  BY <1>1, <1>3, NextTick
<1>5. \A b \in ALARMS : ~ Listed(b)
  BY <1>2, <1>3 DEF Ordered, InRing, Links
<1>6. AlarmsTypeOK' /\ Linked' /\ Walk' /\ Ordered(rank)'
  BY <1>1, <1>2, <1>3, <1>4 DEF AlarmsTypeOK, Linked, Walk, Ordered, InRing, Listed
<1>7. Timed' /\ Waiting(rank)'
  BY <1>3, <1>5 DEF Timed, Waiting, Listed
<1> QED BY <1>2, <1>6, <1>7 DEF AlarmsInv

----------------------------------------------------------------------------
\* At the start the list is empty.
LEMMA Starting == AlarmsInit => AlarmsInv
<1> SUFFICES ASSUME AlarmsInit PROVE AlarmsInv
  OBVIOUS
<1> DEFINE rank == [l \in Links |-> 0]
<1>1. AlarmsTypeOK
  BY AlarmsAssumption DEF AlarmsInit, AlarmsTypeOK, Links
<1>2. \A b \in ALARMS : ~ Listed(b)
  BY DEF AlarmsInit, Listed, Links
<1>3. Linked /\ Walk
  BY DEF AlarmsInit, Linked, Walk
<1>4. rank \in [Links -> Nat] /\ Ordered(rank)
  BY <1>2, AlarmsAssumption DEF AlarmsInit, Ordered, InRing, Links
<1>5. Timed /\ Waiting(rank)
  BY <1>2 DEF Timed, Waiting
<1> QED BY <1>1, <1>3, <1>4, <1>5 DEF AlarmsInv

\* Every step keeps the invariant.
LEMMA Inductive == AlarmsInv /\ [AlarmsNext]_alarmVars => AlarmsInv'
<1> SUFFICES ASSUME AlarmsInv, [AlarmsNext]_alarmVars PROVE AlarmsInv'
  OBVIOUS
<1>1. CASE Program
  <2>1. PICK a \in ALARMS : Start(a) \/ Stop(a)
    BY <1>1 DEF Program
  <2>2. tick.alarm = HEAD /\ a # tick.alarm /\ UNCHANGED <<nticks, tick>>
    BY <1>1, AlarmsAssumption DEF Program
  <2> QED BY <2>1, <2>2, StartKeeps, StopKeeps
<1>2. CASE Begin
  BY <1>2, BeginKeeps
<1>3. CASE Empty
  BY <1>3, EmptyKeeps
<1>4. CASE Skip
  BY <1>4, SkipKeeps
<1>5. CASE InCallBack
  <2>1. PICK a \in ALARMS : \/ a # tick.alarm /\ Start(a)
                            \/ a # tick.next /\ Stop(a)
    BY <1>5 DEF InCallBack
  <2>2. UNCHANGED <<nticks, tick>>
    BY <1>5 DEF InCallBack
  <2> QED BY <2>1, <2>2, StartKeeps, StopKeeps
<1>6. CASE CallBack
  BY <1>6, CallBackKeeps
<1>7. CASE UNCHANGED alarmVars
  BY <1>7 DEF alarmVars, AlarmsInv, AlarmsTypeOK, Linked, Walk, Timed, Flag, Listed, Ordered, InRing,
              Waiting, Ahead
<1> QED BY <1>1, <1>2, <1>3, <1>4, <1>5, <1>6, <1>7 DEF AlarmsNext

\* Types, links, order and times hold in every reachable state.
THEOREM AlarmsConsistent == AlarmsSpec => []AlarmsInv
<1>1. AlarmsInit => AlarmsInv
  BY Starting
<1>2. AlarmsInv /\ [AlarmsNext]_alarmVars => AlarmsInv'
  BY Inductive
<1> QED BY <1>1, <1>2, PTL DEF AlarmsSpec

\* The links stay one ring that holds every alarm of the list, the same in both directions,
\* whatever the program and the callbacks start and stop.
THEOREM StaysOneRing == AlarmsSpec => []OneRing
<1>1. AlarmsInv => OneRing
  BY AllReached DEF AlarmsInv, OneRing
<1> QED BY <1>1, AlarmsConsistent, PTL

\* Every alarm is called back in the tick it has asked for, on whichever side of the end of
\* the counter that lies.
THEOREM CalledBackOnTime == AlarmsSpec => []OnTime
<1>1. AlarmsInv => OnTime
  <2> SUFFICES ASSUME AlarmsInv PROVE OnTime
    OBVIOUS
  <2>1. NeverEarly
    BY AlarmsAssumption DEF AlarmsInv, NeverEarly, Timed, Expired, AlarmsTypeOK
  <2>2. PICK rank \in [Links -> Nat] : Waiting(rank)
    BY DEF AlarmsInv
  <2>3. NeverLate
    BY <2>2 DEF NeverLate, Waiting, Ahead
  <2> QED BY <2>1, <2>3 DEF OnTime
<1> QED BY <1>1, AlarmsConsistent, PTL

----------------------------------------------------------------------------
(* Interrupts: what the invariant says                                      *)

Preemptible == {"runs", "lock", "locked", "preemptible"}
Narrowing == {"open", "preemptible", "widen"}
InProgram == {"runs", "lock", "locked", "handler", "context", "inner lock", "inner locked",
              "active", "ienable", "inner unlock", "unlock"}
InHandler == {"first", "again"} \union Serving

Levels == [at : InProgram \union InHandler, irq : IRQS, isr : ISRS \union {NULL},
           context : ISRS \union {NULL}, saved : Seq(BOOLEAN), old : SUBSET IRQS]

\* What a level has to restore of PIE.
SavedAt(at) ==
    IF at \in {"runs", "lock"} THEN << >>
    ELSE IF at \in {"inner locked", "active", "ienable", "inner unlock"} THEN <<FALSE, TRUE>>
    ELSE <<TRUE>>

\* The program is at the bottom of the stack, and handlers above it; those that have been
\* interrupted could be.
Stacked ==
    /\ stack \in Seq(Levels) /\ Len(stack) >= 1
    /\ \A k \in 1 .. Len(stack) :
         /\ stack[k].at \in InProgram <=> k = Len(stack)
         /\ k > 1 => stack[k].at \in Preemptible
         /\ stack[k].saved = SavedAt(stack[k].at)

\* The mask a level allows when it can be interrupted.
Mask(k) == IF k < Len(stack) THEN Higher(stack[k].irq) ELSE IRQS
InForce == IF Len(stack) = 1 \/ stack[1].at \in Narrowing THEN 1 ELSE 2

Masked ==
    /\ pie \in BOOLEAN /\ asks \subseteq IRQS /\ ienable \subseteq IRQS /\ alt_irq_active \subseteq IRQS
    /\ pie <=> stack[1].at \in Preemptible
    /\ alt_priority_mask = Mask(InForce)
    /\ stack[1].at # "ienable" => ienable = alt_irq_active \cap alt_priority_mask
    /\ stack[1].at = "first" => Pending # {}

Nested ==
    \A k \in 1 .. Len(stack) - 1 :
      /\ stack[k].at \in Narrowing => stack[k].old = Mask(k + 1)
      /\ stack[k].at \in Serving => /\ stack[k].isr # NULL /\ stack[k].isr = stack[k].context
                                    /\ \A j \in k + 1 .. Len(stack) - 1 : stack[k].irq < stack[j].irq

\* The table and the active interrupts agree, but for the entry the program p is changing.
Agrees(p, irqs, active) ==
    /\ irqs \in [IRQS -> [handler : ISRS \union {NULL}, context : ISRS \union {NULL}]]
    /\ \A i \in IRQS :
         /\ IF i = p.irq /\ p.at \in {"context", "inner lock", "inner locked", "active"}
            THEN irqs[i].handler = p.isr
            ELSE i \in active <=> irqs[i].handler # NULL
         /\ (i = p.irq /\ p.at = "context") \/ irqs[i].handler = irqs[i].context

Table == Agrees(stack[Len(stack)], alt_irq, alt_irq_active)

IrqInv == Stacked /\ Masked /\ Nested /\ Table

----------------------------------------------------------------------------
\* What becomes of a stack when its top is replaced, covered or taken away.
LEMMA Replaced ==
    ASSUME NEW S, NEW s \in Seq(S), Len(s) >= 1, NEW x \in S, NEW t, t = <<x>> \o Tail(s)
    PROVE  /\ t \in Seq(S) /\ Len(t) = Len(s) /\ Head(s) = s[1] /\ t[1] = x
           /\ \A k \in 2 .. Len(s) : t[k] = s[k]
OBVIOUS

LEMMA Covered ==
    ASSUME NEW S, NEW s \in Seq(S), NEW x \in S, NEW t, t = <<x>> \o s
    PROVE  /\ t \in Seq(S) /\ Len(t) = Len(s) + 1 /\ t[1] = x
           /\ \A k \in 1 .. Len(s) : t[k + 1] = s[k]
OBVIOUS

LEMMA TakenAway ==
    ASSUME NEW S, NEW s \in Seq(S), Len(s) >= 2, NEW t, t = Tail(s)
    PROVE  /\ t \in Seq(S) /\ Len(t) = Len(s) - 1
           /\ \A k \in 1 .. Len(s) - 1 : t[k] = s[k + 1]
OBVIOUS

\* Sequences of one or two elements, of any kind.
LEMMA Two ==
    ASSUME NEW S, NEW x \in S, NEW y \in S, NEW s, NEW t, s = <<x>>, t = <<y>>
    PROVE  s \o t = <<x, y>>
<1>1. s \o t \in Seq(S) /\ Len(s \o t) = 2 /\ (s \o t)[1] = x /\ (s \o t)[2] = y
  OBVIOUS
<1>2. ASSUME NEW u \in Seq(S), Len(u) = 2, u[1] = x, u[2] = y
      PROVE  u = <<x, y>>
  BY <1>2
<1>3. QED
  BY <1>1, <1>2

LEMMA Short ==
    ASSUME NEW S, NEW x \in S, NEW y \in S
    PROVE  /\ <<x>> \o << >> = <<x>> /\ <<x>> \o <<y>> = <<x, y>>
           /\ Tail(<<x>>) = << >> /\ Head(<<x>>) = x
           /\ Tail(<<x, y>>) = <<y>> /\ Head(<<x, y>>) = x
           /\ << >> \in Seq(S) /\ <<x>> \in Seq(S) /\ <<x, y>> \in Seq(S)
<1>1. <<x>> \o << >> = <<x>>
  OBVIOUS
<1>2. <<x>> \o <<y>> = <<x, y>>
  BY Two
<1>3. Tail(<<x>>) = << >> /\ Head(<<x>>) = x
  OBVIOUS
<1>4. Tail(<<x, y>>) = <<y>> /\ Head(<<x, y>>) = x
  OBVIOUS
<1>5. << >> \in Seq(S) /\ <<x>> \in Seq(S) /\ <<x, y>> \in Seq(S)
  OBVIOUS
<1>6. QED
  BY <1>1, <1>2, <1>3, <1>4, <1>5

\* What is saved of PIE.
LEMMA Bits ==
    /\ <<TRUE>> \o << >> = <<TRUE>> /\ <<FALSE>> \o <<TRUE>> = <<FALSE, TRUE>>
    /\ Tail(<<TRUE>>) = << >> /\ Head(<<TRUE>>) = TRUE
    /\ Tail(<<FALSE, TRUE>>) = <<TRUE>> /\ Head(<<FALSE, TRUE>>) = FALSE
    /\ << >> \in Seq(BOOLEAN) /\ <<TRUE>> \in Seq(BOOLEAN) /\ <<FALSE, TRUE>> \in Seq(BOOLEAN)
<1>1. \A x, y \in BOOLEAN :
        /\ <<x>> \o << >> = <<x>> /\ <<x>> \o <<y>> = <<x, y>>
        /\ Tail(<<x>>) = << >> /\ Head(<<x>>) = x
        /\ Tail(<<x, y>>) = <<y>> /\ Head(<<x, y>>) = x
        /\ << >> \in Seq(BOOLEAN) /\ <<x>> \in Seq(BOOLEAN) /\ <<x, y>> \in Seq(BOOLEAN)
  BY Short, Zenon
<1>2. TRUE \in BOOLEAN /\ FALSE \in BOOLEAN
  OBVIOUS
<1>3. QED
  BY <1>1, <1>2, Zenon

\* A set of numbers that is not empty has a least element.
LEMMA LeastOf ==
    ASSUME NEW S \in SUBSET Nat, S # {}
    PROVE  Min(S) \in S
<1>1. PICK x \in S : \A y \in S : ~ (<<y, x>> \in OpToRel(<, Nat))
  BY WFMin, NatLessThanWellFounded
<1>2. \A y \in S : ~ (y < x)
  BY <1>1 DEF OpToRel
<1>3. \A y \in S : x <= y
  BY <1>2
<1>4. QED
  BY <1>3 DEF Min

\* The level on top: the program when it is alone, or a handler.
LEMMA OnTop ==
    ASSUME IrqInv
    PROVE  /\ Top = stack[1] /\ Top \in Levels /\ Len(stack) \in Nat /\ Len(stack) >= 1
           /\ stack \in Seq(Levels) /\ Top.saved = SavedAt(Top.at)
           /\ Top.at \in InProgram => Len(stack) = 1 /\ InForce = 1 /\ Mask(1) = IRQS
           /\ Top.at \in InHandler => Len(stack) >= 2
           /\ Top.at \in InProgram \union InHandler
<1>1. stack \in Seq(Levels) /\ Len(stack) >= 1 /\ Len(stack) \in Nat
  BY DEF IrqInv, Stacked
<1>2. Top = stack[1] /\ Top \in Levels
  BY <1>1 DEF Top
<1>3. Top.saved = SavedAt(Top.at) /\ (Top.at \in InProgram <=> 1 = Len(stack))
  <2>1. 1 \in 1 .. Len(stack)
    BY <1>1
  <2>2. QED
    BY <1>2, <2>1 DEF IrqInv, Stacked
<1>4. \A a \in InHandler : a \notin InProgram
  BY DEF InHandler, InProgram, Serving
<1>5. Top.at \in InProgram \union InHandler
  BY <1>2 DEF Levels
<1>6. Top.at \in InProgram => Len(stack) = 1 /\ InForce = 1 /\ Mask(1) = IRQS
  BY <1>3 DEF InForce, Mask
<1>7. Top.at \in InHandler => Len(stack) >= 2
  <2>1. Top.at \in InHandler => Len(stack) # 1
    BY <1>3, <1>4, Zenon
  <2> DEFINE n == Len(stack)
  <2>2. n \in Nat /\ n >= 1
    BY <1>1
  <2> HIDE DEF n
  <2>3. n # 1 => n >= 2
    BY <2>2
  <2>4. QED
    BY <2>1, <2>3, Zenon DEF n
<1>8. QED
  BY <1>1, <1>2, <1>3, <1>5, <1>6, <1>7

\* The program does a step while it is alone.
LEMMA ProgramKeeps ==
    ASSUME IrqInv, Top.at \in InProgram,
           NEW new \in Levels, new.at \in InProgram, new.saved = SavedAt(new.at), Becomes(new),
           asks' = asks, alt_priority_mask' = alt_priority_mask,
           pie' \in BOOLEAN, pie' <=> new.at \in Preemptible,
           ienable' \subseteq IRQS, alt_irq_active' \subseteq IRQS,
           new.at # "ienable" => ienable' = alt_irq_active',
           Agrees(new, alt_irq', alt_irq_active')
    PROVE  IrqInv'
<1>1. /\ stack \in Seq(Levels) /\ Len(stack) = 1 /\ InForce = 1 /\ Mask(1) = IRQS
  BY OnTop
<1>2. /\ stack' \in Seq(Levels) /\ Len(stack') = 1 /\ stack'[1] = new
  BY <1>1, Replaced DEF Becomes
<1>3. Stacked'
  BY <1>2 DEF Stacked
<1>4. alt_priority_mask' = IRQS /\ InForce' = 1 /\ Mask(1)' = IRQS
  BY <1>1, <1>2 DEF IrqInv, Masked, InForce, Mask
<1>5. new.at # "first"
  BY DEF InProgram
<1>6. Masked'
  <2>1. new.at # "ienable" => ienable' = alt_irq_active' \cap alt_priority_mask'
    BY <1>4
  <2>2. QED
    BY <1>2, <1>4, <1>5, <2>1 DEF IrqInv, Masked
<1>7. Nested'
  BY <1>2 DEF Nested
<1>8. Table'
  BY <1>2 DEF Table
<1>9. QED
  BY <1>3, <1>6, <1>7, <1>8 DEF IrqInv

\* A handler does a step, with everything below it as it was.
LEMMA HandlerKeeps ==
    ASSUME IrqInv, Top.at \in InHandler,
           NEW new \in Levels, new.at \in InHandler \ {"first"}, new.saved = <<TRUE>>, Becomes(new),
           asks' \subseteq IRQS, UNCHANGED <<alt_irq, alt_irq_active>>,
           pie' \in BOOLEAN, pie' <=> new.at = "preemptible",
           alt_priority_mask' = IF new.at \in Narrowing THEN Higher(new.irq) ELSE Mask(2),
           ienable' = alt_irq_active \cap alt_priority_mask',
           new.at \in Narrowing => new.old = Mask(2),
           new.at \in Serving => /\ new.isr # NULL /\ new.isr = new.context
                                 /\ \A j \in 2 .. Len(stack) - 1 : new.irq < stack[j].irq
    PROVE  IrqInv'
<1>1. stack \in Seq(Levels) /\ Len(stack) \in Nat /\ Len(stack) >= 2
  BY OnTop
<1>2. /\ stack' \in Seq(Levels) /\ Len(stack') = Len(stack) /\ stack'[1] = new
      /\ \A k \in 2 .. Len(stack) : stack'[k] = stack[k]
  BY <1>1, Replaced DEF Becomes
<1>3. \A k \in 2 .. Len(stack) : Mask(k)' = Mask(k)
  BY <1>1, <1>2 DEF Mask, Higher
<1>4. /\ new.at \notin InProgram /\ new.at # "ienable" /\ new.at # "first"
      /\ new.saved = SavedAt(new.at) /\ (new.at \in Preemptible <=> new.at = "preemptible")
  BY DEF InHandler, InProgram, Serving, SavedAt, Preemptible
<1>5. Stacked'
  <2>1. \A k \in 1 .. Len(stack') :
          /\ stack'[k].at \in InProgram <=> k = Len(stack')
          /\ k > 1 => stack'[k].at \in Preemptible
          /\ stack'[k].saved = SavedAt(stack'[k].at)
    <3>1. TAKE k \in 1 .. Len(stack')
    <3>2. CASE k = 1
      BY <1>1, <1>2, <1>4, <3>2
    <3>3. CASE k # 1
      BY <1>1, <1>2, <3>3 DEF IrqInv, Stacked
    <3>4. QED
      BY <3>2, <3>3
  <2>2. QED
    BY <1>1, <1>2, <2>1 DEF Stacked
<1>6. Masked'
  <2>1. alt_priority_mask' = Mask(InForce)'
    <3>1. CASE new.at \in Narrowing
      BY <1>1, <1>2, <3>1 DEF InForce, Mask, Higher
    <3>2. CASE new.at \notin Narrowing
      BY <1>1, <1>2, <1>3, <3>2 DEF InForce
    <3>3. QED
      BY <3>1, <3>2
  <2>2. ienable' \subseteq IRQS /\ alt_irq_active' \subseteq IRQS
    BY DEF IrqInv, Masked
  <2>3. QED
    BY <1>2, <1>4, <2>1, <2>2 DEF Masked
<1>7. Nested'
  <2>1. SUFFICES ASSUME NEW k \in 1 .. Len(stack') - 1
                 PROVE  /\ stack'[k].at \in Narrowing => stack'[k].old = Mask(k + 1)'
                        /\ stack'[k].at \in Serving =>
                             /\ stack'[k].isr # NULL /\ stack'[k].isr = stack'[k].context
                             /\ \A j \in k + 1 .. Len(stack') - 1 : stack'[k].irq < stack'[j].irq
    BY DEF Nested
  <2>2. CASE k = 1
    <3>1. stack'[1].at \in Narrowing => stack'[1].old = Mask(2)'
      BY <1>1, <1>2, <1>3
    <3>2. \A j \in 2 .. Len(stack') - 1 : stack'[j] = stack[j]
      BY <1>1, <1>2
    <3>3. QED
      BY <1>2, <2>2, <3>1, <3>2
  <2>3. CASE k # 1
    <3>1. k \in 2 .. Len(stack) - 1 /\ k \in 1 .. Len(stack) - 1 /\ stack'[k] = stack[k]
      BY <1>1, <1>2, <2>3
    <3>2. Mask(k + 1)' = Mask(k + 1)
      BY <1>1, <1>3, <3>1
    <3>3. \A j \in k + 1 .. Len(stack') - 1 : stack'[j] = stack[j] /\ j \in k + 1 .. Len(stack) - 1
      BY <1>1, <1>2, <3>1
    <3>4. QED
      BY <3>1, <3>2, <3>3 DEF IrqInv, Nested
  <2>4. QED
    BY <2>2, <2>3
<1>8. Table'
  BY <1>1, <1>2 DEF IrqInv, Table
<1>9. QED
  BY <1>5, <1>6, <1>7, <1>8 DEF IrqInv

----------------------------------------------------------------------------
(* The program's steps *)

\* What alt_iic_isr_register is about stays the same from its first step to its last.
LEMMA RegisterKeeps == ASSUME IrqInv, Register PROVE IrqInv'
<1>1. PICK i \in IRQS, isr \in ISRS \union {NULL} :
         Becomes([Top EXCEPT !.at = "lock", !.irq = i, !.isr = isr])
  BY DEF Register
<1>2. Top.at = "runs" /\ UNCHANGED <<pie, ienable, alt_irq_active, alt_priority_mask, alt_irq, asks>>
  BY DEF Register, At, masks
<1> DEFINE new == [Top EXCEPT !.at = "lock", !.irq = i, !.isr = isr]
<1>3. /\ new \in Levels /\ new.at = "lock" /\ new.at \in InProgram /\ Top.at \in InProgram
      /\ new.saved = SavedAt(new.at) /\ new.at \in Preemptible /\ Top.at \in Preemptible
  BY <1>2, OnTop DEF Levels, InProgram, SavedAt, Preemptible
<1>4. Agrees(new, alt_irq, alt_irq_active)
  BY <1>2, <1>3, OnTop DEF IrqInv, Table, Agrees
<1>5. Agrees(new, alt_irq', alt_irq_active')
  BY <1>2, <1>4
<1>6. ienable = alt_irq_active
  BY <1>2, <1>3, OnTop DEF IrqInv, Masked
<1>7. /\ pie' \in BOOLEAN /\ (pie' <=> new.at \in Preemptible)
      /\ ienable' \subseteq IRQS /\ alt_irq_active' \subseteq IRQS /\ ienable' = alt_irq_active'
  BY <1>2, <1>3, <1>6, OnTop DEF IrqInv, Masked
<1> HIDE DEF new
<1>8. Becomes(new)
  BY <1>1 DEF new
<1>9. QED
  BY <1>2, <1>3, <1>5, <1>7, <1>8, ProgramKeeps

\* The steps that change PIE only.
LEMMA PieKeeps ==
    ASSUME IrqInv, Top.at \in InProgram,
           NEW to \in InProgram, NEW saved, Becomes([Top EXCEPT !.at = to, !.saved = saved]),
           saved = SavedAt(to), saved \in Seq(BOOLEAN),
           pie' \in BOOLEAN, pie' <=> to \in Preemptible,
           UNCHANGED <<masks, alt_irq, asks>>,
           Top.at # "ienable", to # "context",
           to \in {"inner locked", "active"} <=> Top.at \in {"inner lock", "inner locked"},
           to # "inner lock", Top.at \notin {"context", "active"}
    PROVE  IrqInv'
<1> DEFINE new == [Top EXCEPT !.at = to, !.saved = saved]
<1>1. /\ new \in Levels /\ new.at = to /\ new.saved = SavedAt(to) /\ new.irq = Top.irq
      /\ new.isr = Top.isr
  BY OnTop DEF Levels
<1> HIDE DEF new
<1>2. Agrees(Top, alt_irq, alt_irq_active)
  BY OnTop DEF IrqInv, Table
<1>3. Agrees(new, alt_irq, alt_irq_active)
  BY <1>1, <1>2 DEF Agrees
<1>4. Agrees(new, alt_irq', alt_irq_active')
  BY <1>3 DEF masks
<1>5. ienable = alt_irq_active
  BY OnTop DEF IrqInv, Masked
<1>6. QED
  BY <1>1, <1>4, <1>5, ProgramKeeps DEF IrqInv, Masked, masks, new

LEMMA ReadStatusKeeps ==
    ASSUME IrqInv,
           ReadStatus("lock", "locked") \/ ReadStatus("inner lock", "inner locked")
    PROVE  IrqInv'
<1>1. ASSUME NEW from \in {"lock", "inner lock"}, NEW to \in {"locked", "inner locked"},
             from = "lock" <=> to = "locked", ReadStatus(from, to)
      PROVE  IrqInv'
  <2> DEFINE saved == <<pie>> \o Top.saved
  <2>1. /\ Top.at = from /\ Becomes([Top EXCEPT !.at = to, !.saved = saved])
        /\ UNCHANGED <<pie, masks, alt_irq, asks>>
    BY <1>1 DEF ReadStatus, At
  <2>2. /\ pie \in BOOLEAN /\ (pie <=> from \in Preemptible) /\ Top.saved = SavedAt(from)
        /\ Top.at \in InProgram /\ to \in InProgram
    BY <2>1, OnTop DEF IrqInv, Masked, InProgram
  <2>3. saved = SavedAt(to) /\ saved \in Seq(BOOLEAN)
    <3>1. CASE from = "lock"
      <4>1. pie = TRUE /\ Top.saved = << >> /\ to = "locked" /\ SavedAt(to) = <<TRUE>>
        BY <1>1, <2>2, <3>1 DEF Preemptible, SavedAt
      <4>2. <<TRUE>> \o << >> = <<TRUE>> /\ <<TRUE>> \in Seq(BOOLEAN)
        BY Bits, Zenon
      <4>3. QED
        BY <4>1, <4>2, Zenon
    <3>2. CASE from = "inner lock"
      <4>1. pie = FALSE /\ Top.saved = <<TRUE>> /\ to = "inner locked" /\ SavedAt(to) = <<FALSE, TRUE>>
        BY <1>1, <2>2, <3>2 DEF Preemptible, SavedAt
      <4>2. <<FALSE>> \o <<TRUE>> = <<FALSE, TRUE>> /\ <<FALSE, TRUE>> \in Seq(BOOLEAN)
        BY Bits, Zenon
      <4>3. QED
        BY <4>1, <4>2, Zenon
    <3>3. QED
      BY <3>1, <3>2
  <2> HIDE DEF saved
  <2>4. pie' \in BOOLEAN /\ (pie' <=> to \in Preemptible)
    BY <1>1, <2>1, <2>2 DEF Preemptible
  <2>5. QED
    BY <1>1, <2>1, <2>2, <2>3, <2>4, PieKeeps
<1>2. QED
  BY <1>1

LEMMA ClearPieKeeps ==
    ASSUME IrqInv,
           ClearPie("locked", "handler") \/ ClearPie("inner locked", "active")
    PROVE  IrqInv'
<1>1. ASSUME NEW from \in {"locked", "inner locked"}, NEW to \in {"handler", "active"},
             from = "locked" <=> to = "handler", ClearPie(from, to)
      PROVE  IrqInv'
  <2>1. /\ Top.at = from /\ Goes(to) /\ pie' = FALSE /\ UNCHANGED <<masks, alt_irq, asks>>
    BY <1>1 DEF ClearPie, At
  <2>2. /\ Top.saved = SavedAt(from) /\ Top.at \in InProgram /\ to \in InProgram
        /\ Top \in Levels /\ Top.saved \in Seq(BOOLEAN)
    BY <2>1, OnTop DEF InProgram, Levels
  <2>3. Top.saved = SavedAt(to) /\ ~ to \in Preemptible
    BY <1>1, <2>2 DEF SavedAt, Preemptible
  <2>4. Becomes([Top EXCEPT !.at = to, !.saved = Top.saved])
    <3>1. [Top EXCEPT !.at = to, !.saved = Top.saved] = [Top EXCEPT !.at = to]
      BY <2>2 DEF Levels
    <3>2. QED
      BY <2>1, <3>1 DEF Goes
  <2>5. pie' \in BOOLEAN /\ (pie' <=> to \in Preemptible)
    BY <2>1, <2>3
  <2>6. QED
    BY <1>1, <2>1, <2>2, <2>3, <2>4, <2>5, PieKeeps
<1>2. QED
  BY <1>1

LEMMA RestorePieKeeps ==
    ASSUME IrqInv,
           RestorePie("inner unlock", "unlock") \/ RestorePie("unlock", "runs")
    PROVE  IrqInv'
<1>1. ASSUME NEW from \in {"inner unlock", "unlock"}, NEW to \in {"unlock", "runs"},
             from = "unlock" <=> to = "runs", RestorePie(from, to)
      PROVE  IrqInv'
  <2> DEFINE saved == Tail(Top.saved)
  <2>1. /\ Top.at = from /\ Becomes([Top EXCEPT !.at = to, !.saved = saved])
        /\ pie' = Head(Top.saved) /\ UNCHANGED <<masks, alt_irq, asks>>
    BY <1>1 DEF RestorePie, At
  <2>2. /\ Top.saved = SavedAt(from) /\ Top.at \in InProgram /\ to \in InProgram
    BY <2>1, OnTop DEF InProgram
  <2>3. /\ saved = SavedAt(to) /\ saved \in Seq(BOOLEAN)
        /\ pie' = (to = "runs")
    <3>1. CASE from = "unlock"
      <4>1. Top.saved = <<TRUE>> /\ to = "runs" /\ SavedAt(to) = << >>
        BY <1>1, <2>2, <3>1 DEF SavedAt
      <4>2. Tail(<<TRUE>>) = << >> /\ << >> \in Seq(BOOLEAN) /\ Head(<<TRUE>>) = TRUE
        BY Bits, Zenon
      <4>3. QED
        BY <2>1, <4>1, <4>2, Zenon
    <3>2. CASE from = "inner unlock"
      <4>1. Top.saved = <<FALSE, TRUE>> /\ to = "unlock" /\ SavedAt(to) = <<TRUE>>
        BY <1>1, <2>2, <3>2 DEF SavedAt
      <4>2. /\ Tail(<<FALSE, TRUE>>) = <<TRUE>> /\ <<TRUE>> \in Seq(BOOLEAN)
            /\ Head(<<FALSE, TRUE>>) = FALSE
        BY Bits, Zenon
      <4>3. to # "runs"
        BY <4>1
      <4>4. QED
        BY <2>1, <4>1, <4>2, <4>3, Zenon
    <3>3. QED
      BY <3>1, <3>2
  <2> HIDE DEF saved
  <2>4. pie' \in BOOLEAN /\ (pie' <=> to \in Preemptible)
    BY <2>3 DEF Preemptible
  <2>5. QED
    BY <1>1, <2>1, <2>2, <2>3, <2>4, PieKeeps
<1>2. QED
  BY <1>1

\* The steps between, while PIE is clear: the table's entry, the active interrupts and ienable.
LEMMA EntryKeeps ==
    ASSUME IrqInv, NEW to \in InProgram, Goes(to),
           Top.at \in {"handler", "context", "active", "ienable"},
           to \notin Preemptible, SavedAt(to) = SavedAt(Top.at),
           UNCHANGED <<pie, alt_priority_mask, asks>>,
           ienable' \subseteq IRQS, alt_irq_active' \subseteq IRQS,
           to # "ienable" => ienable' = alt_irq_active',
           ASSUME NEW p \in Levels, p.at = to, p.irq = Top.irq, p.isr = Top.isr
           PROVE  Agrees(p, alt_irq', alt_irq_active')
    PROVE  IrqInv'
<1> DEFINE new == [Top EXCEPT !.at = to]
<1>1. /\ new \in Levels /\ new.at = to /\ new.saved = SavedAt(to) /\ new.irq = Top.irq
      /\ new.isr = Top.isr /\ Top.at \in InProgram /\ Becomes(new)
  BY OnTop DEF Levels, InProgram, Goes
<1> HIDE DEF new
<1>2. pie' = FALSE
  BY <1>1, OnTop DEF IrqInv, Masked, Preemptible
<1>3. Agrees(new, alt_irq', alt_irq_active')
  BY <1>1
<1>4. QED
  BY <1>1, <1>2, <1>3, ProgramKeeps

LEMMA SetHandlerKeeps == ASSUME IrqInv, SetHandler PROVE IrqInv'
<1>1. /\ Top.at = "handler" /\ Goes("context") /\ UNCHANGED <<pie, masks, asks>>
      /\ alt_irq' = [alt_irq EXCEPT ![Top.irq].handler = Top.isr]
  BY DEF SetHandler, At
<1>2. Top \in Levels /\ Agrees(Top, alt_irq, alt_irq_active) /\ ienable = alt_irq_active
      /\ ienable \subseteq IRQS
  BY <1>1, OnTop DEF IrqInv, Table, Masked, InProgram
<1>3. ASSUME NEW p \in Levels, p.at = "context", p.irq = Top.irq, p.isr = Top.isr
      PROVE  Agrees(p, alt_irq', alt_irq_active')
  BY <1>1, <1>2, <1>3 DEF Agrees, Levels, masks
<1>4. SavedAt("context") = SavedAt(Top.at) /\ "context" \in InProgram /\ "context" \notin Preemptible
  BY <1>1 DEF SavedAt, InProgram, Preemptible
<1>5. QED
  BY <1>1, <1>2, <1>3, <1>4, EntryKeeps DEF masks

LEMMA SetContextKeeps == ASSUME IrqInv, SetContext PROVE IrqInv'
<1>1. /\ Top.at = "context" /\ Goes("inner lock") /\ UNCHANGED <<pie, masks, asks>>
      /\ alt_irq' = [alt_irq EXCEPT ![Top.irq].context = Top.isr]
  BY DEF SetContext, At
<1>2. Top \in Levels /\ Agrees(Top, alt_irq, alt_irq_active) /\ ienable = alt_irq_active
      /\ ienable \subseteq IRQS
  BY <1>1, OnTop DEF IrqInv, Table, Masked, InProgram
<1>3. ASSUME NEW p \in Levels, p.at = "inner lock", p.irq = Top.irq, p.isr = Top.isr
      PROVE  Agrees(p, alt_irq', alt_irq_active')
  <2>1. /\ alt_irq' \in [IRQS -> [handler : ISRS \union {NULL}, context : ISRS \union {NULL}]]
        /\ \A i \in IRQS : /\ alt_irq'[i].handler = alt_irq[i].handler
                           /\ i # Top.irq => alt_irq'[i] = alt_irq[i]
                           /\ i = Top.irq => alt_irq'[i].context = Top.isr
    <3> DEFINE Entries == [handler : ISRS \union {NULL}, context : ISRS \union {NULL}]
               entry == [alt_irq[Top.irq] EXCEPT !.context = Top.isr]
    <3>1. alt_irq \in [IRQS -> Entries] /\ Top.irq \in IRQS /\ Top.isr \in ISRS \union {NULL}
      BY <1>2 DEF Agrees, Levels
    <3>2. /\ entry \in Entries /\ entry.handler = alt_irq[Top.irq].handler
          /\ entry.context = Top.isr
      BY <3>1
    <3>3. alt_irq' = [alt_irq EXCEPT ![Top.irq] = entry]
      BY <1>1
    <3> HIDE DEF Entries, entry
    <3>4. QED
      BY <3>1, <3>2, <3>3 DEF Entries
  <2>2. alt_irq_active' = alt_irq_active
    BY <1>1 DEF masks
  <2>3. \A i \in IRQS :
          /\ i = Top.irq => alt_irq[i].handler = Top.isr
          /\ i # Top.irq => /\ i \in alt_irq_active <=> alt_irq[i].handler # NULL
                            /\ alt_irq[i].handler = alt_irq[i].context
    BY <1>1, <1>2 DEF Agrees
  <2>4. \A i \in IRQS :
          /\ IF i = Top.irq THEN alt_irq'[i].handler = Top.isr
             ELSE i \in alt_irq_active' <=> alt_irq'[i].handler # NULL
          /\ alt_irq'[i].handler = alt_irq'[i].context
    BY <2>1, <2>2, <2>3
  <2>5. QED
    BY <1>3, <2>1, <2>4 DEF Agrees
<1>4. /\ SavedAt("inner lock") = SavedAt(Top.at) /\ "inner lock" \in InProgram
      /\ "inner lock" \notin Preemptible
  BY <1>1 DEF SavedAt, InProgram, Preemptible
<1>5. QED
  BY <1>1, <1>2, <1>3, <1>4, EntryKeeps DEF masks

LEMMA MarkActiveKeeps == ASSUME IrqInv, MarkActive PROVE IrqInv'
<1>1. /\ Top.at = "active" /\ Goes("ienable")
      /\ UNCHANGED <<pie, ienable, alt_priority_mask, alt_irq, asks>>
      /\ alt_irq_active' = IF Top.isr # NULL THEN alt_irq_active \union {Top.irq}
                                             ELSE alt_irq_active \ {Top.irq}
  BY DEF MarkActive, At
<1>2. /\ Top \in Levels /\ Agrees(Top, alt_irq, alt_irq_active) /\ ienable \subseteq IRQS
      /\ alt_irq_active \subseteq IRQS
  BY <1>1, OnTop DEF IrqInv, Table, Masked, InProgram
<1>3. ASSUME NEW p \in Levels, p.at = "ienable", p.irq = Top.irq, p.isr = Top.isr
      PROVE  Agrees(p, alt_irq', alt_irq_active')
  BY <1>1, <1>2, <1>3 DEF Agrees, Levels
<1>4. alt_irq_active' \subseteq IRQS
  BY <1>1, <1>2 DEF Levels
<1>5. SavedAt("ienable") = SavedAt(Top.at) /\ "ienable" \in InProgram /\ "ienable" \notin Preemptible
  BY <1>1 DEF SavedAt, InProgram, Preemptible
<1>6. QED
  BY <1>1, <1>2, <1>3, <1>4, <1>5, EntryKeeps

LEMMA EnableKeeps == ASSUME IrqInv, Enable PROVE IrqInv'
<1>1. /\ Top.at = "ienable" /\ Goes("inner unlock") /\ ienable' = alt_irq_active
      /\ UNCHANGED <<pie, alt_irq_active, alt_priority_mask, alt_irq, asks>>
  BY DEF Enable, At
<1>2. Top \in Levels /\ Agrees(Top, alt_irq, alt_irq_active) /\ alt_irq_active \subseteq IRQS
  BY <1>1, OnTop DEF IrqInv, Table, Masked, InProgram
<1>3. ASSUME NEW p \in Levels, p.at = "inner unlock", p.irq = Top.irq, p.isr = Top.isr
      PROVE  Agrees(p, alt_irq', alt_irq_active')
  BY <1>1, <1>2, <1>3 DEF Agrees
<1>4. /\ SavedAt("inner unlock") = SavedAt(Top.at) /\ "inner unlock" \in InProgram
      /\ "inner unlock" \notin Preemptible
  BY <1>1 DEF SavedAt, InProgram, Preemptible
<1>5. QED
  BY <1>1, <1>2, <1>3, <1>4, EntryKeeps

----------------------------------------------------------------------------
(* The handlers' steps *)

\* An interrupt may be taken while its mask is in force: that becomes the mask of the level below
\* the handler.
LEMMA InterruptKeeps == ASSUME IrqInv, Interrupt PROVE IrqInv'
<1> DEFINE new == Level("first", <<TRUE>>)
<1>1. /\ pie = TRUE /\ Pending # {} /\ pie' = FALSE /\ stack' = <<new>> \o stack
      /\ UNCHANGED <<ienable, alt_irq_active, alt_priority_mask, alt_irq, asks>>
  BY DEF Interrupt, masks, IrqInv, Masked
<1>2. /\ new \in Levels /\ new.at = "first" /\ new.saved = SavedAt("first")
  <2>1. <<TRUE>> \in Seq(BOOLEAN)
    BY Bits, Zenon
  <2>2. QED
    BY <2>1, IrqAssumption DEF Level, Levels, InHandler, SavedAt
<1> HIDE DEF new
<1>3. /\ stack \in Seq(Levels) /\ Len(stack) \in Nat /\ Len(stack) >= 1
      /\ stack[1].at \in Preemptible
  BY <1>1, OnTop DEF IrqInv, Masked
<1>4. /\ stack' \in Seq(Levels) /\ Len(stack') = Len(stack) + 1 /\ stack'[1] = new
      /\ \A k \in 1 .. Len(stack) : stack'[k + 1] = stack[k]
  BY <1>1, <1>2, <1>3, Covered
<1>5. \A k \in 2 .. Len(stack') : k - 1 \in 1 .. Len(stack) /\ stack'[k] = stack[k - 1]
  <2>1. TAKE k \in 2 .. Len(stack')
  <2>2. k - 1 \in 1 .. Len(stack) /\ (k - 1) + 1 = k
    BY <1>3, <1>4
  <2>3. QED
    BY <1>4, <2>2
<1>6. \A k \in 2 .. Len(stack') : Mask(k)' = Mask(k - 1)
  <2>1. TAKE k \in 2 .. Len(stack')
  <2>2. k < Len(stack') <=> k - 1 < Len(stack)
    BY <1>3, <1>4
  <2>3. QED
    BY <1>5, <2>2 DEF Mask, Higher
<1>7. "first" \notin InProgram /\ "first" \notin Preemptible /\ "first" \notin Narrowing /\ "first" \notin Serving
  BY DEF InProgram, Preemptible, Narrowing, Serving
<1>8. Stacked'
  <2>1. SUFFICES ASSUME NEW k \in 1 .. Len(stack')
                 PROVE  /\ stack'[k].at \in InProgram <=> k = Len(stack')
                        /\ k > 1 => stack'[k].at \in Preemptible
                        /\ stack'[k].saved = SavedAt(stack'[k].at)
    BY <1>3, <1>4 DEF Stacked
  <2>2. CASE k = 1
    BY <1>2, <1>3, <1>4, <1>7, <2>2
  <2>3. CASE k # 1
    <3>1. k - 1 \in 1 .. Len(stack) /\ stack'[k] = stack[k - 1] /\ k \in Nat
      BY <1>3, <1>4, <1>5, <2>3
    <3>2. stack[k - 1].at \in Preemptible
      BY <1>3, <3>1 DEF IrqInv, Stacked
    <3>3. (k - 1 = Len(stack)) <=> (k = Len(stack'))
      BY <1>3, <1>4, <3>1
    <3>4. QED
      BY <3>1, <3>2, <3>3 DEF IrqInv, Stacked
  <2>4. QED
    BY <2>2, <2>3
<1>9. InForce = 1 /\ InForce' = 2
  <2>1. InForce = 1
    <3>1. Len(stack) # 1 => stack[1].at \in InHandler
      BY <1>3, OnTop DEF IrqInv, Stacked
    <3>2. \A a \in InHandler : a \in Preemptible => a \in Narrowing
      BY DEF InHandler, Preemptible, Narrowing, Serving
    <3>3. QED
      BY <1>3, <3>1, <3>2 DEF InForce
  <2>2. InForce' = 2
    BY <1>2, <1>3, <1>4, <1>7 DEF InForce
  <2>3. QED
    BY <2>1, <2>2
<1>10. Masked'
  <2>1. alt_priority_mask' = Mask(InForce)'
    <3>1. 2 \in 2 .. Len(stack') /\ 2 - 1 = 1
      BY <1>3, <1>4
    <3>2. Mask(2)' = Mask(1)
      BY <1>6, <3>1
    <3>3. Mask(InForce)' = Mask(2)'
      BY <1>9 DEF Mask
    <3>4. QED
      BY <1>1, <1>9, <3>2, <3>3 DEF IrqInv, Masked
  <2>2. stack[1].at # "ienable" /\ ienable' = alt_irq_active' \cap alt_priority_mask'
    BY <1>1, <1>3 DEF IrqInv, Masked, Preemptible
  <2>3. Pending' # {}
    BY <1>1 DEF Pending
  <2>4. QED
    BY <1>1, <1>2, <1>4, <1>7, <2>1, <2>2, <2>3 DEF IrqInv, Masked
<1>11. Nested'
  <2>1. SUFFICES ASSUME NEW k \in 1 .. Len(stack') - 1
                 PROVE  /\ stack'[k].at \in Narrowing => stack'[k].old = Mask(k + 1)'
                        /\ stack'[k].at \in Serving =>
                             /\ stack'[k].isr # NULL /\ stack'[k].isr = stack'[k].context
                             /\ \A j \in k + 1 .. Len(stack') - 1 : stack'[k].irq < stack'[j].irq
    BY DEF Nested
  <2>2. CASE k = 1
    BY <1>2, <1>4, <1>7, <2>2
  <2>3. CASE k # 1
    <3>1. /\ k - 1 \in 1 .. Len(stack) - 1 /\ stack'[k] = stack[k - 1]
          /\ Mask(k + 1)' = Mask((k - 1) + 1)
      <4>1. k \in 2 .. Len(stack') /\ k + 1 \in 2 .. Len(stack') /\ (k + 1) - 1 = (k - 1) + 1
            /\ k - 1 \in 1 .. Len(stack) - 1
        BY <1>3, <1>4, <2>3
      <4>2. QED
        BY <1>5, <1>6, <4>1
    <3>2. \A j \in k + 1 .. Len(stack') - 1 :
            j - 1 \in (k - 1) + 1 .. Len(stack) - 1 /\ stack'[j] = stack[j - 1]
      <4>1. TAKE j \in k + 1 .. Len(stack') - 1
      <4>2. j \in 2 .. Len(stack') /\ j - 1 \in (k - 1) + 1 .. Len(stack) - 1
        BY <1>3, <1>4, <2>3
      <4>3. QED
        BY <1>5, <4>2
    <3>3. QED
      BY <3>1, <3>2 DEF IrqInv, Nested
  <2>4. QED
    BY <2>2, <2>3
<1>12. Table'
  BY <1>1, <1>3, <1>4 DEF IrqInv, Table
<1>13. QED
  BY <1>8, <1>10, <1>11, <1>12 DEF IrqInv

\* What holds of the handler on top.
LEMMA Handling ==
    ASSUME IrqInv, Top.at \in InHandler
    PROVE  /\ Top = stack[1] /\ Top \in Levels /\ Top.saved = <<TRUE>>
           /\ Len(stack) \in Nat /\ Len(stack) >= 2
           /\ pie \in BOOLEAN /\ (pie <=> Top.at = "preemptible")
           /\ alt_priority_mask = IF Top.at \in Narrowing THEN Higher(Top.irq) ELSE Mask(2)
           /\ ienable = alt_irq_active \cap alt_priority_mask
           /\ ienable \subseteq IRQS /\ alt_irq_active \subseteq IRQS /\ asks \subseteq IRQS
           /\ Top.at \in Narrowing => Top.old = Mask(2)
           /\ Top.at \in Serving => /\ Top.isr # NULL /\ Top.isr = Top.context
                                    /\ \A j \in 2 .. Len(stack) - 1 : Top.irq < stack[j].irq
<1>1. /\ Top = stack[1] /\ Top \in Levels /\ Len(stack) \in Nat /\ Len(stack) >= 2
      /\ Top.saved = SavedAt(Top.at)
  BY OnTop
<1>2. /\ Top.at # "ienable" /\ SavedAt(Top.at) = <<TRUE>>
      /\ (Top.at \in Preemptible <=> Top.at = "preemptible")
  BY DEF InHandler, Serving, SavedAt, Preemptible
<1>3. 1 \in 1 .. Len(stack) - 1 /\ 1 + 1 = 2
  BY <1>1
<1>4. /\ Top.at \in Narrowing => Top.old = Mask(2)
      /\ Top.at \in Serving => /\ Top.isr # NULL /\ Top.isr = Top.context
                               /\ \A j \in 2 .. Len(stack) - 1 : Top.irq < stack[j].irq
  BY <1>1, <1>3 DEF IrqInv, Nested
<1>5. alt_priority_mask = IF Top.at \in Narrowing THEN Higher(Top.irq) ELSE Mask(2)
  <2>1. CASE Top.at \in Narrowing
    BY <1>1, <2>1 DEF IrqInv, Masked, InForce, Mask
  <2>2. CASE Top.at \notin Narrowing
    <3> DEFINE n == Len(stack)
    <3>1. n \in Nat /\ n >= 2
      BY <1>1
    <3> HIDE DEF n
    <3>2. n # 1
      BY <3>1
    <3>3. InForce = 2
      BY <1>1, <2>2, <3>2, Zenon DEF InForce, n
    <3>4. QED
      BY <2>2, <3>3 DEF IrqInv, Masked
  <2>3. QED
    BY <2>1, <2>2
<1>6. QED
  BY <1>1, <1>2, <1>4, <1>5 DEF IrqInv, Masked

\* The interrupt dispatched is allowed by the mask of the level below, and its entry is whole,
\* as the program has been interrupted.
LEMMA DispatchKeeps == ASSUME IrqInv, Dispatch PROVE IrqInv'
<1>1. /\ Top.at \in {"first", "again"} /\ (Top.at = "again" => Pending # {})
      /\ UNCHANGED <<pie, masks, alt_irq, asks>>
  BY DEF Dispatch, At
<1>2. Top.at \in InHandler /\ Top.at \notin Narrowing /\ Top.at # "preemptible"
  BY <1>1 DEF InHandler, Narrowing
<1>3. /\ Pending # {} /\ Pending \subseteq IRQS
      /\ Pending \subseteq alt_irq_active /\ Pending \subseteq Mask(2)
  BY <1>1, <1>2, Handling DEF Pending, IrqInv, Masked
<1> DEFINE i == Min(Pending)
           new == [Top EXCEPT !.at = "called", !.irq = i, !.isr = alt_irq[i].handler,
                              !.context = alt_irq[i].context]
<1>4. i \in Pending /\ i \in IRQS /\ i \in alt_irq_active /\ i \in Mask(2)
  BY <1>3, LeastOf, IrqAssumption
<1>5. Becomes(new)
  BY <1>3 DEF Dispatch
<1>6. alt_irq[i].handler # NULL /\ alt_irq[i].handler = alt_irq[i].context
  <2> DEFINE p == stack[Len(stack)]
  <2>1. p.at \in InProgram /\ p.at \in Preemptible
    <3> DEFINE n == Len(stack)
    <3>1. n \in Nat /\ n >= 2
      BY <1>2, Handling
    <3> HIDE DEF n
    <3>2. n \in 1 .. n /\ n > 1
      BY <3>1
    <3>3. QED
      BY <3>2 DEF IrqInv, Stacked, n
  <2>2. p.at \notin {"context", "inner lock", "inner locked", "active"}
    BY <2>1 DEF InProgram, Preemptible
  <2>3. Agrees(p, alt_irq, alt_irq_active)
    BY DEF IrqInv, Table
  <2> HIDE DEF p, i
  <2>4. QED
    BY <1>4, <2>2, <2>3 DEF Agrees
<1>7. alt_irq[i] \in [handler : ISRS \union {NULL}, context : ISRS \union {NULL}]
  BY <1>4 DEF IrqInv, Table, Agrees
<1>8. Top \in Levels /\ Top.saved = <<TRUE>> /\ Len(stack) \in Nat /\ Len(stack) >= 2
  BY <1>2, Handling
<1> HIDE DEF i
<1>9. /\ new \in Levels /\ new.at = "called" /\ new.irq = i /\ new.isr = alt_irq[i].handler
      /\ new.context = alt_irq[i].context /\ new.saved = <<TRUE>>
  BY <1>4, <1>7, <1>8 DEF Levels, InHandler, Serving
<1> HIDE DEF new
<1>10. \A j \in 2 .. Len(stack) - 1 : i < stack[j].irq
  <2>1. TAKE j \in 2 .. Len(stack) - 1
  <2>2. 2 < Len(stack) /\ 2 \in 1 .. Len(stack) - 1 /\ 2 \in 1 .. Len(stack)
    BY <1>8
  <2>3. i \in Nat /\ i < stack[2].irq /\ stack[2] \in Levels /\ stack[j] \in Levels
    BY <1>4, <1>8, <2>2, OnTop, IrqAssumption DEF Mask, Higher
  <2>4. CASE j = 2
    BY <2>3, <2>4
  <2>5. CASE j # 2
    <3>1. stack[2].at \in Serving
      <4>1. stack[2].at \in Preemptible /\ stack[2].at \notin InProgram
        BY <1>8, <2>2 DEF IrqInv, Stacked
      <4>2. QED
        BY <4>1 DEF Preemptible, InProgram, Serving
    <3>2. j \in 2 + 1 .. Len(stack) - 1
      BY <1>8, <2>5
    <3>3. stack[2].irq < stack[j].irq
      BY <2>2, <3>1, <3>2 DEF IrqInv, Nested
    <3>4. stack[2].irq \in Nat /\ stack[j].irq \in Nat
      BY <2>3, IrqAssumption DEF Levels
    <3>5. QED
      BY <2>3, <3>3, <3>4
  <2>6. QED
    BY <2>4, <2>5
<1>11. "called" \in InHandler \ {"first"} /\ "called" \notin Narrowing
  BY DEF InHandler, Serving, Narrowing
<1>12. /\ alt_priority_mask' = Mask(2) /\ ienable' = alt_irq_active \cap alt_priority_mask'
       /\ asks' \subseteq IRQS /\ UNCHANGED <<alt_irq, alt_irq_active>>
       /\ pie' \in BOOLEAN /\ (pie' <=> new.at = "preemptible")
  BY <1>1, <1>2, <1>9, Handling DEF masks
<1>13. QED
  BY <1>2, <1>5, <1>6, <1>9, <1>10, <1>11, <1>12, HandlerKeeps

\* The steps of a handler that stay on its level.
LEMMA GoesKeeps ==
    ASSUME IrqInv, Top.at \in Serving,
           NEW to \in InHandler \ {"first"}, NEW old \in SUBSET IRQS,
           Becomes([Top EXCEPT !.at = to, !.old = old]),
           asks' \subseteq IRQS, UNCHANGED <<alt_irq, alt_irq_active>>,
           pie' \in BOOLEAN, pie' <=> to = "preemptible",
           alt_priority_mask' = IF to \in Narrowing THEN Higher(Top.irq) ELSE Mask(2),
           ienable' = alt_irq_active \cap alt_priority_mask',
           to \in Narrowing => old = Mask(2)
    PROVE  IrqInv'
<1> DEFINE new == [Top EXCEPT !.at = to, !.old = old]
<1>1. Top.at \in InHandler
  BY DEF InHandler
<1>2. /\ Top \in Levels /\ Top.saved = <<TRUE>> /\ Top.isr # NULL /\ Top.isr = Top.context
      /\ \A j \in 2 .. Len(stack) - 1 : Top.irq < stack[j].irq
  BY <1>1, Handling
<1>3. /\ new \in Levels /\ new.at = to /\ new.old = old /\ new.irq = Top.irq
      /\ new.isr = Top.isr /\ new.context = Top.context /\ new.saved = <<TRUE>> /\ Becomes(new)
  BY <1>2 DEF Levels
<1> HIDE DEF new
<1>4. QED
  BY <1>1, <1>2, <1>3, HandlerKeeps

\* A step that leaves what the level will restore of the mask.
LEMMA GoesOn ==
    ASSUME IrqInv, NEW to, Goes(to)
    PROVE  Becomes([Top EXCEPT !.at = to, !.old = Top.old]) /\ Top.old \in SUBSET IRQS
<1>1. Top \in Levels
  BY OnTop
<1>2. [Top EXCEPT !.at = to, !.old = Top.old] = [Top EXCEPT !.at = to] /\ Top.old \in SUBSET IRQS
  BY <1>1 DEF Levels
<1>3. QED
  BY <1>2 DEF Goes

LEMMA ServeKeeps == ASSUME IrqInv, Serve PROVE IrqInv'
<1>1. /\ Top.at = "called" /\ UNCHANGED <<pie, masks, alt_irq>> /\ asks' = asks \ {Top.irq}
  BY DEF Serve, At
<1>2. PICK to \in {"again", "interruptible"} : Goes(to)
  BY DEF Serve
<1>3. /\ Top.at \in Serving /\ Top.at \in InHandler /\ Top.at \notin Narrowing
      /\ to \in InHandler \ {"first"} /\ to \notin Narrowing
      /\ Top.at # "preemptible" /\ to # "preemptible"
  BY <1>1, <1>2 DEF InHandler, Serving, Narrowing
<1>4. /\ alt_priority_mask' = Mask(2) /\ ienable' = alt_irq_active \cap alt_priority_mask'
      /\ asks' \subseteq IRQS /\ UNCHANGED <<alt_irq, alt_irq_active>>
      /\ pie' \in BOOLEAN /\ (pie' <=> to = "preemptible")
  BY <1>1, <1>3, Handling DEF masks
<1>5. QED
  BY <1>2, <1>3, <1>4, GoesOn, GoesKeeps

\* A handler that lets higher priorities in keeps the mask of the level below.
LEMMA NarrowKeeps == ASSUME IrqInv, Narrow PROVE IrqInv'
<1>1. /\ Top.at = "interruptible" /\ Becomes([Top EXCEPT !.at = "open", !.old = alt_priority_mask])
      /\ alt_priority_mask' = Higher(Top.irq) /\ ienable' = alt_irq_active \cap alt_priority_mask'
      /\ UNCHANGED <<pie, alt_irq_active, alt_irq, asks>>
  BY DEF Narrow, At
<1>2. /\ Top.at \in Serving /\ Top.at \in InHandler /\ Top.at \notin Narrowing
      /\ "open" \in InHandler \ {"first"} /\ "open" \in Narrowing
  BY <1>1 DEF InHandler, Serving, Narrowing
<1>3. /\ alt_priority_mask = Mask(2) /\ pie' = FALSE /\ asks' \subseteq IRQS
  BY <1>1, <1>2, Handling
<1>4. Mask(2) \in SUBSET IRQS
  BY DEF Mask, Higher
<1>5. QED
  BY <1>1, <1>2, <1>3, <1>4, GoesKeeps

LEMMA LetInKeeps == ASSUME IrqInv, LetIn PROVE IrqInv'
<1>1. /\ Top.at = "open" /\ Goes("preemptible") /\ pie' = TRUE
      /\ UNCHANGED <<masks, alt_irq, asks>>
  BY DEF LetIn, At
<1>2. /\ Top.at \in Serving /\ Top.at \in InHandler /\ Top.at \in Narrowing
      /\ "preemptible" \in InHandler \ {"first"} /\ "preemptible" \in Narrowing
  BY <1>1 DEF InHandler, Serving, Narrowing
<1>3. /\ alt_priority_mask' = Higher(Top.irq) /\ ienable' = alt_irq_active \cap alt_priority_mask'
      /\ asks' \subseteq IRQS /\ UNCHANGED <<alt_irq, alt_irq_active>> /\ Top.old = Mask(2)
  BY <1>1, <1>2, Handling DEF masks
<1>4. QED
  BY <1>1, <1>2, <1>3, GoesOn, GoesKeeps

LEMMA CloseKeeps == ASSUME IrqInv, ClearPie("preemptible", "widen") PROVE IrqInv'
<1>1. /\ Top.at = "preemptible" /\ Goes("widen") /\ pie' = FALSE
      /\ UNCHANGED <<masks, alt_irq, asks>>
  BY DEF ClearPie, At
<1>2. /\ Top.at \in Serving /\ Top.at \in InHandler /\ Top.at \in Narrowing
      /\ "widen" \in InHandler \ {"first"} /\ "widen" \in Narrowing
  BY <1>1 DEF InHandler, Serving, Narrowing
<1>3. /\ alt_priority_mask' = Higher(Top.irq) /\ ienable' = alt_irq_active \cap alt_priority_mask'
      /\ asks' \subseteq IRQS /\ UNCHANGED <<alt_irq, alt_irq_active>> /\ Top.old = Mask(2)
  BY <1>1, <1>2, Handling DEF masks
<1>4. QED
  BY <1>1, <1>2, <1>3, GoesOn, GoesKeeps

LEMMA WidenKeeps == ASSUME IrqInv, Widen PROVE IrqInv'
<1>1. /\ Top.at = "widen" /\ Goes("again") /\ alt_priority_mask' = Top.old
      /\ ienable' = alt_irq_active \cap Top.old
      /\ UNCHANGED <<pie, alt_irq_active, alt_irq, asks>>
  BY DEF Widen, At
<1>2. /\ Top.at \in Serving /\ Top.at \in InHandler /\ Top.at \in Narrowing
      /\ "again" \in InHandler \ {"first"} /\ "again" \notin Narrowing
  BY <1>1 DEF InHandler, Serving, Narrowing
<1>3. Top.old = Mask(2) /\ pie' = FALSE /\ asks' \subseteq IRQS
  BY <1>1, <1>2, Handling
<1>4. QED
  BY <1>1, <1>2, <1>3, GoesOn, GoesKeeps

\* When a handler returns, the level below finds its own mask in force.
LEMMA ReturnKeeps == ASSUME IrqInv, Return PROVE IrqInv'
<1>1. /\ Top.at = "again" /\ pie' = Head(Top.saved) /\ stack' = Tail(stack)
      /\ UNCHANGED <<masks, alt_irq, asks>>
  BY DEF Return, At
<1>2. Top.at \in InHandler /\ Top.at \notin Narrowing
  BY <1>1 DEF InHandler, Narrowing
<1>3. /\ stack \in Seq(Levels) /\ Len(stack) \in Nat /\ Len(stack) >= 2 /\ pie' = TRUE
      /\ alt_priority_mask = Mask(2) /\ ienable = alt_irq_active \cap alt_priority_mask
      /\ ienable \subseteq IRQS /\ alt_irq_active \subseteq IRQS /\ asks \subseteq IRQS
  BY <1>1, <1>2, Handling, OnTop, Bits
<1>4. /\ stack' \in Seq(Levels) /\ Len(stack') = Len(stack) - 1
      /\ \A k \in 1 .. Len(stack) - 1 : stack'[k] = stack[k + 1]
  BY <1>1, <1>3, TakenAway
<1>5. \A k \in 1 .. Len(stack') : /\ k + 1 \in 1 .. Len(stack) /\ stack'[k] = stack[k + 1]
                                  /\ stack'[k].at \in Preemptible
  <2>1. TAKE k \in 1 .. Len(stack')
  <2>2. k + 1 \in 1 .. Len(stack) /\ k + 1 > 1 /\ k \in 1 .. Len(stack) - 1
    BY <1>3, <1>4
  <2>3. QED
    BY <1>4, <2>2 DEF IrqInv, Stacked
<1>6. \A k \in 1 .. Len(stack') : Mask(k)' = Mask(k + 1)
  <2>1. TAKE k \in 1 .. Len(stack')
  <2>2. k < Len(stack') <=> k + 1 < Len(stack)
    BY <1>3, <1>4
  <2>3. QED
    BY <1>5, <2>2 DEF Mask, Higher
<1>7. Stacked'
  <2>1. SUFFICES ASSUME NEW k \in 1 .. Len(stack')
                 PROVE  /\ stack'[k].at \in InProgram <=> k = Len(stack')
                        /\ k > 1 => stack'[k].at \in Preemptible
                        /\ stack'[k].saved = SavedAt(stack'[k].at)
    <3>1. stack' \in Seq(Levels) /\ Len(stack') >= 1
      BY <1>3, <1>4
    <3>2. QED
      BY <3>1 DEF Stacked
  <2>2. (k + 1 = Len(stack)) <=> (k = Len(stack'))
    BY <1>3, <1>4
  <2>3. QED
    BY <1>5, <2>2 DEF IrqInv, Stacked
<1>8. 1 \in 1 .. Len(stack') /\ stack'[1].at \in Preemptible /\ InForce' = 1
  <2>1. 1 \in 1 .. Len(stack') /\ stack'[1].at \in Preemptible
    BY <1>3, <1>4, <1>5
  <2>2. Len(stack') # 1 => stack'[1].at \notin InProgram
    BY <1>7, <2>1 DEF Stacked
  <2>3. Len(stack') # 1 => stack'[1].at \in Narrowing
    BY <2>1, <2>2 DEF Preemptible, InProgram, Narrowing
  <2>4. QED
    BY <2>1, <2>3 DEF InForce
<1>9. Masked'
  <2>1. Mask(InForce)' = Mask(1)'
    BY <1>8 DEF Mask
  <2>2. alt_priority_mask' = Mask(InForce)'
    BY <1>1, <1>3, <1>6, <1>8, <2>1 DEF masks
  <2>3. stack'[1].at # "first"
    BY <1>8 DEF Preemptible
  <2>4. QED
    BY <1>1, <1>3, <1>8, <2>2, <2>3 DEF Masked, masks
<1>10. Nested'
  <2>1. SUFFICES ASSUME NEW k \in 1 .. Len(stack') - 1
                 PROVE  /\ stack'[k].at \in Narrowing => stack'[k].old = Mask(k + 1)'
                        /\ stack'[k].at \in Serving =>
                             /\ stack'[k].isr # NULL /\ stack'[k].isr = stack'[k].context
                             /\ \A j \in k + 1 .. Len(stack') - 1 : stack'[k].irq < stack'[j].irq
    BY DEF Nested
  <2>2. /\ k + 1 \in 1 .. Len(stack) - 1 /\ stack'[k] = stack[k + 1]
        /\ Mask(k + 1)' = Mask((k + 1) + 1)
    <3>1. k \in 1 .. Len(stack') /\ k + 1 \in 1 .. Len(stack') /\ k + 1 \in 1 .. Len(stack) - 1
      BY <1>3, <1>4
    <3>2. QED
      BY <1>5, <1>6, <3>1
  <2>3. \A j \in k + 1 .. Len(stack') - 1 :
          j + 1 \in (k + 1) + 1 .. Len(stack) - 1 /\ stack'[j] = stack[j + 1]
    <3>1. TAKE j \in k + 1 .. Len(stack') - 1
    <3>2. j \in 1 .. Len(stack') /\ j + 1 \in (k + 1) + 1 .. Len(stack) - 1
      BY <1>3, <1>4
    <3>3. QED
      BY <1>5, <3>2
  <2>4. QED
    BY <2>2, <2>3 DEF IrqInv, Nested
<1>11. Table'
  <2>1. stack'[Len(stack')] = stack[Len(stack)]
    <3>1. Len(stack') \in 1 .. Len(stack') /\ Len(stack') + 1 = Len(stack)
      BY <1>3, <1>4
    <3>2. QED
      BY <1>5, <3>1
  <2>2. QED
    BY <1>1, <2>1 DEF IrqInv, Table, masks
<1>12. QED
  BY <1>7, <1>9, <1>10, <1>11 DEF IrqInv

\* A device that asks can only add to what is pending.
LEMMA AskKeeps == ASSUME IrqInv, Ask PROVE IrqInv'
<1>1. /\ asks \subseteq asks' /\ asks' \subseteq IRQS /\ UNCHANGED <<pie, masks, alt_irq, stack>>
  BY DEF Ask, IrqInv, Masked
<1>2. Stacked' /\ Nested' /\ Table'
  BY <1>1 DEF IrqInv, Stacked, Nested, Table, Mask, masks
<1>3. Pending # {} => Pending' # {}
  BY <1>1 DEF Pending, masks
<1>4. Mask(InForce)' = Mask(InForce)
  BY <1>1 DEF Mask, InForce
<1>5. Masked'
  BY <1>1, <1>3, <1>4 DEF IrqInv, Masked, masks
<1>6. QED
  BY <1>2, <1>5 DEF IrqInv

----------------------------------------------------------------------------
LEMMA IrqInitConsistent == ASSUME IrqInit PROVE IrqInv
<1> DEFINE new == Level("runs", << >>)
<1>1. new \in Levels /\ new.at = "runs" /\ new.saved = << >>
  BY Bits, IrqAssumption DEF Level, Levels, InProgram
<1> HIDE DEF new
<1>2. stack = <<new>> /\ stack \in Seq(Levels) /\ Len(stack) = 1 /\ stack[1] = new
  BY <1>1 DEF IrqInit, new
<1>3. Stacked
  <2>1. \A k \in 1 .. Len(stack) : k = 1 /\ stack[k] = new
    BY <1>2
  <2>2. "runs" \in InProgram /\ SavedAt("runs") = << >>
    BY DEF InProgram, SavedAt
  <2>3. QED
    BY <1>1, <1>2, <2>1, <2>2 DEF Stacked
<1>4. Masked
  BY <1>1, <1>2 DEF IrqInit, Masked, Mask, InForce, Preemptible
<1>5. Nested
  BY <1>2 DEF Nested
<1>6. Agrees(new, alt_irq, alt_irq_active)
  BY <1>1 DEF IrqInit, Agrees
<1>7. Table
  BY <1>2, <1>6 DEF Table
<1>8. QED
  BY <1>3, <1>4, <1>5, <1>7 DEF IrqInv

LEMMA IrqNextKeeps == ASSUME IrqInv, [IrqNext]_irqVars PROVE IrqInv'
<1>1. CASE Register
  BY <1>1, RegisterKeeps
<1>2. CASE Registers
  BY <1>2, ReadStatusKeeps, ClearPieKeeps, RestorePieKeeps, SetHandlerKeeps, SetContextKeeps,
     MarkActiveKeeps, EnableKeeps DEF Registers
<1>3. CASE Interrupt
  BY <1>3, InterruptKeeps
<1>4. CASE Handles
  BY <1>4, DispatchKeeps, ReturnKeeps, ServeKeeps, NarrowKeeps, LetInKeeps, CloseKeeps,
     WidenKeeps DEF Handles
<1>5. CASE Ask
  BY <1>5, AskKeeps
<1>6. CASE UNCHANGED irqVars
  <2>1. Stacked' /\ Nested' /\ Table'
    BY <1>6 DEF irqVars, IrqInv, Stacked, Nested, Table, Mask
  <2>2. Mask(InForce)' = Mask(InForce) /\ Pending' = Pending
    BY <1>6 DEF irqVars, Mask, InForce, Pending
  <2>3. Masked'
    BY <1>6, <2>2 DEF irqVars, IrqInv, Masked
  <2>4. QED
    BY <2>1, <2>3 DEF IrqInv
<1>7. QED
  BY <1>1, <1>2, <1>3, <1>4, <1>5, <1>6 DEF IrqNext, IrqContinues

\* Masks, nesting and table are consistent at every step of program and handlers.
THEOREM IrqConsistent == IrqSpec => []IrqInv
<1>1. IrqInit => IrqInv
  BY IrqInitConsistent
<1>2. IrqInv /\ [IrqNext]_irqVars => IrqInv'
  BY IrqNextKeeps
<1>3. QED
  BY <1>1, <1>2, PTL DEF IrqSpec

\* A handler is called with its own context, only higher priorities interrupt it, and the
\* program finds the masks as it left them, however many interrupts there are and however
\* deep they nest.
THEOREM InOrder == IrqSpec => []InterruptsInOrder
<1>1. IrqInv => InterruptsInOrder
  <2> SUFFICES ASSUME IrqInv PROVE InterruptsInOrder
    OBVIOUS
  <2>1. /\ stack \in Seq(Levels) /\ Len(stack) \in Nat /\ DOMAIN stack = 1 .. Len(stack)
        /\ Top = stack[1] /\ Top.at \in InProgram \union InHandler
    BY OnTop
  <2>2. \A k \in DOMAIN stack : stack[k].at \in Serving => k \in 1 .. Len(stack) - 1
    <3>1. TAKE k \in DOMAIN stack
    <3>2. HAVE stack[k].at \in Serving
    <3>3. k # Len(stack)
      BY <2>1, <3>2 DEF IrqInv, Stacked, Serving, InProgram
    <3>4. QED
      BY <2>1, <3>3
  <2>3. IrqTypeOK
    <3>1. alt_priority_mask \subseteq IRQS
      BY DEF IrqInv, Masked, Mask, Higher
    <3>2. \A k \in DOMAIN stack : stack[k].irq \in IRQS /\ stack[k].old \subseteq IRQS
      <4>1. \A k \in DOMAIN stack : stack[k] \in Levels
        BY <2>1
      <4>2. QED
        BY <4>1 DEF Levels
    <3>3. QED
      BY <3>1, <3>2 DEF IrqTypeOK, IrqInv, Masked, Table, Agrees
  <2>4. NeverHangs
    BY <2>1 DEF NeverHangs, InProgram, InHandler, Serving
  <2>5. CalledWithItsOwn
    BY <2>2 DEF CalledWithItsOwn, Serves, IrqInv, Nested
  <2>6. HigherInterruptsLower
    <3>1. SUFFICES ASSUME NEW j \in DOMAIN stack, NEW k \in DOMAIN stack, j < k,
                          stack[j].at \in Serving, stack[k].at \in Serving
                   PROVE  stack[j].irq < stack[k].irq
      BY DEF HigherInterruptsLower, Serves
    <3>2. j \in 1 .. Len(stack) - 1 /\ k \in j + 1 .. Len(stack) - 1
      <4>1. j \in 1 .. Len(stack) - 1 /\ k \in 1 .. Len(stack) - 1
        BY <2>2, <3>1
      <4>2. QED
        BY <2>1, <3>1, <4>1
    <3>3. QED
      BY <3>1, <3>2 DEF IrqInv, Nested
  <2>7. MasksRestored
    <3>1. SUFFICES ASSUME Top.at = "runs" PROVE MasksRestored
      BY DEF MasksRestored
    <3>2. /\ Len(stack) = 1 /\ InForce = 1 /\ Mask(1) = IRQS /\ stack[1].at = "runs"
      <4>1. Top.at \in InProgram
        BY <3>1 DEF InProgram
      <4>2. QED
        BY <2>1, <3>1, <4>1, OnTop
    <3>3. pie /\ alt_priority_mask = IRQS /\ ienable = alt_irq_active
      BY <3>2 DEF IrqInv, Masked, Preemptible
    <3>4. \A i \in IRQS : i \in alt_irq_active <=> alt_irq[i].handler # NULL
      BY <3>2 DEF IrqInv, Table, Agrees
    <3>5. QED
      BY <3>3, <3>4 DEF MasksRestored
  <2>8. QED
    BY <2>3, <2>4, <2>5, <2>6, <2>7 DEF InterruptsInOrder
<1>2. QED
  BY <1>1, IrqConsistent, PTL

=============================================================================
