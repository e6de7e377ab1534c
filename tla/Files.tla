------------------------------- MODULE Files -------------------------------
(***************************************************************************)
(* File descriptors of the HAL: alt_open.c, alt_close.c, alt_ioctl.c,      *)
(* alt_fcntl.c, alt_get_fd.c, alt_release_fd.c, alt_fd_lock.c,             *)
(* alt_fd_unlock.c, and the start-up of alt_io_redirect.c.                 *)
(*                                                                         *)
(* One thread, so that calls do not interleave: what can go wrong takes a  *)
(* sequence of calls.  The devices of this build, /dev/null and the UART,  *)
(* have no open() of their own, and no filesystem is registered; an open() *)
(* that fails for a device's own reason is allowed for all the same.       *)
(***************************************************************************)
EXTENDS Naturals, Integers, Sequences

CONSTANTS
    ALT_MAX_FD,     \* size of the pool; 4 in this build
    DEVICES,        \* "null" and those registered before alt_io_redirect
    MODES           \* access modes of open(); O_RDWR may be left out

ASSUME FilesAssumption ==
    /\ ALT_MAX_FD \in Nat /\ ALT_MAX_FD > 3
    /\ {"uart", "null"} \subseteq DEVICES /\ {"none", "unknown"} \cap DEVICES = {}

VARIABLES
    alt_fd_list,    \* dev, ALT_FD_EXCL, access mode, whether O_NONBLOCK
    alt_max_fd,     \* the high-water mark
    boot,           \* what is left of alt_io_redirect: descriptors still to be redirected
    last            \* if it was an open() or a close(), the last call: its descriptor, or -1

fileVars == <<alt_fd_list, alt_max_fd, boot, last>>

Fds == 0 .. ALT_MAX_FD - 1
Modes == {"O_RDONLY", "O_WRONLY"} \union MODES
Unallocated == [dev |-> "none", excl |-> FALSE, mode |-> "O_RDONLY", nonblock |-> FALSE]
InUse(i) == alt_fd_list[i].dev # "none"

Other == [op |-> "other", fd |-> -1]

FilesInit ==
    /\ alt_fd_list = [i \in Fds |-> IF i > 2 THEN Unallocated ELSE [Unallocated EXCEPT !.dev = "null"]]
    /\ alt_max_fd = -1
    /\ boot = <<1, 0, 2>>
    /\ last = Other

----------------------------------------------------------------------------

Free == {i \in Fds : ~ InUse(i)}

\* alt_get_fd: the first free descriptor.
First == CHOOSE i \in Free : \A j \in Free : i <= j

\* alt_file_locked: a search up to the high-water mark, which already counts the new one.
LockedBelow(dev, i, mark) ==
    \E j \in 0 .. mark - 1 : j # i /\ alt_fd_list[j].dev = dev /\ alt_fd_list[j].excl
Locked(dev, i, mark) ==
    \E j \in 0 .. mark : j # i /\ alt_fd_list[j].dev = dev /\ alt_fd_list[j].excl

\* alt_release_fd: standard input, output and error are never given back.
ReleasedError(list, i) == IF i > 1 THEN [list EXCEPT ![i] = Unallocated] ELSE list
Released(list, i) == IF i > 2 THEN [list EXCEPT ![i] = Unallocated] ELSE list

Mark(i) == IF i > alt_max_fd THEN i ELSE alt_max_fd

\* What the pool is after open(): with the new descriptor, or without it again.
Opened(dev, mode, nonblock, i, opens) ==
    LET taken == [alt_fd_list EXCEPT ![i] = [dev |-> dev, excl |-> FALSE, mode |-> mode,
                                             nonblock |-> nonblock]]
    IN  IF Locked(dev, i, Mark(i)) \/ ~ opens THEN Released(taken, i) ELSE taken

\* ALT_OPEN, of a device that exists or not; it fails without a free descriptor.
Open ==
    /\ boot = << >>
    /\ \E dev \in DEVICES \union {"unknown"}, mode \in Modes, nonblock \in BOOLEAN,
          opens \in BOOLEAN :
         IF dev = "unknown" \/ Free = {}
         THEN /\ last' = [op |-> "open", fd |-> -1]
              /\ UNCHANGED <<alt_fd_list, alt_max_fd>>
         ELSE /\ alt_fd_list' = Opened(dev, mode, nonblock, First, opens)
              /\ alt_max_fd' = Mark(First)
              /\ last' = [op |-> "open", fd |-> IF alt_fd_list'[First].dev = dev THEN First ELSE -1]
    /\ UNCHANGED boot

\* alt_open_fd: a descriptor is opened, copied and released.
Redirect(dev) ==
    /\ boot # << >>
    /\ alt_max_fd' = IF Free = {} THEN alt_max_fd ELSE Mark(First)
    /\ alt_fd_list' =
         IF Free = {} THEN alt_fd_list
         ELSE LET mode == IF boot[1] = 0 THEN "O_RDONLY" ELSE "O_WRONLY"
                  opened == Opened(dev, mode, FALSE, First, TRUE)
              IN  Released([opened EXCEPT ![boot[1]] = opened[First]], First)
    /\ boot' = Tail(boot)
    /\ UNCHANGED last

----------------------------------------------------------------------------
(* Calls with a descriptor that is in use                                   *)

Call(i, call) ==
    /\ boot = << >> /\ InUse(i)
    /\ last' = call
    /\ UNCHANGED <<alt_max_fd, boot>>

\* ALT_CLOSE: the descriptor is released whatever the device's close() returns.
Close(i) ==
    /\ Call(i, [op |-> "close", fd |-> i])
    /\ alt_fd_list' = Released(alt_fd_list, i)

\* ALT_IOCTL, TIOCEXCL: alt_fd_lock, whose search ends before the high-water mark.
Lock(i) ==
    LET shared == \E j \in 0 .. alt_max_fd - 1 : j # i /\ alt_fd_list[j].dev = alt_fd_list[i].dev
    IN  /\ Call(i, Other)
        /\ alt_fd_list' = IF shared THEN alt_fd_list ELSE [alt_fd_list EXCEPT ![i].excl = TRUE]

\* TIOCNXCL: alt_fd_unlock.
Unlock(i) ==
    /\ Call(i, Other)
    /\ alt_fd_list' = [alt_fd_list EXCEPT ![i].excl = FALSE]

\* ALT_FCNTL, F_SETFL: only O_APPEND and O_NONBLOCK.
SetFlags(i) ==
    /\ Call(i, Other)
    /\ \E nonblock \in BOOLEAN : alt_fd_list' = [alt_fd_list EXCEPT ![i].nonblock = nonblock]

FilesNext ==
    \/ Redirect("uart") \/ Open
    \/ \E i \in Fds : Close(i) \/ Lock(i) \/ Unlock(i) \/ SetFlags(i)

FilesSpec == FilesInit /\ [][FilesNext]_fileVars

----------------------------------------------------------------------------
(* Properties                                                               *)

FilesTypeOK ==
    /\ alt_fd_list \in [Fds -> [dev : DEVICES \union {"none"}, excl : BOOLEAN, mode : Modes,
                                nonblock : BOOLEAN]]
    /\ alt_max_fd \in -1 .. ALT_MAX_FD - 1
    /\ boot \in {<< >>, <<2>>, <<0, 2>>, <<1, 0, 2>>}
    /\ last \in [op : {"open", "close", "other"}, fd : Fds \union {-1}]

\* "Further calls to open() for this device will fail until the lock is released":
\* no descriptor ever joins a device that another one has locked, after any calls.
JoinsNoLocked ==
    \A i, j \in Fds : ~ InUse(i) /\ InUse(i)' /\ i # j =>
        alt_fd_list'[j].dev # alt_fd_list'[i].dev \/ ~ alt_fd_list'[j].excl
LocksRespected == [][JoinsNoLocked]_fileVars

\* Every descriptor in use lies below the high-water mark the searches end at, once
\* start-up has opened its first.
HighWater == boot # <<1, 0, 2>> => \A i \in Fds : InUse(i) => i <= alt_max_fd

\* Standard input, output and error are the UART for good, even if they are closed.
StandardStreams ==
    boot = << >> => \A i \in 0 .. 2 :
        alt_fd_list[i].dev = "uart" /\ alt_fd_list[i].mode = IF i = 0 THEN "O_RDONLY" ELSE "O_WRONLY"

\* A failing open() leaves the pool as it was: the descriptor it took is given back.
FailureLeavesNoTrace == last' = [op |-> "open", fd |-> -1] => UNCHANGED alt_fd_list

\* After start-up a descriptor in use stands for the same device, with the same access,
\* until it is closed itself.
DescriptorsKept ==
    \A i \in Fds : boot = << >> /\ InUse(i) /\ last' # [op |-> "close", fd |-> i] =>
        alt_fd_list'[i].dev = alt_fd_list[i].dev /\ alt_fd_list'[i].mode = alt_fd_list[i].mode

\* After any calls, failing ones among them, the pool is what the calls that succeeded made
\* of it.
PoolKept == [][HighWater' /\ StandardStreams' /\ FailureLeavesNoTrace /\ DescriptorsKept]_fileVars
=============================================================================
