---------------------------- MODULE ByteChannel ----------------------------
(***************************************************************************)
(* What each direction of the UART promises: the bytes on their way.  A    *)
(* byte enters at the end and leaves at the front; none is lost, repeated  *)
(* or overtaken.                                                           *)
(***************************************************************************)
EXTENDS Sequences

CONSTANT Byte           \* what a channel carries

VARIABLE queue

Init == queue = << >>

Enter == \E b \in Byte : queue' = Append(queue, b)
Leave == queue # << >> /\ queue' = Tail(queue)

Spec == Init /\ [][Enter \/ Leave]_queue
============================================================================
