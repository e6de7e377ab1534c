------------------------------ MODULE EthComm ------------------------------
(***************************************************************************)
(* The Ethernet side of v1: the stream of samples with the replies between *)
(* the frames (AdcStream), and the receiver (EthRx).  They meet in the     *)
(* request registers, which AdcStream sees from the other side; their      *)
(* clocks have nothing to do with each other.                              *)
(***************************************************************************)
EXTENDS AdcStream, EthRx

\* The samples of a half leave time to build its frame, with a reply before it, and
\* requests leave time to build the reply to the one before.  On the board, with halves
\* of 256 samples, two edges for a sample are enough; the shortest frames of a line with
\* 100 Mbit/s are 336 edges apart, and 292 are needed.
ASSUME BuildTiming == N * PACE >= PACE + N + 37 /\ SPACING >= N + 36

\* The push-frame FIFO is never given a frame it has no room for, though eth_tx_proc does
\* not ask, and every register keeps the range the code declares for it.
NothingOverflows == TypeOK /\ QueueFits /\ RxTypeOK
============================================================================
