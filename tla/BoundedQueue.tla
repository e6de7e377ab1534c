---------------------------- MODULE BoundedQueue ----------------------------
(***************************************************************************)
(* What a clocked FIFO promises its user: a bounded sequence.  In a cycle  *)
(* a strobe to dequeue removes the oldest element if there is one; a       *)
(* strobe to enqueue appends an element if the queue was not full when the *)
(* cycle began (a slot freed in the same cycle does not help).             *)
(***************************************************************************)
EXTENDS Naturals, Sequences

CONSTANTS Capacity, Data

VARIABLES queue, rst, enq_strobe, enq_data, deq_strobe

Init == queue = << >>

Dequeued == IF deq_strobe /\ queue # << >> THEN Tail(queue) ELSE queue

Clock ==
    queue' = IF rst THEN << >>
             ELSE IF enq_strobe /\ Len(queue) < Capacity
                  THEN Append(Dequeued, enq_data)
                  ELSE Dequeued

Spec == Init /\ [][Clock]_queue
=============================================================================
