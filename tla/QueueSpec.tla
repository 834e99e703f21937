----------------------------- MODULE QueueSpec -----------------------------
(***************************************************************************)
(* What the FIFO of katena.js promises (spec section 4.1): a bounded      *)
(* first-in first-out queue of samples.  put appends a block when it fits *)
(* in the free capacity, get removes a block from the front and hands it  *)
(* back, reset empties the queue.  taken is the block the last get handed *)
(* back.                                                                   *)
(***************************************************************************)
EXTENDS Naturals, Sequences

CONSTANTS Capacity, Values

VARIABLES queue, taken

Init == queue = <<>> /\ taken = <<>>

Enqueue(data) ==
  /\ Len(queue) + Len(data) <= Capacity
  /\ queue' = queue \o data
  /\ UNCHANGED taken

Dequeue(n) ==
  /\ n <= Len(queue)
  /\ taken' = SubSeq(queue, 1, n)
  /\ queue' = SubSeq(queue, n + 1, Len(queue))

Clear == queue' = <<>> /\ UNCHANGED taken

Next ==
  \/ \E n \in 0 .. Capacity, data \in [1 .. Capacity -> Values] :
        Enqueue(SubSeq(data, 1, n))
  \/ \E n \in 0 .. Capacity : Dequeue(n)
  \/ Clear

Spec == Init /\ [][Next]_<<queue, taken>>

=============================================================================
