----------------------------- MODULE HalfDuplex -----------------------------
(***************************************************************************)
(* What the push-to-talk client promises (spec section 4.3): the page is  *)
(* either transmitting or receiving.  Starting to talk discards the audio *)
(* not yet played; received audio is queued, within the queue's capacity, *)
(* only while receiving, and played out in order, also only while         *)
(* receiving.  Stopping talking keeps the (empty or refilled) queue.     *)
(***************************************************************************)
EXTENDS Naturals, Sequences

CONSTANTS Capacity, Values

VARIABLES mode, queue

vars == <<mode, queue>>

Init == mode = "receiving" /\ queue = <<>>

StartTalk ==
  /\ mode = "receiving"
  /\ mode' = "transmitting"
  /\ queue' = <<>>

EndTalk ==
  /\ mode = "transmitting"
  /\ mode' = "receiving"
  /\ UNCHANGED queue

Arrive(data) ==
  /\ mode = "receiving"
  /\ Len(queue) + Len(data) <= Capacity
  /\ queue' = queue \o data
  /\ UNCHANGED mode

Play(n) ==
  /\ mode = "receiving"
  /\ n <= Len(queue)
  /\ queue' = SubSeq(queue, n + 1, Len(queue))
  /\ UNCHANGED mode

Next ==
  \/ StartTalk
  \/ EndTalk
  \/ \E n \in 1 .. Capacity - Len(queue) : \E data \in [1 .. n -> Values] :
       Arrive(data)
  \/ \E n \in 1 .. Capacity : Play(n)

Spec == Init /\ [][Next]_vars

=============================================================================
