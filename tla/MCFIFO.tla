------------------------------- MODULE MCFIFO -------------------------------
(***************************************************************************)
(* The FIFO driven by one writer and one reader that respect the limits   *)
(* its callers check (responseReceiveAudio compares the block with         *)
(* writableLength(), processAudioOutput takes at most queuedLength()),    *)
(* plus transmit()'s reset().  taken records the view the last get()      *)
(* returned, so that the refinement covers the data handed out.          *)
(***************************************************************************)
EXTENDS FIFO

VARIABLE taken

vars == <<inp, out, buf, taken>>

\* Every block a writer may hand to put(): up to Capacity samples.
Blocks == UNION {[1 .. n -> Values] : n \in 0 .. Capacity}

MCInit == Init /\ taken = <<>>

Write ==
  \E data \in Blocks :
    /\ Len(data) <= writableLength
    /\ Put(data)
    /\ UNCHANGED taken

Read ==
  \E n \in 0 .. queuedLength :
    /\ Get(n)
    /\ taken' = View(n)

Clear == Reset /\ UNCHANGED taken

MCNext == Write \/ Read \/ Clear

MCSpec == MCInit /\ [][MCNext]_vars

-----------------------------------------------------------------------------
(* Type invariant: the cursors delimit a region of the storage.            *)
TypeOK ==
  /\ out \in 0 .. Capacity
  /\ inp \in out .. Capacity
  /\ buf \in [Slots -> Values \cup {Zero}]
  /\ taken \in Seq(Values \cup {Zero})

(* Spec 4.1: a put of at most writableLength() samples never throws: not  *)
(* reorder()'s overrun error, and not a RangeError from a view that would *)
(* reach past the end of the storage.  reorder() only compacts when out > *)
(* 0 and data is queued, so this rests on get() resetting the cursors of  *)
(* a drained buffer.                                                       *)
PutWithinWritableSucceeds ==
  \A n \in 0 .. writableLength : ~PutThrows(n)

(* The FIFO implements the bounded queue of QueueSpec: the live region,   *)
(* read from out to inp, is the abstract queue through any number of      *)
(* compactions, and every get() hands back its front.                     *)
Abstract == INSTANCE QueueSpec WITH queue <- Region(out, queuedLength)

AbstractSpec == Abstract!Spec

(* reorder() compacts with copyView.copyWithin(0, out, inp) or, where the *)
(* typed array lacks it, with the copyWithin loop of katena.js.  The      *)
(* regions overlap whenever more than out samples are queued, so the loop *)
(* is only right because it copies upwards: at every state where put()    *)
(* would compact, both give the same storage.                             *)
FallbackCompactsAlike ==
  Compacts => CopyLoop(buf, out, queuedLength, 0) = Compacted

=============================================================================
