-------------------------------- MODULE FIFO --------------------------------
(***************************************************************************)
(* The zero-copy FIFO of katena.js (constructor FIFO and FIFO.prototype). *)
(* The backing ArrayBuffer holds Capacity samples (this.end); the live     *)
(* region is [out, inp).  put() hands out a contiguous view at the tail,   *)
(* compacting the live region down to offset 0 ("reorder") when the tail  *)
(* would be reached; get() hands out a view at out and resets both        *)
(* cursors once the buffer is drained.                                     *)
(*                                                                         *)
(* The caller fills a put() view synchronously (resample writes into it)  *)
(* and copies a get() view synchronously (out.set), so Put takes the data *)
(* written and View names the data read.  A sample is an element of       *)
(* Values; Zero is the content of the freshly allocated ArrayBuffer.      *)
(***************************************************************************)
EXTENDS Naturals, Sequences

CONSTANTS Capacity,   \* this.end = size
          Values,     \* samples a writer may store
          Zero        \* the initial (zero-filled) content of a slot

ASSUME Capacity \in Nat \ {0}

VARIABLES inp,   \* this.inp, the write cursor
          out,   \* this.out, the read cursor
          buf    \* the ArrayBuffer, slot -> sample

fifoVars == <<inp, out, buf>>

Slots == 0 .. Capacity - 1

\* new FIFO(type, size): zero-filled storage, then reset().
Init ==
  /\ inp = 0
  /\ out = 0
  /\ buf = [i \in Slots |-> Zero]

queuedLength == inp - out

writableLength == (Capacity - inp) + out

\* The samples of the region [from, from + n).
Region(from, n) == [k \in 1 .. n |-> buf[from + k - 1]]

\* The view get(n) returns: n samples starting at out.
View(n) == Region(out, n)

\* Mutant: reset() that only rewinds the write cursor.
ResetInpOnly ==
  /\ inp' = 0
  /\ UNCHANGED <<out, buf>>

\* reset(): both cursors back to 0; the storage is left as it is.
Reset ==
  /\ inp' = 0
  /\ out' = 0
  /\ UNCHANGED buf

\* get(length): the overrun check, then advance out; a drained buffer is
\* reset so that the cursors never creep towards the end.
Get(length) ==
  /\ length <= queuedLength
  /\ IF out + length = inp
       THEN inp' = 0 /\ out' = 0
       ELSE out' = out + length /\ inp' = inp
  /\ UNCHANGED buf

\* Mutant: reorder() compacts only when out > 1.
CompactsLate == out > 1 /\ queuedLength > 0

\* reorder(): does it move the live region to offset 0?
Compacts == out > 0 /\ queuedLength > 0

\* copyWithin(0, out, inp) on the storage.
Compacted == [i \in Slots |-> IF i < queuedLength THEN buf[out + i] ELSE buf[i]]

\* Mutant: the fallback loop run from the last slot down.
RECURSIVE CopyLoopDown(_, _, _, _)
CopyLoopDown(b, offset, length, i) ==
  IF i >= length THEN b
  ELSE LET j == length - 1 - i
       IN CopyLoopDown([b EXCEPT ![j] = b[j + offset]], offset, length, i + 1)

\* copyWithin(inp, offset, length), the fallback reorder() uses when the
\* typed array has no copyWithin: inp[i] = inp[i + offset] for i from 0 up
\* to length - 1, each assignment seeing the ones before it.
RECURSIVE CopyLoop(_, _, _, _)
CopyLoop(b, offset, length, i) ==
  IF i >= length THEN b
  ELSE CopyLoop([b EXCEPT ![i] = b[i + offset]], offset, length, i + 1)

\* put(length) takes the reorder() path when the tail would be reached.
TakesReorder(length) == inp + length >= Capacity

\* The offset at which put(length) places its view.
PutAt(length) ==
  IF TakesReorder(length) /\ Compacts THEN queuedLength ELSE inp

\* put(length) throws: reorder()'s overrun check fails, or the typed-array
\* view it constructs would reach past the end of the ArrayBuffer.
PutThrows(length) ==
  \/ TakesReorder(length) /\ length > writableLength
  \/ PutAt(length) + length > Capacity

\* Mutant: reorder() moves the data but does not set out = 0.
PutKeepsOut(data) ==
  LET length == Len(data)
      at     == PutAt(length)
      base   == IF TakesReorder(length) /\ Compacts THEN Compacted ELSE buf
  IN /\ ~PutThrows(length)
     /\ buf' = [i \in Slots |-> IF at <= i /\ i < at + length
                                  THEN data[i - at + 1] ELSE base[i]]
     /\ inp' = at + length
     /\ UNCHANGED out

\* put(length) followed by the caller filling the view with data.
Put(data) ==
  LET length == Len(data)
      at     == PutAt(length)
      base   == IF TakesReorder(length) /\ Compacts THEN Compacted ELSE buf
  IN /\ ~PutThrows(length)
     /\ buf' = [i \in Slots |-> IF at <= i /\ i < at + length
                                  THEN data[i - at + 1] ELSE base[i]]
     /\ inp' = at + length
     /\ out' = IF TakesReorder(length) /\ Compacts THEN 0 ELSE out

=============================================================================
