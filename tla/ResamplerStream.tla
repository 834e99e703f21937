--------------------------- MODULE ResamplerStream ---------------------------
(***************************************************************************)
(* One resampling context used by successive callbacks, as katena.js uses *)
(* r.outputResamplingContext in responseReceiveAudio (one call per        *)
(* inbound audio frame) and r.inputResamplingContext in processAudioInput *)
(* (one call per capture block).  Each call sizes its output with         *)
(* resampledOutputLength and then runs resample on the same context.      *)
(*                                                                         *)
(* hist is all input handed to the context so far and outs all output it  *)
(* produced, so that a property can compare the calls made with one call *)
(* on the whole input.                                                     *)
(***************************************************************************)
EXTENDS Integers, Sequences

CONSTANTS InRate, OutRate, Undefined,
          BlockLens,     \* lengths of the input blocks the caller passes
          SampleValues,  \* input sample values
          MaxInput       \* bound on the total input, to keep hist finite

VARIABLES ctx,   \* the context: [last, delta]
          hist,  \* input so far
          outs   \* output so far

vars == <<ctx, hist, outs>>

R == INSTANCE Resampler

Init ==
  /\ ctx = R!InitialContext
  /\ hist = <<>>
  /\ outs = <<>>

\* One callback: size the output with resampledOutputLength, resample into
\* it, carry the context.  A negative length makes the typed-array
\* constructor throw before resample runs, which the guard excludes.
Call ==
  \E L \in BlockLens : \E data \in [1 .. L -> SampleValues] :
    LET n   == R!ResampledOutputLength(L, ctx.delta)
        res == R!Resample(data, n, ctx)
    IN /\ Len(hist) + L <= MaxInput
       /\ n >= 0
       /\ ctx' = [last |-> res.last, delta |-> res.delta]
       /\ hist' = hist \o data
       /\ outs' = outs \o res.out

SmallestOf(S) == CHOOSE x \in S : \A y \in S : x <= y

\* Once MaxInput is reached the stream stops; the model then stutters.
Done == Len(hist) + SmallestOf(BlockLens) > MaxInput /\ UNCHANGED vars

Next == Call \/ Done

Spec == Init /\ [][Next]_vars

-----------------------------------------------------------------------------
(* Type invariant.                                                         *)
TypeOK ==
  /\ ctx.last \in SampleValues \cup {0, Undefined}
  /\ ctx.delta \in -(R!U + InRate) .. 0
  /\ hist \in Seq(SampleValues)
  /\ outs \in Seq(Int \cup {Undefined})

(* The output of a stream of calls, one whole call on all its input.      *)
OneCall == R!Resample(hist, R!ResampledOutputLength(Len(hist), R!InitialDelta),
                      R!InitialContext).out

(* Spec 4.2: the context carries the phase so that the calls together     *)
(* produce as many samples as one call on the concatenated input: no      *)
(* sample is dropped or repeated at a callback boundary.                  *)
LengthContinuity == Len(outs) = Len(OneCall)

(* resampledOutputLength sizes each call so that resample never reads    *)
(* past the end of its input: no output sample is NaN.                    *)
NoUndefinedSample == \A i \in DOMAIN outs : outs[i] # Undefined

(* Spec 4.2 and 8: the output of consecutive calls equals the output of   *)
(* one call on the concatenated input (no click at a callback boundary).  *)
OutputContinuity == outs = OneCall

=============================================================================
