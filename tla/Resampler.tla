------------------------------ MODULE Resampler ------------------------------
(***************************************************************************)
(* The linear-interpolation resampler of katena.js: resample,             *)
(* resampleInnerLoop, resampledOutputLength and resamplingInputLength.    *)
(*                                                                         *)
(* The code works in floating point on the ratio r = inRate / outRate and *)
(* the carried phase context.delta.  With integer rates every quantity it *)
(* computes is a rational with denominator U = 2 * outRate, so the model  *)
(* keeps each one as an exact integer multiple of 1/U: the phase is D     *)
(* with delta = D / U, a sampling point (i + 0.5) * r + delta is          *)
(* PointU(i, D) / U, an interpolation offset is a numerator over U, and   *)
(* an output sample is kept multiplied by U.  Floating-point rounding is  *)
(* not modelled.  context.scale is a constant factor and is left out.     *)
(*                                                                         *)
(* Reading a typed array past its end yields undefined, and arithmetic    *)
(* on undefined yields NaN: both are the model value Undefined.           *)
(***************************************************************************)
EXTENDS Integers, Sequences

CONSTANTS InRate,     \* context.inRate
          OutRate,    \* context.outRate
          Undefined   \* undefined / NaN

ASSUME InRate \in Nat \ {0} /\ OutRate \in Nat \ {0}

U == 2 * OutRate

\* The initial context.delta, -0.5, set by the length functions when the
\* context has none yet.
InitialDelta == -OutRate

\* The context before the first call: no last sample, the initial phase.
InitialContext == [last |-> Undefined, delta |-> InitialDelta]

\* JavaScript's %: the remainder takes the sign of the dividend.
JSMod(a, b) == IF a >= 0 THEN a % b ELSE -((-a) % b)

AbsVal(a) == IF a >= 0 THEN a ELSE -a

MinOf(a, b) == IF a <= b THEN a ELSE b

\* Mutant: resampledOutputLength rounding up instead of down.
ResampledOutputLengthUp(length, D) ==
  ((2 * ((length - 1) * U - D) * OutRate - U * InRate) \div (2 * U * InRate)) + 2

\* resampledOutputLength(length, context):
\*   floor(((length - 1 - delta) / r) - 0.5) + 1
ResampledOutputLength(length, D) ==
  ((2 * ((length - 1) * U - D) * OutRate - U * InRate) \div (2 * U * InRate)) + 1

\* resamplingInputLength(length, context):
\*   floor(((length - 0.5) * r) + delta) + 1
\* No function of katena.js calls it, so no behaviour of the client uses it.
ResamplingInputLength(length, D) ==
  (((2 * length - 1) * InRate + D) \div U) + 1

\* U times the sampling point (i + 0.5) * r + delta of output index i.
PointU(i, D) == (2 * i + 1) * InRate + D

\* inp[k]: a sample, or undefined outside the array.
SampleAt(inp, k) == IF 0 <= k /\ k < Len(inp) THEN inp[k + 1] ELSE Undefined

\* (low * (1 - offset) + high * offset), times U, for offset = o / U.
Interpolate(low, high, o) ==
  IF low = Undefined \/ high = Undefined THEN Undefined
  ELSE low * (U - o) + high * o

\* +context.last || 0.0: a missing or NaN last sample reads as 0.
LastOrZero(v) == IF v = Undefined THEN 0 ELSE v

\* resampleInnerLoop's prefixLength:
\*   min(floor((((0.5 * r) - delta) / r) - 0.5) + 1, outLength)
\* which simplifies to floor(-delta / r) + 1, capped by outLength.
PrefixLength(outLength, D) == MinOf(((-D) \div (2 * InRate)) + 1, outLength)

\* out[i] as resampleInnerLoop writes it: the first prefixLength samples
\* interpolate between last and inp[0] at offset (1 + point) % 1, the
\* rest between inp[index] and inp[index + 1] at offset point % 1.
OutSample(inp, i, outLength, last, D) ==
  IF i < PrefixLength(outLength, D)
    THEN Interpolate(last, SampleAt(inp, 0), JSMod(U + PointU(i, D), U))
    ELSE LET index == PointU(i, D) \div U
         IN  Interpolate(SampleAt(inp, index), SampleAt(inp, index + 1),
                         JSMod(PointU(i, D), U))

\* Mutant: the carried phase without the half-step - 0.5 * r.
CarriedDeltaNoHalf(outLength, D) == (AbsVal(PointU(outLength, D)) % U) - U

\* Mutant: the carried phase without the - 1.
CarriedDeltaNoWrap(outLength, D) == (AbsVal(PointU(outLength, D)) % U) - InRate

\* The context.delta resample leaves after writing outLength samples:
\*   ((Math.abs(point) % 1) - 1) - 0.5 * r
\* for the sampling point of index outLength.
CarriedDelta(outLength, D) == (AbsVal(PointU(outLength, D)) % U) - U - InRate

\* resample(inp, out, inLength, outLength, context): the output block and
\* the context it leaves behind.  The new last is inp[floor(point)] (the
\* old one while that index is negative).
Resample(inp, outLength, ctx) ==
  LET last  == LastOrZero(ctx.last)
      D     == ctx.delta
      point == PointU(outLength, D)
      index == point \div U
  IN [out   |-> [i \in 1 .. outLength |-> OutSample(inp, i - 1, outLength, last, D)],
      last  |-> IF index < 0 THEN last ELSE SampleAt(inp, index),
      delta |-> CarriedDelta(outLength, D)]

=============================================================================
