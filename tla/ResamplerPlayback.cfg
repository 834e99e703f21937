\* Playback: netSampleRate 8192 to a 48000 Hz device, in lowest terms.
CONSTANTS
  InRate = 64
  OutRate = 375
  Undefined = Undefined
  BlockLens = {1, 2, 3}
  SampleValues = {0, 1}
  MaxInput = 7
INIT Init
NEXT Next
INVARIANTS
  TypeOK
  LengthContinuity
  NoUndefinedSample
