CONSTANTS
  InRate = 375
  OutRate = 64
  Undefined = Undefined
  BlockLens = {8}
  SampleValues = {0, 1}
  MaxInput = 24
INIT Init
NEXT Next
INVARIANTS
  LengthContinuity
