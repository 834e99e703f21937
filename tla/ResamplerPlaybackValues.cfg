CONSTANTS
  InRate = 64
  OutRate = 375
  Undefined = Undefined
  BlockLens = {1, 2, 3}
  SampleValues = {0, 1}
  MaxInput = 7
INIT Init
NEXT Next
INVARIANTS
  OutputContinuity
