CONSTANTS
  Capacity = 4
  Values = {v1, v2}
  Zero = z
INIT MCInit
NEXT MCNext
INVARIANTS
  TypeOK
  PutWithinWritableSucceeds
  FallbackCompactsAlike
PROPERTIES
  AbstractSpec
