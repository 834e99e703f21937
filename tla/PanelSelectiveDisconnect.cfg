\* gotSocket's receive() disconnects a source that is not connected.
CONSTANTS
  NetRate = 1
  DeviceRate = 2
  BlockSize = 2
  FrameLens = {1, 2}
  SelectiveDisconnect = TRUE
  UserActiveIn = {"open"}
  MaxPresses = 2
  MaxFrames = 3
  MaxInFlight = 2
  Undefined = Undefined
SPECIFICATION Spec
CHECK_DEADLOCK FALSE
INVARIANT GraphFollowsMode
