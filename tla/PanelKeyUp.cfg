\* keyUp throws ReferenceError before it calls receive().
CONSTANTS
  NetRate = 1
  DeviceRate = 2
  BlockSize = 2
  FrameLens = {1, 2}
  SelectiveDisconnect = FALSE
  UserActiveIn = {"open"}
  MaxPresses = 2
  MaxFrames = 3
  MaxInFlight = 2
  Undefined = Undefined
SPECIFICATION Spec
CHECK_DEADLOCK FALSE
PROPERTY SpaceReleaseReceives
