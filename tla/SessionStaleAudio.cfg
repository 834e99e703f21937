\* Audio the server sent before it obeyed transmit, played after receive.
CONSTANTS
  QueueCapacity = 4
  NetRate = 1
  DeviceRate = 2
  BlockSize = 2
  FrameLens = {1, 2}
  FrameTags = {1}
  UserActiveIn = {"open"}
  MaxPresses = 2
  MaxFrames = 3
  MaxInFlight = 2
  Undefined = Undefined
SPECIFICATION Spec
CHECK_DEADLOCK FALSE
INVARIANT NoStaleAudio
