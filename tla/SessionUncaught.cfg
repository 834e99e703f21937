\* The client against any event order and any frame: keys and buttons in
\* every socket state, frames of every tag, including empty ones.
CONSTANTS
  QueueCapacity = 4
  NetRate = 1
  DeviceRate = 2
  BlockSize = 2
  FrameLens = {0, 1, 2}
  FrameTags = {0, 1, 2}
  UserActiveIn = {"none", "connecting", "open", "closing", "closed"}
  MaxPresses = 2
  MaxFrames = 3
  MaxInFlight = 2
  Undefined = Undefined
SPECIFICATION Spec
CHECK_DEADLOCK FALSE
INVARIANT NoUncaughtError
