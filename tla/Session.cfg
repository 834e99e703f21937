\* The client against a well-behaved server: the user presses keys only
\* while the socket is open, the server sends audio frames only.
CONSTANTS
  QueueCapacity = 4
  NetRate = 1
  DeviceRate = 2
  BlockSize = 2
  FrameLens = {1, 2}
  FrameTags = {1}
  UserActiveIn = {"open"}
  MaxPresses = 2
  MaxFrames = 3
  MaxInFlight = 2
  Undefined = Undefined
SPECIFICATION Spec
\* The page idles between events once the bounds are used up.
CHECK_DEADLOCK FALSE
INVARIANTS TypeOK NoUncaughtError
