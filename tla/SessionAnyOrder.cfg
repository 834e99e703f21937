\* The client against any event order: the user presses keys and buttons
\* in every socket state and the server sends every kind of frame.
CONSTANTS
  QueueCapacity = 4
  NetRate = 1
  DeviceRate = 2
  BlockSize = 2
  FrameLens = {1, 2}
  FrameTags = {0, 1, 2}
  UserActiveIn = {"none", "connecting", "open", "closing", "closed"}
  MaxPresses = 2
  MaxFrames = 3
  MaxInFlight = 2
  Undefined = Undefined
SPECIFICATION Spec
\* The page idles between events once the bounds are used up.
CHECK_DEADLOCK FALSE
INVARIANTS AudioOnlyWhileServerTransmits ModesAgree SuspendSeesContext
           OutputOnlyWhileReceiving
PROPERTIES ContextReleasedAfterDisconnect QueueDrains HalfDuplexSpec
           DelayStatsAreNumbers
