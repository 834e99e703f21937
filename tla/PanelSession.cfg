\* panel.js against any event order, in a browser whose
\* AudioNode.disconnect(destination) disconnects every output.
CONSTANTS
  NetRate = 1
  DeviceRate = 2
  BlockSize = 2
  FrameLens = {1, 2}
  SelectiveDisconnect = FALSE
  UserActiveIn = {"none", "connecting", "open", "closing", "closed", "zero"}
  MaxPresses = 2
  MaxFrames = 3
  MaxInFlight = 2
  Undefined = Undefined
SPECIFICATION Spec
\* The page idles between events once the bounds are used up.
CHECK_DEADLOCK FALSE
INVARIANTS TypeOK AudioOnlyWhileServerTransmits GraphFollowsMode
  CaptureNeverThrows SingleTeardownWhileRunning
PROPERTIES ContextReleasedAfterDisconnect
