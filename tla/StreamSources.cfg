CONSTANTS
  c1 = c1
  r1 = r1
  h1 = h1
  Cameras <- OneCamera
  Responses <- OneResponse
  Cells <- OneCell
  MaxStreams = 1
  IdleTimeout = 1
  Lossy = TRUE
  MaxRequests = 2
  MaxInFlight = 1
  Kinds = {"rtsp"}
  Faults = {"start", "remove"}
  MaxWait = 1
SPECIFICATION SourcesSpec
CHECK_DEADLOCK FALSE
INVARIANT NothingLeftRunning
INVARIANT WaitersKeepSource
PROPERTY LeaverIsReleased
PROPERTY Implements
