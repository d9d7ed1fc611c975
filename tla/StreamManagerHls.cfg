CONSTANTS
  c1 = c1
  c2 = c2
  r1 = r1
  r2 = r2
  h1 = h1
  h2 = h2
  Cameras <- OneCamera
  Responses <- NoResponses
  Cells <- OneCell
  MaxStreams = 1
  IdleTimeout = 1
  Lossy = FALSE
  MaxRequests = 3
  MaxInFlight = 1
SPECIFICATION Spec
PROPERTY UnwatchedHlsGoes
