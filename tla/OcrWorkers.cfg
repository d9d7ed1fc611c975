CONSTANTS
  w1 = w1
  w2 = w2
  c1 = c1
  p1 = p1
  p2 = p2
  Absent = Absent
  Workers <- TwoWorkers
  Cameras <- OneCamera
  Plates <- TwoPlates
  Wanted <- StolenPlate
  Cooldown = 1
  MaxPayloads = 3
  MaxClock = 2
  MaxStops = 1
SPECIFICATION Spec
SYMMETRY WorkerSymmetry
CHECK_DEADLOCK FALSE
INVARIANT EachPayloadInOnePlace
INVARIANT DuplicateNeedsRace
INVARIANT SuppressionExplained
INVARIANT AlertsHaveDetections
PROPERTY QueuedIsHandled
