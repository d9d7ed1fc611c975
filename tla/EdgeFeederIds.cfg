CONSTANTS
  v1 = v1
  v2 = v2
  a1 = a1
  a2 = a2
  a3 = a3
  Vehicles <- TwoVehicles
  Addresses <- TwoAddresses
  HasTracker = FALSE
  Scores <- SharpScores
  Threshold = 2
  StaleAfter = 1
  MaxCrops = 2
  SampleInterval = 1
  QueueMax = 1
  MaxFrame = 4
  MaxBoxes = 1
SPECIFICATION Spec
CHECK_DEADLOCK FALSE
INVARIANT OneVehiclePerTrack
