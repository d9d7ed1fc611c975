CONSTANTS
  v1 = v1
  v2 = v2
  a1 = a1
  a2 = a2
  a3 = a3
  Vehicles <- OneVehicle
  Addresses <- TwoAddresses
  HasTracker = TRUE
  Scores <- AllScores
  Threshold = 2
  StaleAfter = 1
  MaxCrops = 1
  SampleInterval = 2
  QueueMax = 1
  MaxFrame = 6
  MaxBoxes = 2
SPECIFICATION Spec
CHECK_DEADLOCK FALSE
INVARIANT BlurryTracksAreRead
