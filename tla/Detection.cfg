SPECIFICATION HalfSpec
CHECK_DEADLOCK FALSE
CONSTANTS
    Scenes <- MCScenes
    Modes = {"yolo", "tiled", "hierarchical"}
    Confidences = {15, 40, 80}
    TileSize = 1280
    Overlap = 20
    IouThreshold = 50
    BatchSize = 16
    PlateConf = 25
    MotorcycleConf = 12
    Padding = 20
    MotorcyclePadding = 30
    Scales = 3
    Plates <- MCAll
    OcrConfidences = {50, 80}
    MaxCrops = 3
INVARIANT BestSightingSurvives
INVARIANT SeamPlatesSeenWhole
INVARIANT OnePerVehicle
INVARIANT OrdinaryPlatesAreKept
INVARIANT MajorityWins
INVARIANT StoredIsStable
