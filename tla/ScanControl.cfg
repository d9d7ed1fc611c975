SPECIFICATION Spec
CHECK_DEADLOCK FALSE
CONSTANTS
    Videos <- MCVideos
    Streams <- MCStreams
    Path <- MCPath
    MaxId = 2
    MaxStarts = 2
    MaxAdmin = 1
INVARIANT EveryFeederIsManaged
INVARIANT StatusTellsExit
INVARIANT OwnRow
PROPERTY StopAllStopsAll
PROPERTY Controls
