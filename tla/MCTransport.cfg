SPECIFICATION MCSpec
CONSTANTS
    Tracks = {"a", "c", "d"}
    NoTrack = "none"
    Broken = {"d"}
    Len <- MCLen
    Format <- MCFormat
    Window = 2
    Starts = {0, 3}
    MaxGen = 2
    MaxNext = 2
    MaxSeeks = 1
    MaxPauses = 1
    MaxStops = 1
    MaxFaults = 1
INVARIANTS
    TypeOK ErrorMeansSilent IdleIsQuiet
CHECK_DEADLOCK FALSE
