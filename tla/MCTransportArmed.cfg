SPECIFICATION Spec
CONSTANTS
    Tracks = {"a", "b"}
    NoTrack = "none"
    Broken = {}
    Len <- MCLen
    Format <- MCFormat
    Window = 2
    Starts = {0}
    MaxGen = 1
    MaxNext = 2
    MaxSeeks = 0
    MaxPauses = 0
    MaxStops = 0
    MaxFaults = 0
PROPERTY AdvancesToArmedTrack
CHECK_DEADLOCK FALSE
