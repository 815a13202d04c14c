SPECIFICATION Spec
CONSTANTS
    Tracks = {"a", "b"}
    NoTrack = "none"
    Broken = {}
    Len <- MCLen
    Format <- MCFormat
    Window = 2
    Starts = {0}
    MaxGen = 2
    MaxNext = 0
    MaxSeeks = 0
    MaxPauses = 0
    MaxStops = 2
    MaxFaults = 0
INVARIANT StopNotForgotten
CHECK_DEADLOCK FALSE
