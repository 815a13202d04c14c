SPECIFICATION MCSpec
CONSTANTS
    Tracks = {"a", "b", "d"}
    NoTrack = "none"
    Broken = {"d"}
    Len <- MCLen
    Format <- MCFormat
    Window = 1
    Starts = {0}
    Count = 3
    Playlist <- MCPlaylist
    Gapless = TRUE
    SkipCap = 5
    MaxTaps = 2
    MaxGen = 4
    MaxNext = 4
    MaxSeeks = 0
    MaxPauses = 1
    MaxStops = 1
    MaxFaults = 2
INVARIANTS
    FailureBlamesItsTrack ShowsWhatPlays
PROPERTIES
    UiNotStuck PlaybackResolves
CHECK_DEADLOCK FALSE
