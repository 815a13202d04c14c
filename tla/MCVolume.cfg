SPECIFICATION MCSpec
CONSTANTS
    MaxLevel = 1
    Raw <- MCRaw
    MuteRaw = 7
    Taper <- MCTaper
    Curves <- MCCurves
    NoCurve = NoCurve
    Sliders = {"popup", "drawer"}
    Popup = "popup"
    MaxIntents = 2
    MaxRoutes = 1
    MaxFaults = 1
INVARIANTS
    LatestCommandNotLost HardwareFollowsVolume
PROPERTIES
    LastWishPrevails
CHECK_DEADLOCK FALSE
