SPECIFICATION Spec
CONSTANTS
    MaxLevel = 1
    Raw <- MCRaw
    MuteRaw = 7
    Taper <- MCTaper
    Curves <- MCNoCurves
    NoCurve = NoCurve
    Sliders = {"popup", "drawer"}
    Popup = "popup"
    MaxIntents = 2
    MaxRoutes = 1
    MaxFaults = 0
INVARIANTS LastWishSurvivesReopen
CHECK_DEADLOCK FALSE
