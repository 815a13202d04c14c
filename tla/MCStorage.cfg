SPECIFICATION Spec
CONSTANTS
    Builds = {"old", "new", "plain", "bad"}
    NoBuild = "none"
    Valid = {"old", "new", "plain"}
    Stamp <- MCStamp
    MaxUpdates = 2
    MaxFlashes = 1
    MaxFaults = 1
    MaxCrashes = 1
    Short = 2
    Extended = 5
    Hard = 8
    Grace = 2
    MaxSaves = 3
    MaxIoFaults = 1
    MaxPowerCuts = 1
    MaxOffs = 1
    MaxQueues = 3
    MaxWriteFaults = 2
    MaxCardMoves = 2
    MaxGenerations = 5
    MaxCommits = 4
    MaxCardFaults = 2
    MaxTcCrashes = 2
    MaxDamage = 1
    Cards = {1, 2}
    ConfirmStreak = 2
    MaxMoves = 5
    MaxReadFaults = 1
    RepairCards = {1, 2}
    AttemptSlots = 2
    MaxSwaps = 2
    MaxFormats = 1
    MaxTrouble = 1
INVARIANTS
    InstalledIsSound UpdateNotLost NoStaleOverride
    WaitIsSound
    ReplacedOneKept
PROPERTIES
    EveryBootRuns
    SettingsKept
    CheckpointKept
    ImplementsCell
    NoOtherCardsLibrary CardIsServed
    RepairEnds
CHECK_DEADLOCK FALSE
