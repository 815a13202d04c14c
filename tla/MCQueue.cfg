CONSTANTS
    a = a
    b = b
    c = c
    Tracks <- ABC
    OnCard <- ABC
    NoTrack = NoTrack
    Modes <- AllModes
    Openable <- TwoOpen
    Additions <- OneMore
    Bytes <- MCBytes
    MaxBytes = 4
    MaxLen = 3
    MaxCommands = 5
    Mp3Files = {1, 2}
    Indexed = {1}
    Targets = {0, 1}
    RetryMax = 2
    MaxPlays = 3
    MaxMp3Calls = 3
SPECIFICATION MCSpec
INVARIANTS
    BagsFit ShownIsPlaying ArmedIsNext SavedQueueIsAccepted
    IndexSound SeekKept
PROPERTIES
    FailedNotRetried
    SeekSettles
CHECK_DEADLOCK FALSE
