SPECIFICATION RepairSpec
CONSTANTS
    RepairCards = {1}
    AttemptSlots = 4
    MaxSwaps = 0
    MaxFormats = 1
    MaxTrouble = 0
INVARIANT NeverTwoMounters
CHECK_DEADLOCK FALSE
