SPECIFICATION ReadySpec
CONSTANTS
    Short = 2
    Extended = 5
    Hard = 8
    Grace = 2
INVARIANT HardDeadlineKept
CHECK_DEADLOCK FALSE
