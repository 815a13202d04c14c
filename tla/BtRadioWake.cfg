SPECIFICATION RadioFairSpec
CONSTANTS
    MaxTaps = 0
    MaxManual = 0
    MaxSleeps = 1
    MaxRadioFaults = 0
    Attempts = 1
PROPERTY WakeRestoresRadio
CHECK_DEADLOCK FALSE
