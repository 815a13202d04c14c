SPECIFICATION Spec
CONSTANTS
    RingCapacity = 2
    ReadChunk = 3
    MaxRequest = 3
    MaxBytes = 5
    Fds = {3, 4}
    NoFd = 0
    Addresses = 2
    MaxHops = 1
    MaxTaps = 2
    MaxManual = 1
    MaxSleeps = 1
    MaxRadioFaults = 1
    Attempts = 1
    BridgeCapacity = 2
    BridgeChunk = 2
    MaxPacket = 3
    Reserve = 0
    PeriodicReserve = 1
    MaxFed = 3
    MaxCalls = 3
    MaxBridgeFaults = 1
    Jobs = {1, 2, 3, 4}
    Prio <- MCPrio
    MaxAcquires = 4
    MaxChanges = 2
    Chips = {1, 2}
    CurrentCap = 1
    Defaults = {0, 2}
    MaxChargeToggles = 1
    MaxChargeFaults = 1
    MaxChargeCuts = 1
INVARIANTS
    RequestSound
    BridgeSound
PROPERTIES
    ImplementsByteQueue StreamReturns
    CancelEnds
    WorkerObeys LastTapWins
    BridgeReturns
    CoverFirst
    ChargeSettles
CHECK_DEADLOCK FALSE
