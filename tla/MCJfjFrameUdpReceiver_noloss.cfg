SPECIFICATION JfjSpec
CONSTANTS
    FirstFrame = 1
    LastFrame = 3
    NPackets = 3
    PulseOf <- PulseOf123
    Faults <- NoFaults
    RcvBuf = 4
    BatchSize = 2
    MaxPulseStep = 3
    PulseModulus = 16
    NSlots = 2
    NStored = 2
INVARIANTS AllPacketsInFrame
CHECK_DEADLOCK FALSE
