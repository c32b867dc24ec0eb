SPECIFICATION FairSpec
CONSTANTS
    FirstFrame = 1
    LastFrame = 3
    NPackets = 2
    PulseOf <- PulseOf123
    Faults <- AnyFaults
    RcvBuf = 3
    BatchSize = 3
    MaxPulseStep = 3
    PulseModulus = 16
INVARIANTS FramesMatchStream BadIffGap
PROPERTIES CompleteFrameReturned
CHECK_DEADLOCK FALSE
