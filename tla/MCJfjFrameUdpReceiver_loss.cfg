SPECIFICATION JfjSpec
CONSTANTS
    FirstFrame = 1
    LastFrame = 2
    NPackets = 6
    PulseOf <- PulseOf12
    Faults <- LossOnly
    RcvBuf = 3
    BatchSize = 2
    MaxPulseStep = 3
    PulseModulus = 16
    NSlots = 2
    NStored = 2
INVARIANTS FramesPure PublishedInRing DropsOnlyBeginning
CHECK_DEADLOCK FALSE
