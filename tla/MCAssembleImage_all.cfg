SPECIFICATION LoopSpec
CONSTANTS
    NModules = 3
    NSlots = 1
    NPackets = 2
    FrameMetas <- Frames
    PulseId <- PulseOne
    LeftOver <- Stale
INVARIANTS ComputesImage
CHECK_DEADLOCK FALSE
