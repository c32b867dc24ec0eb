SPECIFICATION FairSpec
CONSTANTS
    NModules = 2
    NPackets = 2
    PULSE_OFFSET_LIMIT = 3
    SYNC_RETRY_LIMIT = 3
    Pulses <- ThreePulses
    ModuleFrames <- TwoModules
    HWM = 3
    NSlots = 2
INVARIANTS TypeOK PixelsOfThePulse GoodMeansComplete DeadOnlyIfLapped
PROPERTIES SyncSpec PulseSent
CHECK_DEADLOCK FALSE
