SPECIFICATION FairSpec
CONSTANTS
    Pulses <- FourPulses
    FILE_MOD = 2
    NSlots = 2
    HWM = 2
    WriteErrors <- AnyErrors
    MaxDeaths = 1
INVARIANTS FramesInPlace FramesWhole LatestIsDone ReadsAreFinal
PROPERTIES AnnouncedIsWritten
CHECK_DEADLOCK FALSE
