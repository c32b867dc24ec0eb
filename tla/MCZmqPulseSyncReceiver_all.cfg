SPECIFICATION FairSpec
CONSTANTS
    NModules = 3
    Pulses <- FourPulses
    HWM = 2
    PULSE_OFFSET_LIMIT = 2
    SYNC_RETRY_LIMIT = 2
INVARIANTS ResultsCommonAndIncreasing NoCommonPulseSkipped RetriesJustified LostCounted
PROPERTIES CommonPulseReturned
CHECK_DEADLOCK FALSE
