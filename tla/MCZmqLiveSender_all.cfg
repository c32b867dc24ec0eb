SPECIFICATION FairSpec
CONSTANTS
    n_modules = 2
    NSlots = 2
    LastPulse = 3
    RcvHWM = 2
    PROCESSING_ZMQ_SNDHWM = 1
    reduction_factor_streamvis = 2
    reduction_factor_live_analysis = 2
INVARIANTS MessagesWhole PixelsOfTheImage
PROPERTIES StreamvisServed
CHECK_DEADLOCK FALSE
