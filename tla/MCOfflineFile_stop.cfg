SPECIFICATION Spec
CONSTANTS
    BUFFER_BLOCK_SIZE = 2
    FullRate = 2
    WRITER_IA_N_SLOTS = 2
    NModules = 2
    NPackets = 2
    Blocks <- ThreeBlocks
    ImageContents <- Mixed
    Requests <- AllRequests
INVARIANT StopAlignedDown
