SPECIFICATION FairSpec
CONSTANTS
    m1 = m1
    m2 = m2
    Module <- TwoModules
    NSlots = 2
    NFrames = 2
    StartBlock = 1
    StopBlock = 3
    ReadErrors <- AnyErrors
INVARIANTS TypeOK WrittenBlocksWhole StatusCountsMissing SlotOwnership
PROPERTIES JobEnds ImplementsBlockFile
