SPECIFICATION FairSpec
CONSTANTS
    n_writers = 2
    NRuns = 3
    RunLengths <- OneTwoThree
    MaxQueue = 1
    DivisionTraps <- Either
INVARIANTS TypeOK ClosedAfterImages CollectivesMatch
PROPERTIES RunsClosed
CHECK_DEADLOCK FALSE
