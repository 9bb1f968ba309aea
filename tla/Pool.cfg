SPECIFICATION FairSpec

CONSTANTS
    Workers = {w1, w2}
    Job = {j1, j2, j3, j4}
    NoJob = NoJob
    BufferPerWorker = 1
    Genuine = {"up"}

INVARIANTS
    SinglePlace
    ClosedIsQuiet
    CapacityPreserved
    ShutdownIsLossless

PROPERTIES
    ImplementsLedger
    ShutdownReturns

\* A pool that was shut down and emptied has stopped for good.
CHECK_DEADLOCK FALSE
