SPECIFICATION Spec

CONSTANTS
    m1 = m1
    m2 = m2
    Monitors = {m1, m2}
    Interval <- TwoIntervals
    MaxTime = 3
    DBMayFail = TRUE
    Workers = {w1}
    NoJob = NoJob
    BufferPerWorker = 1
    Genuine = {"up"}
    NoTick = NoTick
    NoCheck = NoCheck

INVARIANTS
    NoArtefactPersisted
    StopIsQuiescent
    TypeOK
    SpacingByTick
    NextRunBacked

PROPERTIES
    ImplementsHistory
