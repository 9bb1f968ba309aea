SPECIFICATION Spec

CONSTANTS
    m1 = m1
    m2 = m2
    Monitors = {m1, m2}
    Interval <- TwoIntervals
    MaxTime = 2
    DBMayFail = FALSE
    Workers = {w1}
    NoJob = NoJob
    BufferPerWorker = 1
    Genuine = {"up"}
    NoTick = NoTick
    NoCheck = NoCheck

INVARIANTS
    DrainRecordsResults
