\* Bounds: one monitor due at every tick of two, one worker, two connections.
SPECIFICATION ProcSpec
CONSTANTS
    m1 = m1
    m2 = m2
    Monitors = {m1}
    Interval <- TwoIntervals
    MaxTime = 2
    DBMayFail = FALSE
    Workers = {w1}
    NoJob = NoJob
    BufferPerWorker = 1
    Genuine = {"up"}
    NoTick = NoTick
    NoCheck = NoCheck
    Conns = {c1, c2}
INVARIANTS EngineKeepsItsDatabase RequestsKeepTheirDatabase
PROPERTY ProcessExits
\* The process ends.
CHECK_DEADLOCK FALSE
