\* Bounds: two monitors; three requests, two of them at a time, or one request with three
\* checks at two times and summaries, the window beginning anywhere.
SPECIFICATION Spec
CONSTANTS
    Caller <- MCCaller
    Input <- MCInput
    Requests = {r1, r2}
    MaxMonitors = 2
    MaxInt4 = 100000
    Bounds <- MCBounds
    Millis = {4}
    Whole = 6
    MaxTime = 2
    None = None
SYMMETRY Symmetry
INVARIANTS RowsStayValid CleanRejections
    SummaryIsSnapshot OutageIsReal
PROPERTY DeletedStaysDeleted OnlyOwnersChange
\* The users stop when they have sent their requests.
CHECK_DEADLOCK FALSE
