SPECIFICATION Spec

CONSTANTS
    Monitors = {m1}
    Recorders = {r1, r2}
    MaxChecks = 3
    Skew = 0
    MayFail = FALSE
    NoCheck = NoCheck

SYMMETRY Interchangeable

INVARIANTS
    NoticeHasIncident

\* The run ends after MaxChecks checks.
CHECK_DEADLOCK FALSE
