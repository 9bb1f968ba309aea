SPECIFICATION Spec

CONSTANTS
    Monitors = {m1, m2}
    Recorders = {r1, r2}
    MaxChecks = 4
    Skew = 1
    MayFail = TRUE
    NoCheck = NoCheck

SYMMETRY Interchangeable

INVARIANTS
    OneOpenPerMonitor

PROPERTIES
    ImplementsLog

\* The run ends after MaxChecks checks.
CHECK_DEADLOCK FALSE
