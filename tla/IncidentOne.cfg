SPECIFICATION Spec

CONSTANTS
    Monitors = {m1, m2}
    Recorders = {r1}
    MaxChecks = 5
    Skew = 1
    MayFail = TRUE
    NoCheck = NoCheck

SYMMETRY Interchangeable

INVARIANTS
    SelfHealing
    AnnouncedOnce
    WindowsDisjoint
    NoticeHasIncident

\* The run ends after MaxChecks checks.
CHECK_DEADLOCK FALSE
