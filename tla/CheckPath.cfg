\* Bounds: a certificate with six ticks to go, warned about in the last four, every two;
\* two goroutines; the code's two retries.
SPECIFICATION PathSpec
CONSTANTS
    MaxRetries = 2
    Recorders = {consumer, other}
    Consumer = consumer
    Threshold = 4
    Cooldown = 2
    Lifetime = 5
    Never = Never
INVARIANTS VerdictFollowsLastTry AbortedByCancel
    WarningsAreSpaced WarnedBeforeExpiry
PROPERTY Returns
