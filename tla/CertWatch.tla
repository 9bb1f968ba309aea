------------------------------ MODULE CertWatch ------------------------------
(***************************************************************************)
(* service.CertWatchService (src/internal/service/cert_watch_service.go)   *)
(* for the one monitor whose certificate is about to run out: Record marks *)
(* the monitor as warned under the mutex, then loads it and notifies.  As  *)
(* its comment allows, several goroutines may be in Record at once.  The   *)
(* marks are in memory: they go with the process.                          *)
(***************************************************************************)
EXTENDS Integers, FiniteSets

CONSTANTS
    Recorders,        \* goroutines that call Record
    Threshold,        \* warnThreshold, in ticks of this module's clock
    Cooldown,         \* warnCooldown, in ticks
    Lifetime,         \* ticks until the certificate expires, at the start
    Never             \* no mark in lastWarned

ASSUME CertAssumption ==
    /\ IsFiniteSet(Recorders)
    /\ Threshold \in Nat /\ Lifetime \in Nat
    /\ Cooldown \in Nat \ {0} /\ Never \notin Nat

VARIABLES
    remaining,        \* time.Until(TLSExpiresAt); -1 once it has expired
    age,              \* time.Since(lastWarned), up to Cooldown, or Never
    rec,              \* the statement each goroutine is at
    elapsed,          \* history: ticks since the process started
    sent,             \* history: warnings sent by this process
    looked,           \* history: a check came with the certificate in the window
    warned,           \* history: a warning has been sent, by any process
    lost              \* history: a mark was not followed by its warning

certVars == <<remaining, age, rec, elapsed, sent, looked, warned, lost>>

CertInit ==
    /\ remaining = Lifetime /\ age = Never
    /\ rec = [r \in Recorders |-> "idle"]
    /\ elapsed = 0 /\ sent = 0
    /\ looked = FALSE /\ warned = FALSE /\ lost = FALSE

InWindow == remaining \in 0..Threshold

shouldWarn == age = Never \/ age >= Cooldown

\* A fault that WarnedBeforeExpiry excludes: marking before the window is looked at.
RecordMarksFirst(r, tls) ==
    /\ rec[r] = "idle"
    /\ looked' = (looked \/ (tls /\ InWindow))
    /\ IF tls /\ shouldWarn
       THEN /\ age' = 0
            /\ rec' = IF InWindow THEN [rec EXCEPT ![r] = "load"] ELSE rec
       ELSE UNCHANGED <<age, rec>>
    /\ UNCHANGED <<remaining, elapsed, sent, warned, lost>>

\* A fault that WarningsAreSpaced excludes: a look without the mark.
RecordUnmarked(r, tls) ==
    /\ rec[r] = "idle"
    /\ looked' = (looked \/ (tls /\ InWindow))
    /\ rec' = IF tls /\ InWindow /\ shouldWarn THEN [rec EXCEPT ![r] = "load"] ELSE rec
    /\ UNCHANGED <<remaining, age, elapsed, sent, warned, lost>>

\* Record: without a certificate, outside the window or within the cooldown there is
\* nothing to do; else shouldWarn marks the monitor.
Record(r, tls) ==
    /\ rec[r] = "idle"
    /\ looked' = (looked \/ (tls /\ InWindow))
    /\ IF tls /\ InWindow /\ shouldWarn
       THEN age' = 0 /\ rec' = [rec EXCEPT ![r] = "load"]
       ELSE UNCHANGED <<age, rec>>
    /\ UNCHANGED <<remaining, elapsed, sent, warned, lost>>

\* GetByID.
Load(r) ==
    /\ rec[r] = "load"
    /\ \/ rec' = [rec EXCEPT ![r] = "notify"] /\ UNCHANGED lost
       \/ rec' = [rec EXCEPT ![r] = "idle"] /\ lost' = TRUE
    /\ UNCHANGED <<remaining, age, elapsed, sent, looked, warned>>

\* MultiNotifier hands the warning to every channel.
Notify(r) ==
    /\ rec[r] = "notify"
    /\ rec' = [rec EXCEPT ![r] = "idle"]
    /\ sent' = sent + 1 /\ warned' = TRUE
    /\ UNCHANGED <<remaining, age, elapsed, looked, lost>>

Tick ==
    /\ remaining >= 0
    /\ remaining' = remaining - 1 /\ elapsed' = elapsed + 1
    /\ age' = IF age # Never /\ age < Cooldown THEN age + 1 ELSE age
    /\ UNCHANGED <<rec, sent, looked, warned, lost>>

\* The process ends, whatever Record is at, and another one starts.
Restart ==
    /\ age' = Never /\ rec' = [r \in Recorders |-> "idle"]
    /\ elapsed' = 0 /\ sent' = 0
    /\ lost' = (lost \/ \E r \in Recorders : rec[r] # "idle")
    /\ UNCHANGED <<remaining, looked, warned>>

-----------------------------------------------------------------------------
\* "Once, then not again for a day" (cert_watch_service.go:17-28): however the checks
\* of several goroutines fall, a process has sent no more warnings than there are
\* cooldowns in its life, and one.
WarningsAreSpaced == sent <= 1 + elapsed \div Cooldown

\* "This service's job is specifically the advance warning" (cert_watch_service.go:58-63):
\* a certificate that has expired, and of which some check had told within the window,
\* was warned about; except that a mark whose warning was lost (the monitor could not
\* be loaded, or the process ended) silences the service for the rest of the cooldown.
WarnedBeforeExpiry ==
    remaining < 0 /\ looked =>
        warned \/ lost \/ \E r \in Recorders : rec[r] # "idle"
=============================================================================
