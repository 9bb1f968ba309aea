---------------------------- MODULE CheckHistory ----------------------------
(***************************************************************************)
(* What the engine promises a reader of the checks table, without channels *)
(* or goroutines: a monitor is scheduled no more often than its interval   *)
(* asks for, each slot is stored at most once, with a verdict about the    *)
(* target, and nothing is stored once the context is done.                 *)
(***************************************************************************)
EXTENDS Naturals

CONSTANTS
    Monitors,
    Interval,       \* how long the slots of a monitor are apart
    Times,          \* the ticks of the clock
    Genuine         \* the verdicts that are about the target

VARIABLES
    slots,          \* the slots scheduled so far
    rows,           \* the checks stored so far
    cancelled,      \* the context is done
    stopped         \* the engine has returned

vars == <<slots, rows, cancelled, stopped>>

Init == slots = {} /\ rows = {} /\ cancelled = FALSE /\ stopped = FALSE

Schedule(m, t) ==
    /\ ~stopped
    /\ \A s \in slots : s.monitor = m => s.tick + Interval[m] <= t
    /\ slots' = slots \cup {[monitor |-> m, tick |-> t]}
    /\ UNCHANGED <<rows, cancelled, stopped>>

Store(s, verdict) ==
    /\ ~cancelled
    /\ s \in slots /\ \A c \in rows : c.job # s
    /\ rows' = rows \cup {[job |-> s, status |-> verdict]}
    /\ UNCHANGED <<slots, cancelled, stopped>>

Cancel ==
    /\ ~cancelled
    /\ cancelled' = TRUE
    /\ UNCHANGED <<slots, rows, stopped>>

Stop ==
    /\ cancelled /\ ~stopped
    /\ stopped' = TRUE
    /\ UNCHANGED <<slots, rows, cancelled>>

Next ==
    \/ \E m \in Monitors, t \in Times : Schedule(m, t)
    \/ \E s \in slots, v \in Genuine : Store(s, v)
    \/ Cancel \/ Stop

Spec == Init /\ [][Next]_vars
=============================================================================
