------------------------------ MODULE Dashboard ------------------------------
(***************************************************************************)
(* service.DashboardService.Summary (src/internal/service/                 *)
(* dashboard_service.go) on CheckRepository, while MonitorService changes  *)
(* the monitors and the recorder adds checks: the list of a user's         *)
(* monitors, then three statements for each, and nothing that holds them   *)
(* together.                                                               *)
(*                                                                         *)
(* Uptime is counted in parts of Whole and cut to them, response times in  *)
(* milliseconds.  Two checks of a monitor never start at the same time     *)
(* (they are whole ticks apart).                                           *)
(***************************************************************************)
EXTENDS MonitorService, FiniteSetsExt

CONSTANTS
    Millis,           \* response times
    Whole,            \* the parts of an uptime of 100%
    MaxTime,          \* bound on checked_at
    Bounds            \* the bounds of a behaviour: [requests, checks, summary], how
                      \* many of each, and whether there are summaries

ASSUME DashboardAssumption == Millis \subseteq Nat /\ MaxTime \in Nat
                               /\ Whole \in Nat \ {0}
                               /\ \A b \in Bounds : b.requests \in Nat /\ b.checks \in Nat

Time == 1..MaxTime
Status == {"up", "slow", "down"}

VARIABLES
    sum,              \* Summary: next statement, locals and result
    calm,             \* history: no row has changed since Summary began
    excused,          \* history: a monitor it has counted had no check in the window
    outage            \* history: some check was down

dashVars == <<sum, calm, excused, outage>>
vars == <<tables, req, left, dashVars>>

NoSummary == [at |-> "idle", user |-> None, since |-> 0, list |-> {}, id |-> None, total |-> 0,
              pending |-> 0, healthy |-> 0, unhealthy |-> 0, has |-> FALSE,
              uptime |-> 0, uptimeSum |-> 0, responseSum |-> 0, statsCount |-> 0]

Init ==
    /\ \E user \in Users :
           monitors = [id \in Id |->
               IF id = 1 THEN [user |-> user, type |-> "http", interval |-> 60,
                               timeout |-> 10, expected |-> 204, active |-> TRUE]
               ELSE None]
    /\ checks = {} /\ nextId = 2
    /\ req = [r \in Requests |-> Idle] /\ left \in Bounds
    /\ sum = NoSummary /\ calm = TRUE /\ excused = FALSE /\ outage = FALSE

-----------------------------------------------------------------------------
(* CheckRepository.                                                        *)

\* Create, for PersistingRecorder; the foreign key refuses a check of no monitor.
InsertCheck ==
    /\ left.checks > 0 /\ left' = [left EXCEPT !.checks = @ - 1]
    /\ \E id \in Id, at \in Time, status \in Status, ms \in Millis :
           /\ monitors[id] # None
           /\ \A c \in checks : <<c.monitor, c.at>> # <<id, at>>
           /\ checks' = checks \cup {[monitor |-> id, at |-> at,
                                      status |-> status, ms |-> ms]}
           /\ outage' = (outage \/ status = "down")
    /\ calm' = FALSE
    /\ UNCHANGED <<monitors, nextId, req, sum, excused>>

\* The rows that a query sees.
Since(id, since) == {c \in checks : c.monitor = id /\ c.at >= since}

\* The status of the latest check, {} or one of them.
ListByMonitor(id, since) ==
    {c.status : c \in {c \in Since(id, since) :
                          \A other \in Since(id, since) : other.at <= c.at}}

\* A fault that OutageIsReal excludes: only "up" counts.
UptimeStrict(id, since) ==
    LET rows == Since(id, since)
    IN  IF rows = {} THEN 0
        ELSE (Whole * Cardinality({c \in rows : c.status = "up"})) \div Cardinality(rows)

UptimeSince(id, since) ==
    LET rows == Since(id, since)
    IN  IF rows = {} THEN 0
        ELSE (Whole * Cardinality({c \in rows : c.status # "down"})) \div Cardinality(rows)

\* The mean is cut to whole milliseconds.
AvgResponseTimeSince(id, since) ==
    LET rows == {c \in Since(id, since) : c.status # "down"}
    IN  IF rows = {} THEN 0
        ELSE SumFunctionOnSet([c \in rows |-> c.ms], rows) \div Cardinality(rows)

-----------------------------------------------------------------------------
(* Summary.                                                                *)

\* Where a window may begin: any positive one is let through, and one of more than
\* 2^63 ns wraps to one that begins in the future.
parseWindow == 1..MaxTime + 1

\* Where the loop goes when the monitors of list are still to come.
Turn(list) == IF list = {} THEN "done" ELSE "latest"

\* ListByUser.
Summary ==
    /\ sum.at = "idle" /\ left.summary
    /\ \E user \in Users, since \in parseWindow :
           LET mine == {id \in Id : monitors[id] # None /\ monitors[id].user = user}
           IN  sum' = [NoSummary EXCEPT !.at = Turn(mine), !.user = user, !.since = since,
                                        !.list = mine, !.total = Cardinality(mine)]
    /\ calm' = TRUE /\ excused' = FALSE
    /\ UNCHANGED <<tables, req, left, outage>>

\* The next monitor, the newest first, and its latest check.
Latest ==
    /\ sum.at = "latest"
    /\ \E id \in sum.list :
          LET latest == ListByMonitor(id, 0)
          IN  /\ \A other \in sum.list : other <= id
              /\ sum' = [sum EXCEPT
                     !.at = "uptime", !.list = @ \ {id}, !.id = id, !.has = latest # {},
                     !.pending = IF latest = {} THEN @ + 1 ELSE @,
                     !.unhealthy = IF latest = {"down"} THEN @ + 1 ELSE @,
                     !.healthy = IF latest \notin {{}, {"down"}} THEN @ + 1 ELSE @]
    /\ UNCHANGED <<tables, req, left, calm, excused, outage>>

Uptime ==
    /\ sum.at = "uptime"
    /\ sum' = [sum EXCEPT !.at = "average",
                          !.uptime = UptimeSince(sum.id, sum.since)]
    /\ excused' = (excused \/ (sum.has /\ Since(sum.id, sum.since) = {}))
    /\ UNCHANGED <<tables, req, left, calm, outage>>

\* A fault that SummaryIsSnapshot excludes: pending monitors count as down ones.
AverageOfAll ==
    /\ sum.at = "average"
    /\ sum' = [sum EXCEPT
           !.at = Turn(sum.list),
           !.uptimeSum = @ + sum.uptime, !.statsCount = @ + 1,
           !.responseSum = @ + AvgResponseTimeSince(sum.id, sum.since)]
    /\ UNCHANGED <<tables, req, left, calm, excused, outage>>

\* Every monitor that has ever been checked counts.
Average ==
    /\ sum.at = "average"
    /\ LET counts == IF sum.has THEN 1 ELSE 0
       IN  sum' = [sum EXCEPT
               !.at = Turn(sum.list),
               !.uptimeSum = @ + counts * sum.uptime,
               !.responseSum = @ + counts * AvgResponseTimeSince(sum.id, sum.since),
               !.statsCount = @ + counts]
    /\ UNCHANGED <<tables, req, left, calm, excused, outage>>

\* A statement fails, or the answer has been written.
EndSummary ==
    /\ sum.at # "idle"
    /\ sum' = NoSummary /\ calm' = TRUE /\ excused' = FALSE
    /\ UNCHANGED <<tables, req, left, outage>>

\* roundTo2, which cuts: hundredths of a per cent.
roundTo2(parts, count) == (10000 * parts) \div (Whole * count)

Answer ==
    [total |-> sum.total, healthy |-> sum.healthy, unhealthy |-> sum.unhealthy,
     pending |-> sum.pending,
     uptime |-> IF sum.statsCount = 0 THEN 0 ELSE roundTo2(sum.uptimeSum, sum.statsCount),
     response |-> IF sum.statsCount = 0 THEN 0 ELSE sum.responseSum \div sum.statsCount]

Next ==
    \/ \E r \in Requests : /\ Handle(r)
                           /\ calm' = (calm /\ UNCHANGED tables)
                           /\ UNCHANGED <<sum, excused, outage>>
    \/ InsertCheck
    \/ Summary \/ Latest \/ Uptime \/ Average \/ EndSummary

Spec == Init /\ [][Next]_vars

-----------------------------------------------------------------------------
(* Properties.                                                             *)

TypeOK ==
    /\ \A id \in Id : monitors[id] # None =>
           monitors[id] \in Row /\ Constraint(monitors[id]) /\ id < nextId
    /\ \A c \in checks : c.monitor \in Id /\ monitors[c.monitor] # None
    /\ \A r \in Requests : req[r].at \in {"idle", "begin", "write", "reply"}
    /\ sum.total <= MaxMonitors /\ sum.statsCount <= sum.total
    /\ sum.uptimeSum \in 0..Whole * sum.statsCount
    /\ calm \in BOOLEAN /\ excused \in BOOLEAN /\ outage \in BOOLEAN

\* What there is to say of the user's monitors, of each and of all.
Mine == {id \in Id : monitors[id] # None /\ monitors[id].user = sum.user}
Checked == {id \in Mine : Since(id, 0) # {}}
Windowed == {id \in Mine : Since(id, sum.since) # {}}
Last(id) == CHOOSE c \in Since(id, 0) : \A other \in Since(id, 0) : other.at <= c.at
Fine(id) == {c \in Since(id, sum.since) : c.status \in {"up", "slow"}}
Ratio(a, b) == IF b = 0 THEN 0 ELSE a \div b
UptimeOf == [id \in Id |-> Ratio(Whole * Cardinality(Fine(id)),
                                 Cardinality(Since(id, sum.since)))]
ResponseOf == [id \in Id |-> Ratio(SumFunctionOnSet([c \in Fine(id) |-> c.ms], Fine(id)),
                                   Cardinality(Fine(id)))]

\* When nothing changes under it, Summary counts the user's monitors as
\* dashboard_service.go:14-18 says, and its averages are those of the "monitors with at
\* least one check in the window" (dashboard_service.go:88-91), unless it has met a
\* monitor that was checked before the window only: the code asks whether there has ever
\* been a check, and then takes 0% and 0 ms for its uptime and its response time.
SummaryIsSnapshot ==
    sum.at = "done" /\ calm =>
        /\ Answer.total = Cardinality(Mine)
        /\ Answer.pending = Cardinality(Mine \ Checked)
        /\ Answer.unhealthy = Cardinality({id \in Checked : Last(id).status = "down"})
        /\ Answer.healthy = Cardinality({id \in Checked : Last(id).status # "down"})
        /\ ~excused =>
              /\ Answer.uptime = Ratio(10000 * SumFunctionOnSet(UptimeOf, Windowed),
                                       Whole * Cardinality(Windowed))
              /\ Answer.response = Ratio(SumFunctionOnSet(ResponseOf, Windowed),
                                         Cardinality(Windowed))

\* "A brand-new monitor with zero checks shouldn't drag the average uptime toward 0%,
\* since it hasn't actually failed" (dashboard_service.go:88-91): an average below 100%
\* over any monitor at all comes from a check that was down, or else from a monitor
\* that had been checked and of which no check is left in the window: an old one, or
\* one that was deleted between the statements.
OutageIsReal ==
    sum.at = "done" /\ sum.statsCount > 0 /\ Answer.uptime < 10000 => outage \/ excused
=============================================================================
