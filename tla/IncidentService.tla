-------------------------- MODULE IncidentService --------------------------
(***************************************************************************)
(* service.IncidentService (src/internal/service/incident_service.go) with *)
(* the incidents table under it: every check of a monitor opens or         *)
(* resolves its incident and sends a notification.                         *)
(*                                                                         *)
(* Record is a sequence of database calls with nothing around them, so     *)
(* each call is a step and other recorders, and users deleting monitors,   *)
(* come in between.  main.go runs one recorder (the scheduler's consumer); *)
(* two model two processes on one database, as during a rolling restart,   *)
(* which is what the repository's comments prepare for.                    *)
(*                                                                         *)
(* Checks arrive with the time they were stamped at; "up" stands for       *)
(* "slow" as well, which Record treats alike.                              *)
(***************************************************************************)
EXTENDS Naturals, Sequences, FiniteSets

CONSTANTS
    Monitors,         \* the monitors that exist at first
    Recorders,        \* the goroutines that call Record
    MaxChecks,        \* bound on the number of checks recorded
    Skew,             \* by how many checks a stamp may be older than the last
    MayFail,          \* whether a database call may fail and a process crash
    NoCheck           \* the check of a recorder that has none

Status == {"up", "down"}
Check  == [monitor : Monitors, status : Status, at : Nat]

ASSUME IncidentAssumption ==
    /\ MaxChecks \in Nat \ {0} /\ Skew \in Nat
    /\ MayFail \in BOOLEAN
    /\ NoCheck \notin Check

VARIABLES
    monitors,         \* database: the monitors table
    incidents,        \* database: the rows of the incidents table
    nextID,           \* database: the table's BIGSERIAL
    step,             \* the call each recorder is about to make
    check,            \* the check it records
    incident,         \* the ID in its Incident value; 0 if there is none
    notices,          \* the notifications sent, in order
    clock,            \* the number of checks handed to Record so far
    last              \* history: what the last check of each monitor said, or
                      \* "unknown" if recording it was cut short

tables == <<monitors, incidents, nextID>>
local  == <<step, check, incident>>
vars   == <<tables, local, notices, clock, last>>

Row == [id : Nat \ {0}, monitor : Monitors, status : {"open", "resolved"},
        startedAt : Nat, resolvedAt : Nat]      \* resolvedAt = 0 is NULL

Open(m) == {i \in incidents : i.monitor = m /\ i.status = "open"}

-----------------------------------------------------------------------------
Init ==
    /\ monitors = Monitors
    /\ incidents = {} /\ nextID = 1
    /\ step = [r \in Recorders |-> "idle"]
    /\ check = [r \in Recorders |-> NoCheck]
    /\ incident = [r \in Recorders |-> 0]
    /\ notices = <<>>
    /\ clock = 0
    /\ last = [m \in Monitors |-> "none"]

-----------------------------------------------------------------------------
(* Steps within Record.                                                    *)

Goto(r, s) == step' = [step EXCEPT ![r] = s]

Return(r) ==
    /\ Goto(r, "idle")
    /\ check' = [check EXCEPT ![r] = NoCheck]
    /\ incident' = [incident EXCEPT ![r] = 0]

At(r, s)   == step[r] = s
IsDown(r)  == check[r].status = "down"
Monitor(r) == check[r].monitor

\* Recording a check of m was cut short: its effect is unknown.
Forget(m) == last' = [last EXCEPT ![m] = "unknown"]

-----------------------------------------------------------------------------
\* The next check is handed to Record.  A monitor that was deleted while its
\* job was queued still gets its check recorded.
Record(r) ==
    /\ At(r, "idle") /\ clock < MaxChecks
    /\ clock' = clock + 1
    /\ \E m \in Monitors, s \in Status, t \in 1..(clock + 1) :
          /\ t + Skew >= clock + 1
          /\ check' = [check EXCEPT ![r] = [monitor |-> m, status |-> s, at |-> t]]
          /\ last' = [last EXCEPT ![m] = s]
    /\ Goto(r, "query")
    /\ UNCHANGED <<tables, incident, notices>>

\* GetOpenByMonitor in handleDown: an incident is open, nothing to do ...
DownWhileOpen(r) ==
    /\ At(r, "query") /\ IsDown(r)
    /\ Open(Monitor(r)) # {}
    /\ Return(r)
    /\ UNCHANGED <<tables, notices, clock, last>>

\* A fault that AnnouncedOnce and NoticeHasIncident exclude: handleDown that does
\* not look.
DownBlindly(r) ==
    /\ At(r, "query") /\ IsDown(r)
    /\ Goto(r, "create")
    /\ UNCHANGED <<tables, check, incident, notices, clock, last>>

\* ... or ErrNotFound: one has to be opened.
DownWhileClosed(r) ==
    /\ At(r, "query") /\ IsDown(r)
    /\ Open(Monitor(r)) = {}
    /\ Goto(r, "create")
    /\ UNCHANGED <<tables, check, incident, notices, clock, last>>

\* GetOpenByMonitor in handleUpOrSlow: nothing to resolve ...
UpWhileClosed(r) ==
    /\ At(r, "query") /\ ~IsDown(r)
    /\ Open(Monitor(r)) = {}
    /\ Return(r)
    /\ UNCHANGED <<tables, notices, clock, last>>

\* ... or the incident to resolve.
UpWhileOpen(r) ==
    /\ At(r, "query") /\ ~IsDown(r)
    /\ \E i \in Open(Monitor(r)) : incident' = [incident EXCEPT ![r] = i.id]
    /\ Goto(r, "resolve")
    /\ UNCHANGED <<tables, check, notices, clock, last>>

\* The INSERT of Create.
NewRow(r) ==
    [id |-> nextID, monitor |-> Monitor(r), status |-> "open",
     startedAt |-> check[r].at, resolvedAt |-> 0]

InsertRow(r) ==
    /\ incidents' = incidents \cup {NewRow(r)}
    /\ nextID' = nextID + 1
    /\ UNCHANGED monitors

\* A fault that OneOpenPerMonitor excludes: a table without the partial index.
CreateUnchecked(r) ==
    /\ At(r, "create") /\ Monitor(r) \in monitors
    /\ InsertRow(r)
    /\ incident' = [incident EXCEPT ![r] = nextID]
    /\ Goto(r, "loadOpened")
    /\ UNCHANGED <<check, notices, clock, last>>

\* Create inserts the row: the monitor exists and none of its incidents is open.
Create(r) ==
    /\ At(r, "create")
    /\ Monitor(r) \in monitors /\ Open(Monitor(r)) = {}
    /\ InsertRow(r)
    /\ incident' = [incident EXCEPT ![r] = nextID]
    /\ Goto(r, "loadOpened")
    /\ UNCHANGED <<check, notices, clock, last>>

\* The partial index rejects the row (23505): Create returns nil, its Incident
\* has no ID, and Record goes on as if it had opened one.
CreateConflicts(r) ==
    /\ At(r, "create")
    /\ Monitor(r) \in monitors /\ Open(Monitor(r)) # {}
    /\ nextID' = nextID + 1
    /\ Goto(r, "loadOpened")
    /\ UNCHANGED <<monitors, incidents, check, incident, notices, clock, last>>

\* The foreign key rejects the row.
CreateOrphan(r) ==
    /\ At(r, "create")
    /\ Monitor(r) \notin monitors
    /\ nextID' = nextID + 1
    /\ Return(r)
    /\ UNCHANGED <<monitors, incidents, notices, clock, last>>

\* A fault that SelfHealing excludes: no row is updated.
ResolveNothing(r) ==
    /\ At(r, "resolve")
    /\ Goto(r, "loadResolved")
    /\ UNCHANGED <<tables, check, incident, notices, clock, last>>

\* A fault that WindowsDisjoint excludes: resolved_at stays NULL.
ResolvedNull(i, t) == [i EXCEPT !.status = "resolved"]

\* Resolve: UPDATE ... WHERE id = $2 AND status = 'open'; no row is no error.
Resolved(i, t) == [i EXCEPT !.status = "resolved", !.resolvedAt = t]

\* A fault that ImplementsLog excludes: the UPDATE of a resolved row, too.
ResolveRowAny(r) ==
    LET hit == {i \in incidents : i.id = incident[r]}
    IN  incidents' = (incidents \ hit) \cup {Resolved(i, check[r].at) : i \in hit}

ResolveRow(r) ==
    LET hit == {i \in incidents : i.id = incident[r] /\ i.status = "open"}
    IN  incidents' = (incidents \ hit) \cup {Resolved(i, check[r].at) : i \in hit}

Resolve(r) ==
    /\ At(r, "resolve")
    /\ ResolveRow(r)
    /\ Goto(r, "loadResolved")
    /\ UNCHANGED <<monitors, nextID, check, incident, notices, clock, last>>

NoticeOf(r, kind) == [kind |-> kind, monitor |-> Monitor(r), incident |-> incident[r]]

\* MonitorRepo.GetByID finds the monitor ...
GetByID(r) ==
    /\ \/ At(r, "loadOpened")   /\ Goto(r, "notifyOpened")
       \/ At(r, "loadResolved") /\ Goto(r, "notifyResolved")
    /\ Monitor(r) \in monitors
    /\ UNCHANGED <<tables, check, incident, notices, clock, last>>

\* ... or does not: ErrNotFound, or the database is away.
GetByIDFails(r) ==
    /\ At(r, "loadOpened") \/ At(r, "loadResolved")
    /\ Monitor(r) \notin monitors \/ MayFail
    /\ Return(r)
    /\ UNCHANGED <<tables, notices, clock, last>>

\* notifier.Notify sends, whatever has become of the monitor since it was loaded.
Notify(r) ==
    /\ \/ At(r, "notifyOpened")   /\ notices' = Append(notices, NoticeOf(r, "opened"))
       \/ At(r, "notifyResolved") /\ notices' = Append(notices, NoticeOf(r, "resolved"))
    /\ Return(r)
    /\ UNCHANGED <<tables, clock, last>>

-----------------------------------------------------------------------------
(* Failures.                                                               *)

\* GetOpenByMonitor, Create or Resolve returns an error without effect ...
CallFails(r) ==
    /\ MayFail
    /\ step[r] \in {"query", "create", "resolve"}
    /\ Forget(Monitor(r))
    /\ Return(r)
    /\ UNCHANGED <<tables, notices, clock>>

\* ... or after the statement took effect, its answer lost on the way.
CreateUnanswered(r) ==
    /\ MayFail /\ At(r, "create")
    /\ Monitor(r) \in monitors /\ Open(Monitor(r)) = {}
    /\ InsertRow(r)
    /\ Forget(Monitor(r))
    /\ Return(r)
    /\ UNCHANGED <<notices, clock>>

ResolveUnanswered(r) ==
    /\ MayFail /\ At(r, "resolve")
    /\ ResolveRow(r)
    /\ Forget(Monitor(r))
    /\ Return(r)
    /\ UNCHANGED <<monitors, nextID, notices, clock>>

\* The process dies within Record and starts anew.
Crash(r) ==
    /\ MayFail /\ ~At(r, "idle")
    /\ Forget(Monitor(r))
    /\ Return(r)
    /\ UNCHANGED <<tables, notices, clock>>

\* A user deletes a monitor; ON DELETE CASCADE takes its incidents along.
DeleteMonitor(m) ==
    /\ m \in monitors
    /\ monitors' = monitors \ {m}
    /\ incidents' = {i \in incidents : i.monitor # m}
    /\ UNCHANGED <<nextID, local, notices, clock, last>>

-----------------------------------------------------------------------------
handleDown(r) ==
    \/ DownWhileOpen(r) \/ DownWhileClosed(r)
    \/ Create(r) \/ CreateConflicts(r) \/ CreateOrphan(r)

handleUpOrSlow(r) == UpWhileClosed(r) \/ UpWhileOpen(r) \/ Resolve(r)

Recorder(r) ==
    \/ Record(r) \/ handleDown(r) \/ handleUpOrSlow(r)
    \/ GetByID(r) \/ GetByIDFails(r) \/ Notify(r)
    \/ CallFails(r) \/ CreateUnanswered(r) \/ ResolveUnanswered(r) \/ Crash(r)

Next ==
    \/ \E r \in Recorders : Recorder(r)
    \/ \E m \in Monitors : DeleteMonitor(m)

Spec == Init /\ [][Next]_vars

-----------------------------------------------------------------------------
(* Properties.                                                             *)

Notice == [kind : {"opened", "resolved"}, monitor : Monitors, incident : Nat]

\* Every variable has its type; a recorder has a check exactly while it is busy.
TypeOK ==
    /\ monitors \subseteq Monitors
    /\ incidents \subseteq Row /\ nextID \in Nat \ {0}
    /\ step \in [Recorders -> {"idle", "query", "create", "resolve", "loadOpened",
                               "loadResolved", "notifyOpened", "notifyResolved"}]
    /\ check \in [Recorders -> Check \cup {NoCheck}]
    /\ \A r \in Recorders : step[r] = "idle" <=> check[r] = NoCheck
    /\ incident \in [Recorders -> Nat]
    /\ notices \in Seq(Notice)
    /\ clock \in 0..MaxChecks
    /\ last \in [Monitors -> {"none", "unknown"} \cup Status]

\* Migration 000004: a monitor has at most one open incident, whoever records,
\* whatever fails and whenever users delete monitors.
OneOpenPerMonitor ==
    \A i, k \in incidents :
        i.monitor = k.monitor /\ i.status = "open" /\ k.status = "open" => i = k

\* With one recorder: what the last check of a monitor said is what the table
\* says, once that check's database calls are over.  A failed call or a crash may
\* leave the two apart, but only until the next check of the monitor.
SelfHealing ==
    \A m \in monitors :
        (\A r \in Recorders : step[r] \in {"query", "create", "resolve"}
                                => Monitor(r) # m)
        => /\ last[m] = "down" => Open(m) # {}
           /\ last[m] = "up"   => Open(m) = {}

\* With one recorder: what users are told of a monitor is a story in order.  Each
\* incident is announced once when it opens and once when it is resolved, before
\* the next one, although the middle of the story may be missing after a failure.
AnnouncedOnce ==
    \A i, k \in DOMAIN notices :
        LET n == notices[i]
            o == notices[k]
        IN  i < k /\ n.monitor = o.monitor =>
                \/ n.incident < o.incident
                \/ /\ n.incident = o.incident
                   /\ n.kind = "opened" /\ o.kind = "resolved"

\* With one recorder: the outages of a monitor run forward in time and do not
\* overlap, up to the Skew between the stamps of two checks that were carried out
\* at once on two workers and recorded in the other order.
WindowsDisjoint ==
    \A i, k \in incidents :
        /\ i.status = "resolved" => i.startedAt <= i.resolvedAt + Skew
        /\ i.monitor = k.monitor /\ i.id < k.id =>
              i.status = "resolved" /\ i.resolvedAt <= k.startedAt + Skew

\* What a recorder is about to say.
Pending(r) ==
    CASE At(r, "notifyOpened")   -> {NoticeOf(r, "opened")}
      [] At(r, "notifyResolved") -> {NoticeOf(r, "resolved")}
      [] OTHER                   -> {}

Due == [r \in Recorders |-> Pending(r)]

\* With any number of recorders: an incident of a monitor begins only while none
\* is open, ends once, with the check that ended it, and is never touched again;
\* numbers are not used twice; and a notification names an incident of its own
\* monitor that was there, and over if it says so, when the monitor was last looked
\* at (incident_service.go:82, 107), or (an opening) none.  What happens between that
\* look and the sending, a deletion of the monitor for one, no recorder sees.
Log == INSTANCE IncidentLog WITH Times <- 1..MaxChecks, due <- Due

ImplementsLog == Log!Spec

\* incident_service.go:75-77: a notification that an incident was opened is sent
\* after the incident is recorded; it names a row that was inserted.
NoticeHasIncident ==
    \A i \in DOMAIN notices : notices[i].incident \in 1..(nextID - 1)
=============================================================================
