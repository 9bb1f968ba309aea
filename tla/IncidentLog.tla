---------------------------- MODULE IncidentLog ----------------------------
(***************************************************************************)
(* What the incidents table and the notifications promise a reader of the  *)
(* dashboard, without recorders or database calls: an incident begins only *)
(* when the monitor has none, it ends once and never changes afterwards,   *)
(* and what users are told was true when the monitor was last looked at,   *)
(* and is said once.  It may have been deleted by the time they are told.  *)
(*                                                                         *)
(* The promises hold of any number of recorders.  The notice of an opening *)
(* that names no incident (0) is the exception the code makes: see the     *)
(* refuted property NoticeHasIncident.                                     *)
(***************************************************************************)
EXTENDS Naturals, Sequences

CONSTANTS
    Monitors,         \* the monitors that exist at first
    Recorders,        \* those who tell users
    Times             \* the times a check may be stamped with

VARIABLES
    monitors,         \* the monitors that have not been deleted
    incidents,        \* their incidents, open and resolved
    nextID,           \* the next incident's number
    due,              \* what each recorder is about to tell: a notice, or none
    notices           \* what users were told, in order

vars == <<monitors, incidents, nextID, due, notices>>

Of(m)   == {i \in incidents : i.monitor = m}
Open(m) == {i \in Of(m) : i.status = "open"}

Init ==
    /\ monitors = Monitors
    /\ incidents = {} /\ nextID = 1
    /\ due = [r \in Recorders |-> {}]
    /\ notices = <<>>

\* An incident of m begins at t.
Begin(m, t) ==
    /\ m \in monitors /\ Open(m) = {}
    /\ incidents' = incidents \cup
          {[id |-> nextID, monitor |-> m, status |-> "open",
            startedAt |-> t, resolvedAt |-> 0]}
    /\ nextID' = nextID + 1
    /\ UNCHANGED <<monitors, due, notices>>

\* A number goes unused.
Skip ==
    /\ nextID' = nextID + 1
    /\ UNCHANGED <<monitors, incidents, due, notices>>

\* Incident i ends at t.
End(i, t) ==
    /\ i \in incidents /\ i.status = "open"
    /\ incidents' = (incidents \ {i}) \cup
          {[i EXCEPT !.status = "resolved", !.resolvedAt = t]}
    /\ UNCHANGED <<monitors, nextID, due, notices>>

\* What may be said of m: that an incident of its was opened, which may be over
\* by now; that one is over; or that some incident was opened.
Opened(m)   == {i.id : i \in Of(m)}
Resolved(m) == {i.id : i \in Of(m) \ Open(m)}

Look(r, m, n) ==
    /\ m \in monitors
    /\ n.monitor = m
    /\ \/ n.kind = "opened"   /\ n.incident \in Opened(m) \cup {0}
       \/ n.kind = "resolved" /\ n.incident \in Resolved(m)
    /\ due' = [due EXCEPT ![r] = {n}]
    /\ UNCHANGED <<monitors, incidents, nextID, notices>>

\* It is said, once for each look, or never.
Tell(r) ==
    /\ \E n \in due[r] : notices' = Append(notices, n)
    /\ due' = [due EXCEPT ![r] = {}]
    /\ UNCHANGED <<monitors, incidents, nextID>>

Drop(r) ==
    /\ due' = [due EXCEPT ![r] = {}]
    /\ UNCHANGED <<monitors, incidents, nextID, notices>>

\* What may be told at all.
Notice ==
    [kind : {"opened", "resolved"}, monitor : Monitors, incident : 0..nextID]

\* A monitor goes, and its incidents with it.
Remove(m) ==
    /\ m \in monitors
    /\ monitors' = monitors \ {m}
    /\ incidents' = incidents \ Of(m)
    /\ UNCHANGED <<nextID, due, notices>>

Next ==
    \/ Skip
    \/ \E m \in Monitors :
          \/ Remove(m)
          \/ \E t \in Times : Begin(m, t)
          \/ \E r \in Recorders, n \in Notice : Look(r, m, n)
    \/ \E r \in Recorders : Tell(r) \/ Drop(r)
    \/ \E i \in incidents, t \in Times : End(i, t)

Spec == Init /\ [][Next]_vars
=============================================================================
