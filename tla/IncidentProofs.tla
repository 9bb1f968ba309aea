--------------------------- MODULE IncidentProofs ---------------------------
(***************************************************************************)
(* What holds of the incidents table however many recorders there are, and *)
(* whatever fails: its types, and that a monitor has one open incident.    *)
(* Then what holds with the one recorder that main.go runs: the table, the *)
(* notifications and the times of the incidents follow the checks.         *)
(***************************************************************************)
EXTENDS IncidentService, TLAPS

\* A recorder that is within Record has a check.
LEMMA BusyCheck ==
    ASSUME TypeOK, NEW r \in Recorders, step[r] # "idle"
    PROVE  check[r] \in Check /\ Monitor(r) \in Monitors /\ check[r].at \in Nat
BY DEF TypeOK, Check, Monitor

\* What TypeOK says of the variables local to a recorder.
LocalOK ==
    /\ step \in [Recorders -> {"idle", "query", "create", "resolve", "loadOpened",
                               "loadResolved", "notifyOpened", "notifyResolved"}]
    /\ check \in [Recorders -> Check \cup {NoCheck}]
    /\ \A r \in Recorders : step[r] = "idle" <=> check[r] = NoCheck
    /\ incident \in [Recorders -> Nat]

\* What it says of the shared ones.
SharedOK ==
    /\ monitors \subseteq Monitors
    /\ incidents \subseteq Row /\ nextID \in Nat \ {0}
    /\ notices \in Seq(Notice)
    /\ clock \in 0..MaxChecks
    /\ last \in [Monitors -> {"none", "unknown"} \cup Status]

LEMMA TypeParts == TypeOK <=> LocalOK /\ SharedOK
BY DEF TypeOK, LocalOK, SharedOK

LEMMA ReturnLocal ==
    ASSUME TypeOK, NEW r \in Recorders, Return(r)
    PROVE  LocalOK'
<1>1. NoCheck \notin Check
  BY IncidentAssumption
<1>2. QED
  BY <1>1 DEF TypeOK, LocalOK, Return, Goto

LEMMA GotoLocal ==
    ASSUME TypeOK, NEW r \in Recorders, step[r] # "idle", UNCHANGED check,
           NEW s \in {"create", "resolve", "loadOpened", "loadResolved",
                     "notifyOpened", "notifyResolved"},
           Goto(r, s), incident' \in [Recorders -> Nat]
    PROVE  LocalOK'
BY DEF TypeOK, LocalOK, Goto

LEMMA InsertShared ==
    ASSUME TypeOK, NEW r \in Recorders, step[r] # "idle", InsertRow(r)
    PROVE  (monitors \subseteq Monitors /\ incidents \subseteq Row /\ nextID \in Nat \ {0})'
<1>1. NewRow(r) \in Row
  BY BusyCheck DEF TypeOK, NewRow, Row
<1>2. QED
  BY <1>1 DEF TypeOK, InsertRow

LEMMA ResolvedRow ==
    ASSUME NEW i \in Row, NEW t \in Nat
    PROVE  /\ Resolved(i, t) \in Row
           /\ Resolved(i, t).id = i.id
           /\ Resolved(i, t).monitor = i.monitor
           /\ Resolved(i, t).status = "resolved"
BY DEF Resolved, Row

LEMMA ResolveShared ==
    ASSUME TypeOK, NEW r \in Recorders, step[r] # "idle", ResolveRow(r)
    PROVE  (incidents \subseteq Row)'
<1>1. check[r].at \in Nat
  BY BusyCheck
<1>2. \A i \in incidents : Resolved(i, check[r].at) \in Row
  BY <1>1, ResolvedRow DEF TypeOK
<1>3. QED
  BY <1>2 DEF TypeOK, ResolveRow

LEMMA ForgetShared ==
    ASSUME TypeOK, NEW m \in Monitors, Forget(m)
    PROVE  (last \in [Monitors -> {"none", "unknown"} \cup Status])'
BY DEF TypeOK, Forget

THEOREM TypeInit == Init => TypeOK
BY IncidentAssumption DEF Init, TypeOK

THEOREM TypeStep == TypeOK /\ [Next]_vars => TypeOK'
<1> SUFFICES ASSUME TypeOK, [Next]_vars PROVE TypeOK'
  OBVIOUS
<1>1. ASSUME NEW r \in Recorders, Record(r) PROVE TypeOK'
  <2>1. PICK m \in Monitors, s \in Status, t \in 1..(clock + 1) :
          /\ check' = [check EXCEPT ![r] = [monitor |-> m, status |-> s, at |-> t]]
          /\ last' = [last EXCEPT ![m] = s]
    BY <1>1 DEF Record
  <2>2. [monitor |-> m, status |-> s, at |-> t] \in Check
    BY DEF Check, TypeOK
  <2>3. LocalOK'
    BY <1>1, <2>1, <2>2, IncidentAssumption DEF Record, Goto, TypeOK, LocalOK
  <2>4. SharedOK'
    BY <1>1, <2>1, IncidentAssumption DEF Record, tables, TypeOK, SharedOK, Status
  <2>5. QED
    BY <2>3, <2>4 DEF TypeOK, LocalOK, SharedOK
<1>2. ASSUME NEW r \in Recorders, DownWhileOpen(r) \/ UpWhileClosed(r) \/ GetByIDFails(r)
      PROVE  TypeOK'
  BY <1>2, ReturnLocal
     DEF DownWhileOpen, UpWhileClosed, GetByIDFails, tables, TypeOK, LocalOK
<1>3. ASSUME NEW r \in Recorders, DownWhileClosed(r) PROVE TypeOK'
  BY <1>3, GotoLocal DEF DownWhileClosed, At, tables, TypeOK, LocalOK
<1>4. ASSUME NEW r \in Recorders, UpWhileOpen(r) PROVE TypeOK'
  <2>1. incident' \in [Recorders -> Nat]
    BY <1>4 DEF UpWhileOpen, TypeOK, Open, Row
  <2>2. QED
    BY <1>4, <2>1, GotoLocal DEF UpWhileOpen, At, tables, TypeOK, LocalOK
<1>5. ASSUME NEW r \in Recorders, Create(r) PROVE TypeOK'
  <2>1. incident' \in [Recorders -> Nat]
    BY <1>5 DEF Create, TypeOK
  <2>2. LocalOK'
    BY <1>5, <2>1, GotoLocal DEF Create, At
  <2>3. QED
    BY <1>5, <2>2, InsertShared DEF Create, At, TypeOK, LocalOK
<1>6. ASSUME NEW r \in Recorders, CreateConflicts(r) PROVE TypeOK'
  <2>1. incident' \in [Recorders -> Nat]
    BY <1>6 DEF CreateConflicts, TypeOK
  <2>2. LocalOK'
    BY <1>6, <2>1, GotoLocal DEF CreateConflicts, At
  <2>3. QED
    BY <1>6, <2>2 DEF CreateConflicts, TypeOK, LocalOK
<1>7. ASSUME NEW r \in Recorders, CreateOrphan(r) PROVE TypeOK'
  BY <1>7, ReturnLocal DEF CreateOrphan, TypeOK, LocalOK
<1>8. ASSUME NEW r \in Recorders, Resolve(r) PROVE TypeOK'
  <2>1. incident' \in [Recorders -> Nat]
    BY <1>8 DEF Resolve, TypeOK
  <2>2. LocalOK'
    BY <1>8, <2>1, GotoLocal DEF Resolve, At
  <2>3. QED
    BY <1>8, <2>2, ResolveShared DEF Resolve, At, TypeOK, LocalOK
<1>9. ASSUME NEW r \in Recorders, Notify(r) PROVE TypeOK'
  <2>1. NoticeOf(r, "opened") \in Notice /\ NoticeOf(r, "resolved") \in Notice
    BY <1>9, BusyCheck DEF Notify, At, NoticeOf, Notice, TypeOK
  <2>2. PICK n \in Notice : notices' = Append(notices, n)
    BY <1>9, <2>1 DEF Notify
  <2>3. notices' \in Seq(Notice)
    BY <2>2 DEF TypeOK
  <2>4. QED
    BY <1>9, <2>2, <2>3, ReturnLocal DEF Notify, tables, TypeOK, LocalOK
<1>10. ASSUME NEW r \in Recorders, CallFails(r) \/ Crash(r) PROVE TypeOK'
  BY <1>10, ReturnLocal, BusyCheck, ForgetShared
     DEF CallFails, Crash, At, tables, TypeOK, LocalOK
<1>11. ASSUME NEW r \in Recorders, CreateUnanswered(r) PROVE TypeOK'
  BY <1>11, ReturnLocal, BusyCheck, ForgetShared, InsertShared
     DEF CreateUnanswered, At, TypeOK, LocalOK
<1>12. ASSUME NEW r \in Recorders, ResolveUnanswered(r) PROVE TypeOK'
  BY <1>12, ReturnLocal, BusyCheck, ForgetShared, ResolveShared
     DEF ResolveUnanswered, At, TypeOK, LocalOK
<1>13. ASSUME NEW m \in Monitors, DeleteMonitor(m) PROVE TypeOK'
  BY <1>13 DEF DeleteMonitor, local, TypeOK
<1>14. ASSUME NEW r \in Recorders, GetByID(r) PROVE TypeOK'
  <2>1. incident' \in [Recorders -> Nat]
    BY <1>14 DEF GetByID, TypeOK
  <2>2. LocalOK'
    BY <1>14, <2>1, GotoLocal DEF GetByID, At
  <2>3. QED
    BY <1>14, <2>2 DEF GetByID, tables, TypeOK, LocalOK
<1>15. CASE UNCHANGED vars
  BY <1>15 DEF vars, tables, local, TypeOK
<1>16. QED
  BY <1>1, <1>2, <1>3, <1>4, <1>5, <1>6, <1>7, <1>8, <1>9, <1>10, <1>11, <1>12,
     <1>13, <1>14, <1>15
     DEF Next, Recorder, handleDown, handleUpOrSlow

\* Every variable of the incident service keeps its type, for any number of
\* recorders, monitors and checks.
THEOREM IncidentTypes == Spec => []TypeOK
BY TypeInit, TypeStep, PTL DEF Spec

-----------------------------------------------------------------------------
(* One open incident.  The row inserted needs a number no other row has for *)
(* an incident to be told from the next, so the invariant has that, too.   *)

NumbersUsed ==
    /\ \A i \in incidents : i.id < nextID
    /\ \A i, k \in incidents : i.id = k.id => i = k

TableInv == TypeOK /\ NumbersUsed /\ OneOpenPerMonitor

\* An insertion for a monitor without an open incident is harmless.
LEMMA InsertTable ==
    ASSUME TableInv, NEW r \in Recorders, step[r] # "idle",
           InsertRow(r), Open(Monitor(r)) = {}
    PROVE  NumbersUsed' /\ OneOpenPerMonitor'
<1>1. /\ incidents' = incidents \cup {NewRow(r)} /\ nextID' = nextID + 1
      /\ nextID \in Nat /\ incidents \subseteq Row
  BY DEF InsertRow, TableInv, TypeOK
<1>2. /\ NewRow(r).id = nextID /\ NewRow(r).monitor = Monitor(r)
      /\ NewRow(r).status = "open"
  BY DEF NewRow
<1>3. \A i \in incidents : i.id \in Nat /\ i.id < nextID
  BY <1>1 DEF TableInv, NumbersUsed, Row
<1>4. NumbersUsed'
  BY <1>1, <1>2, <1>3 DEF TableInv, NumbersUsed
<1>5. \A i \in incidents : i.monitor = Monitor(r) => i.status # "open"
  BY DEF Open
<1>6. OneOpenPerMonitor'
  BY <1>1, <1>2, <1>5 DEF TableInv, OneOpenPerMonitor
<1>7. QED
  BY <1>4, <1>6

\* What ResolveRow leaves of each row.
LEMMA ResolveRows ==
    ASSUME TypeOK, NEW r \in Recorders, step[r] # "idle", ResolveRow(r),
           NEW i \in incidents'
    PROVE  \/ i \in incidents /\ ~(i.id = incident[r] /\ i.status = "open")
           \/ /\ i.status = "resolved" /\ i.id = incident[r]
              /\ \E k \in incidents :
                    /\ k.id = i.id /\ k.monitor = i.monitor /\ k.status = "open"
                    /\ i = Resolved(k, check[r].at)
<1>1. check[r].at \in Nat
  BY BusyCheck
<1> DEFINE hit == {k \in incidents : k.id = incident[r] /\ k.status = "open"}
<1>2. incidents' = (incidents \ hit) \cup {Resolved(k, check[r].at) : k \in hit}
  BY DEF ResolveRow
<1>3. CASE i \in incidents \ hit
  BY <1>3
<1>4. CASE i \notin incidents \ hit
  <2>1. PICK k \in hit : i = Resolved(k, check[r].at)
    BY <1>2, <1>4
  <2>2. k \in Row
    BY DEF TypeOK
  <2>3. /\ i.id = k.id /\ i.monitor = k.monitor /\ i.status = "resolved"
    BY <1>1, <2>1, <2>2, ResolvedRow
  <2>4. QED
    BY <2>1, <2>3
<1>5. QED
  BY <1>3, <1>4

LEMMA ResolveTable ==
    ASSUME TableInv, NEW r \in Recorders, step[r] # "idle", ResolveRow(r),
           UNCHANGED nextID
    PROVE  NumbersUsed' /\ OneOpenPerMonitor'
<1>1. TypeOK /\ NumbersUsed /\ OneOpenPerMonitor
  BY DEF TableInv
<1>2. \A i \in incidents' : i.id < nextID'
  BY <1>1, ResolveRows DEF NumbersUsed
<1>3. ASSUME NEW i \in incidents', NEW k \in incidents', i.id = k.id PROVE i = k
  BY <1>1, <1>3, ResolveRows DEF NumbersUsed
<1>4. ASSUME NEW i \in incidents', i.status = "open" PROVE i \in incidents
  BY <1>1, <1>4, ResolveRows
<1>5. OneOpenPerMonitor'
  BY <1>1, <1>4 DEF OneOpenPerMonitor
<1>6. QED
  BY <1>2, <1>3, <1>5 DEF NumbersUsed

LEMMA TableInit == Init => TableInv
BY TypeInit DEF Init, TableInv, NumbersUsed, OneOpenPerMonitor

LEMMA TableStep == TableInv /\ [Next]_vars => TableInv'
<1> SUFFICES ASSUME TableInv, [Next]_vars PROVE NumbersUsed' /\ OneOpenPerMonitor'
  BY TypeStep DEF TableInv
<1>1. CASE UNCHANGED <<incidents, nextID>>
  BY <1>1 DEF TableInv, NumbersUsed, OneOpenPerMonitor
<1>2. ASSUME NEW r \in Recorders, CreateConflicts(r) \/ CreateOrphan(r)
      PROVE  NumbersUsed' /\ OneOpenPerMonitor'
  <2>1. incidents' = incidents /\ nextID' = nextID + 1 /\ nextID \in Nat
    BY <1>2 DEF CreateConflicts, CreateOrphan, TableInv, TypeOK
  <2>2. \A i \in incidents : i.id \in Nat
    BY DEF TableInv, TypeOK, Row
  <2>3. QED
    BY <2>1, <2>2 DEF TableInv, NumbersUsed, OneOpenPerMonitor
<1>3. ASSUME NEW r \in Recorders, Create(r) \/ CreateUnanswered(r)
      PROVE  NumbersUsed' /\ OneOpenPerMonitor'
  BY <1>3, InsertTable DEF Create, CreateUnanswered, At
<1>4. ASSUME NEW r \in Recorders, Resolve(r) \/ ResolveUnanswered(r)
      PROVE  NumbersUsed' /\ OneOpenPerMonitor'
  BY <1>4, ResolveTable DEF Resolve, ResolveUnanswered, At
<1>5. ASSUME NEW m \in Monitors, DeleteMonitor(m)
      PROVE  NumbersUsed' /\ OneOpenPerMonitor'
  BY <1>5 DEF DeleteMonitor, TableInv, NumbersUsed, OneOpenPerMonitor
<1>6. QED
  BY <1>1, <1>2, <1>3, <1>4, <1>5
     DEF Next, Recorder, handleDown, handleUpOrSlow, vars, tables, Record,
         DownWhileOpen, DownWhileClosed, UpWhileClosed, UpWhileOpen, GetByID,
         GetByIDFails, Notify, CallFails, Crash

THEOREM TableAlways == Spec => []TableInv
BY TableInit, TableStep, PTL DEF Spec

\* Migration 000004 with the code around it: a monitor never has two open
\* incidents, for any number of recorders and whatever fails.
THEOREM AtMostOneOpen == Spec => []OneOpenPerMonitor
BY TableAlways, PTL DEF TableInv

-----------------------------------------------------------------------------
(* The story.  The incident service as main.go wires it, with one goroutine *)
(* that calls Record: table, checks and notifications tell the same story,  *)
(* whatever fails in between and whichever monitors are deleted.            *)

OneRecorder == \E r : Recorders = {r}

\* All that was said of m up to now comes before a further notice on incident n:
\* it is on earlier incidents, or it is the announcement of n.
ToldBefore(m, n) ==
    \A i \in DOMAIN notices : notices[i].monitor = m =>
        \/ notices[i].incident < n
        \/ notices[i].incident = n /\ notices[i].kind = "opened"

\* A row that is open can still be announced as resolved.
OpenUntold == \A k \in incidents : k.status = "open" => ToldBefore(k.monitor, k.id)

\* What a recorder knows between two of its calls.
Knows(r) ==
    LET m == Monitor(r)
    IN  /\ step[r] # "idle" => last[m] = check[r].status
        /\ step[r] \in {"create", "loadOpened", "notifyOpened"} => IsDown(r)
        /\ step[r] \in {"resolve", "loadResolved", "notifyResolved"} => ~IsDown(r)
        /\ step[r] \notin {"idle", "query", "create"} =>
              /\ incident[r] \in 1..(nextID - 1)
              /\ \A k \in Open(m) : k.id = incident[r]
              /\ \A k \in incidents : k.id = incident[r] => k.monitor = m
        /\ step[r] = "create" => Open(m) = {}
        /\ step[r] \in {"loadOpened", "notifyOpened"} =>
              /\ m \in monitors => Open(m) # {}
              /\ \A i \in DOMAIN notices : notices[i].incident < incident[r]
        /\ step[r] \in {"resolve", "loadResolved", "notifyResolved"} =>
              ToldBefore(m, incident[r])
        /\ step[r] \in {"loadResolved", "notifyResolved"} => Open(m) = {}

StoryInv ==
    /\ TableInv
    /\ \A r \in Recorders : Knows(r)
    /\ OpenUntold /\ NoticeHasIncident /\ AnnouncedOnce /\ SelfHealing

LEMMA StoryInit == Init => StoryInv
BY TableInit DEF Init, StoryInv, Knows, OpenUntold, NoticeHasIncident, AnnouncedOnce,
                 SelfHealing, ToldBefore

-----------------------------------------------------------------------------
\* Numbers, for the provers.
LEMMA Numbers ==
    ASSUME TableInv
    PROVE  /\ nextID \in Nat \ {0}
           /\ \A k \in incidents : k \in Row /\ k.id \in 1..(nextID - 1)
           /\ \A i \in DOMAIN notices : notices[i] \in Notice
           /\ \A r \in Recorders : incident[r] \in Nat
<1>1. nextID \in Nat \ {0} /\ incidents \subseteq Row
  BY DEF TableInv, TypeOK
<1>2. \A k \in incidents : k \in Row /\ k.id \in 1..(nextID - 1)
  BY <1>1 DEF TableInv, NumbersUsed, Row
<1>3. \A i \in DOMAIN notices : notices[i] \in Notice
  BY DEF TableInv, TypeOK
<1>4. \A r \in Recorders : incident[r] \in Nat
  BY DEF TableInv, TypeOK
<1>5. QED
  BY <1>1, <1>2, <1>3, <1>4

\* If nothing is said and no incident opened, what was said stays in order.
LEMMA NothingSaid ==
    ASSUME StoryInv, UNCHANGED notices, nextID' \in {nextID, nextID + 1},
           \A k \in incidents' : k.status = "open" => k \in incidents
    PROVE  OpenUntold' /\ NoticeHasIncident' /\ AnnouncedOnce'
<1>1. OpenUntold' /\ AnnouncedOnce'
  BY DEF StoryInv, OpenUntold, ToldBefore, AnnouncedOnce
<1>2. NoticeHasIncident'
  BY Numbers DEF StoryInv, NoticeHasIncident
<1>3. QED
  BY <1>1, <1>2

\* The same when one is: its number is new.
LEMMA NothingSaidYet ==
    ASSUME StoryInv, UNCHANGED notices, NEW r \in Recorders, InsertRow(r)
    PROVE  OpenUntold' /\ NoticeHasIncident' /\ AnnouncedOnce'
<1>1. \A i \in DOMAIN notices : notices[i].incident \in Nat /\ notices[i].incident < nextID
  BY Numbers DEF StoryInv, NoticeHasIncident
<1>2. incidents' = incidents \cup {NewRow(r)} /\ NewRow(r).id = nextID
  BY DEF InsertRow, NewRow
<1>3. OpenUntold'
  BY <1>1, <1>2 DEF StoryInv, OpenUntold, ToldBefore
<1>4. NoticeHasIncident'
  BY Numbers DEF StoryInv, NoticeHasIncident, InsertRow
<1>5. QED
  BY <1>3, <1>4 DEF StoryInv, AnnouncedOnce

\* Table and last check of m agree.
Agree(m) == /\ last[m] = "down" => Open(m) # {}
            /\ last[m] = "up"   => Open(m) = {}

MidCall == {"query", "create", "resolve"}

\* The recorder's step concerns its own monitor; if it is over with it, it has to
\* leave table and check in agreement.
LEMMA Healed ==
    ASSUME StoryInv, NEW r, Recorders = {r}, step[r] # "idle",
           NEW n \in Monitors, n = Monitor(r),
           UNCHANGED monitors,
           \A m \in monitors : m # n => UNCHANGED <<Open(m), last[m]>>,
           \/ step'[r] \in MidCall /\ UNCHANGED check[r]
           \/ n \in monitors => Agree(n)'
    PROVE  SelfHealing'
<1> SUFFICES ASSUME NEW m \in monitors,
                    step'[r] \in MidCall => Monitor(r)' # m
             PROVE  Agree(m)'
  BY DEF SelfHealing, MidCall, Agree
<1>1. CASE m = n
  BY <1>1 DEF Monitor
<1>2. CASE m # n
  <2>1. Agree(m)
    BY <1>2 DEF StoryInv, SelfHealing, Agree
  <2>2. QED
    BY <1>2, <2>1 DEF Agree
<1>3. QED
  BY <1>1, <1>2

-----------------------------------------------------------------------------
(* Each step of the recorder keeps the story.                              *)

\* The goal of each step, and what they all have in common.
Story == (\A r \in Recorders : Knows(r)) /\ OpenUntold /\ NoticeHasIncident
         /\ AnnouncedOnce /\ SelfHealing

LEMMA RecordStory ==
    ASSUME StoryInv, TableInv', NEW r, Recorders = {r}, Record(r)
    PROVE  Story'
<1>1. /\ step[r] = "idle" /\ step' = [step EXCEPT ![r] = "query"]
      /\ UNCHANGED <<incidents, nextID, monitors, notices>>
  BY DEF Record, At, Goto, tables
<1>2. OpenUntold' /\ NoticeHasIncident' /\ AnnouncedOnce'
  BY <1>1, NothingSaid
<1>3. PICK m \in Monitors, s \in Status, t \in 1..(clock + 1) :
        /\ check' = [check EXCEPT ![r] = [monitor |-> m, status |-> s, at |-> t]]
        /\ last' = [last EXCEPT ![m] = s]
  BY DEF Record
<1>4. step'[r] = "query" /\ check'[r] = [monitor |-> m, status |-> s, at |-> t]
      /\ last'[m] = s
  BY <1>1, <1>3 DEF StoryInv, TableInv, TypeOK
<1>5. Knows(r)'
  BY <1>4 DEF Knows, Monitor
<1>6. SelfHealing'
  <2> SUFFICES ASSUME NEW n \in monitors, n # m PROVE Agree(n)'
    BY <1>1, <1>4 DEF SelfHealing, Agree, Monitor
  <2>1. Agree(n)
    BY <1>1 DEF StoryInv, SelfHealing, Agree
  <2>2. last'[n] = last[n]
    BY <1>3 DEF StoryInv, TableInv, TypeOK
  <2>3. QED
    BY <1>1, <2>1, <2>2 DEF Agree, Open
<1>7. QED
  BY <1>2, <1>5, <1>6 DEF Story

\* Record returns: nothing is known any more.
LEMMA ReturnKnows ==
    ASSUME TableInv, NEW r \in Recorders, Return(r)
    PROVE  step'[r] = "idle" /\ Knows(r)'
<1>1. step'[r] = "idle"
  BY DEF Return, Goto, TableInv, TypeOK
<1>2. QED
  BY <1>1 DEF Knows

LEMMA NothingToDoStory ==
    ASSUME StoryInv, TableInv', NEW r, Recorders = {r},
           DownWhileOpen(r) \/ UpWhileClosed(r)
    PROVE  Story'
<1>1. /\ step[r] = "query" /\ Return(r)
      /\ UNCHANGED <<incidents, nextID, monitors, notices, last>>
  BY DEF DownWhileOpen, UpWhileClosed, At, tables
<1>2. Knows(r)'
  BY <1>1, ReturnKnows DEF StoryInv
<1>3. OpenUntold' /\ NoticeHasIncident' /\ AnnouncedOnce'
  BY <1>1, NothingSaid
<1>4. PICK n \in Monitors : n = Monitor(r)
  BY <1>1, BusyCheck DEF StoryInv, TableInv
<1>5. Agree(n)'
  <2>1. last[n] = check[r].status /\ check[r].status \in Status
    BY <1>1, <1>4, BusyCheck DEF StoryInv, TableInv, Knows, Check
  <2>2. QED
    BY <1>1, <1>4, <2>1 DEF Agree, Open, DownWhileOpen, UpWhileClosed, IsDown
<1>6. SelfHealing'
  BY <1>1, <1>4, <1>5, Healed DEF Open
<1>7. QED
  BY <1>2, <1>3, <1>6 DEF Story

LEMMA FoundStory ==
    ASSUME StoryInv, TableInv', NEW r, Recorders = {r},
           DownWhileClosed(r) \/ UpWhileOpen(r)
    PROVE  Story'
<1>1. /\ step[r] = "query"
      /\ UNCHANGED <<incidents, nextID, monitors, check, notices, last>>
  BY DEF DownWhileClosed, UpWhileOpen, At, tables
<1>2. step'[r] \in {"create", "resolve"}
  BY DEF DownWhileClosed, UpWhileOpen, Goto, StoryInv, TableInv, TypeOK
<1>3. OpenUntold' /\ NoticeHasIncident' /\ AnnouncedOnce'
  BY <1>1, NothingSaid
<1>4. PICK n \in Monitors : n = Monitor(r) /\ n = Monitor(r)'
  BY <1>1, BusyCheck DEF StoryInv, TableInv, Monitor
<1>5. SelfHealing'
  BY <1>1, <1>2, <1>4, Healed DEF Open, MidCall
<1>6. last'[n] = check'[r].status
  BY <1>1, <1>4 DEF StoryInv, Knows
<1>7. CASE DownWhileClosed(r)
  <2>1. step'[r] = "create" /\ IsDown(r)' /\ Open(n)' = {}
    BY <1>1, <1>4, <1>7
       DEF DownWhileClosed, Goto, IsDown, Open, StoryInv, TableInv, TypeOK
  <2>2. Knows(r)'
    BY <1>4, <1>6, <2>1 DEF Knows
  <2>3. QED
    BY <1>3, <1>5, <2>2 DEF Story
<1>8. CASE UpWhileOpen(r)
  <2>1. step'[r] = "resolve" /\ ~IsDown(r)'
    BY <1>1, <1>8 DEF UpWhileOpen, Goto, IsDown, StoryInv, TableInv, TypeOK
  <2>2. PICK i \in Open(n) : incident' = [incident EXCEPT ![r] = i.id]
    BY <1>4, <1>8 DEF UpWhileOpen
  <2>3. incident'[r] = i.id /\ i.id \in 1..(nextID - 1)
    BY <2>2, Numbers DEF StoryInv, TableInv, TypeOK, Open
  <2>4. \A k \in Open(n)' : k.id = incident'[r]
    BY <1>1, <2>3 DEF Open, StoryInv, OneOpenPerMonitor, TableInv
  <2>5. ToldBefore(n, i.id)'
    BY <1>1 DEF StoryInv, OpenUntold, Open, ToldBefore
  <2>6. \A k \in incidents' : k.id = incident'[r] => k.monitor = n
    BY <1>1, <2>3 DEF Open, StoryInv, TableInv, NumbersUsed
  <2>7. Knows(r)'
    BY <1>1, <1>4, <1>6, <2>1, <2>3, <2>4, <2>5, <2>6 DEF Knows, ToldBefore
  <2>8. QED
    BY <1>3, <1>5, <2>7 DEF Story
<1>9. QED
  BY <1>7, <1>8

LEMMA CreateStory ==
    ASSUME StoryInv, TableInv', NEW r, Recorders = {r}, Create(r)
    PROVE  Story'
<1>1. /\ step[r] = "create" /\ InsertRow(r) /\ Open(Monitor(r)) = {}
      /\ UNCHANGED <<monitors, check, notices, last>>
  BY DEF Create, At, InsertRow
<1>2. step'[r] = "loadOpened" /\ incident'[r] = nextID /\ nextID' = nextID + 1
  BY DEF Create, Goto, InsertRow, StoryInv, TableInv, TypeOK
<1>3. OpenUntold' /\ NoticeHasIncident' /\ AnnouncedOnce'
  BY <1>1, NothingSaidYet
<1>4. PICK n \in Monitors : n = Monitor(r) /\ n = Monitor(r)'
  BY <1>1, BusyCheck DEF StoryInv, TableInv, Monitor
<1>5. /\ incidents' = incidents \cup {NewRow(r)}
      /\ NewRow(r).id = nextID /\ NewRow(r).monitor = n /\ NewRow(r).status = "open"
  BY <1>1, <1>4 DEF InsertRow, NewRow
<1>6. \A m : m # n => Open(m)' = Open(m)
  BY <1>5 DEF Open
<1>7. Open(n)' = {NewRow(r)}
  BY <1>1, <1>4, <1>5 DEF Open
<1>8. last'[n] = "down" /\ last'[n] = check'[r].status
  BY <1>1, <1>4 DEF StoryInv, Knows, IsDown
<1>9. SelfHealing'
  BY <1>1, <1>4, <1>6, <1>7, <1>8, Healed DEF Agree
<1>10. \A i \in DOMAIN notices' : notices'[i].incident < incident'[r]
  BY <1>1, <1>2, Numbers DEF StoryInv, NoticeHasIncident
<1>11. incident'[r] \in 1..(nextID' - 1)
  BY <1>2, Numbers DEF StoryInv
<1>12. \A k \in incidents' : k.id = incident'[r] => k.monitor = n
  BY <1>2, <1>5, Numbers DEF StoryInv
<1>13. Knows(r)'
  BY <1>2, <1>4, <1>5, <1>7, <1>8, <1>10, <1>11, <1>12 DEF Knows, IsDown
<1>14. QED
  BY <1>3, <1>9, <1>13 DEF Story

\* The number of an orphan is used up; its monitor is no more.
LEMMA OrphanStory ==
    ASSUME StoryInv, TableInv', NEW r, Recorders = {r}, CreateOrphan(r)
    PROVE  Story'
<1>1. /\ step[r] = "create" /\ Return(r) /\ Monitor(r) \notin monitors
      /\ nextID' = nextID + 1
      /\ UNCHANGED <<incidents, monitors, notices, last>>
  BY DEF CreateOrphan, At
<1>2. Knows(r)'
  BY <1>1, ReturnKnows DEF StoryInv
<1>3. OpenUntold' /\ NoticeHasIncident' /\ AnnouncedOnce'
  BY <1>1, NothingSaid
<1>4. PICK n \in Monitors : n = Monitor(r)
  BY <1>1, BusyCheck DEF StoryInv, TableInv
<1>5. SelfHealing'
  BY <1>1, <1>4, Healed DEF Open
<1>6. QED
  BY <1>2, <1>3, <1>5 DEF Story

\* The UPDATE closes the monitor's incident, if it is still there, and no other.
LEMMA ResolveOpen ==
    ASSUME StoryInv, NEW r \in Recorders, step[r] = "resolve", ResolveRow(r),
           NEW n, n = Monitor(r)
    PROVE  /\ \A k \in incidents' : k.status = "open" => k \in incidents
           /\ \A m : m # n => Open(m)' = Open(m)
           /\ Open(n)' = {}
<1>1. TypeOK /\ NumbersUsed /\ step[r] # "idle"
  BY DEF StoryInv, TableInv
<1>2. \A k \in Open(n) : k.id = incident[r]
  BY DEF StoryInv, Knows
<1>3. ASSUME NEW k \in incidents', k.status = "open"
      PROVE  k \in incidents /\ k.id # incident[r]
  BY <1>1, <1>3, ResolveRows
<1>4. ASSUME NEW k \in incidents, k.status = "open", k.monitor # n
      PROVE  k \in incidents'
  <2>1. k.id # incident[r]
    BY <1>4 DEF StoryInv, Knows
  <2>2. QED
    BY <2>1 DEF ResolveRow
<1>5. QED
  BY <1>2, <1>3, <1>4 DEF Open

LEMMA ResolveStory ==
    ASSUME StoryInv, TableInv', NEW r, Recorders = {r}, Resolve(r)
    PROVE  Story'
<1>1. /\ step[r] = "resolve" /\ ResolveRow(r)
      /\ UNCHANGED <<monitors, nextID, check, incident, notices, last>>
  BY DEF Resolve, At
<1>2. step'[r] = "loadResolved"
  BY DEF Resolve, Goto, StoryInv, TableInv, TypeOK
<1>3. PICK n \in Monitors : n = Monitor(r) /\ n = Monitor(r)'
  BY <1>1, BusyCheck DEF StoryInv, TableInv, Monitor
<1>4. /\ \A k \in incidents' : k.status = "open" => k \in incidents
      /\ \A m : m # n => Open(m)' = Open(m)
      /\ Open(n)' = {}
  BY <1>1, <1>3, ResolveOpen
<1>5. OpenUntold' /\ NoticeHasIncident' /\ AnnouncedOnce'
  BY <1>1, <1>4, NothingSaid
<1>6. last[n] = check[r].status /\ ~IsDown(r) /\ check[r].status \in Status
  BY <1>1, <1>3, BusyCheck DEF StoryInv, TableInv, Knows, Check
<1>7. SelfHealing'
  BY <1>1, <1>3, <1>4, <1>6, Healed DEF Agree, IsDown
<1>8. \A k \in incidents' : k.id = incident'[r] => k.monitor = n
  <2> SUFFICES ASSUME NEW k \in incidents', k.id = incident[r] PROVE k.monitor = n
    BY <1>1
  <2>1. \E i \in incidents : i.id = k.id /\ i.monitor = k.monitor
    BY <1>1, ResolveRows DEF StoryInv, TableInv
  <2>2. \A i \in incidents : i.id = incident[r] => i.monitor = n
    BY <1>1, <1>3 DEF StoryInv, Knows
  <2>3. QED
    BY <2>1, <2>2
<1>9. incident'[r] \in 1..(nextID' - 1) /\ ToldBefore(n, incident[r])
  BY <1>1, <1>3 DEF StoryInv, Knows
<1>10. Knows(r)'
  BY <1>1, <1>2, <1>3, <1>4, <1>6, <1>8, <1>9 DEF Knows, IsDown, ToldBefore
<1>11. QED
  BY <1>5, <1>7, <1>10 DEF Story

\* What is left to do on a recorder's way out is no database call.
LEMMA LeavingAgree ==
    ASSUME StoryInv, NEW r \in Recorders, NEW n, n = Monitor(r),
           step[r] \in {"loadOpened", "loadResolved", "notifyOpened", "notifyResolved"}
    PROVE  n \in monitors => Agree(n)
<1>1. last[n] = check[r].status /\ check[r].status \in Status
  BY BusyCheck DEF StoryInv, TableInv, Knows, Check
<1>2. QED
  BY <1>1 DEF StoryInv, Knows, Agree, IsDown

\* A notice is the next one of its monitor's story.
LEMMA NotifyStory ==
    ASSUME StoryInv, TableInv', NEW r, Recorders = {r}, Notify(r)
    PROVE  Story'
<1>1. /\ step[r] \in {"notifyOpened", "notifyResolved"} /\ Return(r)
      /\ UNCHANGED <<incidents, nextID, monitors, last>>
  BY DEF Notify, At, tables
<1>2. PICK n \in Monitors : n = Monitor(r)
  BY <1>1, BusyCheck DEF StoryInv, TableInv
<1>3. PICK kind \in {"opened", "resolved"} :
        /\ notices' = Append(notices,
                             [kind |-> kind, monitor |-> n, incident |-> incident[r]])
        /\ kind = "opened" <=> step[r] = "notifyOpened"
  BY <1>2 DEF Notify, At, NoticeOf
<1> DEFINE news == [kind |-> kind, monitor |-> n, incident |-> incident[r]]
<1>4. /\ DOMAIN notices' = DOMAIN notices \cup {Len(notices) + 1}
      /\ DOMAIN notices = 1..Len(notices) /\ Len(notices) \in Nat
      /\ \A i \in DOMAIN notices : notices'[i] = notices[i]
      /\ notices'[Len(notices) + 1] = news
  BY <1>3 DEF StoryInv, TableInv, TypeOK
<1>5. incident[r] \in 1..(nextID - 1) /\ (\A k \in Open(n) : k.id = incident[r])
  BY <1>1, <1>2 DEF StoryInv, Knows
<1>6. NoticeHasIncident'
  BY <1>1, <1>4, <1>5 DEF StoryInv, NoticeHasIncident
<1>7. \A i \in DOMAIN notices : notices[i].monitor = n =>
        \/ notices[i].incident < incident[r]
        \/ /\ notices[i].incident = incident[r]
           /\ notices[i].kind = "opened" /\ kind = "resolved"
  BY <1>1, <1>2, <1>3 DEF StoryInv, Knows, ToldBefore
<1>8. AnnouncedOnce'
  <2> SUFFICES ASSUME NEW i \in DOMAIN notices', NEW k \in DOMAIN notices', i < k,
                      notices'[i].monitor = notices'[k].monitor
               PROVE  \/ notices'[i].incident < notices'[k].incident
                      \/ /\ notices'[i].incident = notices'[k].incident
                         /\ notices'[i].kind = "opened" /\ notices'[k].kind = "resolved"
    BY DEF AnnouncedOnce
  <2>1. i \in DOMAIN notices
    BY <1>4
  <2>2. CASE k \in DOMAIN notices
    BY <1>4, <2>1, <2>2 DEF StoryInv, AnnouncedOnce
  <2>3. CASE k = Len(notices) + 1
    BY <1>4, <1>7, <2>1, <2>3
  <2>4. QED
    BY <1>4, <2>2, <2>3
<1>9. OpenUntold'
  <2> SUFFICES ASSUME NEW k \in incidents, k.status = "open",
                      NEW i \in DOMAIN notices', notices'[i].monitor = k.monitor
               PROVE  \/ notices'[i].incident < k.id
                      \/ notices'[i].incident = k.id /\ notices'[i].kind = "opened"
    BY <1>1 DEF OpenUntold, ToldBefore
  <2>1. CASE i \in DOMAIN notices
    BY <1>4, <2>1 DEF StoryInv, OpenUntold, ToldBefore
  <2>2. CASE i = Len(notices) + 1
    <3>1. k \in Open(n)
      BY <1>4, <2>2 DEF Open
    <3>2. step[r] = "notifyOpened"
      BY <1>1, <1>2, <3>1 DEF StoryInv, Knows
    <3>3. QED
      BY <1>3, <1>4, <1>5, <2>2, <3>1, <3>2
  <2>3. QED
    BY <1>4, <2>1, <2>2
<1>10. Knows(r)'
  BY <1>1, ReturnKnows DEF StoryInv
<1>11. n \in monitors => Agree(n)
  BY <1>1, <1>2, LeavingAgree
<1>12. SelfHealing'
  BY <1>1, <1>2, <1>11, Healed DEF Open, Agree
<1>13. QED
  BY <1>6, <1>8, <1>9, <1>10, <1>12 DEF Story

LEMMA LoadedStory ==
    ASSUME StoryInv, TableInv', NEW r, Recorders = {r}, GetByID(r)
    PROVE  Story'
<1>1. /\ step[r] \in {"loadOpened", "loadResolved"}
      /\ UNCHANGED <<incidents, nextID, monitors, check, incident, notices, last>>
  BY DEF GetByID, At, tables
<1>2. step'[r] = IF step[r] = "loadOpened" THEN "notifyOpened" ELSE "notifyResolved"
  BY DEF GetByID, At, Goto, StoryInv, TableInv, TypeOK
<1>3. PICK n \in Monitors : n = Monitor(r)
  BY <1>1, BusyCheck DEF StoryInv, TableInv
<1>4. Monitor(r)' = n /\ IsDown(r)' = IsDown(r) /\ Open(n)' = Open(n)
  BY <1>1, <1>3 DEF Monitor, IsDown, Open
<1>5. Knows(r)'
  BY <1>1, <1>2, <1>3, <1>4 DEF StoryInv, Knows, ToldBefore
<1>6. OpenUntold' /\ NoticeHasIncident' /\ AnnouncedOnce'
  BY <1>1, NothingSaid
<1>7. SelfHealing'
  BY <1>1, <1>3, LeavingAgree, Healed DEF Open, Agree
<1>8. QED
  BY <1>5, <1>6, <1>7 DEF Story

LEMMA GetByIDFailsStory ==
    ASSUME StoryInv, TableInv', NEW r, Recorders = {r}, GetByIDFails(r)
    PROVE  Story'
<1>1. /\ step[r] \in {"loadOpened", "loadResolved"} /\ Return(r)
      /\ UNCHANGED <<incidents, nextID, monitors, notices, last>>
  BY DEF GetByIDFails, At, tables
<1>2. PICK n \in Monitors : n = Monitor(r)
  BY <1>1, BusyCheck DEF StoryInv, TableInv
<1>3. Knows(r)'
  BY <1>1, ReturnKnows DEF StoryInv
<1>4. OpenUntold' /\ NoticeHasIncident' /\ AnnouncedOnce'
  BY <1>1, NothingSaid
<1>5. n \in monitors => Agree(n)
  BY <1>1, <1>2, LeavingAgree
<1>6. SelfHealing'
  BY <1>1, <1>2, <1>5, Healed DEF Open, Agree
<1>7. QED
  BY <1>3, <1>4, <1>6 DEF Story

\* A failure leaves the last check of the monitor unknown, so nothing is owed.
LEMMA FailureStory ==
    ASSUME StoryInv, TableInv', NEW r, Recorders = {r},
           \/ CallFails(r) \/ Crash(r)
           \/ CreateUnanswered(r) \/ ResolveUnanswered(r)
    PROVE  Story'
<1>1. /\ step[r] # "idle" /\ Return(r) /\ Forget(Monitor(r))
      /\ UNCHANGED <<monitors, notices>>
  BY DEF CallFails, Crash, CreateUnanswered, ResolveUnanswered, At, tables, InsertRow
<1>2. PICK n \in Monitors : n = Monitor(r)
  BY <1>1, BusyCheck DEF StoryInv, TableInv
<1>3. Knows(r)'
  BY <1>1, ReturnKnows DEF StoryInv
<1>4. last' = [last EXCEPT ![n] = "unknown"] /\ last \in [Monitors -> {"none", "unknown"} \cup Status]
  BY <1>1, <1>2 DEF Forget, StoryInv, TableInv, TypeOK
<1>5. last'[n] = "unknown" /\ \A m \in monitors : m # n => last'[m] = last[m]
  BY <1>4 DEF StoryInv, TableInv, TypeOK
<1>6. (\A m \in monitors : m # n => Open(m)' = Open(m)) => SelfHealing'
  BY <1>1, <1>2, <1>5, Healed DEF Agree
<1>7. CASE CallFails(r) \/ Crash(r)
  BY <1>1, <1>3, <1>6, <1>7, NothingSaid DEF CallFails, Crash, tables, Open, Story
<1>8. CASE CreateUnanswered(r)
  <2>1. incidents' = incidents \cup {NewRow(r)} /\ NewRow(r).monitor = n
    BY <1>2, <1>8 DEF CreateUnanswered, InsertRow, NewRow
  <2>2. \A m : m # n => Open(m)' = Open(m)
    BY <2>1 DEF Open
  <2>3. OpenUntold' /\ NoticeHasIncident' /\ AnnouncedOnce'
    BY <1>1, <1>8, NothingSaidYet DEF CreateUnanswered
  <2>4. QED
    BY <1>3, <1>6, <2>2, <2>3 DEF Story
<1>9. CASE ResolveUnanswered(r)
  <2>1. step[r] = "resolve" /\ ResolveRow(r) /\ UNCHANGED nextID
    BY <1>9 DEF ResolveUnanswered, At
  <2>2. /\ \A k \in incidents' : k.status = "open" => k \in incidents
        /\ \A m : m # n => Open(m)' = Open(m)
    BY <1>2, <2>1, ResolveOpen
  <2>3. OpenUntold' /\ NoticeHasIncident' /\ AnnouncedOnce'
    BY <1>1, <2>1, <2>2, NothingSaid
  <2>4. QED
    BY <1>3, <1>6, <2>2, <2>3 DEF Story
<1>10. QED
  BY <1>7, <1>8, <1>9

\* Deleting a monitor takes its incidents with it, at whatever step r is.
LEMMA DeleteStory ==
    ASSUME StoryInv, TableInv', NEW r, Recorders = {r},
           NEW m \in Monitors, DeleteMonitor(m)
    PROVE  Story'
<1>1. /\ monitors' = monitors \ {m} /\ incidents' = {i \in incidents : i.monitor # m}
      /\ UNCHANGED <<nextID, step, check, incident, notices, last>>
  BY DEF DeleteMonitor, local
<1>2. OpenUntold' /\ NoticeHasIncident' /\ AnnouncedOnce'
  BY <1>1, NothingSaid
<1>3. \A n : n # m => Open(n)' = Open(n)
  BY <1>1 DEF Open
<1>4. Open(m)' = {}
  BY <1>1 DEF Open
<1>5. SelfHealing'
  BY <1>1, <1>3 DEF StoryInv, SelfHealing, Monitor
<1>6. Knows(r)'
  <2> DEFINE n == Monitor(r)
  <2>1. Knows(r)
    BY DEF StoryInv
  <2>2. Monitor(r)' = n /\ IsDown(r)' = IsDown(r)
    BY <1>1 DEF Monitor, IsDown
  <2>3. \A k \in incidents' : k \in incidents
    BY <1>1
  <2>4. CASE n = m
    BY <1>1, <1>4, <2>1, <2>2, <2>3, <2>4 DEF Knows, ToldBefore
  <2>5. CASE n # m
    BY <1>1, <1>3, <2>1, <2>2, <2>3, <2>5 DEF Knows, ToldBefore
  <2>6. QED
    BY <2>4, <2>5
<1>7. QED
  BY <1>2, <1>5, <1>6 DEF Story

\* With one recorder the partial index rejects nothing: none is open at "create".
LEMMA NoConflict ==
    ASSUME StoryInv, NEW r \in Recorders
    PROVE  ~CreateConflicts(r)
BY DEF StoryInv, Knows, CreateConflicts, At

LEMMA StoryStep == OneRecorder /\ StoryInv /\ [Next]_vars => StoryInv'
<1> SUFFICES ASSUME NEW r, Recorders = {r}, StoryInv, [Next]_vars PROVE StoryInv'
  BY DEF OneRecorder
<1>1. TableInv'
  BY TableStep DEF StoryInv
<1>2. CASE Recorder(r)
  <2> SUFFICES Story'
    BY <1>1 DEF Story, StoryInv
  <2>1. CASE Record(r)
    BY <1>1, <2>1, RecordStory
  <2>2. CASE DownWhileOpen(r) \/ UpWhileClosed(r)
    BY <1>1, <2>2, NothingToDoStory
  <2>3. CASE DownWhileClosed(r) \/ UpWhileOpen(r)
    BY <1>1, <2>3, FoundStory
  <2>4. CASE Create(r)
    BY <1>1, <2>4, CreateStory
  <2>5. CASE CreateConflicts(r)
    BY <2>5, NoConflict
  <2>6. CASE CreateOrphan(r)
    BY <1>1, <2>6, OrphanStory
  <2>7. CASE Resolve(r)
    BY <1>1, <2>7, ResolveStory
  <2>8. CASE Notify(r)
    BY <1>1, <2>8, NotifyStory
  <2>9. CASE GetByIDFails(r)
    BY <1>1, <2>9, GetByIDFailsStory
  <2>10. CASE \/ CallFails(r) \/ Crash(r)
              \/ CreateUnanswered(r) \/ ResolveUnanswered(r)
    BY <1>1, <2>10, FailureStory
  <2>11. CASE GetByID(r)
    BY <1>1, <2>11, LoadedStory
  <2>12. QED
    BY <1>2, <2>1, <2>2, <2>3, <2>4, <2>5, <2>6, <2>7, <2>8, <2>9, <2>10, <2>11
       DEF Recorder, handleDown, handleUpOrSlow
<1>3. ASSUME NEW m \in Monitors, DeleteMonitor(m) PROVE StoryInv'
  BY <1>1, <1>3, DeleteStory DEF Story, StoryInv
<1>4. CASE UNCHANGED vars
  BY <1>1, <1>4
     DEF vars, tables, local, StoryInv, Knows, Monitor, IsDown, Open, ToldBefore,
         OpenUntold, NoticeHasIncident, AnnouncedOnce, SelfHealing
<1>5. QED
  BY <1>2, <1>3, <1>4 DEF Next

LEMMA StoryAlways == OneRecorder => (Spec => []StoryInv)
<1> SUFFICES ASSUME OneRecorder PROVE Spec => []StoryInv
  OBVIOUS
<1>1. StoryInv /\ [Next]_vars => StoryInv'
  BY StoryStep
<1>2. QED
  BY <1>1, StoryInit, PTL DEF Spec

\* With one recorder the table says what the last completely recorded check of a
\* monitor said, whatever failed before it.
THEOREM TableFollowsChecks == OneRecorder => (Spec => []SelfHealing)
<1>1. StoryInv => SelfHealing
  BY DEF StoryInv
<1>2. QED
  BY <1>1, StoryAlways, PTL

\* With one recorder what users are told of a monitor is a story in order: no
\* incident is announced twice, or resolved before it was opened or after the next.
THEOREM StoryInOrder == OneRecorder => (Spec => []AnnouncedOnce)
<1>1. StoryInv => AnnouncedOnce
  BY DEF StoryInv
<1>2. QED
  BY <1>1, StoryAlways, PTL

\* With one recorder every notification is about an incident that was inserted:
\* the promise of incident_service.go:75 holds in the wiring of main.go.
THEOREM NoPhantoms == OneRecorder => (Spec => []NoticeHasIncident)
<1>1. StoryInv => NoticeHasIncident
  BY DEF StoryInv
<1>2. QED
  BY <1>1, StoryAlways, PTL

-----------------------------------------------------------------------------
(* Windows.  A check is stamped at most Skew before the last one: with one *)
(* recorder the check being recorded is the last one, and nothing in the   *)
(* table is stamped after it.                                              *)

StampsKnown ==
    /\ \A i \in incidents : i.startedAt <= clock /\ i.resolvedAt <= clock
    /\ \A r \in Recorders : step[r] # "idle" =>
          check[r].at <= clock /\ clock <= check[r].at + Skew

WindowsInv == StampsKnown /\ WindowsDisjoint

LEMMA WindowsInit == Init => WindowsInv
BY DEF Init, WindowsInv, StampsKnown, WindowsDisjoint

\* Stamps are numbers.
LEMMA Stamps ==
    ASSUME TableInv
    PROVE  /\ clock \in Nat /\ Skew \in Nat
           /\ \A i \in incidents : i.startedAt \in Nat /\ i.resolvedAt \in Nat
BY IncidentAssumption DEF TableInv, TypeOK, Row

\* A step that adds nothing to the table leaves the windows as they are.
LEMMA WindowsKept ==
    ASSUME WindowsDisjoint, incidents' \subseteq incidents
    PROVE  WindowsDisjoint'
BY DEF WindowsDisjoint

\* A recorder that goes on or returns has the check it had, or none.
LEMMA StampsKept ==
    ASSUME TableInv, StampsKnown, NEW r, Recorders = {r}, UNCHANGED clock,
           Return(r) \/ (step[r] # "idle" /\ UNCHANGED check)
    PROVE  \A q \in Recorders : step'[q] # "idle" =>
              check'[q].at <= clock' /\ clock' <= check'[q].at + Skew
<1>1. CASE Return(r)
  BY <1>1, ReturnKnows
<1>2. CASE step[r] # "idle" /\ UNCHANGED check
  BY <1>2 DEF StampsKnown
<1>3. QED
  BY <1>1, <1>2

LEMMA RecordWindows ==
    ASSUME TableInv, WindowsInv, NEW r, Recorders = {r}, Record(r)
    PROVE  WindowsInv'
<1>1. clock' = clock + 1 /\ UNCHANGED incidents
  BY DEF Record, tables
<1>2. PICK m \in Monitors, s \in Status, t \in 1..(clock + 1) :
        /\ t + Skew >= clock + 1
        /\ check' = [check EXCEPT ![r] = [monitor |-> m, status |-> s, at |-> t]]
  BY DEF Record
<1>3. check'[r].at = t
  BY <1>2 DEF TableInv, TypeOK
<1>4. t <= clock' /\ clock' <= t + Skew
  BY <1>1, <1>2, Stamps
<1>5. \A i \in incidents : i.startedAt <= clock' /\ i.resolvedAt <= clock'
  BY <1>1, Stamps DEF WindowsInv, StampsKnown
<1>6. StampsKnown'
  BY <1>1, <1>3, <1>4, <1>5 DEF StampsKnown
<1>7. QED
  BY <1>1, <1>6, WindowsKept DEF WindowsInv

\* A row inserted while none of the monitor's is open: all its outages are over,
\* and none was over after the check that begins the new one, but for the Skew.
LEMMA InsertWindows ==
    ASSUME TableInv, WindowsInv, NEW r, Recorders = {r}, step[r] # "idle",
           InsertRow(r), Open(Monitor(r)) = {}, UNCHANGED clock,
           Return(r) \/ UNCHANGED check
    PROVE  WindowsInv'
<1> DEFINE new == NewRow(r)
<1>1. /\ incidents' = incidents \cup {new}
      /\ new.id = nextID /\ new.monitor = Monitor(r) /\ new.status = "open"
      /\ new.startedAt = check[r].at /\ new.resolvedAt = 0
  BY DEF InsertRow, NewRow
<1>2. check[r].at \in Nat /\ check[r].at <= clock /\ clock <= check[r].at + Skew
  BY BusyCheck DEF TableInv, WindowsInv, StampsKnown
<1>3. nextID \in Nat /\ \A i \in incidents : i \in Row /\ i.id \in Nat /\ i.id < nextID
  BY Numbers
<1> HIDE DEF new
<1>4. StampsKnown'
  <2>1. \A i \in incidents' : i.startedAt <= clock /\ i.resolvedAt <= clock
    BY <1>1, <1>2, Stamps DEF WindowsInv, StampsKnown
  <2>2. QED
    BY <2>1, StampsKept DEF WindowsInv, StampsKnown
<1>5. \A i \in incidents : i.status # "open" <=> i.status = "resolved"
  BY <1>3 DEF Row
<1>6. \A i \in incidents : i.monitor = new.monitor => i.status = "resolved"
  BY <1>1, <1>5 DEF Open
<1>7. \A i \in incidents : i.resolvedAt <= new.startedAt + Skew
  BY <1>1, <1>2, Stamps DEF WindowsInv, StampsKnown
<1>8. ASSUME NEW i \in incidents', NEW k \in incidents'
      PROVE  /\ i.status = "resolved" => i.startedAt <= i.resolvedAt + Skew
             /\ i.monitor = k.monitor /\ i.id < k.id =>
                   i.status = "resolved" /\ i.resolvedAt <= k.startedAt + Skew
  <2>1. CASE i \in incidents /\ k \in incidents
    BY <2>1 DEF WindowsInv, WindowsDisjoint
  <2>2. CASE i \in incidents /\ k = new
    BY <1>6, <1>7, <2>2 DEF WindowsInv, WindowsDisjoint
  <2>3. CASE i = new
    BY <1>1, <1>3, <2>3
  <2>4. QED
    BY <1>1, <2>1, <2>2, <2>3
<1>9. QED
  BY <1>4, <1>8 DEF WindowsInv, WindowsDisjoint

\* The UPDATE stamps its row, which is open and so the monitor's latest, with a
\* check no earlier than the one that began it, but for the Skew.
LEMMA ResolveWindows ==
    ASSUME TableInv, WindowsInv, NEW r, Recorders = {r}, step[r] # "idle",
           ResolveRow(r), UNCHANGED clock,
           Return(r) \/ UNCHANGED check
    PROVE  WindowsInv'
<1>1. check[r].at \in Nat /\ check[r].at <= clock /\ clock <= check[r].at + Skew
  BY BusyCheck DEF TableInv, WindowsInv, StampsKnown
<1> DEFINE Was(i, k) == /\ i.id = k.id /\ i.monitor = k.monitor
                        /\ i.startedAt = k.startedAt
                        /\ \/ i.status = k.status /\ i.resolvedAt = k.resolvedAt
                           \/ /\ k.status = "open" /\ i.status = "resolved"
                              /\ i.resolvedAt = check[r].at
<1>2. ASSUME NEW i \in incidents' PROVE \E k \in incidents : Was(i, k)
  <2>1. CASE i \in incidents
    BY <2>1
  <2>2. CASE i \notin incidents
    <3>1. PICK k \in incidents : k.status = "open" /\ i = Resolved(k, check[r].at)
      BY <2>2, ResolveRows DEF TableInv
    <3>2. k \in Row
      BY Numbers
    <3>3. Was(i, k)
      BY <3>1, <3>2 DEF Resolved, Row
    <3>4. QED
      BY <3>3
  <2>3. QED
    BY <2>1, <2>2
<1>3. StampsKnown'
  <2>1. \A i \in incidents' : i.startedAt <= clock /\ i.resolvedAt <= clock
    BY <1>1, <1>2 DEF WindowsInv, StampsKnown
  <2>2. QED
    BY <2>1, StampsKept DEF WindowsInv, StampsKnown
<1>4. ASSUME NEW i \in incidents', NEW k \in incidents'
      PROVE  /\ i.status = "resolved" => i.startedAt <= i.resolvedAt + Skew
             /\ i.monitor = k.monitor /\ i.id < k.id =>
                   i.status = "resolved" /\ i.resolvedAt <= k.startedAt + Skew
  <2>1. PICK j \in incidents : Was(i, j)
    BY <1>2
  <2>2. PICK l \in incidents : Was(k, l)
    BY <1>2
  <2>3. /\ j.status = "resolved" => j.startedAt <= j.resolvedAt + Skew
        /\ j.monitor = l.monitor /\ j.id < l.id =>
              j.status = "resolved" /\ j.resolvedAt <= l.startedAt + Skew
    BY DEF WindowsInv, WindowsDisjoint
  <2>4. j.startedAt \in Nat /\ j.startedAt <= clock /\ clock \in Nat /\ Skew \in Nat
    BY Stamps DEF WindowsInv, StampsKnown
  <2>5. i.status = "resolved" => i.startedAt <= i.resolvedAt + Skew
    <3>1. CASE i.status = j.status /\ i.resolvedAt = j.resolvedAt
      BY <2>1, <2>3, <3>1
    <3>2. CASE i.resolvedAt = check[r].at
      BY <1>1, <2>1, <2>4, <3>2
    <3>3. QED
      BY <2>1, <3>1, <3>2
  <2>6. i.monitor = k.monitor /\ i.id < k.id =>
           i.status = "resolved" /\ i.resolvedAt <= k.startedAt + Skew
    BY <2>1, <2>2, <2>3
  <2>7. QED
    BY <2>5, <2>6
<1>5. QED
  BY <1>3, <1>4 DEF WindowsInv, WindowsDisjoint

LEMMA WindowsStep == OneRecorder /\ TableInv /\ WindowsInv /\ [Next]_vars => WindowsInv'
<1> SUFFICES ASSUME NEW r, Recorders = {r}, TableInv, WindowsInv, [Next]_vars
             PROVE  WindowsInv'
  BY DEF OneRecorder
<1>1. CASE Record(r)
  BY <1>1, RecordWindows
<1>2. CASE Create(r) \/ CreateUnanswered(r)
  BY <1>2, InsertWindows DEF Create, CreateUnanswered, At
<1>3. CASE Resolve(r) \/ ResolveUnanswered(r)
  BY <1>3, ResolveWindows DEF Resolve, ResolveUnanswered, At
<1>4. CASE \/ DownWhileOpen(r) \/ DownWhileClosed(r) \/ UpWhileClosed(r)
           \/ UpWhileOpen(r) \/ CreateConflicts(r) \/ CreateOrphan(r)
           \/ GetByID(r) \/ GetByIDFails(r) \/ Notify(r) \/ CallFails(r) \/ Crash(r)
  <2>1. /\ UNCHANGED <<incidents, clock>>
        /\ Return(r) \/ (step[r] # "idle" /\ UNCHANGED check)
    BY <1>4 DEF DownWhileOpen, DownWhileClosed, UpWhileClosed, UpWhileOpen,
                CreateConflicts, CreateOrphan, GetByID, GetByIDFails, Notify, CallFails,
                Crash, At, tables
  <2>2. StampsKnown'
    BY <2>1, StampsKept DEF WindowsInv, StampsKnown
  <2>3. QED
    BY <2>1, <2>2, WindowsKept DEF WindowsInv
<1>5. ASSUME NEW m \in Monitors, DeleteMonitor(m) PROVE WindowsInv'
  <2>1. incidents' \subseteq incidents /\ UNCHANGED <<step, check, clock>>
    BY <1>5 DEF DeleteMonitor, local
  <2>2. StampsKnown'
    BY <2>1 DEF WindowsInv, StampsKnown
  <2>3. QED
    BY <2>1, <2>2, WindowsKept DEF WindowsInv
<1>6. CASE UNCHANGED vars
  BY <1>6 DEF vars, tables, local, WindowsInv, StampsKnown, WindowsDisjoint
<1>7. QED
  BY <1>1, <1>2, <1>3, <1>4, <1>5, <1>6
     DEF Next, Recorder, handleDown, handleUpOrSlow

\* With one recorder the outages of a monitor run forward in time and do not
\* overlap, however far apart, up to Skew, two checks carried out at once may be
\* recorded, and whatever fails in between.
THEOREM OutagesInOrder == OneRecorder => (Spec => []WindowsDisjoint)
<1> SUFFICES ASSUME OneRecorder PROVE Spec => []WindowsDisjoint
  OBVIOUS
<1>1. TableInv /\ WindowsInv /\ [Next]_vars => WindowsInv'
  BY WindowsStep
<1>2. WindowsInv => WindowsDisjoint
  BY DEF WindowsInv
<1>3. Init => WindowsInv
  BY WindowsInit
<1>4. QED
  BY <1>1, <1>2, <1>3, TableAlways, PTL DEF Spec
-----------------------------------------------------------------------------
(* The log.  Whoever records and whatever fails, the table and the         *)
(* notifications behave like IncidentLog.  A recorder acts on an ID that   *)
(* it read or was given some calls ago, so the invariant says what that ID *)
(* still means: while the monitor exists, it is a row of the monitor's, and *)
(* a resolved one once the UPDATE has run.                                 *)

Means(r) ==
    /\ step[r] # "idle" => check[r].at \in 1..clock
    /\ step[r] \in {"idle", "query", "create"} => incident[r] = 0
    /\ Monitor(r) \in monitors =>
          /\ step[r] = "loadOpened" => incident[r] \in Log!Opened(Monitor(r)) \cup {0}
          /\ step[r] = "resolve" => incident[r] \in Log!Opened(Monitor(r))
          /\ step[r] = "loadResolved" => incident[r] \in Log!Resolved(Monitor(r))

LogInv == TableInv /\ \A r \in Recorders : Means(r)

\* What any step leaves of the table: rows of the monitors that stay, and their ends.
RowsStay ==
    /\ monitors' \subseteq monitors
    /\ \A m \in monitors' : /\ Log!Opened(m) \subseteq Log!Opened(m)'
                            /\ Log!Resolved(m) \subseteq Log!Resolved(m)'

\* What is about to be said changes with the recorder that takes a step.
Telling == {"notifyOpened", "notifyResolved"}

OnlyMoves(r) ==
    \A q \in Recorders \ {r} : /\ step'[q] = step[q] /\ check'[q] = check[q]
                               /\ incident'[q] = incident[q]

LEMMA SilentUntilLoaded ==
    ASSUME NEW r \in Recorders, step[r] \notin Telling
    PROVE  Pending(r) = {}
BY DEF Pending, At, Telling

LEMMA DueMoves ==
    ASSUME NEW r \in Recorders, OnlyMoves(r)
    PROVE  Due' = [Due EXCEPT ![r] = Pending(r)']
<1>1. \A q \in Recorders \ {r} : Pending(q)' = Pending(q)
  BY DEF OnlyMoves, Pending, At, NoticeOf, Monitor
<1> HIDE DEF Pending
<1>2. QED
  BY <1>1 DEF Due

LEMMA DueKept ==
    ASSUME NEW r \in Recorders, OnlyMoves(r),
           step[r] \notin Telling, step'[r] \notin Telling
    PROVE  UNCHANGED Due
<1>1. Pending(r) = {}
  BY SilentUntilLoaded
<1>2. Pending(r)' = {}
  BY DEF Pending, At, Telling
<1>3. Due' = [Due EXCEPT ![r] = {}]
  BY <1>2, DueMoves
<1>4. QED
  BY <1>1, <1>3 DEF Due

\* A recorder that does nothing goes on knowing what it knew.
LEMMA StillMeans ==
    ASSUME TypeOK, RowsStay, NEW q \in Recorders, Means(q),
           clock \in Nat, clock' \in {clock, clock + 1},
           step'[q] = step[q], check'[q] = check[q], incident'[q] = incident[q]
    PROVE  Means(q)'
<1>1. Monitor(q)' = Monitor(q)
  BY DEF Monitor
<1>2. step[q] # "idle" => check[q].at \in 1..clock'
  BY DEF Means
<1>3. QED
  BY <1>1, <1>2 DEF Means, RowsStay

\* One that returns knows nothing.
LEMMA ReturnMeans ==
    ASSUME TypeOK, NEW r \in Recorders, Return(r)
    PROVE  /\ Means(r)' /\ OnlyMoves(r)
           /\ step'[r] = "idle" /\ Pending(r)' = {}
<1>1. step'[r] = "idle" /\ incident'[r] = 0 /\ OnlyMoves(r)
  BY DEF TypeOK, Return, Goto, OnlyMoves
<1>2. QED
  BY <1>1 DEF Means, Pending, At

LEMMA SameRows ==
    ASSUME UNCHANGED <<monitors, incidents>>
    PROVE  RowsStay
BY DEF RowsStay, Log!Opened, Log!Resolved, Log!Open, Log!Of

\* A row more.
LEMMA InsertStays ==
    ASSUME TableInv, NEW r \in Recorders, InsertRow(r), NEW n, n = Monitor(r)
    PROVE  RowsStay /\ nextID \in Log!Opened(n)'
<1>1. /\ incidents' = incidents \cup {NewRow(r)} /\ UNCHANGED monitors
      /\ NewRow(r).id = nextID /\ NewRow(r).monitor = n
  BY DEF InsertRow, NewRow
<1> HIDE DEF NewRow
<1>2. \A m : Log!Of(m) \subseteq Log!Of(m)' /\ Log!Open(m) \subseteq Log!Open(m)'
  BY <1>1 DEF Log!Of, Log!Open
<1>3. \A m : Log!Of(m) \ Log!Open(m) \subseteq Log!Of(m)' \ Log!Open(m)'
  BY <1>1 DEF Log!Of, Log!Open
<1>4. NewRow(r) \in Log!Of(n)'
  BY <1>1 DEF Log!Of
<1>5. QED
  BY <1>1, <1>2, <1>3, <1>4 DEF RowsStay, Log!Opened, Log!Resolved

\* What the UPDATE does to the table: one row of a monitor's ends, or none.
LEMMA ResolveEnds ==
    ASSUME TableInv, NEW r \in Recorders, step[r] # "idle", ResolveRow(r),
           UNCHANGED monitors
    PROVE  /\ \/ UNCHANGED incidents
              \/ \E i \in incidents :
                    /\ i.status = "open"
                    /\ incidents' = (incidents \ {i}) \cup
                          {[i EXCEPT !.status = "resolved", !.resolvedAt = check[r].at]}
           /\ RowsStay
           /\ \A m : incident[r] \in Log!Opened(m) => incident[r] \in Log!Resolved(m)'
<1> DEFINE hit == {i \in incidents : i.id = incident[r] /\ i.status = "open"}
           over(i) == Resolved(i, check[r].at)
<1>1. incidents' = (incidents \ hit) \cup {over(i) : i \in hit}
  BY DEF ResolveRow
<1>2. check[r].at \in Nat /\ \A i \in incidents : i \in Row
  BY BusyCheck, Numbers DEF TableInv
<1>3. \A i \in hit : /\ over(i).id = i.id /\ over(i).monitor = i.monitor
                     /\ over(i).status = "resolved"
  BY <1>2, ResolvedRow
<1>4. \A i, k \in hit : i = k
  BY DEF TableInv, NumbersUsed
<1>5. \/ UNCHANGED incidents
      \/ \E i \in incidents :
            /\ i.status = "open"
            /\ incidents' = (incidents \ {i}) \cup
                  {[i EXCEPT !.status = "resolved", !.resolvedAt = check[r].at]}
  <2>1. CASE hit = {}
    BY <1>1, <2>1
  <2>2. CASE hit # {}
    <3>1. PICK i \in hit : TRUE
      BY <2>2
    <3>2. hit = {i}
      BY <1>4, <3>1
    <3>3. incidents' = (incidents \ {i}) \cup {over(i)}
      BY <1>1, <3>2
    <3>4. QED
      BY <3>1, <3>3 DEF Resolved
  <2>3. QED
    BY <2>1, <2>2
<1> HIDE DEF over
<1>6. \A i \in incidents : i \notin hit => i \in incidents'
  BY <1>1
<1>7. \A i \in hit : over(i) \in incidents'
  BY <1>1
<1>8. ASSUME NEW i \in incidents
      PROVE  \E k \in incidents' :
                /\ k.id = i.id /\ k.monitor = i.monitor
                /\ i.status # "open" \/ i.id = incident[r] => k.status # "open"
  <2>1. CASE i \in hit
    BY <1>3, <1>7, <2>1
  <2>2. CASE i \notin hit
    BY <1>6, <2>2
  <2>3. QED
    BY <2>1, <2>2
<1> HIDE DEF hit
<1>9. ASSUME NEW m PROVE /\ Log!Opened(m) \subseteq Log!Opened(m)'
                         /\ Log!Resolved(m) \subseteq Log!Resolved(m)'
                         /\ incident[r] \in Log!Opened(m) => incident[r] \in Log!Resolved(m)'
  <2>1. ASSUME NEW i \in incidents, i.monitor = m
        PROVE  \E k \in Log!Of(m)' : /\ k.id = i.id
                                     /\ i.status # "open" \/ i.id = incident[r]
                                           => k \notin Log!Open(m)'
    BY <1>8, <2>1 DEF Log!Of, Log!Open
  <2>2. QED
    BY <2>1 DEF Log!Opened, Log!Resolved, Log!Of, Log!Open
<1>10. QED
  BY <1>5, <1>9 DEF RowsStay

\* What is left to show of a step of r, once its own knowledge is settled.
LEMMA OthersMean ==
    ASSUME LogInv, RowsStay, NEW r \in Recorders, Means(r)',
           clock' \in {clock, clock + 1}, OnlyMoves(r)
    PROVE  \A q \in Recorders : Means(q)'
<1>1. clock \in Nat
  BY IncidentAssumption DEF LogInv, TableInv, TypeOK
<1>2. QED
  BY <1>1, StillMeans DEF LogInv, TableInv, OnlyMoves

LEMMA ReturnLog ==
    ASSUME LogInv, NEW r \in Recorders, Return(r), RowsStay, UNCHANGED clock
    PROVE  /\ \A q \in Recorders : Means(q)'
           /\ Due' = [Due EXCEPT ![r] = {}]
           /\ step[r] \notin Telling => UNCHANGED Due
<1>1. /\ Means(r)' /\ OnlyMoves(r)
      /\ step'[r] = "idle" /\ Pending(r)' = {}
  BY ReturnMeans DEF LogInv, TableInv
<1>2. \A q \in Recorders : Means(q)'
  BY <1>1, OthersMean
<1>3. Due' = [Due EXCEPT ![r] = {}]
  BY <1>1, DueMoves
<1>4. step[r] \notin Telling => UNCHANGED Due
  BY <1>1, DueKept DEF Telling
<1>5. QED
  BY <1>2, <1>3, <1>4

\* One that goes on learns what its next step needs.
LEMMA GotoLog ==
    ASSUME LogInv, NEW r \in Recorders, NEW s, Goto(r, s), step[r] # "idle",
           RowsStay, UNCHANGED <<check, clock>>, NEW m, m = Monitor(r),
           NEW n, incident' = [incident EXCEPT ![r] = n],
           \/ s = "create" /\ n = 0
           \/ s = "loadOpened" /\ (m \in monitors => n \in Log!Opened(m)' \cup {0})
           \/ s = "resolve" /\ (m \in monitors => n \in Log!Opened(m)')
           \/ s = "loadResolved" /\ (m \in monitors => n \in Log!Resolved(m)')
           \/ s \in Telling
    PROVE  /\ \A q \in Recorders : Means(q)'
           /\ Due' = [Due EXCEPT ![r] = Pending(r)']
           /\ step[r] \notin Telling /\ s \notin Telling => UNCHANGED Due
<1>1. step'[r] = s /\ incident'[r] = n /\ Monitor(r)' = m
  BY DEF Goto, LogInv, TableInv, TypeOK, Monitor
<1>2. OnlyMoves(r)
  BY DEF Goto, LogInv, TableInv, TypeOK, OnlyMoves
<1>3. Means(r)'
  BY <1>1 DEF Means, LogInv, RowsStay, Telling
<1>4. \A q \in Recorders : Means(q)'
  BY <1>2, <1>3, OthersMean
<1>5. QED
  BY <1>1, <1>2, <1>4, DueMoves, DueKept

-----------------------------------------------------------------------------
\* Each statement and notification of a recorder is a step of the log.
LEMMA RecordLog ==
    ASSUME LogInv, NEW r \in Recorders, Record(r)
    PROVE  (\A q \in Recorders : Means(q)') /\ UNCHANGED Log!vars
<1>1. PICK m \in Monitors, s \in Status, t \in 1..(clock + 1) :
        check' = [check EXCEPT ![r] = [monitor |-> m, status |-> s, at |-> t]]
  BY DEF Record
<1>2. /\ check'[r].at = t /\ t \in 1..clock' /\ clock' = clock + 1
      /\ step[r] = "idle" /\ step'[r] = "query" /\ incident'[r] = 0
      /\ OnlyMoves(r)
  BY <1>1 DEF Record, Goto, At, LogInv, Means, TableInv, TypeOK, OnlyMoves
<1>3. Means(r)'
  BY <1>2 DEF Means
<1>4. UNCHANGED Due
  BY <1>2, DueKept DEF Telling
<1>5. UNCHANGED Log!vars
  BY <1>4 DEF Record, tables, Log!vars
<1>6. QED
  BY <1>2, <1>3, <1>5, OthersMean, SameRows DEF Log!vars

\* A recorder that returns says nothing of what it was about to say.
LEMMA QuietLog ==
    ASSUME LogInv, NEW r \in Recorders,
           \/ DownWhileOpen(r) \/ UpWhileClosed(r) \/ GetByIDFails(r)
           \/ CallFails(r) \/ Crash(r)
    PROVE  (\A q \in Recorders : Means(q)') /\ Log!Next
<1>1. Return(r) /\ UNCHANGED <<tables, notices, clock>>
  BY DEF DownWhileOpen, UpWhileClosed, GetByIDFails, CallFails, Crash
<1>2. RowsStay
  BY <1>1, SameRows DEF tables
<1>3. (\A q \in Recorders : Means(q)') /\ Due' = [Due EXCEPT ![r] = {}]
  BY <1>1, <1>2, ReturnLog
<1>4. Log!Drop(r)
  BY <1>1, <1>3 DEF Log!Drop, tables
<1>5. QED
  BY <1>3, <1>4 DEF Log!Next

LEMMA FoundLog ==
    ASSUME LogInv, NEW r \in Recorders, DownWhileClosed(r) \/ UpWhileOpen(r)
    PROVE  (\A q \in Recorders : Means(q)') /\ UNCHANGED Log!vars
<1>1. /\ UNCHANGED <<monitors, incidents, nextID, notices>>
      /\ UNCHANGED <<check, clock>> /\ step[r] = "query"
  BY DEF DownWhileClosed, UpWhileOpen, At, tables
<1>2. RowsStay
  BY <1>1, SameRows
<1>3. step[r] # "idle" /\ step[r] \notin Telling /\ "create" \notin Telling /\ "resolve" \notin Telling
  BY <1>1 DEF Telling
<1>4. CASE DownWhileClosed(r)
  <2>1. incident[r] = 0 /\ incident' = [incident EXCEPT ![r] = 0]
    BY <1>1, <1>4 DEF DownWhileClosed, LogInv, Means, TableInv, TypeOK
  <2>2. Goto(r, "create")
    BY <1>4 DEF DownWhileClosed
  <2>3. (\A q \in Recorders : Means(q)') /\ UNCHANGED Due
    BY <1>1, <1>2, <1>3, <2>1, <2>2, GotoLog
  <2>4. QED
    BY <1>1, <2>3 DEF Log!vars
<1>5. CASE UpWhileOpen(r)
  <2>1. PICK m : m = Monitor(r)
    OBVIOUS
  <2>2. PICK i \in Open(m) : incident' = [incident EXCEPT ![r] = i.id]
    BY <1>5, <2>1 DEF UpWhileOpen
  <2>3. i.id \in Log!Opened(m)'
    BY <1>1, <2>2 DEF Open, Log!Opened, Log!Of
  <2>4. Goto(r, "resolve")
    BY <1>5 DEF UpWhileOpen
  <2>5. (\A q \in Recorders : Means(q)') /\ UNCHANGED Due
    BY <1>1, <1>2, <1>3, <2>1, <2>2, <2>3, <2>4, GotoLog
  <2>6. QED
    BY <1>1, <2>5 DEF Log!vars
<1>6. QED
  BY <1>4, <1>5

\* The stamps of the checks in hand are times of the log.
LEMMA StampsInRange ==
    ASSUME LogInv, NEW r \in Recorders, step[r] # "idle"
    PROVE  check[r].at \in 1..MaxChecks
BY IncidentAssumption DEF LogInv, Means, TableInv, TypeOK

LEMMA CreateLog ==
    ASSUME LogInv, NEW r \in Recorders, Create(r) \/ CreateUnanswered(r)
    PROVE  (\A q \in Recorders : Means(q)') /\ Log!Next
<1>1. PICK m : m = Monitor(r)
  OBVIOUS
<1>2. /\ step[r] = "create" /\ m \in monitors /\ Open(m) = {}
      /\ InsertRow(r) /\ UNCHANGED <<notices, clock>>
  BY <1>1 DEF Create, CreateUnanswered, At
<1>3. /\ m \in Monitors /\ check[r].at \in 1..MaxChecks
      /\ step[r] \notin Telling /\ "loadOpened" \notin Telling
  BY <1>1, <1>2, StampsInRange, BusyCheck DEF LogInv, TableInv, Telling
<1>4. UNCHANGED Due => Log!Begin(m, check[r].at)
  BY <1>1, <1>2 DEF Log!Begin, Log!Open, Log!Of, Open, InsertRow, NewRow
<1>5. RowsStay /\ nextID \in Log!Opened(m)'
  BY <1>1, <1>2, InsertStays DEF LogInv
<1>6. (\A q \in Recorders : Means(q)') /\ UNCHANGED Due
  <2>1. CASE Create(r)
    <3>1. /\ Goto(r, "loadOpened") /\ UNCHANGED check
          /\ incident' = [incident EXCEPT ![r] = nextID]
      BY <2>1 DEF Create
    <3>2. QED
      BY <1>1, <1>2, <1>3, <1>5, <3>1, GotoLog
  <2>2. CASE CreateUnanswered(r)
    BY <1>2, <1>3, <1>5, <2>2, ReturnLog DEF CreateUnanswered
  <2>3. QED
    BY <2>1, <2>2
<1>7. QED
  BY <1>3, <1>4, <1>6 DEF Log!Next

LEMMA RefusedLog ==
    ASSUME LogInv, NEW r \in Recorders, CreateConflicts(r) \/ CreateOrphan(r)
    PROVE  (\A q \in Recorders : Means(q)') /\ Log!Next
<1>1. /\ step[r] = "create" /\ RowsStay /\ UNCHANGED <<monitors, incidents, notices, clock>>
      /\ nextID' = nextID + 1
  BY SameRows DEF CreateConflicts, CreateOrphan, At
<1>2. step[r] # "idle" /\ step[r] \notin Telling /\ "loadOpened" \notin Telling
  BY <1>1 DEF Telling
<1>3. UNCHANGED Due => Log!Skip
  BY <1>1 DEF Log!Skip
<1>4. (\A q \in Recorders : Means(q)') /\ UNCHANGED Due
  <2>1. CASE CreateConflicts(r)
    <3>1. incident[r] = 0 /\ incident' = [incident EXCEPT ![r] = 0]
      BY <1>1, <2>1 DEF CreateConflicts, LogInv, Means, TableInv, TypeOK
    <3>2. Goto(r, "loadOpened") /\ UNCHANGED check
      BY <2>1 DEF CreateConflicts
    <3>3. QED
      BY <1>1, <1>2, <3>1, <3>2, GotoLog
  <2>2. CASE CreateOrphan(r)
    BY <1>1, <1>2, <2>2, ReturnLog DEF CreateOrphan
  <2>3. QED
    BY <2>1, <2>2
<1>5. QED
  BY <1>3, <1>4 DEF Log!Next

LEMMA ResolveLog ==
    ASSUME LogInv, NEW r \in Recorders, Resolve(r) \/ ResolveUnanswered(r)
    PROVE  (\A q \in Recorders : Means(q)') /\ [Log!Next]_(Log!vars)
<1>1. /\ step[r] = "resolve" /\ ResolveRow(r)
      /\ UNCHANGED <<monitors, nextID, notices, clock>>
  BY DEF Resolve, ResolveUnanswered, At
<1>2. /\ TableInv /\ check[r].at \in 1..MaxChecks
      /\ step[r] # "idle" /\ step[r] \notin Telling /\ "loadResolved" \notin Telling
  BY <1>1, StampsInRange DEF LogInv, Telling
<1>3. /\ RowsStay
      /\ \A m : incident[r] \in Log!Opened(m) => incident[r] \in Log!Resolved(m)'
  BY <1>1, <1>2, ResolveEnds
<1>4. (\A q \in Recorders : Means(q)') /\ UNCHANGED Due
  <2>1. CASE Resolve(r)
    <3>1. incident' = [incident EXCEPT ![r] = incident[r]] /\ UNCHANGED check
      BY <1>2, <2>1 DEF Resolve, TableInv, TypeOK
    <3>2. PICK m : m = Monitor(r)
      OBVIOUS
    <3>3. m \in monitors => incident[r] \in Log!Resolved(m)'
      BY <1>1, <1>3, <3>2 DEF LogInv, Means
    <3>4. Goto(r, "loadResolved")
      BY <2>1 DEF Resolve
    <3>5. QED
      BY <1>1, <1>2, <1>3, <3>1, <3>2, <3>3, <3>4, GotoLog
  <2>2. CASE ResolveUnanswered(r)
    BY <1>1, <1>2, <1>3, <2>2, ReturnLog DEF ResolveUnanswered
  <2>3. QED
    BY <2>1, <2>2
<1>5. [Log!Next]_(Log!vars)
  <2>1. CASE UNCHANGED incidents
    BY <1>1, <1>4, <2>1 DEF Log!vars
  <2>2. ASSUME NEW i \in incidents, i.status = "open",
               incidents' = (incidents \ {i}) \cup
                  {[i EXCEPT !.status = "resolved", !.resolvedAt = check[r].at]}
        PROVE  Log!Next
    <3>1. Log!End(i, check[r].at)
      BY <1>1, <1>4, <2>2 DEF Log!End
    <3>2. QED
      BY <1>2, <3>1 DEF Log!Next
  <2>3. QED
    BY <1>1, <1>2, <2>1, <2>2, ResolveEnds
<1>6. QED
  BY <1>4, <1>5

\* GetByID finds the monitor: what the recorder means to say of it is true.
LEMMA LoadedLog ==
    ASSUME LogInv, NEW r \in Recorders, GetByID(r)
    PROVE  (\A q \in Recorders : Means(q)') /\ Log!Next
<1>1. PICK m : m = Monitor(r)
  OBVIOUS
<1>2. /\ step[r] \in {"loadOpened", "loadResolved"} /\ m \in monitors
      /\ UNCHANGED <<monitors, incidents, nextID, check, incident, notices, clock>>
  BY <1>1 DEF GetByID, At, tables
<1>3. m \in Monitors /\ nextID \in Nat /\ \A i \in incidents : i.id \in 1..(nextID - 1)
  BY <1>1, <1>2, BusyCheck, Numbers DEF LogInv, TableInv
<1>4. incident[r] \in Log!Opened(m) \cup {0}
  BY <1>1, <1>2 DEF LogInv, Means, Log!Opened, Log!Resolved, Log!Of, Log!Open
<1>5. incident[r] \in 0..nextID
  BY <1>3, <1>4 DEF Log!Opened, Log!Of
<1>6. PICK kind \in {"opened", "resolved"} :
        /\ kind = "opened" => Goto(r, "notifyOpened")
        /\ kind = "resolved" => step[r] = "loadResolved" /\ Goto(r, "notifyResolved")
  BY DEF GetByID, At
<1>7. PICK s \in Telling : /\ Goto(r, s)
                           /\ kind = "opened" => s = "notifyOpened"
                           /\ kind = "resolved" => s = "notifyResolved"
  BY <1>6 DEF Telling
<1>8. PICK n : n = NoticeOf(r, kind)
  OBVIOUS
<1>9. /\ n \in Log!Notice
      /\ n.kind = kind /\ n.monitor = m /\ n.incident = incident[r]
  BY <1>1, <1>3, <1>5, <1>8 DEF NoticeOf, Log!Notice
<1>10. kind = "resolved" => incident[r] \in Log!Resolved(m)
  BY <1>1, <1>2, <1>6 DEF LogInv, Means
<1>11. Pending(r)' = {n}
  <2>1. step'[r] = s
    BY <1>7 DEF Goto, LogInv, TableInv, TypeOK
  <2>2. NoticeOf(r, kind)' = n
    BY <1>2, <1>8 DEF NoticeOf, Monitor
  <2>3. QED
    BY <1>6, <1>7, <2>1, <2>2 DEF Pending, At
<1>12. RowsStay
  BY <1>2, SameRows
<1>13. incident' = [incident EXCEPT ![r] = incident[r]] /\ step[r] # "idle"
  BY <1>2 DEF LogInv, TableInv, TypeOK
<1>14. (\A q \in Recorders : Means(q)') /\ Due' = [Due EXCEPT ![r] = Pending(r)']
  BY <1>1, <1>2, <1>7, <1>12, <1>13, GotoLog
<1>15. Log!Look(r, m, n)
  BY <1>2, <1>4, <1>9, <1>10, <1>11, <1>14 DEF Log!Look
<1>16. QED
  BY <1>3, <1>9, <1>14, <1>15 DEF Log!Next

\* And it is said, to whatever the table has become.
LEMMA NotifyLog ==
    ASSUME LogInv, NEW r \in Recorders, Notify(r)
    PROVE  (\A q \in Recorders : Means(q)') /\ Log!Next
<1>1. Return(r) /\ UNCHANGED <<tables, clock>>
  BY DEF Notify
<1>2. RowsStay
  BY <1>1, SameRows DEF tables
<1>3. (\A q \in Recorders : Means(q)') /\ Due' = [Due EXCEPT ![r] = {}]
  BY <1>1, <1>2, ReturnLog
<1>4. \E n \in Pending(r) : notices' = Append(notices, n)
  BY DEF Notify, Pending, At
<1>5. Log!Tell(r)
  BY <1>1, <1>3, <1>4 DEF Log!Tell, Due, tables
<1>6. QED
  BY <1>3, <1>5 DEF Log!Next

LEMMA DeleteLog ==
    ASSUME LogInv, NEW m \in Monitors, DeleteMonitor(m)
    PROVE  (\A q \in Recorders : Means(q)') /\ Log!Next
<1>1. clock \in Nat /\ UNCHANGED <<step, check, incident, clock>> /\ TypeOK
  BY IncidentAssumption DEF DeleteMonitor, local, LogInv, TableInv, TypeOK
<1>2. UNCHANGED Due
  BY <1>1 DEF Due, Pending, At, NoticeOf, Monitor
<1>3. Log!Remove(m)
  BY <1>2 DEF DeleteMonitor, Log!Remove, Log!Of
<1>4. RowsStay
  BY DEF DeleteMonitor, RowsStay, Log!Opened, Log!Resolved, Log!Open, Log!Of
<1>5. \A q \in Recorders : Means(q)'
  BY <1>1, <1>4, StillMeans DEF LogInv
<1>6. QED
  BY <1>3, <1>5 DEF Log!Next

LEMMA LogInit == Init => LogInv /\ Log!Init
<1> SUFFICES ASSUME Init PROVE LogInv /\ Log!Init
  OBVIOUS
<1>1. \A r \in Recorders : Pending(r) = {}
  BY DEF Init, Pending, At
<1>2. Due = [r \in Recorders |-> {}]
  BY <1>1 DEF Due
<1>3. QED
  BY <1>2, TableInit DEF Init, LogInv, Means, Log!Init

LEMMA LogStep == LogInv /\ [Next]_vars => LogInv' /\ [Log!Next]_(Log!vars)
<1> SUFFICES ASSUME LogInv, [Next]_vars
             PROVE  (\A q \in Recorders : Means(q)') /\ [Log!Next]_(Log!vars)
  BY TableStep DEF LogInv
<1>1. ASSUME NEW r \in Recorders, Recorder(r)
      PROVE  (\A q \in Recorders : Means(q)') /\ [Log!Next]_(Log!vars)
  BY <1>1, RecordLog, QuietLog, FoundLog, CreateLog, RefusedLog, ResolveLog, LoadedLog,
     NotifyLog DEF Recorder, handleDown, handleUpOrSlow
<1>2. ASSUME NEW m \in Monitors, DeleteMonitor(m)
      PROVE  (\A q \in Recorders : Means(q)') /\ [Log!Next]_(Log!vars)
  BY <1>2, DeleteLog
<1>3. CASE UNCHANGED vars
  BY <1>3 DEF vars, tables, local, LogInv, Means, Monitor, Due, Pending, At, NoticeOf,
              Log!vars, Log!Opened, Log!Resolved, Log!Of, Log!Open
<1>4. QED
  BY <1>1, <1>2, <1>3 DEF Next

\* For any number of recorders, whatever fails and whenever monitors are deleted:
\* an incident begins only while its monitor has none, ends once and is not touched
\* again; and a notification says once what was so when its recorder last looked the
\* monitor up, although the monitor may have been deleted since.
THEOREM RecordersImplementLog == Spec => ImplementsLog
BY LogInit, LogStep, PTL DEF Spec, ImplementsLog, Log!Spec
=============================================================================
