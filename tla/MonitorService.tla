---------------------------- MODULE MonitorService ----------------------------
(***************************************************************************)
(* service.MonitorService behind handler.MonitorHandler                    *)
(* (src/internal/service/monitor_service.go) and MonitorRepository: users  *)
(* create, read, change and delete monitors.  A change loads the row, edits*)
(* it in memory and writes all of it back: two statements, no transaction, *)
(* beside the other requests.  A statement may fail without effect, and a  *)
(* write may take effect although its answer is lost.                      *)
(*                                                                         *)
(* Of a name only its length counts, of a URL its scheme and its host, and *)
(* of both whether they hold a NUL, which a Go string may and a TEXT may   *)
(* not.  A number is a Go int in memory and an INT in the table.  The role *)
(* that a caller has here is the one in the claims of its token.           *)
(***************************************************************************)
EXTENDS Integers, FiniteSets

CONSTANTS
    Caller,           \* claims, [user, role]
    Input,            \* request bodies of Create and Update
    Requests,         \* request goroutines
    MaxMonitors,      \* bound on the ids that the database hands out
    MaxInt4,          \* the largest INT of the database, really 2^31 - 1
    None              \* no row, no value

Id == 1..MaxMonitors
Users == {caller.user : caller \in Caller}
Types == {"http", "tcp"}

Int4 == (-MaxInt4 - 1)..MaxInt4

\* A row of the table monitors, its name and its URL aside.
Row == [user : Users, type : Types, interval : Int4, timeout : Int4, expected : Int4,
        active : BOOLEAN]

ASSUME MonitorAssumption ==
    /\ IsFiniteSet(Requests) /\ MaxMonitors \in Nat
    /\ MaxInt4 \in Nat /\ MaxInt4 >= 86400
    /\ \A in \in Input : /\ in.interval \in Int /\ in.timeout \in Int
                         /\ in.expected \in Int /\ in.active \in BOOLEAN
                         /\ in.nul \in BOOLEAN
    /\ None \notin Row \cup Int \cup Input

VARIABLES
    monitors,         \* database: the rows, None before INSERT and after DELETE
    checks,           \* database: the rows of checks
    nextId,           \* the sequence of monitors.id
    req,              \* the requests: next statement, locals and response
    left              \* bounds: the requests and the checks that are still to come

tables == <<monitors, checks, nextId>>

Idle == [at |-> "idle", op |-> None, by |-> None, id |-> None, in |-> None,
         row |-> None, status |-> None, dbFailed |-> FALSE]

At(r, op, at) == req[r].op = op /\ req[r].at = at

Respond(r, status) ==
    req' = [req EXCEPT ![r].at = "reply", ![r].status = status]

handleError(err) ==
    CASE err \in {"ErrNotFound", "ErrForbidden"} -> 404
      [] err = "invalid" -> 400
      [] OTHER -> 500

Fail(r) ==
    req' = [req EXCEPT ![r].at = "reply", ![r].status = 500, ![r].dbFailed = TRUE]

-----------------------------------------------------------------------------
(* What is accepted: package validation, and the CHECKs of the table.      *)

ValidateName(name) == name \in 1..100

ValidateURL(url) == url.scheme \in {"http", "https"} /\ url.host # ""

\* A fault that CleanRejections excludes: one second less than the table wants.
ValidateIntervalLow(interval) == 9 <= interval /\ interval <= 86400

ValidateInterval(interval) == 10 <= interval /\ interval <= 86400

ValidateTimeout(timeout, interval) == timeout \in 1..60 /\ timeout < interval

validateMonitorInput(in) ==
    /\ ValidateName(in.name) /\ ValidateURL(in.url)
    /\ ValidateInterval(in.interval) /\ ValidateTimeout(in.timeout, in.interval)

\* The parameters of a statement that writes row, and the name and the URL of in: pgx
\* encodes an int as an INT or gives up, and PostgreSQL refuses a NUL in a TEXT.
Encodable(row, in) ==
    row.interval \in Int4 /\ row.timeout \in Int4 /\ row.expected \in Int4 /\ ~in.nul

\* The CHECKs of the table monitors.
Constraint(row) == row.type \in Types /\ row.interval >= 10 /\ row.timeout >= 1

\* A fault that OnlyOwnersChange excludes: an operator may touch every monitor.
authorizeOperators(row, caller) == caller.role \in {"admin", "operator"}

authorizeOwnership(row, caller) == caller.role = "admin" \/ row.user = caller.user

-----------------------------------------------------------------------------
Arrive(r) ==
    /\ req[r] = Idle /\ left.requests > 0
    /\ left' = [left EXCEPT !.requests = @ - 1]
    /\ \E caller \in Caller, op \in {"create", "get", "update", "delete"},
          id \in Id \cup {None}, in \in Input \cup {None} :
          /\ (id = None) = (op = "create")
          /\ (in = None) = (op \in {"get", "delete"})
          /\ req' = [req EXCEPT ![r] = [Idle EXCEPT !.at = "begin", !.by = caller,
                                                    !.op = op, !.id = id, !.in = in]]
    /\ UNCHANGED tables

\* RequireRole in front of the writes: 403.
RequireRole(r) ==
    /\ req[r].at = "begin" /\ req[r].op # "get" /\ req[r].by.role = "viewer"
    /\ Respond(r, 403)
    /\ UNCHANGED <<tables, left>>

Admitted(r, op) == At(r, op, "begin") /\ (op = "get" \/ req[r].by.role # "viewer")

\* Create: the row, with its defaults.
NewRow(r) ==
    LET in == req[r].in
    IN  [user |-> req[r].by.user,
         type |-> IF in.type = "" THEN "http" ELSE in.type,
         interval |-> in.interval, timeout |-> in.timeout,
         expected |-> IF in.expected = 0 THEN 200 ELSE in.expected,
         active |-> TRUE]

CreateRejects(r) ==
    /\ Admitted(r, "create")
    /\ ~validateMonitorInput(req[r].in) \/ NewRow(r).type \notin Types
    /\ Respond(r, handleError("invalid"))
    /\ UNCHANGED <<tables, left>>

Create(r) ==
    /\ Admitted(r, "create")
    /\ validateMonitorInput(req[r].in) /\ NewRow(r).type \in Types
    /\ IF Encodable(NewRow(r), req[r].in) /\ Constraint(NewRow(r))
       THEN /\ nextId \in Id
            /\ monitors' = [monitors EXCEPT ![nextId] = NewRow(r)]
            /\ nextId' = nextId + 1
            /\ Respond(r, 201) \/ Fail(r)
            /\ UNCHANGED <<checks, left>>
       ELSE Respond(r, handleError("postgres")) /\ UNCHANGED <<tables, left>>

\* GetByID and authorizeOwnership, for Get, Update and Delete: 404 for a monitor
\* that is not there and for one that is somebody else's.
Load(r) ==
    LET row == monitors[req[r].id]
    IN  /\ Admitted(r, req[r].op) /\ req[r].op # "create"
        /\ CASE row = None -> Respond(r, handleError("ErrNotFound"))
             [] row # None /\ ~authorizeOwnership(row, req[r].by) ->
                    Respond(r, handleError("ErrForbidden"))
             [] OTHER ->
                    \/ req[r].op = "get" /\ Respond(r, 200)
                    \/ /\ req[r].op = "update" /\ ~validateMonitorInput(req[r].in)
                       /\ Respond(r, handleError("invalid"))
                    \/ /\ \/ req[r].op = "delete"
                          \/ req[r].op = "update" /\ validateMonitorInput(req[r].in)
                       /\ req' = [req EXCEPT ![r].at = "write", ![r].row = row]
        /\ UNCHANGED <<tables, left>>

\* A write has taken effect; its answer may be lost.
Written(r, status) == Respond(r, status) \/ Fail(r)

\* A fault that RowsStayValid excludes: an UPDATE of the columns that change.
EditedInPart(r) ==
    LET in == req[r].in
        loaded == req[r].row
        stored == monitors[req[r].id]
    IN  [IF stored = None THEN loaded ELSE stored EXCEPT
            !.interval = IF in.interval = loaded.interval THEN @ ELSE in.interval,
            !.timeout = IF in.timeout = loaded.timeout THEN @ ELSE in.timeout,
            !.active = IF in.active = loaded.active THEN @ ELSE in.active]

\* Update: the monitor in memory, the row as loaded and edited; a type or a code that
\* is not given stays.
Edited(r) ==
    LET in == req[r].in
    IN  [req[r].row EXCEPT
            !.type = IF in.type = "" THEN @ ELSE in.type,
            !.interval = in.interval, !.timeout = in.timeout,
            !.expected = IF in.expected = 0 THEN @ ELSE in.expected,
            !.active = in.active]

\* A fault that DeletedStaysDeleted excludes: an upsert.
UpdateUpserts(r) ==
    /\ At(r, "update", "write")
    /\ Encodable(Edited(r), req[r].in) /\ Constraint(Edited(r))
    /\ monitors' = [monitors EXCEPT ![req[r].id] = Edited(r)]
    /\ Written(r, 200)
    /\ UNCHANGED <<checks, nextId, left>>

\* monitors.Update writes every column: 500 if its parameters cannot be encoded, which
\* comes before any row is looked for; 404 if the row has gone, 500 if a CHECK rejects it.
Update(r) ==
    LET encoded == Encodable(Edited(r), req[r].in)
        gone == monitors[req[r].id] = None
        accepted == encoded /\ ~gone /\ Constraint(Edited(r))
    IN  /\ At(r, "update", "write")
        /\ \/ /\ accepted /\ Written(r, 200)
              /\ monitors' = [monitors EXCEPT ![req[r].id] = Edited(r)]
           \/ /\ ~accepted /\ UNCHANGED monitors
              /\ Respond(r, handleError(IF encoded /\ gone THEN "ErrNotFound"
                                                          ELSE "postgres"))
        /\ UNCHANGED <<checks, nextId, left>>

\* monitors.Delete, and the rows that go with it (ON DELETE CASCADE).
Delete(r) ==
    /\ At(r, "delete", "write")
    /\ monitors' = [monitors EXCEPT ![req[r].id] = None]
    /\ checks' = {c \in checks : c.monitor # req[r].id}
    /\ IF monitors[req[r].id] = None THEN Respond(r, handleError("ErrNotFound"))
                                     ELSE Written(r, 204)
    /\ UNCHANGED <<nextId, left>>

CallFails(r) ==
    /\ req[r].at \in {"begin", "write"}
    /\ Fail(r)
    /\ UNCHANGED <<tables, left>>

Done(r) ==
    /\ req[r].at = "reply"
    /\ req' = [req EXCEPT ![r] = Idle]
    /\ UNCHANGED <<tables, left>>

Handle(r) ==
    \/ Arrive(r) \/ RequireRole(r) \/ CreateRejects(r) \/ Create(r)
    \/ Load(r) \/ Update(r) \/ Delete(r) \/ CallFails(r) \/ Done(r)

-----------------------------------------------------------------------------
(* Properties.                                                             *)

\* The table never holds an interval and a timeout that do not go together, though
\* they are validated in one statement's past and the table has no CHECK for it: two
\* updates at once leave the row of one of them, never a mixture (monitor_service.go:179-207).
RowsStayValid ==
    \A id \in Id : monitors[id] # None =>
        /\ ValidateInterval(monitors[id].interval)
        /\ ValidateTimeout(monitors[id].timeout, monitors[id].interval)

\* An update that has loaded a monitor before it was deleted does not bring it back,
\* nor does anything else (monitor_service.go:180, 203).
DeletedStaysDeleted ==
    [][\A id \in Id : id < nextId /\ monitors[id] = None => monitors'[id] = None]_monitors

\* A monitor is changed and deleted by a request of its owner or of an admin, never by
\* a viewer's, and it keeps its owner: the ownership is that of the row as it was
\* loaded, the write comes a statement later (monitor_service.go:180-203, 210-217).
OnlyOwnersChange ==
    [][\A id \in Id : monitors[id] # None /\ monitors'[id] # monitors[id] =>
           /\ monitors'[id] # None => monitors'[id].user = monitors[id].user
           /\ \E r \in Requests :
                  /\ req[r].at = "write" /\ req[r].id = id /\ req'[r].at = "reply"
                  /\ req[r].by.role # "viewer"
                  /\ req[r].by.role = "admin" \/ req[r].by.user = monitors[id].user]_monitors

\* The validators "mirror the CHECK constraints" so that nobody is answered by
\* "a raw Postgres constraint-violation error" (validation.go:60-66): a 500 that no
\* failure of the database explains is never due to the interval or to the timeout.  It
\* comes from what no validator looks at: a type in an update, an expected status code
\* that is no INT, a NUL.
CleanRejections ==
    \A r \in Requests :
        LET q == req[r]
        IN  q.status = 500 /\ ~q.dbFailed =>
                \/ q.op = "update" /\ q.in.type \notin Types \cup {""}
                \/ q.op \in {"create", "update"} /\ (q.in.expected \notin Int4 \/ q.in.nul)
=============================================================================
