--------------------------- MODULE DashboardProofs ---------------------------
(***************************************************************************)
(* Proofs about Dashboard and the MonitorService in it, for every number   *)
(* of monitors, requests and checks, and all bodies that requests send.    *)
(***************************************************************************)
EXTENDS Dashboard, FiniteSetTheorems, TLAPS

\* What is stored of a monitor is a row of its type whose interval and timeout go
\* together.
ValidRow(row) ==
    /\ row \in Row /\ Constraint(row)
    /\ ValidateInterval(row.interval) /\ ValidateTimeout(row.timeout, row.interval)

RowsInv ==
    /\ monitors \in [Id -> Row \cup {None}]
    /\ nextId \in Nat
    /\ \A id \in Id : monitors[id] # None => ValidRow(monitors[id]) /\ id < nextId

Ops == {"create", "get", "update", "delete"}

Locals == [at : {"idle", "begin", "write", "reply"}, op : Ops \cup {None},
           by : Caller \cup {None}, id : Id \cup {None}, in : Input \cup {None},
           row : Row \cup {None}, status : Int \cup {None}, dbFailed : BOOLEAN]

\* What a request knows: a body that Update has validated, and the row it has loaded.
Knows(q) ==
    /\ q.at \in {"begin", "write"} =>
          /\ q.op \in Ops /\ q.by \in Caller
          /\ q.op # "create" => q.id \in Id
          /\ q.op \in {"create", "update"} => q.in \in Input
    /\ q.at = "write" /\ q.op = "update" =>
          validateMonitorInput(q.in) /\ q.row \in Row

\* What is handed on to the database without being looked at.
Unseen(q) ==
    \/ q.op = "update" /\ q.in.type \notin Types \cup {""}
    \/ q.op \in {"create", "update"} /\ (q.in.expected \notin Int4 \/ q.in.nul)

CleanAnswer(q) == q.status = 500 /\ ~q.dbFailed => Unseen(q)

RequestsInv ==
    /\ req \in [Requests -> Locals]
    /\ \A r \in Requests : Knows(req[r]) /\ CleanAnswer(req[r])

MonitorInv == RowsInv /\ RequestsInv

\* No value is None.
LEMMA NoneIsNothing ==
    /\ \A row \in Row : row # None
    /\ \A n \in Int : n # None
    /\ \A in \in Input : in # None
BY MonitorAssumption

-----------------------------------------------------------------------------
(* Rows.                                                                   *)

\* A number of seconds that validation lets through fits in an INT.
LEMMA SmallNumbers ==
    /\ 0 \in Int4 /\ 200 \in Int4
    /\ \A n \in Int : 1 <= n /\ n <= 86400 => n \in Int4
BY MonitorAssumption DEF Int4

\* A body that was validated holds numbers in their ranges.
LEMMA Validated ==
    ASSUME NEW in \in Input, validateMonitorInput(in)
    PROVE  /\ ValidateInterval(in.interval) /\ ValidateTimeout(in.timeout, in.interval)
           /\ in.interval >= 10 /\ in.timeout >= 1
           /\ in.interval \in Int4 /\ in.timeout \in Int4
<1>1. in.interval \in Int /\ in.timeout \in Int
  BY MonitorAssumption
<1>2. /\ ValidateInterval(in.interval) /\ ValidateTimeout(in.timeout, in.interval)
      /\ 10 <= in.interval /\ in.interval <= 86400 /\ 1 <= in.timeout /\ in.timeout <= 86400
  BY <1>1 DEF validateMonitorInput, ValidateInterval, ValidateTimeout
<1>3. QED
  BY <1>1, <1>2, SmallNumbers

\* A new row that can be sent satisfies the CHECKs of the table, and nothing that was
\* validated keeps it from being sent.
LEMMA NewRowParts ==
    ASSUME NEW r \in Requests, req[r].by \in Caller, req[r].in \in Input,
           validateMonitorInput(req[r].in), NewRow(r).type \in Types
    PROVE  /\ Constraint(NewRow(r))
           /\ Encodable(NewRow(r), req[r].in) => ValidRow(NewRow(r))
           /\ ~Encodable(NewRow(r), req[r].in) =>
                  req[r].in.expected \notin Int4 \/ req[r].in.nul
<1> DEFINE in == req[r].in
           type == IF in.type = "" THEN "http" ELSE in.type
           expected == IF in.expected = 0 THEN 200 ELSE in.expected
<1>1. in.expected \in Int /\ in.nul \in BOOLEAN /\ req[r].by.user \in Users
  BY MonitorAssumption DEF Users
<1>2. ValidateInterval(in.interval) /\ ValidateTimeout(in.timeout, in.interval)
      /\ in.interval >= 10 /\ in.timeout >= 1 /\ in.interval \in Int4 /\ in.timeout \in Int4
  BY Validated
<1>3. NewRow(r) = [user |-> req[r].by.user, type |-> type, interval |-> in.interval,
                   timeout |-> in.timeout, expected |-> expected, active |-> TRUE]
  BY DEF NewRow
<1>4. in.expected \in Int4 => expected \in Int4
  BY SmallNumbers
<1> HIDE DEF type, expected, in
<1>5. /\ NewRow(r).type = type /\ NewRow(r).interval = in.interval
      /\ NewRow(r).timeout = in.timeout /\ NewRow(r).expected = expected
      /\ type \in Types
  BY <1>3
<1>6. Constraint(NewRow(r))
  BY <1>2, <1>5 DEF Constraint
<1>7. ASSUME Encodable(NewRow(r), in) PROVE ValidRow(NewRow(r))
  <2>1. expected \in Int4
    BY <1>5, <1>7 DEF Encodable
  <2>2. NewRow(r) \in Row
    BY <1>1, <1>2, <1>3, <1>5, <2>1 DEF Row
  <2>3. QED
    BY <1>2, <1>5, <1>6, <2>2 DEF ValidRow
<1>8. ASSUME ~Encodable(NewRow(r), in) PROVE in.expected \notin Int4 \/ in.nul
  BY <1>2, <1>4, <1>5, <1>8 DEF Encodable
<1>9. QED
  BY <1>6, <1>7, <1>8 DEF in

\* A row written back is one that was validated, and belongs to whom it belonged to.
LEMMA EditedParts ==
    ASSUME NEW r \in Requests, req[r].in \in Input, req[r].row \in Row,
           validateMonitorInput(req[r].in)
    PROVE  /\ Edited(r).interval = req[r].in.interval
           /\ Edited(r).timeout = req[r].in.timeout
           /\ Edited(r).type = IF req[r].in.type = "" THEN req[r].row.type ELSE req[r].in.type
           /\ Edited(r).expected = IF req[r].in.expected = 0 THEN req[r].row.expected
                                                             ELSE req[r].in.expected
           /\ Edited(r).type \in Types => Constraint(Edited(r))
           /\ Edited(r).type \in Types /\ Edited(r).expected \in Int4 => Edited(r) \in Row
<1>1. req[r].in.active \in BOOLEAN
  BY MonitorAssumption
<1>2. /\ req[r].in.interval >= 10 /\ req[r].in.timeout >= 1
      /\ req[r].in.interval \in Int4 /\ req[r].in.timeout \in Int4
  BY Validated
<1>3. /\ Edited(r).interval = req[r].in.interval
      /\ Edited(r).timeout = req[r].in.timeout
      /\ Edited(r).type = IF req[r].in.type = "" THEN req[r].row.type ELSE req[r].in.type
      /\ Edited(r).expected = IF req[r].in.expected = 0 THEN req[r].row.expected
                                                        ELSE req[r].in.expected
  BY DEF Edited, Row
<1>4. Edited(r).type \in Types /\ Edited(r).expected \in Int4 => Edited(r) \in Row
  BY <1>1, <1>2 DEF Edited, Row
<1>5. QED
  BY <1>2, <1>3, <1>4 DEF Constraint

LEMMA EditedValid ==
    ASSUME NEW r \in Requests, req[r].in \in Input, req[r].row \in Row,
           validateMonitorInput(req[r].in), Constraint(Edited(r)),
           Encodable(Edited(r), req[r].in)
    PROVE  ValidRow(Edited(r))
BY EditedParts, Validated DEF ValidRow, Constraint, Encodable

\* The database can reject an edited row for what was not looked at only.
LEMMA Rejected ==
    ASSUME NEW r \in Requests, req[r].in \in Input, req[r].row \in Row,
           validateMonitorInput(req[r].in),
           ~(Encodable(Edited(r), req[r].in) /\ Constraint(Edited(r)))
    PROVE  \/ req[r].in.type \notin Types \cup {""}
           \/ req[r].in.expected \notin Int4
           \/ req[r].in.nul
<1>1. req[r].row.type \in Types /\ req[r].row.expected \in Int4
  BY DEF Row
<1>2. req[r].in.interval \in Int4 /\ req[r].in.timeout \in Int4
  BY Validated
<1>3. CASE ~Constraint(Edited(r))
  BY <1>1, <1>3, EditedParts
<1>4. CASE ~Encodable(Edited(r), req[r].in)
  BY <1>1, <1>2, <1>4, EditedParts DEF Encodable
<1>5. QED
  BY <1>3, <1>4

-----------------------------------------------------------------------------
(* Requests.                                                               *)

\* An answer ends a request; what it asked for stays, and so do the others.
LEMMA Responded ==
    ASSUME req \in [Requests -> Locals], NEW r \in Requests, NEW s \in Int, Respond(r, s)
    PROVE  /\ req' \in [Requests -> Locals]
           /\ req'[r].at = "reply" /\ req'[r].status = s
           /\ req'[r].op = req[r].op /\ req'[r].in = req[r].in
           /\ \A q \in Requests : q # r => req'[q] = req[q]
<1> DEFINE new == [req[r] EXCEPT !.at = "reply", !.status = s]
<1>1. req[r] \in Locals
  OBVIOUS
<1>2. new \in Locals /\ new.at = "reply" /\ new.status = s
      /\ new.op = req[r].op /\ new.in = req[r].in
  BY <1>1 DEF Locals
<1>3. req' = [req EXCEPT ![r] = new]
  BY DEF Respond
<1> HIDE DEF new
<1>4. QED
  BY <1>2, <1>3

LEMMA Failed ==
    ASSUME req \in [Requests -> Locals], NEW r \in Requests, Fail(r)
    PROVE  /\ req' \in [Requests -> Locals]
           /\ req'[r].at = "reply" /\ req'[r].dbFailed
           /\ \A q \in Requests : q # r => req'[q] = req[q]
<1> DEFINE new == [req[r] EXCEPT !.at = "reply", !.status = 500, !.dbFailed = TRUE]
<1>1. req[r] \in Locals
  OBVIOUS
<1>2. new \in Locals
  <2>1. PICK b \in BOOLEAN : b = TRUE
    OBVIOUS
  <2>2. PICK s \in Int : s = 500
    OBVIOUS
  <2>3. [req[r] EXCEPT !.at = "reply", !.status = s, !.dbFailed = b] \in Locals
    BY <1>1 DEF Locals
  <2>4. QED
    BY <2>1, <2>2, <2>3
<1>3. new.at = "reply"
  BY <1>1 DEF Locals
<1>4. new.dbFailed
  BY <1>1 DEF Locals
<1>5. req' = [req EXCEPT ![r] = new]
  BY DEF Fail
<1> HIDE DEF new
<1>6. req'[r] = new /\ \A q \in Requests : q # r => req'[q] = req[q]
  BY <1>5
<1>7. QED
  BY <1>2, <1>3, <1>4, <1>5, <1>6

\* A request that has been answered, not with a 500 or with one for what was not looked
\* at, or that the database has failed, knows nothing more.
LEMMA AnswerKept ==
    ASSUME RequestsInv, NEW r \in Requests, NEW s \in Int, Respond(r, s),
           s = 500 => Unseen(req[r])
    PROVE  RequestsInv'
<1>1. /\ req' \in [Requests -> Locals]
      /\ req'[r].at = "reply" /\ req'[r].status = s
      /\ req'[r].op = req[r].op /\ req'[r].in = req[r].in
      /\ \A q \in Requests : q # r => req'[q] = req[q]
  BY Responded DEF RequestsInv
<1>2. Knows(req'[r])
  BY <1>1 DEF Knows
<1>3. CleanAnswer(req'[r])
  BY <1>1 DEF CleanAnswer, Unseen
<1>4. QED
  BY <1>1, <1>2, <1>3 DEF RequestsInv

LEMMA PlainAnswer ==
    ASSUME RequestsInv, NEW r \in Requests,
           \E s \in {200, 201, 204, 400, 403, 404} : Respond(r, s)
    PROVE  RequestsInv'
<1>1. PICK s \in {200, 201, 204, 400, 403, 404} : Respond(r, s)
  OBVIOUS
<1>2. s \in Int /\ s # 500
  OBVIOUS
<1>3. QED
  BY <1>1, <1>2, AnswerKept

LEMMA FailKept ==
    ASSUME RequestsInv, NEW r \in Requests, Fail(r)
    PROVE  RequestsInv'
<1>1. /\ req' \in [Requests -> Locals]
      /\ req'[r].at = "reply" /\ req'[r].dbFailed
      /\ \A q \in Requests : q # r => req'[q] = req[q]
  BY Failed DEF RequestsInv
<1>2. Knows(req'[r]) /\ CleanAnswer(req'[r])
  BY <1>1 DEF Knows, CleanAnswer
<1>3. QED
  BY <1>1, <1>2 DEF RequestsInv

LEMMA ErrorCodes ==
    /\ handleError("ErrNotFound") = 404 /\ handleError("ErrForbidden") = 404
    /\ handleError("invalid") = 400 /\ handleError("postgres") = 500
BY DEF handleError

\* Replacing one request by one that is as it should be.
LEMMA RequestKept ==
    ASSUME RequestsInv, NEW r \in Requests, NEW new \in Locals,
           req' = [req EXCEPT ![r] = new], Knows(new), CleanAnswer(new)
    PROVE  RequestsInv'
BY DEF RequestsInv

LEMMA IdleKnows == Idle \in Locals /\ Knows(Idle) /\ CleanAnswer(Idle)
<1>1. Idle.at = "idle" /\ Idle.status # 500
  BY NoneIsNothing DEF Idle
<1>2. Idle \in Locals
  BY DEF Idle, Locals
<1>3. QED
  BY <1>1, <1>2 DEF Knows, CleanAnswer

LEMMA ArriveKept == ASSUME RequestsInv, NEW r \in Requests, Arrive(r) PROVE RequestsInv'
<1>1. PICK caller \in Caller, op \in Ops, id \in Id \cup {None}, in \in Input \cup {None} :
        /\ (id = None) = (op = "create")
        /\ (in = None) = (op \in {"get", "delete"})
        /\ req' = [req EXCEPT ![r] = [Idle EXCEPT !.at = "begin", !.by = caller,
                                                  !.op = op, !.id = id, !.in = in]]
  BY DEF Arrive, Ops
<1> DEFINE new == [Idle EXCEPT !.at = "begin", !.by = caller, !.op = op, !.id = id,
                               !.in = in]
<1>2. /\ new.at = "begin" /\ new.by = caller /\ new.op = op /\ new.id = id
      /\ new.in = in /\ new.status = None
  BY DEF Idle
<1>3. new \in Locals
  BY DEF Idle, Locals
<1>4. req' = [req EXCEPT ![r] = new]
  BY <1>1
<1> HIDE DEF new
<1>5. op # "create" => id \in Id
  BY <1>1
<1>6. op \in {"create", "update"} => in \in Input
  BY <1>1
<1>7. Knows(new)
  BY <1>2, <1>5, <1>6 DEF Knows
<1>8. CleanAnswer(new)
  <2>1. new.status # 500
    BY <1>2, NoneIsNothing
  <2>2. QED
    BY <2>1 DEF CleanAnswer
<1>9. QED
  BY <1>3, <1>4, <1>7, <1>8, RequestKept

\* A request at the start of its work.
LEMMA Beginning ==
    ASSUME RequestsInv, NEW r \in Requests, req[r].at \in {"begin", "write"}
    PROVE  /\ req[r].op \in Ops /\ req[r].by \in Caller
           /\ req[r].op # "create" => req[r].id \in Id
           /\ req[r].op \in {"create", "update"} => req[r].in \in Input
BY DEF RequestsInv, Knows

LEMMA LoadKept == ASSUME MonitorInv, NEW r \in Requests, Load(r) PROVE RequestsInv'
<1>1. /\ req[r].at = "begin" /\ req[r].op # "create" /\ req[r] \in Locals
  BY DEF Load, Admitted, At, MonitorInv, RequestsInv
<1>2. req[r].id \in Id /\ req[r].op \in Ops /\ req[r].by \in Caller
      /\ (req[r].op = "update" => req[r].in \in Input)
  BY <1>1, Beginning DEF MonitorInv
<1> DEFINE row == monitors[req[r].id]
<1>3. CASE \E s \in {200, 400, 404} : Respond(r, s)
  BY <1>3, PlainAnswer DEF MonitorInv
<1>4. CASE /\ row # None
           /\ req[r].op = "update" => validateMonitorInput(req[r].in)
           /\ req' = [req EXCEPT ![r].at = "write", ![r].row = row]
  <2> DEFINE new == [req[r] EXCEPT !.at = "write", !.row = row]
  <2>1. row \in Row
    BY <1>2, <1>4 DEF MonitorInv, RowsInv
  <2>2. /\ new.at = "write" /\ new.row = row /\ new.op = req[r].op /\ new.by = req[r].by
        /\ new.id = req[r].id /\ new.in = req[r].in /\ new.status = req[r].status
        /\ new.dbFailed = req[r].dbFailed /\ new \in Locals
    BY <1>1, <2>1 DEF Locals
  <2>3. req' = [req EXCEPT ![r] = new]
    BY <1>4
  <2> HIDE DEF new, row
  <2>4. Knows(new)
    <3>1. new.op = "update" => validateMonitorInput(new.in)
      BY <1>4, <2>2
    <3>2. QED
      BY <1>1, <1>2, <2>1, <2>2, <3>1 DEF Knows
  <2>5. CleanAnswer(new)
    <3>1. CleanAnswer(req[r])
      BY DEF MonitorInv, RequestsInv
    <3>2. QED
      BY <2>2, <3>1 DEF CleanAnswer, Unseen
  <2>6. QED
    BY <2>2, <2>3, <2>4, <2>5, RequestKept DEF MonitorInv
<1>5. QED
  BY <1>3, <1>4, ErrorCodes DEF Load

\* Every step of a request.
LEMMA RequestsStep == ASSUME MonitorInv, NEW r \in Requests, Handle(r) PROVE RequestsInv'
<1> USE DEF MonitorInv
<1>1. CASE Arrive(r)
  BY <1>1, ArriveKept
<1>2. CASE RequireRole(r)
  BY <1>2, PlainAnswer DEF RequireRole
<1>3. CASE CreateRejects(r)
  BY <1>3, PlainAnswer, ErrorCodes DEF CreateRejects
<1>4. CASE Create(r)
  <2>1. req[r].at = "begin" /\ req[r].op = "create"
    BY <1>4 DEF Create, Admitted, At
  <2>2. \/ Respond(r, 201) \/ Fail(r)
        \/ Unseen(req[r]) /\ Respond(r, 500)
    <3>1. /\ Constraint(NewRow(r))
          /\ ~Encodable(NewRow(r), req[r].in) => Unseen(req[r])
      BY <1>4, <2>1, Beginning, NewRowParts DEF Create, Unseen
    <3>2. QED
      BY <1>4, <3>1, ErrorCodes DEF Create
  <2>3. QED
    BY <2>2, PlainAnswer, FailKept, AnswerKept
<1>5. CASE Load(r)
  BY <1>5, LoadKept
<1>6. CASE Update(r)
  <2>1. req[r].at = "write" /\ req[r].op = "update"
    BY <1>6 DEF Update, At
  <2>2. req[r].in \in Input /\ validateMonitorInput(req[r].in) /\ req[r].row \in Row
    BY <2>1, Beginning DEF RequestsInv, Knows
  <2>3. \/ Respond(r, 404) \/ Respond(r, 200) \/ Fail(r)
        \/ Unseen(req[r]) /\ Respond(r, 500)
    <3>1. ~(Encodable(Edited(r), req[r].in) /\ Constraint(Edited(r))) => Unseen(req[r])
      BY <2>1, <2>2, Rejected DEF Unseen
    <3>2. QED
      BY <1>6, <3>1, ErrorCodes DEF Update, Written
  <2>4. QED
    BY <2>3, PlainAnswer, FailKept, AnswerKept
<1>7. CASE Delete(r)
  BY <1>7, PlainAnswer, FailKept, ErrorCodes DEF Delete, Written
<1>8. CASE CallFails(r)
  BY <1>8, FailKept DEF CallFails
<1>9. CASE Done(r)
  BY <1>9, RequestKept, IdleKnows DEF Done
<1>10. QED
  BY <1>1, <1>2, <1>3, <1>4, <1>5, <1>6, <1>7, <1>8, <1>9 DEF Handle

-----------------------------------------------------------------------------
(* What a request does to the tables: it inserts the next monitor, edits   *)
(* one that is there, or deletes one with its checks.                      *)

Inserts ==
    /\ nextId \in Id /\ nextId' = nextId + 1 /\ UNCHANGED checks
    /\ \E row : ValidRow(row) /\ monitors' = [monitors EXCEPT ![nextId] = row]

Edits(id) ==
    /\ monitors[id] # None /\ UNCHANGED <<nextId, checks>>
    /\ \E row : ValidRow(row) /\ monitors' = [monitors EXCEPT ![id] = row]

Deletes(id) ==
    /\ UNCHANGED nextId /\ checks' = {c \in checks : c.monitor # id}
    /\ monitors' = [monitors EXCEPT ![id] = None]

LEMMA TablesMove ==
    ASSUME MonitorInv, NEW r \in Requests, Handle(r)
    PROVE  \/ UNCHANGED tables
           \/ Inserts
           \/ \E id \in Id : Edits(id) \/ Deletes(id)
<1>1. CASE Create(r)
  <2>1. /\ req[r].at = "begin" /\ req[r].op = "create"
        /\ validateMonitorInput(req[r].in) /\ NewRow(r).type \in Types
    BY <1>1 DEF Create, Admitted, At
  <2>2. Encodable(NewRow(r), req[r].in) => ValidRow(NewRow(r))
    BY <2>1, Beginning, NewRowParts DEF MonitorInv
  <2>3. UNCHANGED tables \/ Inserts
    BY <1>1, <2>2 DEF Create, Inserts, tables
  <2>4. QED
    BY <2>3
<1>2. CASE Update(r)
  <2>1. req[r].at = "write" /\ req[r].op = "update"
    BY <1>2 DEF Update, At
  <2>2. /\ req[r].in \in Input /\ validateMonitorInput(req[r].in) /\ req[r].row \in Row
        /\ req[r].id \in Id
    BY <2>1, Beginning DEF MonitorInv, RequestsInv, Knows
  <2>3. Encodable(Edited(r), req[r].in) /\ Constraint(Edited(r)) => ValidRow(Edited(r))
    BY <2>2, EditedValid
  <2>4. \/ UNCHANGED tables
        \/ /\ monitors[req[r].id] # None
           /\ Encodable(Edited(r), req[r].in) /\ Constraint(Edited(r))
           /\ monitors' = [monitors EXCEPT ![req[r].id] = Edited(r)]
           /\ UNCHANGED <<nextId, checks>>
    BY <1>2 DEF Update, tables
  <2>5. QED
    BY <2>2, <2>3, <2>4 DEF Edits
<1>3. CASE Delete(r)
  <2>1. req[r].at = "write" /\ req[r].op = "delete"
    BY <1>3 DEF Delete, At
  <2>2. req[r].id \in Id
    BY <2>1, Beginning DEF MonitorInv
  <2>3. Deletes(req[r].id)
    BY <1>3 DEF Delete, Deletes
  <2>4. QED
    BY <2>2, <2>3
<1>4. CASE \/ Arrive(r) \/ RequireRole(r) \/ CreateRejects(r) \/ Load(r)
           \/ CallFails(r) \/ Done(r)
  BY <1>4 DEF Arrive, RequireRole, CreateRejects, Load, CallFails, Done
<1>5. QED
  BY <1>1, <1>2, <1>3, <1>4 DEF Handle

\* What the tables hold is true of them after each of these.
LEMMA RowsKept ==
    ASSUME RowsInv,
           \/ UNCHANGED <<monitors, nextId>>
           \/ Inserts
           \/ \E id \in Id : Edits(id) \/ Deletes(id)
    PROVE  RowsInv'
<1> USE DEF RowsInv
<1>n. \A id \in Id : id \in Nat
  BY MonitorAssumption DEF Id
<1>1. CASE UNCHANGED <<monitors, nextId>>
  BY <1>1
<1>2. CASE Inserts
  <2>1. PICK row : ValidRow(row) /\ monitors' = [monitors EXCEPT ![nextId] = row]
    BY <1>2 DEF Inserts
  <2>2. row \in Row /\ nextId \in Id /\ nextId' = nextId + 1 /\ nextId' \in Nat
    BY <1>2, <2>1 DEF Inserts, ValidRow
  <2>3. /\ monitors' \in [Id -> Row \cup {None}] /\ monitors'[nextId] = row
        /\ \A id \in Id : id # nextId => monitors'[id] = monitors[id]
    BY <2>1, <2>2
  <2>4. \A id \in Id : monitors'[id] # None => ValidRow(monitors'[id]) /\ id < nextId'
    BY <1>n, <2>1, <2>2, <2>3
  <2>5. QED
    BY <2>2, <2>3, <2>4
<1>3. ASSUME NEW id \in Id, Edits(id) PROVE RowsInv'
  <2>1. PICK row : ValidRow(row) /\ monitors' = [monitors EXCEPT ![id] = row]
    BY <1>3 DEF Edits
  <2>2. row \in Row /\ nextId' = nextId /\ monitors[id] # None
    BY <1>3, <2>1 DEF Edits, ValidRow
  <2>3. /\ monitors' \in [Id -> Row \cup {None}] /\ monitors'[id] = row
        /\ \A i \in Id : i # id => monitors'[i] = monitors[i]
    BY <2>1, <2>2
  <2>4. QED
    BY <2>1, <2>2, <2>3
<1>4. ASSUME NEW id \in Id, Deletes(id) PROVE RowsInv'
  <2>1. /\ monitors' \in [Id -> Row \cup {None}] /\ monitors'[id] = None
        /\ \A i \in Id : i # id => monitors'[i] = monitors[i]
        /\ nextId' = nextId
    BY <1>4 DEF Deletes
  <2>2. QED
    BY <2>1
<1>5. QED
  BY <1>1, <1>2, <1>3, <1>4

\* None of them brings a monitor back.
LEMMA NoneComesBack ==
    ASSUME RowsInv,
           \/ UNCHANGED <<monitors, nextId>>
           \/ Inserts
           \/ \E id \in Id : Edits(id) \/ Deletes(id),
           NEW n \in Id, n < nextId, monitors[n] = None
    PROVE  monitors'[n] = None
<1>1. CASE UNCHANGED monitors
  BY <1>1
<1>2. CASE Inserts
  <2>1. n # nextId
    BY DEF RowsInv
  <2>2. QED
    BY <1>2, <2>1 DEF Inserts, RowsInv
<1>3. ASSUME NEW id \in Id, Edits(id) \/ Deletes(id) PROVE monitors'[n] = None
  BY <1>3 DEF Edits, Deletes, RowsInv
<1>4. QED
  BY <1>1, <1>2, <1>3

-----------------------------------------------------------------------------
(* Checks: finitely many, of monitors that are there, and none of them     *)
(* down before the first outage.                                           *)

ChecksInv ==
    /\ IsFiniteSet(checks)
    /\ \A c \in checks : /\ c.monitor \in Id /\ monitors[c.monitor] # None
                         /\ ~outage => c.status # "down"

LEMMA ChecksKept ==
    ASSUME RowsInv, ChecksInv, UNCHANGED outage,
           \/ UNCHANGED tables
           \/ Inserts
           \/ \E id \in Id : Edits(id) \/ Deletes(id)
    PROVE  ChecksInv'
<1> USE DEF ChecksInv
<1>1. CASE UNCHANGED tables
  BY <1>1 DEF tables
<1>2. CASE Inserts
  <2>1. PICK row : ValidRow(row) /\ monitors' = [monitors EXCEPT ![nextId] = row]
    BY <1>2 DEF Inserts
  <2>2. row # None /\ nextId \in Id /\ checks' = checks
    BY <1>2, <2>1, NoneIsNothing DEF Inserts, ValidRow
  <2>3. \A id \in Id : monitors[id] # None => monitors'[id] # None
    BY <2>1, <2>2 DEF RowsInv
  <2>4. QED
    BY <2>2, <2>3
<1>3. ASSUME NEW id \in Id, Edits(id) PROVE ChecksInv'
  <2>1. PICK row : ValidRow(row) /\ monitors' = [monitors EXCEPT ![id] = row]
    BY <1>3 DEF Edits
  <2>2. row # None /\ checks' = checks
    BY <1>3, <2>1, NoneIsNothing DEF Edits, ValidRow
  <2>3. \A i \in Id : monitors[i] # None => monitors'[i] # None
    BY <2>1, <2>2 DEF RowsInv
  <2>4. QED
    BY <2>2, <2>3
<1>4. ASSUME NEW id \in Id, Deletes(id) PROVE ChecksInv'
  <2>1. checks' \subseteq checks /\ \A c \in checks' : c.monitor # id
    BY <1>4 DEF Deletes
  <2>2. IsFiniteSet(checks')
    BY <2>1, FS_Subset
  <2>3. \A i \in Id : i # id => monitors'[i] = monitors[i]
    BY <1>4 DEF Deletes, RowsInv
  <2>4. QED
    BY <2>1, <2>2, <2>3
<1>5. QED
  BY <1>1, <1>2, <1>3, <1>4

LEMMA InsertCheckKept == RowsInv /\ ChecksInv /\ InsertCheck => ChecksInv'
<1> SUFFICES ASSUME RowsInv, ChecksInv, InsertCheck PROVE ChecksInv'
  OBVIOUS
<1>1. PICK id \in Id, at \in Time, status \in Status, ms \in Millis :
        /\ monitors[id] # None
        /\ checks' = checks \cup {[monitor |-> id, at |-> at, status |-> status,
                                   ms |-> ms]}
        /\ outage' = (outage \/ status = "down")
  BY DEF InsertCheck
<1> DEFINE new == [monitor |-> id, at |-> at, status |-> status, ms |-> ms]
<1>2. new.monitor = id /\ new.status = status
  OBVIOUS
<1>3. checks' = checks \cup {new} /\ UNCHANGED monitors
  BY <1>1 DEF InsertCheck
<1> HIDE DEF new
<1>4. IsFiniteSet(checks')
  BY <1>3, FS_AddElement DEF ChecksInv
<1>5. ~outage' => ~outage /\ status # "down"
  BY <1>1
<1>6. QED
  BY <1>1, <1>2, <1>3, <1>4, <1>5 DEF ChecksInv

-----------------------------------------------------------------------------
(* The uptime of a monitor is a share of Whole, and all of it if no check  *)
(* was down.                                                               *)

LEMMA WholeType == Whole \in Nat /\ Whole > 0
BY DashboardAssumption

\* Multiplication, step by step.
LEMMA Scaled ==
    ASSUME NEW a \in Nat, NEW b \in Nat, NEW n \in Nat, a <= b
    PROVE  n * a \in Nat /\ n * b \in Nat /\ n * a <= n * b
<1>1. PICK d \in Nat : b = a + d
  <2>1. b - a \in Nat /\ b = a + (b - a)
    OBVIOUS
  <2>2. QED
    BY <2>1
<1>2. n * b = n * a + n * d /\ n * d \in Nat /\ n * a \in Nat
  BY <1>1
<1>3. QED
  BY <1>2

LEMMA Share ==
    ASSUME NEW a \in Nat, NEW b \in Nat, b > 0, a <= b
    PROVE  /\ (Whole * a) \div b \in 0..Whole
           /\ a = b => (Whole * a) \div b = Whole
<1> DEFINE q == (Whole * a) \div b
<1>1. Whole * a \in Nat /\ Whole * b \in Nat /\ Whole * a <= Whole * b
  BY WholeType, Scaled
<1>2. q \in Nat /\ b * q <= Whole * a /\ Whole * a < b * (q + 1)
  <2>1. \A n \in Nat : /\ n \div b \in Nat
                        /\ b * (n \div b) <= n /\ n < b * ((n \div b) + 1)
    OBVIOUS
  <2>2. QED
    BY <1>1, <2>1
<1> HIDE DEF q
<1>3. q <= Whole
  <2> SUFFICES ASSUME Whole + 1 <= q PROVE FALSE
    BY <1>2, WholeType
  <2>1. b * (Whole + 1) <= b * q
    BY <1>2, WholeType, Scaled
  <2>2. b * (Whole + 1) = Whole * b + b
    BY WholeType
  <2>3. QED
    BY <1>1, <1>2, <2>1, <2>2
<1>4. a = b => q = Whole
  <2> SUFFICES ASSUME a = b, q + 1 <= Whole PROVE FALSE
    BY <1>2, <1>3, WholeType
  <2>1. b * (q + 1) <= b * Whole
    BY <1>2, WholeType, Scaled
  <2>2. b * Whole = Whole * a
    BY WholeType
  <2>3. QED
    BY <1>1, <1>2, <2>1, <2>2
<1>5. QED
  BY <1>2, <1>3, <1>4, WholeType DEF q

LEMMA UptimeShare ==
    ASSUME IsFiniteSet(checks), NEW id, NEW since
    PROVE  /\ UptimeSince(id, since) \in 0..Whole
           /\ /\ Since(id, since) # {}
              /\ \A c \in checks : c.status # "down"
              => UptimeSince(id, since) = Whole
<1> DEFINE rows == Since(id, since)
           up   == {c \in rows : c.status # "down"}
<1>1. IsFiniteSet(rows) /\ Cardinality(rows) \in Nat
  <2>1. rows \subseteq checks
    BY DEF Since
  <2>2. QED
    BY <2>1, FS_Subset, FS_CardinalityType
<1>2. IsFiniteSet(up) /\ Cardinality(up) \in Nat /\ Cardinality(up) <= Cardinality(rows)
  <2>1. up \subseteq rows
    OBVIOUS
  <2>2. QED
    BY <1>1, <2>1, FS_Subset, FS_CardinalityType
<1>3. UptimeSince(id, since) =
          IF rows = {} THEN 0 ELSE (Whole * Cardinality(up)) \div Cardinality(rows)
  BY DEF UptimeSince
<1>4. rows # {} => Cardinality(rows) > 0
  BY <1>1, FS_EmptySet
<1>5. (\A c \in checks : c.status # "down") => up = rows
  BY DEF Since
<1> HIDE DEF rows, up
<1>6. CASE rows = {}
  BY <1>3, <1>6, WholeType DEF rows
<1>7. CASE rows # {}
  <2>1. /\ UptimeSince(id, since) \in 0..Whole
        /\ up = rows => UptimeSince(id, since) = Whole
    BY <1>1, <1>2, <1>3, <1>4, <1>7, Share
  <2>2. QED
    BY <1>5, <2>1
<1>8. QED
  BY <1>6, <1>7

-----------------------------------------------------------------------------
(* The summary.  Each monitor of the list is counted at most once, and     *)
(* before the first outage, and unless one has no check in the window, all *)
(* that are counted were up all of the time.                               *)

SumFields == {"at", "user", "since", "list", "id", "total", "pending", "healthy",
              "unhealthy", "has", "uptime", "uptimeSum", "responseSum", "statsCount"}

Turned == IF sum.at \in {"uptime", "average"} THEN 1 ELSE 0

Counted ==
    /\ sum.total \in Nat /\ sum.total <= MaxMonitors
    /\ sum.list \subseteq Id /\ sum.statsCount \in Nat
    /\ sum.statsCount + Cardinality(sum.list) + Turned <= sum.total

Shares ==
    /\ sum.uptime \in 0..Whole
    /\ sum.uptimeSum \in 0..Whole * sum.statsCount

AllUp == ~outage /\ ~excused =>
    /\ sum.uptimeSum = Whole * sum.statsCount
    /\ sum.at = "average" /\ sum.has => sum.uptime = Whole

Histories == calm \in BOOLEAN /\ excused \in BOOLEAN /\ outage \in BOOLEAN

SumInv == DOMAIN sum = SumFields /\ Counted /\ Shares /\ AllUp /\ Histories

LEMMA IdsFinite ==
    /\ IsFiniteSet(Id) /\ Cardinality(Id) = MaxMonitors
    /\ \A S : S \subseteq Id =>
          IsFiniteSet(S) /\ Cardinality(S) \in Nat /\ Cardinality(S) <= MaxMonitors
<1>1. IsFiniteSet(Id) /\ Cardinality(Id) = MaxMonitors
  BY FS_Interval, MonitorAssumption DEF Id
<1>2. QED
  BY <1>1, FS_Subset, FS_CardinalityType

\* No summary under way.
LEMMA NoSummaryKept ==
    ASSUME sum' = NoSummary, Histories'
    PROVE  SumInv'
<1>1. /\ sum'.at = "idle" /\ sum'.total = 0 /\ sum'.list = {} /\ sum'.statsCount = 0
      /\ sum'.uptime = 0 /\ sum'.uptimeSum = 0
  BY DEF NoSummary
<1>2. DOMAIN sum' = SumFields
  BY DEF NoSummary, SumFields
<1>3. Counted'
  BY <1>1, FS_EmptySet, MonitorAssumption DEF Counted, Turned
<1>4. Shares' /\ AllUp'
  BY <1>1, WholeType DEF Shares, AllUp
<1>5. QED
  BY <1>2, <1>3, <1>4 DEF SumInv

LEMMA SummaryKept == SumInv /\ Summary => SumInv'
<1> SUFFICES ASSUME SumInv, Summary PROVE SumInv'
  OBVIOUS
<1>1. PICK user \in Users, since \in parseWindow, mine \in SUBSET Id :
        sum' = [NoSummary EXCEPT !.at = Turn(mine), !.user = user, !.since = since,
                                 !.list = mine, !.total = Cardinality(mine)]
  <2>1. PICK user \in Users, since \in parseWindow :
          LET mine == {id \in Id : monitors[id] # None /\ monitors[id].user = user}
          IN  sum' = [NoSummary EXCEPT !.at = Turn(mine), !.user = user, !.since = since,
                                       !.list = mine, !.total = Cardinality(mine)]
    BY DEF Summary
  <2>2. {id \in Id : monitors[id] # None /\ monitors[id].user = user} \in SUBSET Id
    OBVIOUS
  <2>3. QED
    BY <2>1, <2>2
<1>2. /\ sum'.at = Turn(mine) /\ sum'.total = Cardinality(mine) /\ sum'.list = mine
      /\ sum'.statsCount = 0 /\ sum'.uptime = 0 /\ sum'.uptimeSum = 0
  BY <1>1 DEF NoSummary
<1>3. DOMAIN sum' = SumFields
  BY <1>1 DEF NoSummary, SumFields
<1>4. Turn(mine) \in {"done", "latest"}
  BY DEF Turn
<1>5. Counted'
  BY <1>2, <1>4, IdsFinite DEF Counted, Turned
<1>6. Shares' /\ AllUp'
  BY <1>2, <1>4, WholeType DEF Shares, AllUp
<1>7. Histories'
  BY DEF Summary, SumInv, Histories
<1>8. QED
  BY <1>3, <1>5, <1>6, <1>7 DEF SumInv

LEMMA LatestKept == SumInv /\ Latest => SumInv'
<1> SUFFICES ASSUME SumInv, Latest PROVE SumInv'
  OBVIOUS
<1>1. PICK id \in sum.list :
        LET latest == ListByMonitor(id, 0)
        IN  sum' = [sum EXCEPT
                !.at = "uptime", !.list = @ \ {id}, !.id = id, !.has = latest # {},
                !.pending = IF latest = {} THEN @ + 1 ELSE @,
                !.unhealthy = IF latest = {"down"} THEN @ + 1 ELSE @,
                !.healthy = IF latest \notin {{}, {"down"}} THEN @ + 1 ELSE @]
  BY DEF Latest
<1>2. /\ DOMAIN sum' = SumFields /\ sum'.at = "uptime" /\ sum'.list = sum.list \ {id}
      /\ sum'.total = sum.total /\ sum'.statsCount = sum.statsCount
      /\ sum'.uptime = sum.uptime /\ sum'.uptimeSum = sum.uptimeSum
  BY <1>1 DEF SumInv, SumFields
<1>3. sum.at = "latest" /\ UNCHANGED <<calm, excused, outage>>
  BY DEF Latest
<1>4. Counted'
  <2>1. Cardinality(sum.list \ {id}) = Cardinality(sum.list) - 1
        /\ Cardinality(sum.list) \in Nat
    BY IdsFinite, FS_RemoveElement DEF SumInv, Counted
  <2>2. QED
    BY <1>2, <1>3, <2>1 DEF SumInv, Counted, Turned
<1>5. Shares' /\ AllUp' /\ Histories'
  BY <1>2, <1>3 DEF SumInv, Shares, AllUp, Histories
<1>6. QED
  BY <1>2, <1>4, <1>5 DEF SumInv

LEMMA UptimeKept == SumInv /\ ChecksInv /\ Uptime => SumInv'
<1> SUFFICES ASSUME SumInv, ChecksInv, Uptime PROVE SumInv'
  OBVIOUS
<1> DEFINE share == UptimeSince(sum.id, sum.since)
<1>1. /\ sum.at = "uptime" /\ UNCHANGED <<calm, outage>>
      /\ sum' = [sum EXCEPT !.at = "average", !.uptime = share]
  BY DEF Uptime
<1>2. /\ DOMAIN sum' = SumFields /\ sum'.at = "average" /\ sum'.list = sum.list
      /\ sum'.total = sum.total /\ sum'.statsCount = sum.statsCount
      /\ sum'.uptime = share /\ sum'.uptimeSum = sum.uptimeSum
  BY <1>1 DEF SumInv, SumFields
<1>3. sum'.has = sum.has
  BY <1>1 DEF SumInv, SumFields
<1>4. Counted'
  BY <1>1, <1>2 DEF SumInv, Counted, Turned
<1>5. Shares'
  BY <1>2, UptimeShare DEF SumInv, ChecksInv, Shares
<1>6. ~outage' /\ ~excused' /\ sum'.has => share = Whole
  <2> SUFFICES ASSUME ~outage, ~excused', sum.has PROVE share = Whole
    BY <1>1, <1>3
  <2>1. Since(sum.id, sum.since) # {}
    BY DEF Uptime
  <2>2. \A c \in checks : c.status # "down"
    BY DEF ChecksInv
  <2>3. QED
    BY <2>1, <2>2, UptimeShare DEF ChecksInv
<1>7. ~outage' /\ ~excused' => ~outage /\ ~excused
  <2>1. ~outage' => ~outage
    BY <1>1
  <2>2. ~excused' => ~excused
    BY DEF Uptime
  <2>3. QED
    BY <2>1, <2>2
<1> HIDE DEF share
<1>8. AllUp'
  BY <1>2, <1>6, <1>7 DEF SumInv, AllUp
<1>9. Histories'
  BY <1>1 DEF Uptime, SumInv, Histories
<1>10. QED
  BY <1>2, <1>4, <1>5, <1>8, <1>9 DEF SumInv

LEMMA AverageKept == SumInv /\ Average => SumInv'
<1> SUFFICES ASSUME SumInv, Average PROVE SumInv'
  OBVIOUS
<1>1. PICK counts \in {0, 1} :
        /\ sum' = [sum EXCEPT
               !.at = Turn(sum.list), !.uptimeSum = sum.uptimeSum + counts * sum.uptime,
               !.responseSum = sum.responseSum
                                   + counts * AvgResponseTimeSince(sum.id, sum.since),
               !.statsCount = sum.statsCount + counts]
        /\ counts = 1 => sum.has
  <2>1. PICK counts \in {0, 1} : counts = (IF sum.has THEN 1 ELSE 0)
    OBVIOUS
  <2>2. counts = 1 => sum.has
    BY <2>1
  <2>3. sum' = [sum EXCEPT
           !.at = Turn(sum.list), !.uptimeSum = sum.uptimeSum + counts * sum.uptime,
           !.responseSum = sum.responseSum
                               + counts * AvgResponseTimeSince(sum.id, sum.since),
           !.statsCount = sum.statsCount + counts]
    BY <2>1 DEF Average
  <2>4. QED
    BY <2>2, <2>3
<1>2. sum.at = "average" /\ UNCHANGED <<calm, excused, outage>>
  BY DEF Average
<1>3. /\ DOMAIN sum' = SumFields /\ sum'.at = Turn(sum.list) /\ sum'.list = sum.list
      /\ sum'.total = sum.total /\ sum'.statsCount = sum.statsCount + counts
      /\ sum'.uptime = sum.uptime
      /\ sum'.uptimeSum = sum.uptimeSum + counts * sum.uptime
  BY <1>1 DEF SumInv, SumFields
<1>4. Turn(sum.list) \in {"done", "latest"}
  BY DEF Turn
<1>5. Counted'
  <2>1. Cardinality(sum.list) \in Nat
    BY IdsFinite DEF SumInv, Counted
  <2>2. QED
    BY <1>1, <1>2, <1>3, <1>4, <2>1 DEF SumInv, Counted, Turned
<1>6. CASE counts = 0
  <2>1. sum'.uptimeSum = sum.uptimeSum /\ sum'.statsCount = sum.statsCount
    <3>1. sum.uptime \in Nat /\ sum.uptimeSum \in Int /\ sum.statsCount \in Nat
      BY WholeType DEF SumInv, Counted, Shares
    <3>2. 0 * sum.uptime = 0
      BY <3>1
    <3>3. QED
      BY <1>3, <1>6, <3>1, <3>2
  <2>2. Shares'
    BY <1>3, <2>1 DEF SumInv, Shares
  <2>3. AllUp'
    BY <1>2, <1>3, <1>4, <2>1 DEF SumInv, AllUp
  <2>4. QED
    BY <1>2, <1>3, <1>5, <2>2, <2>3 DEF SumInv, Histories
<1>7. CASE counts = 1
  <2>1. /\ sum.uptime \in 0..Whole /\ sum.statsCount \in Nat
        /\ sum.uptimeSum \in 0..Whole * sum.statsCount
        /\ Whole * sum.statsCount \in Nat
    BY WholeType, Scaled DEF SumInv, Counted, Shares
  <2>2. /\ sum'.uptimeSum = sum.uptimeSum + sum.uptime
        /\ sum'.statsCount = sum.statsCount + 1
    BY <1>3, <1>7, <2>1, WholeType
  <2>3. Whole * (sum.statsCount + 1) = Whole * sum.statsCount + Whole
    BY <2>1, WholeType
  <2>4. Shares'
    BY <1>3, <2>1, <2>2, <2>3, WholeType DEF Shares
  <2>5. AllUp'
    BY <1>1, <1>2, <1>3, <1>4, <1>7, <2>2, <2>3 DEF SumInv, AllUp
  <2>6. QED
    BY <1>2, <1>3, <1>5, <2>4, <2>5 DEF SumInv, Histories
<1>8. QED
  BY <1>6, <1>7

-----------------------------------------------------------------------------
(* All of it.                                                              *)

DashInv == MonitorInv /\ ChecksInv /\ SumInv

LEMMA DashInit == Init => DashInv
<1> SUFFICES ASSUME Init PROVE DashInv
  OBVIOUS
<1>1. RowsInv
  <2>1. PICK user \in Users :
          monitors = [id \in Id |->
              IF id = 1 THEN [user |-> user, type |-> "http", interval |-> 60,
                              timeout |-> 10, expected |-> 204, active |-> TRUE]
              ELSE None]
    BY DEF Init
  <2> DEFINE row == [user |-> user, type |-> "http", interval |-> 60,
                     timeout |-> 10, expected |-> 204, active |-> TRUE]
  <2>2. row \in Row
    <3>1. 60 \in Int4 /\ 10 \in Int4 /\ 204 \in Int4
      BY SmallNumbers
    <3>2. QED
      BY <3>1 DEF Row, Types
  <2>3. row.type = "http" /\ row.interval = 60 /\ row.timeout = 10
    OBVIOUS
  <2>4. monitors = [id \in Id |-> IF id = 1 THEN row ELSE None]
    BY <2>1
  <2> HIDE DEF row
  <2>5. ValidRow(row)
    BY <2>2, <2>3 DEF ValidRow, Constraint, Types, ValidateInterval, ValidateTimeout
  <2>6. nextId = 2
    BY DEF Init
  <2>7. QED
    BY <2>2, <2>4, <2>5, <2>6 DEF RowsInv
<1>2. RequestsInv
  <2>1. req = [r \in Requests |-> Idle]
    BY DEF Init
  <2>2. QED
    BY <2>1, IdleKnows DEF RequestsInv
<1>3. ChecksInv
  BY FS_EmptySet DEF Init, ChecksInv
<1>4. SumInv
  <2>1. sum = NoSummary /\ calm = TRUE /\ excused = FALSE /\ outage = FALSE
    BY DEF Init
  <2>2. /\ sum.at = "idle" /\ sum.total = 0 /\ sum.list = {} /\ sum.statsCount = 0
        /\ sum.uptime = 0 /\ sum.uptimeSum = 0 /\ DOMAIN sum = SumFields
    BY <2>1 DEF NoSummary, SumFields
  <2>3. Counted
    BY <2>2, FS_EmptySet, MonitorAssumption DEF Counted, Turned
  <2>4. Shares /\ AllUp
    BY <2>2, WholeType DEF Shares, AllUp
  <2>5. Histories
    BY <2>1 DEF Histories
  <2>6. QED
    BY <2>2, <2>3, <2>4, <2>5 DEF SumInv
<1>5. QED
  BY <1>1, <1>2, <1>3, <1>4 DEF DashInv, MonitorInv

LEMMA DashStep == DashInv /\ [Next]_vars => DashInv'
<1> SUFFICES ASSUME DashInv, [Next]_vars PROVE DashInv'
  OBVIOUS
<1> USE DEF DashInv
<1>1. ASSUME NEW r \in Requests, Handle(r), calm' = (calm /\ UNCHANGED tables),
             UNCHANGED <<sum, excused, outage>>
      PROVE  DashInv'
  <2>1. \/ UNCHANGED tables
        \/ Inserts
        \/ \E id \in Id : Edits(id) \/ Deletes(id)
    BY <1>1, TablesMove
  <2>2. RowsInv'
    BY <2>1, RowsKept DEF MonitorInv, tables
  <2>3. RequestsInv'
    BY <1>1, RequestsStep
  <2>4. ChecksInv'
    BY <1>1, <2>1, ChecksKept DEF MonitorInv
  <2>5. Histories'
    <3>1. calm' \in BOOLEAN
      BY <1>1
    <3>2. QED
      BY <1>1, <3>1 DEF SumInv, Histories
  <2>6. SumInv'
    BY <1>1, <2>5 DEF SumInv, Counted, Turned, Shares, AllUp
  <2>7. QED
    BY <2>2, <2>3, <2>4, <2>6 DEF MonitorInv
<1>2. CASE InsertCheck
  <2>1. UNCHANGED <<monitors, nextId, req, sum, excused>>
    BY <1>2 DEF InsertCheck
  <2>2. ChecksInv'
    BY <1>2, InsertCheckKept DEF MonitorInv
  <2>3. Histories' /\ (~outage' => ~outage)
    BY <1>2 DEF InsertCheck, SumInv, Histories
  <2>4. SumInv'
    BY <2>1, <2>3 DEF SumInv, Counted, Turned, Shares, AllUp
  <2>5. MonitorInv'
    BY <2>1 DEF MonitorInv, RowsInv, RequestsInv
  <2>6. QED
    BY <2>2, <2>4, <2>5
<1>3. CASE Summary \/ Latest \/ Uptime \/ Average \/ EndSummary
  <2>1. UNCHANGED <<tables, req, outage>>
    BY <1>3 DEF Summary, Latest, Uptime, Average, EndSummary
  <2>2. MonitorInv' /\ ChecksInv'
    BY <2>1 DEF tables, MonitorInv, RowsInv, RequestsInv, ChecksInv
  <2>3. CASE EndSummary
    <3>1. sum' = NoSummary /\ Histories'
      BY <2>3 DEF EndSummary, SumInv, Histories
    <3>2. QED
      BY <2>2, <3>1, NoSummaryKept
  <2>4. QED
    BY <1>3, <2>2, <2>3, SummaryKept, LatestKept, UptimeKept, AverageKept
<1>4. CASE UNCHANGED vars
  BY <1>4 DEF vars, tables, dashVars, MonitorInv, RowsInv, RequestsInv, ChecksInv,
              SumInv, Counted, Turned, Shares, AllUp, Histories
<1>5. QED
  BY <1>1, <1>2, <1>3, <1>4 DEF Next

LEMMA DashAlways == Spec => []DashInv
BY DashInit, DashStep, PTL DEF Spec

-----------------------------------------------------------------------------
(* Owners.  A request that is about to write has loaded a row that its     *)
(* caller may touch; the monitor has the owner of that row, or has gone.   *)

Entitled(q) == q.by.role # "viewer" /\ authorizeOwnership(q.row, q.by)

OwnInv == \A r \in Requests : req[r].at = "write" =>
    /\ req[r].op # "create" /\ req[r].id \in Id /\ req[r].id < nextId
    /\ Entitled(req[r])
    /\ monitors[req[r].id] # None => monitors[req[r].id].user = req[r].row.user

\* A step of one request leaves the others alone, and only Load takes it to a write.
LEMMA OneMoves ==
    ASSUME MonitorInv, NEW r \in Requests, Handle(r)
    PROVE  /\ \A q \in Requests : q # r => req'[q] = req[q]
           /\ Load(r) \/ req'[r].at # "write"
<1> USE DEF MonitorInv, RequestsInv
<1>1. ASSUME NEW s, Respond(r, s)
      PROVE  /\ \A q \in Requests : q # r => req'[q] = req[q]
             /\ req'[r].at = "reply"
  BY <1>1 DEF Respond, Locals
<1>2. ASSUME Fail(r)
      PROVE  /\ \A q \in Requests : q # r => req'[q] = req[q]
             /\ req'[r].at = "reply"
  BY <1>2, Failed
<1>3. CASE Arrive(r)
  <2>1. /\ \A q \in Requests : q # r => req'[q] = req[q]
        /\ req'[r].at = "begin"
    BY <1>3 DEF Arrive, Idle
  <2>2. QED
    BY <2>1
<1>4. CASE Load(r)
  BY <1>4 DEF Load, Respond
<1>5. CASE Done(r)
  BY <1>5 DEF Done, Idle
<1>6. CASE RequireRole(r) \/ CreateRejects(r) \/ Create(r) \/ CallFails(r)
  <2>1. Fail(r) \/ \E s : Respond(r, s)
    BY <1>6 DEF RequireRole, CreateRejects, Create, CallFails
  <2>2. QED
    BY <1>1, <1>2, <2>1
<1>7. CASE Update(r) \/ Delete(r)
  <2>1. Fail(r) \/ \E s : Respond(r, s)
    BY <1>7 DEF Update, Delete, Written
  <2>2. QED
    BY <1>1, <1>2, <2>1
<1>8. QED
  BY <1>3, <1>4, <1>5, <1>6, <1>7 DEF Handle

\* A request changes a monitor when it writes, the one it has loaded, and answers.
LEMMA OwnersKept ==
    ASSUME MonitorInv, OwnInv, NEW r \in Requests, Handle(r),
           NEW id \in Id, id < nextId, monitors'[id] # monitors[id]
    PROVE  /\ req[r].at = "write" /\ req[r].id = id /\ req'[r].at = "reply"
           /\ monitors'[id] # None =>
                  /\ monitors[id] # None
                  /\ monitors'[id].user = monitors[id].user
<1> USE DEF MonitorInv, RowsInv
<1>1. CASE Create(r)
  <2>1. monitors' = monitors \/ monitors' = [monitors EXCEPT ![nextId] = NewRow(r)]
    BY <1>1 DEF Create, tables
  <2>2. id # nextId
    BY MonitorAssumption DEF Id
  <2>3. QED
    BY <2>1, <2>2
<1>2. CASE Update(r)
  <2>1. req[r].at = "write" /\ req[r].op = "update"
    BY <1>2 DEF Update, At
  <2>2. /\ monitors[req[r].id] # None
        /\ monitors' = [monitors EXCEPT ![req[r].id] = Edited(r)]
        /\ Respond(r, 200) \/ Fail(r)
    BY <1>2 DEF Update, Written
  <2>3. id = req[r].id /\ monitors'[id] = Edited(r)
    BY <2>2
  <2>4. Edited(r).user = req[r].row.user
    <3>1. req[r].row \in Row
      BY <2>1 DEF RequestsInv, Knows
    <3>2. QED
      BY <3>1 DEF Edited, Row
  <2>5. req'[r].at = "reply"
    BY <2>2, Responded, Failed DEF RequestsInv
  <2>6. QED
    BY <2>1, <2>2, <2>3, <2>4, <2>5 DEF OwnInv
<1>3. CASE Delete(r)
  <2>1. req[r].at = "write" /\ monitors' = [monitors EXCEPT ![req[r].id] = None]
    BY <1>3 DEF Delete, At
  <2>2. id = req[r].id /\ monitors'[id] = None
    BY <2>1
  <2>3. Respond(r, 404) \/ Respond(r, 204) \/ Fail(r)
    BY <1>3, ErrorCodes DEF Delete, Written
  <2>4. req'[r].at = "reply"
    BY <2>3, Responded, Failed DEF RequestsInv
  <2>5. QED
    BY <2>1, <2>2, <2>4
<1>4. CASE \/ Arrive(r) \/ RequireRole(r) \/ CreateRejects(r) \/ Load(r)
           \/ CallFails(r) \/ Done(r)
  BY <1>4 DEF Arrive, RequireRole, CreateRejects, Load, CallFails, Done, tables
<1>5. QED
  BY <1>1, <1>2, <1>3, <1>4 DEF Handle

\* What Load finds is there, and the caller may touch it.
LEMMA LoadedOwn ==
    ASSUME MonitorInv, NEW r \in Requests, Load(r), req'[r].at = "write"
    PROVE  /\ req'[r].op # "create" /\ req'[r].id \in Id /\ req'[r].id < nextId
           /\ Entitled(req'[r])
           /\ monitors[req'[r].id].user = req'[r].row.user
<1> DEFINE row == monitors[req[r].id]
<1>1. /\ req[r].at = "begin" /\ req[r].op # "create" /\ req[r] \in Locals
      /\ req[r].op = "get" \/ req[r].by.role # "viewer"
  BY DEF Load, Admitted, At, MonitorInv, RequestsInv
<1>2. req[r].id \in Id
  BY <1>1, Beginning DEF MonitorInv
<1>3. ASSUME NEW s, Respond(r, s) PROVE req'[r].at = "reply"
  BY <1>3 DEF Respond, Locals, MonitorInv, RequestsInv
<1>4. /\ row # None /\ authorizeOwnership(row, req[r].by)
      /\ req[r].op \in {"update", "delete"}
      /\ req' = [req EXCEPT ![r].at = "write", ![r].row = row]
  BY <1>3 DEF Load
<1>5. /\ req'[r].op = req[r].op /\ req'[r].id = req[r].id /\ req'[r].by = req[r].by
      /\ req'[r].row = row
  BY <1>1, <1>4 DEF Locals, MonitorInv, RequestsInv
<1>6. req[r].id < nextId
  BY <1>2, <1>4 DEF MonitorInv, RowsInv
<1>7. QED
  BY <1>1, <1>2, <1>4, <1>5, <1>6 DEF Entitled

LEMMA OwnStep == ASSUME DashInv, OwnInv, [Next]_vars PROVE OwnInv'
<1>1. CASE UNCHANGED <<monitors, nextId, req>>
  BY <1>1 DEF OwnInv, Entitled, authorizeOwnership
<1>2. ASSUME NEW r \in Requests, Handle(r) PROVE OwnInv'
  <2> USE DEF DashInv
  <2>1. nextId \in Nat /\ nextId' \in Nat /\ nextId <= nextId'
    BY <1>2, TablesMove DEF MonitorInv, RowsInv, Inserts, Edits, Deletes, tables
  <2>n. \A id \in Id : id \in Nat
    BY MonitorAssumption DEF Id
  <2>2. ASSUME NEW q \in Requests, req'[q] = req[q], req[q].at = "write"
        PROVE  /\ req'[q].op # "create" /\ req'[q].id \in Id /\ req'[q].id < nextId'
               /\ Entitled(req'[q])
               /\ monitors'[req'[q].id] # None =>
                      monitors'[req'[q].id].user = req'[q].row.user
    <3>1. /\ req[q].op # "create" /\ req[q].id \in Id /\ req[q].id < nextId
          /\ Entitled(req[q])
          /\ monitors[req[q].id] # None => monitors[req[q].id].user = req[q].row.user
      BY <2>2 DEF OwnInv
    <3>2. monitors'[req[q].id] # None =>
              monitors[req[q].id] # None
              /\ monitors'[req[q].id].user = monitors[req[q].id].user
      BY <1>2, <3>1, OwnersKept
    <3>3. req[q].id < nextId'
      BY <2>1, <2>n, <3>1
    <3>4. QED
      BY <2>2, <3>1, <3>2, <3>3
  <2>3. ASSUME req'[r].at = "write"
        PROVE  /\ req'[r].op # "create" /\ req'[r].id \in Id /\ req'[r].id < nextId'
               /\ Entitled(req'[r])
               /\ monitors'[req'[r].id].user = req'[r].row.user
    <3>1. Load(r)
      BY <1>2, <2>3, OneMoves
    <3>2. UNCHANGED <<monitors, nextId>>
      BY <3>1 DEF Load, tables
    <3>3. QED
      BY <2>3, <3>1, <3>2, LoadedOwn
  <2>4. \A q \in Requests : q # r => req'[q] = req[q]
    BY <1>2, OneMoves
  <2>5. QED
    BY <2>2, <2>3, <2>4 DEF OwnInv
<1>3. QED
  BY <1>1, <1>2
     DEF Next, vars, tables, InsertCheck, Summary, Latest, Uptime, Average, EndSummary

LEMMA OwnAlways == Spec => []OwnInv
<1>1. Init => OwnInv
  BY DEF Init, OwnInv, Idle
<1>2. DashInv /\ OwnInv /\ [Next]_vars => OwnInv'
  BY OwnStep
<1>3. QED
  BY <1>1, <1>2, DashAlways, PTL DEF Spec

-----------------------------------------------------------------------------
(* Sums over finite sets, for what Summary adds up.                         *)

\* Of a family of subsets of a finite set, one is minimal: induction over finite
\* sets, without an operator for what is shown.
LEMMA SomeMinimal ==
    ASSUME NEW S, IsFiniteSet(S), NEW F \in SUBSET SUBSET S, F # {}
    PROVE  \E s \in F : \A t \in F : t \subseteq s => t = s
<1>1. IsWellFoundedOn(StrictSubsetOrdering(S), SUBSET S)
  BY FS_StrictSubsetOrderingWellFounded, FS_FiniteSubsetsOfFinite
<1>2. PICK s \in F : \A t \in F : <<t, s>> \notin StrictSubsetOrdering(S)
  BY <1>1, WFMin
<1>3. ASSUME NEW t \in F, t \subseteq s, t # s
      PROVE  <<t, s>> \in StrictSubsetOrdering(S)
  <2>1. <<t, s>> \in (SUBSET S) \X (SUBSET S) /\ <<t, s>>[1] = t /\ <<t, s>>[2] = s
    OBVIOUS
  <2>2. QED
    BY <1>3, <2>1 DEF StrictSubsetOrdering
<1>4. QED
  <2>1. \A t \in F : ~(t \subseteq s /\ t # s)
    BY <1>2, <1>3, Zenon
  <2>2. QED
    BY <2>1

First(s) == CHOOSE x \in s : TRUE

\* g adds f up over the subsets of S, one element after the other.
Adds(f, g, S) ==
    g = [s \in SUBSET S |-> IF s = {} THEN 0 ELSE f[First(s)] + g[s \ {First(s)}]]

LEMMA SumAdds ==
    ASSUME NEW f, NEW S
    PROVE  SumFunctionOnSet(f, S) = (CHOOSE g : Adds(f, g, S))[S]
BY DEF SumFunctionOnSet, FoldFunctionOnSet, MapThenFoldSet, Adds, First

LEMMA AddsAgree ==
    ASSUME NEW f, NEW g, NEW h, NEW S, NEW T \in SUBSET S, IsFiniteSet(T),
           Adds(f, g, S), Adds(f, h, T)
    PROVE  g[T] = h[T]
<1> DEFINE F == {s \in SUBSET T : g[s] # h[s]}
<1> SUFFICES ASSUME F # {} PROVE FALSE
  OBVIOUS
<1> HIDE DEF F
<1>1. PICK s \in F : \A t \in F : t \subseteq s => t = s
  <2>1. F \in SUBSET SUBSET T
    BY DEF F
  <2>2. QED
    BY <2>1, SomeMinimal
<1>2. s \in SUBSET T /\ g[s] # h[s]
  BY DEF F
<1>3. s # {} => First(s) \in s
  BY DEF First
<1>4. CASE s = {}
  BY <1>2, <1>4 DEF Adds
<1>5. CASE s # {}
  <2> DEFINE t == s \ {First(s)}
  <2>1. t \in SUBSET T /\ t \subseteq s /\ t # s
    BY <1>2, <1>3, <1>5
  <2>2. g[t] = h[t]
    BY <1>1, <2>1 DEF F
  <2>3. g[s] = f[First(s)] + g[t] /\ h[s] = f[First(s)] + h[t]
    BY <1>2, <1>5 DEF Adds
  <2>4. QED
    BY <1>2, <2>2, <2>3
<1>6. QED
  BY <1>4, <1>5

\* There is such a g for every finite set.
LEMMA AddsExists ==
    ASSUME NEW f, NEW S, IsFiniteSet(S)
    PROVE  \E g : Adds(f, g, S)
<1> DEFINE F == {s \in SUBSET S : ~ \E g : Adds(f, g, s)}
<1> SUFFICES ASSUME F # {} PROVE FALSE
  OBVIOUS
<1> HIDE DEF F
<1>1. PICK s \in F : \A t \in F : t \subseteq s => t = s
  <2>1. F \in SUBSET SUBSET S
    BY DEF F
  <2>2. QED
    BY <2>1, SomeMinimal
<1>2. s \in SUBSET S /\ ~ \E g : Adds(f, g, s)
  BY DEF F
<1> DEFINE Total(t) == SumFunctionOnSet(f, t)
           Sum(t) == IF t = {} THEN 0 ELSE f[First(t)] + Total(t \ {First(t)})
           g == [t \in SUBSET s |-> Sum(t)]
<1>3. \A t \in SUBSET s : t # {} => First(t) \in t
  BY DEF First
<1>4. ASSUME NEW t \in SUBSET s, t # s
      PROVE  Adds(f, CHOOSE h : Adds(f, h, t), t)
  BY <1>1, <1>2, <1>4 DEF F
<1>5. ASSUME NEW t \in SUBSET s, t # s
      PROVE  Total(t) = Sum(t)
  <2> DEFINE h == CHOOSE h : Adds(f, h, t)
  <2>1. Adds(f, h, t) /\ Total(t) = h[t]
    BY <1>4, <1>5, SumAdds
  <2> HIDE DEF h
  <2>2. CASE t = {}
    BY <2>1, <2>2 DEF Adds
  <2>3. CASE t # {}
    <3> DEFINE u == t \ {First(t)}
               k == CHOOSE k : Adds(f, k, u)
    <3>1. u \in SUBSET s /\ u # s /\ u \in SUBSET t /\ IsFiniteSet(u)
      BY <1>2, <1>3, <1>5, <2>3, FS_Subset
    <3>2. Adds(f, k, u) /\ Total(u) = k[u]
      BY <3>1, <1>4, SumAdds
    <3> HIDE DEF k
    <3>3. h[u] = k[u]
      BY <2>1, <3>1, <3>2, AddsAgree
    <3>4. h[t] = f[First(t)] + h[u]
      BY <2>1, <2>3 DEF Adds
    <3>5. QED
      BY <2>1, <2>3, <3>2, <3>3, <3>4
  <2>4. QED
    BY <2>2, <2>3
<1>6. ASSUME NEW t \in SUBSET s, t # {}
      PROVE  Total(t \ {First(t)}) = g[t \ {First(t)}]
  <2>1. t \ {First(t)} \in SUBSET s /\ t \ {First(t)} # s
    BY <1>3, <1>6
  <2>2. QED
    BY <1>5, <2>1
<1>7. Adds(f, g, s)
  BY <1>6 DEF Adds
<1>8. QED
  BY <1>2, <1>7

\* The sum over no elements, and the first one of some.
LEMMA SumFirst ==
    ASSUME NEW f, NEW S, IsFiniteSet(S)
    PROVE  SumFunctionOnSet(f, S) =
             IF S = {} THEN 0
             ELSE f[First(S)] + SumFunctionOnSet(f, S \ {First(S)})
<1> DEFINE T == S \ {First(S)}
           g == CHOOSE g : Adds(f, g, S)
           h == CHOOSE h : Adds(f, h, T)
<1>1. IsFiniteSet(T) /\ T \in SUBSET S
  BY FS_Subset
<1>2. /\ Adds(f, g, S) /\ SumFunctionOnSet(f, S) = g[S]
      /\ Adds(f, h, T) /\ SumFunctionOnSet(f, T) = h[T]
  BY <1>1, AddsExists, SumAdds
<1> HIDE DEF g, h
<1>3. g[T] = h[T]
  BY <1>1, <1>2, AddsAgree
<1>4. g[S] = IF S = {} THEN 0 ELSE f[First(S)] + g[T]
  BY <1>2 DEF Adds
<1>5. QED
  BY <1>2, <1>3, <1>4

LEMMA SumType ==
    ASSUME NEW f, NEW S, IsFiniteSet(S), \A x \in S : f[x] \in Nat
    PROVE  SumFunctionOnSet(f, S) \in Nat
<1> DEFINE F == {s \in SUBSET S : SumFunctionOnSet(f, s) \notin Nat}
<1> SUFFICES ASSUME F # {} PROVE FALSE
  OBVIOUS
<1> HIDE DEF F
<1>1. PICK s \in F : \A t \in F : t \subseteq s => t = s
  <2>1. F \in SUBSET SUBSET S
    BY DEF F
  <2>2. QED
    BY <2>1, SomeMinimal
<1>2. s \in SUBSET S /\ IsFiniteSet(s) /\ SumFunctionOnSet(f, s) \notin Nat
  BY FS_Subset DEF F
<1>3. SumFunctionOnSet(f, s) =
        IF s = {} THEN 0 ELSE f[First(s)] + SumFunctionOnSet(f, s \ {First(s)})
  BY <1>2, SumFirst
<1>4. s # {} => First(s) \in s
  BY DEF First
<1>5. s # {} => SumFunctionOnSet(f, s \ {First(s)}) \in Nat
  BY <1>1, <1>2, <1>4 DEF F
<1>6. QED
  BY <1>2, <1>3, <1>4, <1>5

\* Any element can be the first.
LEMMA SumRemove ==
    ASSUME NEW f, NEW S, IsFiniteSet(S), \A x \in S : f[x] \in Nat, NEW x \in S
    PROVE  SumFunctionOnSet(f, S) = f[x] + SumFunctionOnSet(f, S \ {x})
<1> DEFINE Total(s) == SumFunctionOnSet(f, s)
           F == {s \in SUBSET S : \E y \in s : Total(s) # f[y] + Total(s \ {y})}
<1> SUFFICES ASSUME F # {} PROVE FALSE
  OBVIOUS
<1> HIDE DEF F
<1>1. PICK s \in F : \A t \in F : t \subseteq s => t = s
  <2>1. F \in SUBSET SUBSET S
    BY DEF F
  <2>2. QED
    BY <2>1, SomeMinimal
<1>2. PICK y \in s : Total(s) # f[y] + Total(s \ {y})
  BY DEF F
<1> DEFINE c == First(s)
<1>3. s \in SUBSET S /\ c \in s
  BY <1>1, <1>2 DEF F, First
<1>4. \A t \in SUBSET s : IsFiniteSet(t) /\ Total(t) \in Nat
  BY <1>3, FS_Subset, SumType
<1>5. Total(s) = f[c] + Total(s \ {c})
  BY <1>3, <1>4, SumFirst
<1>6. CASE y = c
  BY <1>2, <1>5, <1>6
<1>7. CASE y # c
  <2>1. s \ {c} \notin F /\ s \ {y} \notin F
    BY <1>1, <1>2, <1>3
  <2>2. Total(s \ {c}) = f[y] + Total((s \ {c}) \ {y})
    BY <1>2, <1>3, <1>7, <2>1 DEF F
  <2>3. Total(s \ {y}) = f[c] + Total((s \ {y}) \ {c})
    BY <1>2, <1>3, <1>7, <2>1 DEF F
  <2>4. (s \ {c}) \ {y} = (s \ {y}) \ {c}
    OBVIOUS
  <2>5. f[c] \in Nat /\ f[y] \in Nat /\ Total((s \ {y}) \ {c}) \in Nat
    BY <1>2, <1>3, <1>4
  <2> HIDE DEF Total, c
  <2>6. QED
    BY <1>2, <1>5, <2>2, <2>3, <2>4, <2>5
<1>8. QED
  BY <1>6, <1>7

-----------------------------------------------------------------------------
(* The snapshot.  While nothing changes, what Summary has in hand is what  *)
(* there is to say of the monitors that it has seen.                       *)

\* Checks are told apart by monitor and time.
CheckInv ==
    /\ checks \subseteq [monitor : Id, at : Time, status : Status, ms : Millis]
    /\ \A c, d \in checks : c.monitor = d.monitor /\ c.at = d.at => c = d

Seen == Mine \ sum.list
InHand == IF sum.at \in {"uptime", "average"} THEN {sum.id} ELSE {}
Averaged == (Seen \ InHand) \cap Checked

Down(S) == {id \in S \cap Checked : Last(id).status = "down"}
NotDown(S) == {id \in S \cap Checked : Last(id).status # "down"}

Told ==
    /\ sum.total = Cardinality(Mine)
    /\ sum.pending = Cardinality(Seen \ Checked)
    /\ sum.unhealthy = Cardinality(Down(Seen))
    /\ sum.healthy = Cardinality(NotDown(Seen))

Added ==
    /\ sum.statsCount = Cardinality(Averaged)
    /\ sum.uptimeSum = SumFunctionOnSet(UptimeOf, Averaged)
    /\ sum.responseSum = SumFunctionOnSet(ResponseOf, Averaged)

Turning ==
    /\ sum.list \subseteq Mine
    /\ sum.at = "done" => sum.list = {}
    /\ sum.at \in {"uptime", "average"} =>
          sum.id \in Seen /\ sum.has = (sum.id \in Checked)
    /\ sum.at = "average" => sum.uptime = UptimeOf[sum.id]

\* Unless one is excused, every monitor that was averaged has a check in the window.
Covered ==
    ~excused => /\ Averaged \subseteq Windowed
                /\ sum.at = "average" /\ sum.has => sum.id \in Windowed

SnapInv == sum.at # "idle" /\ calm => Told /\ Added /\ Turning /\ Covered

\* Of two checks of a monitor one is the later.
LEMMA LatestCheck ==
    ASSUME ChecksInv, CheckInv, NEW id \in Id
    PROVE  ListByMonitor(id, 0) = IF Since(id, 0) = {} THEN {} ELSE {Last(id).status}
<1> DEFINE rows == Since(id, 0)
           After(c) == {d \in rows : d.at > c.at}
           F == {After(c) : c \in rows}
           Newest(c) == \A other \in rows : other.at <= c.at
<1>1. IsFiniteSet(rows) /\ \A c \in rows : c.at \in Nat /\ c \in checks /\ c.monitor = id
  <2>1. rows \subseteq checks
    BY DEF Since
  <2>2. QED
    BY <2>1, FS_Subset DEF ChecksInv, CheckInv, Since, Time
<1>2. ListByMonitor(id, 0) = {c.status : c \in {c \in rows : Newest(c)}}
  BY DEF ListByMonitor
<1> HIDE DEF rows
<1>3. ASSUME rows # {} PROVE \E c \in rows : Newest(c)
  <2>1. F \in SUBSET SUBSET rows /\ F # {} /\ \A c \in rows : After(c) \in F
    BY <1>3
  <2> HIDE DEF F
  <2>2. PICK s \in F : \A t \in F : t \subseteq s => t = s
    BY <1>1, <2>1, SomeMinimal
  <2>3. PICK c \in rows : s = After(c)
    BY DEF F
  <2>4. ASSUME NEW d \in rows, d.at > c.at PROVE FALSE
    <3>1. d \in After(c) /\ d \notin After(d)
      BY <1>1, <2>4
    <3>2. After(d) \subseteq After(c)
      BY <1>1, <2>4
    <3>3. QED
      BY <2>1, <2>2, <2>3, <3>1, <3>2
  <2>5. QED
    BY <1>1, <2>4
<1>4. \A c, d \in rows : Newest(c) /\ Newest(d) => c = d
  <2> SUFFICES ASSUME NEW c \in rows, NEW d \in rows, Newest(c), Newest(d) PROVE c = d
    OBVIOUS
  <2>1. c.at = d.at
    BY <1>1
  <2>2. QED
    BY <1>1, <2>1 DEF CheckInv
<1>5. Last(id) = CHOOSE c \in rows : Newest(c)
  BY DEF Last, rows
<1>6. CASE rows = {}
  BY <1>2, <1>6 DEF rows
<1>7. CASE rows # {}
  <2>1. Last(id) \in rows /\ Newest(Last(id))
    BY <1>3, <1>5, <1>7
  <2>2. {c \in rows : Newest(c)} = {Last(id)}
    BY <1>4, <2>1
  <2> HIDE DEF Newest
  <2>3. QED
    BY <1>2, <1>7, <2>2 DEF rows
<1>8. QED
  BY <1>6, <1>7

\* The averages of a monitor, as the queries compute them and as they are meant.
LEMMA AveragesMeant ==
    ASSUME ChecksInv, CheckInv, DashboardAssumption, NEW id \in Id
    PROVE  /\ UptimeOf[id] = UptimeSince(id, sum.since) /\ UptimeOf[id] \in Nat
           /\ ResponseOf[id] = AvgResponseTimeSince(id, sum.since) /\ ResponseOf[id] \in Nat
<1> DEFINE all == Since(id, sum.since)
           fine == {c \in all : c.status # "down"}
           ms == [c \in fine |-> c.ms]
<1>1. fine = Fine(id)
  BY DEF Fine, Since, CheckInv, Status
<1>2. /\ IsFiniteSet(all) /\ Cardinality(all) \in Nat
      /\ IsFiniteSet(fine) /\ Cardinality(fine) \in Nat
  <2>1. all \subseteq checks /\ fine \subseteq checks
    BY DEF Since
  <2>2. QED
    BY <2>1, FS_Subset, FS_CardinalityType DEF ChecksInv
<1>3. (all = {} <=> Cardinality(all) = 0) /\ (fine = {} <=> Cardinality(fine) = 0)
  BY <1>2, FS_EmptySet
<1>4. \A c \in fine : c.ms \in Nat
  BY DEF Since, CheckInv, DashboardAssumption
<1>5. SumFunctionOnSet(ms, fine) \in Nat
  <2>1. \A c \in fine : ms[c] \in Nat
    BY <1>4
  <2> HIDE DEF ms, fine
  <2>2. QED
    BY <1>2, <2>1, SumType
<1>6. /\ UptimeOf[id] = Ratio(Whole * Cardinality(fine), Cardinality(all))
      /\ ResponseOf[id] = Ratio(SumFunctionOnSet(ms, fine), Cardinality(fine))
  BY <1>1 DEF UptimeOf, ResponseOf
<1>7. /\ UptimeSince(id, sum.since) =
             IF all = {} THEN 0 ELSE (Whole * Cardinality(fine)) \div Cardinality(all)
      /\ AvgResponseTimeSince(id, sum.since) =
             IF fine = {} THEN 0 ELSE SumFunctionOnSet(ms, fine) \div Cardinality(fine)
  BY DEF UptimeSince, AvgResponseTimeSince
<1> HIDE DEF all, fine, ms
<1>8. UptimeOf[id] = UptimeSince(id, sum.since) /\ UptimeOf[id] \in Nat
  BY <1>2, <1>3, <1>6, <1>7, WholeType DEF Ratio
<1>9. ResponseOf[id] = AvgResponseTimeSince(id, sum.since) /\ ResponseOf[id] \in Nat
  BY <1>2, <1>3, <1>5, <1>6, <1>7 DEF Ratio
<1>10. QED
  BY <1>8, <1>9

\* A step that changes neither the tables nor whose summary it is.
LEMMA SameMeaning ==
    ASSUME UNCHANGED <<monitors, checks>>, sum'.user = sum.user, sum'.since = sum.since
    PROVE  /\ Mine' = Mine /\ Checked' = Checked /\ Windowed' = Windowed
           /\ UptimeOf' = UptimeOf /\ ResponseOf' = ResponseOf
           /\ Down(Seen)' = Down(Seen') /\ NotDown(Seen)' = NotDown(Seen')
<1>1. Mine' = Mine /\ Checked' = Checked /\ Windowed' = Windowed
  BY DEF Mine, Checked, Windowed, Since
<1>2. UptimeOf' = UptimeOf
  BY DEF UptimeOf, Fine, Since
<1>3. ResponseOf' = ResponseOf
  BY DEF ResponseOf, Fine, Since
<1>4. Down(Seen)' = Down(Seen') /\ NotDown(Seen)' = NotDown(Seen')
  BY <1>1 DEF Down, NotDown, Last, Since
<1>5. QED
  BY <1>1, <1>2, <1>3, <1>4

LEMMA SnapSummary == Summary => SnapInv'
<1> SUFFICES ASSUME Summary PROVE SnapInv'
  OBVIOUS
<1>1. PICK user \in Users, since \in parseWindow :
        LET mine == {id \in Id : monitors[id] # None /\ monitors[id].user = user}
        IN  sum' = [NoSummary EXCEPT !.at = Turn(mine), !.user = user, !.since = since,
                                     !.list = mine, !.total = Cardinality(mine)]
  BY DEF Summary
<1> DEFINE mine == {id \in Id : monitors[id] # None /\ monitors[id].user = user}
<1>2. /\ sum'.at = Turn(mine) /\ sum'.user = user /\ sum'.list = mine
      /\ sum'.total = Cardinality(mine) /\ sum'.pending = 0 /\ sum'.healthy = 0
      /\ sum'.unhealthy = 0 /\ sum'.statsCount = 0 /\ sum'.uptimeSum = 0
      /\ sum'.responseSum = 0
  BY <1>1 DEF NoSummary
<1>3. monitors' = monitors
  BY DEF Summary, tables
<1>4. Mine' = mine
  BY <1>2, <1>3 DEF Mine
<1> HIDE DEF mine
<1>5. Seen' = {} /\ Averaged' = {} /\ Down(Seen)' = {} /\ NotDown(Seen)' = {}
      /\ (Seen \ Checked)' = {}
  BY <1>2, <1>4 DEF Seen, Averaged, Down, NotDown
<1>6. Cardinality({}) = 0
  BY FS_EmptySet
<1>7. SumFunctionOnSet(UptimeOf', {}) = 0 /\ SumFunctionOnSet(ResponseOf', {}) = 0
  BY SumFirst, FS_EmptySet
<1>8. Told'
  BY <1>2, <1>4, <1>5, <1>6 DEF Told
<1>9. Added'
  BY <1>2, <1>5, <1>6, <1>7 DEF Added
<1>10. Turning'
  <2>1. sum'.at \in {"done", "latest"} /\ (sum'.at = "done" => sum'.list = {})
    BY <1>2 DEF Turn
  <2>2. QED
    BY <1>2, <1>4, <2>1 DEF Turning
<1>11. Covered'
  <2>1. sum'.at # "average"
    BY <1>2 DEF Turn
  <2>2. QED
    BY <1>5, <2>1 DEF Covered
<1>12. QED
  BY <1>8, <1>9, <1>10, <1>11 DEF SnapInv

LEMMA SnapLatest ==
    ASSUME SumInv, ChecksInv, CheckInv, SnapInv, calm, Latest
    PROVE  SnapInv'
<1>1. PICK id \in sum.list :
        LET latest == ListByMonitor(id, 0)
        IN  sum' = [sum EXCEPT
                !.at = "uptime", !.list = @ \ {id}, !.id = id, !.has = latest # {},
                !.pending = IF latest = {} THEN @ + 1 ELSE @,
                !.unhealthy = IF latest = {"down"} THEN @ + 1 ELSE @,
                !.healthy = IF latest \notin {{}, {"down"}} THEN @ + 1 ELSE @]
  BY DEF Latest
<1> DEFINE latest == ListByMonitor(id, 0)
<1>2. /\ sum'.at = "uptime" /\ sum'.list = sum.list \ {id} /\ sum'.id = id
      /\ sum'.has = (latest # {}) /\ sum'.total = sum.total
      /\ sum'.pending = IF latest = {} THEN sum.pending + 1 ELSE sum.pending
      /\ sum'.unhealthy = IF latest = {"down"} THEN sum.unhealthy + 1 ELSE sum.unhealthy
      /\ sum'.healthy = IF latest \notin {{}, {"down"}} THEN sum.healthy + 1
                        ELSE sum.healthy
      /\ sum'.user = sum.user /\ sum'.since = sum.since
      /\ sum'.statsCount = sum.statsCount /\ sum'.uptimeSum = sum.uptimeSum
      /\ sum'.responseSum = sum.responseSum
  BY <1>1 DEF SumInv, SumFields
<1>3. sum.at = "latest" /\ UNCHANGED <<monitors, checks>>
  BY DEF Latest, tables
<1>4. Told /\ Added /\ Turning /\ Covered
  BY <1>3 DEF SnapInv
<1>5. /\ Mine' = Mine /\ Checked' = Checked /\ Windowed' = Windowed
      /\ UptimeOf' = UptimeOf /\ ResponseOf' = ResponseOf
      /\ Down(Seen)' = Down(Seen') /\ NotDown(Seen)' = NotDown(Seen')
  BY <1>2, <1>3, SameMeaning
<1>6. id \in Mine /\ id \in Id /\ id \notin Seen /\ Mine \subseteq Id
  BY <1>4 DEF Turning, Seen, Mine
<1>7. Seen' = Seen \cup {id}
  BY <1>2, <1>5, <1>6 DEF Seen
<1>8. latest = IF id \in Checked THEN {Last(id).status} ELSE {}
  BY <1>6, LatestCheck DEF Checked
<1> HIDE DEF latest
<1>9. /\ IsFiniteSet(Seen \ Checked) /\ IsFiniteSet(Down(Seen)) /\ IsFiniteSet(NotDown(Seen))
      /\ Cardinality(Seen \ Checked) \in Nat /\ Cardinality(Down(Seen)) \in Nat
      /\ Cardinality(NotDown(Seen)) \in Nat
  <2>1. Seen \ Checked \subseteq Id /\ Down(Seen) \subseteq Id /\ NotDown(Seen) \subseteq Id
    BY <1>6 DEF Seen, Down, NotDown
  <2>2. QED
    BY <2>1, IdsFinite
<1>10. id \notin Seen \ Checked /\ id \notin Down(Seen) /\ id \notin NotDown(Seen)
  BY <1>6 DEF Down, NotDown
<1>11. /\ Cardinality((Seen \ Checked) \cup {id}) = Cardinality(Seen \ Checked) + 1
       /\ Cardinality(Down(Seen) \cup {id}) = Cardinality(Down(Seen)) + 1
       /\ Cardinality(NotDown(Seen) \cup {id}) = Cardinality(NotDown(Seen)) + 1
  BY <1>9, <1>10, FS_AddElement
<1>12. Told'
  <2>1. CASE id \notin Checked
    <3>1. /\ (Seen \ Checked)' = (Seen \ Checked) \cup {id}
          /\ Down(Seen') = Down(Seen) /\ NotDown(Seen') = NotDown(Seen)
      BY <1>5, <1>7, <2>1 DEF Down, NotDown
    <3>2. latest = {} /\ latest # {"down"}
      BY <1>8, <2>1
    <3>3. QED
      BY <1>2, <1>4, <1>5, <1>11, <3>1, <3>2 DEF Told
  <2>2. CASE id \in Checked /\ Last(id).status = "down"
    <3>1. /\ (Seen \ Checked)' = Seen \ Checked
          /\ Down(Seen') = Down(Seen) \cup {id} /\ NotDown(Seen') = NotDown(Seen)
      BY <1>5, <1>7, <2>2 DEF Down, NotDown
    <3>2. latest = {"down"} /\ latest # {}
      BY <1>8, <2>2
    <3>3. QED
      BY <1>2, <1>4, <1>5, <1>11, <3>1, <3>2 DEF Told
  <2>3. CASE id \in Checked /\ Last(id).status # "down"
    <3>1. /\ (Seen \ Checked)' = Seen \ Checked
          /\ Down(Seen') = Down(Seen) /\ NotDown(Seen') = NotDown(Seen) \cup {id}
      BY <1>5, <1>7, <2>3 DEF Down, NotDown
    <3>2. latest # {"down"} /\ latest # {}
      BY <1>8, <2>3
    <3>3. QED
      BY <1>2, <1>4, <1>5, <1>11, <3>1, <3>2 DEF Told
  <2>4. QED
    BY <2>1, <2>2, <2>3
<1>13. Averaged' = Averaged
  BY <1>2, <1>3, <1>5, <1>6, <1>7 DEF Averaged, InHand
<1>14. Added'
  BY <1>2, <1>4, <1>5, <1>13 DEF Added
<1>15. Turning'
  <2>1. sum'.has = (id \in Checked)
    BY <1>2, <1>8
  <2>2. QED
    BY <1>2, <1>4, <1>5, <1>7, <2>1 DEF Turning
<1>16. Covered'
  <2>1. excused' = excused
    BY DEF Latest
  <2>2. QED
    BY <1>2, <1>4, <1>5, <1>13, <2>1 DEF Covered
<1>17. QED
  BY <1>12, <1>14, <1>15, <1>16 DEF SnapInv

LEMMA SnapUptime ==
    ASSUME SumInv, ChecksInv, CheckInv, SnapInv, calm, Uptime
    PROVE  SnapInv'
<1>1. /\ sum'.at = "average" /\ sum'.uptime = UptimeSince(sum.id, sum.since)
      /\ sum'.list = sum.list /\ sum'.id = sum.id /\ sum'.has = sum.has
      /\ sum'.total = sum.total /\ sum'.pending = sum.pending
      /\ sum'.unhealthy = sum.unhealthy /\ sum'.healthy = sum.healthy
      /\ sum'.user = sum.user /\ sum'.since = sum.since
      /\ sum'.statsCount = sum.statsCount /\ sum'.uptimeSum = sum.uptimeSum
      /\ sum'.responseSum = sum.responseSum
  BY DEF Uptime, SumInv, SumFields
<1>2. sum.at = "uptime" /\ UNCHANGED <<monitors, checks>>
  BY DEF Uptime, tables
<1>3. Told /\ Added /\ Turning /\ Covered
  BY <1>2 DEF SnapInv
<1>4. /\ Mine' = Mine /\ Checked' = Checked /\ Windowed' = Windowed
      /\ UptimeOf' = UptimeOf /\ ResponseOf' = ResponseOf
      /\ Down(Seen)' = Down(Seen') /\ NotDown(Seen)' = NotDown(Seen')
  BY <1>1, <1>2, SameMeaning
<1>5. Seen' = Seen /\ Averaged' = Averaged
  BY <1>1, <1>2, <1>4 DEF Seen, Averaged, InHand
<1>6. sum.id \in Id
  BY <1>2, <1>3 DEF Turning, Seen, Mine
<1>7. sum'.uptime = UptimeOf[sum.id]
  BY <1>1, <1>6, AveragesMeant, DashboardAssumption
<1>8. Told'
  BY <1>1, <1>3, <1>4, <1>5 DEF Told
<1>9. Added'
  BY <1>1, <1>3, <1>4, <1>5 DEF Added
<1>10. Turning'
  BY <1>1, <1>2, <1>3, <1>4, <1>5, <1>7 DEF Turning
<1>11. Covered'
  <2>1. ~excused' => ~excused /\ (sum.has => Since(sum.id, sum.since) # {})
    <3>1. excused' = (excused \/ (sum.has /\ Since(sum.id, sum.since) = {}))
      BY DEF Uptime
    <3>2. QED
      BY <3>1
  <2>2. sum.id \in Mine
    BY <1>2, <1>3 DEF Turning, Seen
  <2>3. ~excused' /\ sum.has => sum.id \in Windowed
    BY <2>1, <2>2 DEF Windowed
  <2>4. QED
    BY <1>1, <1>3, <1>4, <1>5, <2>1, <2>3 DEF Covered
<1>12. QED
  BY <1>8, <1>9, <1>10, <1>11 DEF SnapInv

LEMMA SnapAverage ==
    ASSUME SumInv, ChecksInv, CheckInv, SnapInv, calm, Average
    PROVE  SnapInv'
<1> DEFINE counts == IF sum.has THEN 1 ELSE 0
           response == AvgResponseTimeSince(sum.id, sum.since)
<1>1. /\ sum'.at = Turn(sum.list) /\ sum'.list = sum.list
      /\ sum'.total = sum.total /\ sum'.pending = sum.pending
      /\ sum'.unhealthy = sum.unhealthy /\ sum'.healthy = sum.healthy
      /\ sum'.user = sum.user /\ sum'.since = sum.since
      /\ sum'.statsCount = sum.statsCount + counts
      /\ sum'.uptimeSum = sum.uptimeSum + counts * sum.uptime
      /\ sum'.responseSum = sum.responseSum + counts * response
  BY DEF Average, SumInv, SumFields
<1>2. sum.at = "average" /\ UNCHANGED <<monitors, checks>>
  BY DEF Average, tables
<1>3. Told /\ Added /\ Turning /\ Covered
  BY <1>2 DEF SnapInv
<1>4. /\ Mine' = Mine /\ Checked' = Checked /\ Windowed' = Windowed
      /\ UptimeOf' = UptimeOf /\ ResponseOf' = ResponseOf
      /\ Down(Seen)' = Down(Seen') /\ NotDown(Seen)' = NotDown(Seen')
  BY <1>1, <1>2, SameMeaning
<1>5. /\ sum.id \in Seen /\ sum.id \in Id /\ sum.has = (sum.id \in Checked)
      /\ sum.uptime = UptimeOf[sum.id]
  BY <1>2, <1>3 DEF Turning, Seen, Mine
<1>6. sum'.at \in {"done", "latest"} /\ (sum'.at = "done" => sum'.list = {})
  BY <1>1 DEF Turn
<1>7. Seen' = Seen /\ Averaged = (Seen \ {sum.id}) \cap Checked /\ Averaged' = Seen \cap Checked
  BY <1>1, <1>2, <1>4, <1>6 DEF Seen, Averaged, InHand
<1>8. /\ UptimeOf[sum.id] \in Nat /\ response = ResponseOf[sum.id]
      /\ \A x \in Id : UptimeOf[x] \in Nat /\ ResponseOf[x] \in Nat
  BY <1>5, AveragesMeant, DashboardAssumption
<1> HIDE DEF response
<1>9. Averaged \subseteq Id /\ Averaged' \subseteq Id
  BY <1>7 DEF Seen, Mine
<1>10. /\ IsFiniteSet(Averaged) /\ Cardinality(Averaged) \in Nat
       /\ IsFiniteSet(Averaged')
  BY <1>9, IdsFinite
<1>11. /\ SumFunctionOnSet(UptimeOf, Averaged) \in Nat
       /\ SumFunctionOnSet(ResponseOf, Averaged) \in Nat
  BY <1>8, <1>9, <1>10, SumType
<1>12. Added'
  <2>1. CASE sum.id \in Checked
    <3>1. Averaged' = Averaged \cup {sum.id} /\ sum.id \notin Averaged
          /\ Averaged' \ {sum.id} = Averaged /\ sum.id \in Averaged'
      BY <1>5, <1>7, <2>1
    <3>2. Cardinality(Averaged') = Cardinality(Averaged) + 1
      BY <1>10, <3>1, FS_AddElement
    <3>3. /\ SumFunctionOnSet(UptimeOf, Averaged') =
                UptimeOf[sum.id] + SumFunctionOnSet(UptimeOf, Averaged)
          /\ SumFunctionOnSet(ResponseOf, Averaged') =
                ResponseOf[sum.id] + SumFunctionOnSet(ResponseOf, Averaged)
      <4>1. \A x \in Averaged' : UptimeOf[x] \in Nat /\ ResponseOf[x] \in Nat
        BY <1>8, <1>9
      <4>2. QED
        BY <1>10, <3>1, <4>1, SumRemove
    <3>4. counts = 1
      BY <1>5, <2>1
    <3>5. /\ sum'.uptimeSum = sum.uptimeSum + sum.uptime
          /\ sum'.responseSum = sum.responseSum + response
          /\ sum'.statsCount = sum.statsCount + 1
      BY <1>1, <1>5, <1>8, <3>4
    <3>6. QED
      BY <1>3, <1>4, <1>5, <1>8, <1>11, <3>2, <3>3, <3>5 DEF Added
  <2>2. CASE sum.id \notin Checked
    <3>1. Averaged' = Averaged
      BY <1>7, <2>2
    <3>2. counts = 0
      BY <1>5, <2>2
    <3>3. /\ sum'.uptimeSum = sum.uptimeSum /\ sum'.responseSum = sum.responseSum
          /\ sum'.statsCount = sum.statsCount
      BY <1>1, <1>3, <1>5, <1>8, <1>10, <1>11, <3>2 DEF Added
    <3>4. QED
      BY <1>3, <1>4, <3>1, <3>3 DEF Added
  <2>3. QED
    BY <2>1, <2>2
<1>13. Told'
  BY <1>1, <1>3, <1>4, <1>7 DEF Told
<1>14. Turning'
  BY <1>1, <1>3, <1>4, <1>6 DEF Turning
<1>15. Covered'
  <2>1. excused' = excused /\ sum'.at # "average"
    BY <1>6 DEF Average
  <2>2. Averaged' \subseteq Averaged \cup {sum.id}
        /\ (sum.id \in Averaged' => sum.id \in Checked)
    BY <1>7
  <2>3. ~excused /\ sum.id \in Checked => sum.id \in Windowed
    BY <1>2, <1>3, <1>5 DEF Covered
  <2>4. QED
    BY <1>3, <1>4, <2>1, <2>2, <2>3 DEF Covered
<1>16. QED
  BY <1>12, <1>13, <1>14, <1>15 DEF SnapInv

\* The rows of checks stay told apart: a new one has a time of its own.
LEMMA CheckKept ==
    ASSUME CheckInv, [Next]_vars
    PROVE  CheckInv'
<1>1. CASE checks' \subseteq checks
  BY <1>1 DEF CheckInv
<1>2. CASE InsertCheck
  <2>1. PICK id \in Id, at \in Time, status \in Status, ms \in Millis :
          /\ \A c \in checks : <<c.monitor, c.at>> # <<id, at>>
          /\ checks' = checks \cup {[monitor |-> id, at |-> at, status |-> status,
                                     ms |-> ms]}
    BY <1>2 DEF InsertCheck
  <2>2. QED
    BY <2>1 DEF CheckInv
<1>3. ASSUME NEW r \in Requests, Handle(r) PROVE checks' \subseteq checks
  BY <1>3 DEF Handle, Arrive, RequireRole, CreateRejects, Create, Load, Written, Update,
              Delete, CallFails, Done, tables
<1>4. CASE Summary \/ Latest \/ Uptime \/ Average \/ EndSummary \/ UNCHANGED vars
  <2>1. checks' = checks
    BY <1>4 DEF Summary, Latest, Uptime, Average, EndSummary, vars, tables
  <2>2. QED
    BY <1>1, <2>1
<1>5. QED
  BY <1>1, <1>2, <1>3, <1>4 DEF Next

LEMMA SnapStep ==
    ASSUME DashInv, CheckInv, SnapInv, [Next]_vars
    PROVE  SnapInv'
<1> USE DEF DashInv
<1>1. ASSUME UNCHANGED <<sum, tables, calm, excused>> \/ ~calm'
      PROVE  SnapInv'
  <2>1. CASE ~calm'
    BY <2>1 DEF SnapInv
  <2>2. CASE UNCHANGED <<sum, tables, calm, excused>>
    <3>1. /\ Mine' = Mine /\ Checked' = Checked /\ Windowed' = Windowed
          /\ UptimeOf' = UptimeOf /\ ResponseOf' = ResponseOf
          /\ Down(Seen)' = Down(Seen') /\ NotDown(Seen)' = NotDown(Seen')
      BY <2>2, SameMeaning DEF tables
    <3>2. Seen' = Seen /\ Averaged' = Averaged
      BY <2>2, <3>1 DEF Seen, Averaged, InHand
    <3>3. (Told => Told') /\ (Added => Added') /\ (Turning => Turning')
          /\ (Covered => Covered')
      BY <2>2, <3>1, <3>2 DEF Told, Added, Turning, Covered
    <3>4. QED
      BY <2>2, <3>3 DEF SnapInv
  <2>3. QED
    BY <1>1, <2>1, <2>2
<1>2. ASSUME NEW r \in Requests, calm' = (calm /\ UNCHANGED tables),
             UNCHANGED <<sum, excused>>
      PROVE  SnapInv'
  <2>1. calm \in BOOLEAN
    BY DEF SumInv, Histories
  <2>2. UNCHANGED <<sum, tables, calm, excused>> \/ ~calm'
    BY <1>2, <2>1
  <2>3. QED
    BY <1>1, <2>2
<1>3. CASE InsertCheck
  BY <1>1, <1>3 DEF InsertCheck
<1>4. CASE Latest \/ Uptime \/ Average
  <2>1. calm' = calm /\ calm \in BOOLEAN
    BY <1>4 DEF Latest, Uptime, Average, SumInv, Histories
  <2>2. CASE calm
    BY <1>4, <2>2, SnapLatest, SnapUptime, SnapAverage
  <2>3. QED
    BY <1>1, <2>1, <2>2
<1>5. CASE EndSummary
  BY <1>5 DEF EndSummary, SnapInv, NoSummary
<1>6. CASE UNCHANGED vars
  BY <1>1, <1>6 DEF vars, dashVars
<1>7. QED
  BY <1>2, <1>3, <1>4, <1>5, <1>6, SnapSummary DEF Next

LEMMA SnapAlways == Spec => [](CheckInv /\ SnapInv)
<1>1. Init => CheckInv /\ SnapInv
  BY DEF Init, CheckInv, SnapInv, NoSummary
<1>2. DashInv /\ CheckInv /\ SnapInv /\ [Next]_vars => CheckInv' /\ SnapInv'
  BY CheckKept, SnapStep
<1>3. QED
  BY <1>1, <1>2, DashAlways, PTL DEF Spec

-----------------------------------------------------------------------------
(* Theorems.                                                               *)

\* Every variable has its type, for any number of monitors, requests and checks: no
\* row breaks a CHECK, no check outlives its monitor, and the summary counts no
\* monitor twice.
THEOREM DashboardTypes == Spec => []TypeOK
<1>1. DashInv => TypeOK
  <2> SUFFICES ASSUME DashInv PROVE TypeOK
    OBVIOUS
  <2>1. \A id \in Id : monitors[id] # None =>
            monitors[id] \in Row /\ Constraint(monitors[id]) /\ id < nextId
    BY DEF DashInv, MonitorInv, RowsInv, ValidRow
  <2>2. \A c \in checks : c.monitor \in Id /\ monitors[c.monitor] # None
    BY DEF DashInv, ChecksInv
  <2>3. \A r \in Requests : req[r].at \in {"idle", "begin", "write", "reply"}
    BY DEF DashInv, MonitorInv, RequestsInv, Locals
  <2>4. sum.total <= MaxMonitors /\ sum.statsCount <= sum.total
    BY IdsFinite, MonitorAssumption DEF DashInv, SumInv, Counted, Turned
  <2>5. sum.uptimeSum \in 0..Whole * sum.statsCount
    BY DEF DashInv, SumInv, Shares
  <2>6. calm \in BOOLEAN /\ excused \in BOOLEAN /\ outage \in BOOLEAN
    BY DEF DashInv, SumInv, Histories
  <2>7. QED
    BY <2>1, <2>2, <2>3, <2>4, <2>5, <2>6 DEF TypeOK
<1>2. QED
  BY <1>1, DashAlways, PTL

\* Whatever updates overlap, the row of a monitor is one that was validated as a
\* whole: its timeout is shorter than its interval, though no CHECK says so.
THEOREM RowsAreValid == Spec => []RowsStayValid
<1>1. DashInv => RowsStayValid
  BY DEF DashInv, MonitorInv, RowsInv, ValidRow, RowsStayValid
<1>2. QED
  BY <1>1, DashAlways, PTL

\* A caller that is answered with a 500 has met a failing database, or has sent what no
\* validator looks at: a type in an update, a status code that is no INT, a NUL.  It is
\* not its interval and not its timeout, and a type it creates with is looked at.
THEOREM RejectionsAreClean == Spec => []CleanRejections
<1>1. DashInv => CleanRejections
  <2> SUFFICES ASSUME DashInv, NEW r \in Requests,
                      req[r].status = 500 /\ ~req[r].dbFailed
               PROVE  Unseen(req[r])
    BY DEF CleanRejections, Unseen
  <2>1. CleanAnswer(req[r])
    BY DEF DashInv, MonitorInv, RequestsInv
  <2>2. QED
    BY <2>1 DEF CleanAnswer
<1>2. QED
  BY <1>1, DashAlways, PTL

\* A monitor that was deleted is gone for good, also for an update under way.
THEOREM DeletedIsGone == Spec => DeletedStaysDeleted
<1>1. DashInv /\ [Next]_vars =>
        [\A id \in Id : id < nextId /\ monitors[id] = None => monitors'[id] = None]_monitors
  <2> SUFFICES ASSUME DashInv, [Next]_vars,
                      NEW id \in Id, id < nextId, monitors[id] = None
               PROVE  monitors'[id] = None
    OBVIOUS
  <2>1. CASE UNCHANGED monitors
    BY <2>1
  <2>2. ASSUME NEW r \in Requests, Handle(r) PROVE monitors'[id] = None
    BY <2>2, TablesMove, NoneComesBack DEF DashInv, MonitorInv, tables
  <2>3. QED
    BY <2>1, <2>2
       DEF Next, vars, tables, InsertCheck, Summary, Latest, Uptime, Average, EndSummary
<1>2. QED
  BY <1>1, DashAlways, PTL DEF Spec, DeletedStaysDeleted

\* A monitor is changed or deleted only by a request of its owner or of an admin, and
\* keeps its owner, however long ago the request has loaded it.
THEOREM OwnersOnly == Spec => OnlyOwnersChange
<1>1. DashInv /\ OwnInv /\ [Next]_vars =>
        [\A id \in Id : monitors[id] # None /\ monitors'[id] # monitors[id] =>
           /\ monitors'[id] # None => monitors'[id].user = monitors[id].user
           /\ \E r \in Requests :
                  /\ req[r].at = "write" /\ req[r].id = id /\ req'[r].at = "reply"
                  /\ req[r].by.role # "viewer"
                  /\ req[r].by.role = "admin" \/ req[r].by.user = monitors[id].user]_monitors
  <2> SUFFICES ASSUME DashInv, OwnInv, [Next]_vars,
                      NEW id \in Id, monitors[id] # None, monitors'[id] # monitors[id]
               PROVE  /\ monitors'[id] # None => monitors'[id].user = monitors[id].user
                      /\ \E r \in Requests :
                            /\ req[r].at = "write" /\ req[r].id = id
                            /\ req'[r].at = "reply" /\ req[r].by.role # "viewer"
                            /\ \/ req[r].by.role = "admin"
                               \/ req[r].by.user = monitors[id].user
    OBVIOUS
  <2>1. PICK r \in Requests : Handle(r)
    BY DEF Next, vars, tables, InsertCheck, Summary, Latest, Uptime, Average, EndSummary
  <2>2. id < nextId
    BY DEF DashInv, MonitorInv, RowsInv
  <2>3. /\ req[r].at = "write" /\ req[r].id = id /\ req'[r].at = "reply"
        /\ monitors'[id] # None => monitors'[id].user = monitors[id].user
    BY <2>1, <2>2, OwnersKept DEF DashInv
  <2>4. /\ req[r].by.role # "viewer"
        /\ req[r].by.role = "admin" \/ req[r].by.user = monitors[id].user
    BY <2>3 DEF OwnInv, Entitled, authorizeOwnership
  <2>5. QED
    BY <2>3, <2>4
<1>2. QED
  BY <1>1, DashAlways, OwnAlways, PTL DEF Spec, OnlyOwnersChange

\* An average below 100% comes from a check that was down, or from a monitor of which
\* no check is left in the window: a new monitor does not lower it.
THEOREM OutagesAreReal == Spec => []OutageIsReal
<1>1. DashInv => OutageIsReal
  <2> SUFFICES ASSUME DashInv, sum.statsCount > 0, ~outage, ~excused
               PROVE  ~(Answer.uptime < 10000)
    BY DEF OutageIsReal
  <2>1. sum.uptimeSum = Whole * sum.statsCount /\ sum.statsCount \in Nat
    BY DEF DashInv, SumInv, Counted, AllUp
  <2>2. Answer.uptime = roundTo2(sum.uptimeSum, sum.statsCount)
    BY <2>1 DEF Answer
  <2>3. roundTo2(sum.uptimeSum, sum.statsCount) = 10000
    <3>1. \A b \in Nat : b > 0 => (10000 * b) \div b = 10000
      OBVIOUS
    <3>2. Whole * sum.statsCount \in Nat /\ Whole * sum.statsCount > 0
      <4>1. Whole * 1 <= Whole * sum.statsCount
        BY <2>1, WholeType, Scaled
      <4>2. QED
        BY <2>1, <4>1, WholeType
    <3>3. QED
      BY <2>1, <3>1, <3>2 DEF roundTo2
  <2>4. QED
    BY <2>2, <2>3
<1>2. QED
  BY <1>1, DashAlways, PTL

\* When nothing changes under it, the summary says of the user's monitors what there
\* is to say of them, for any number of monitors and checks; its averages are those of
\* the monitors with a check in the window, unless it has counted one that has none.
THEOREM SummariesAreSnapshots == Spec => []SummaryIsSnapshot
<1>1. DashInv /\ CheckInv /\ SnapInv => SummaryIsSnapshot
  <2> SUFFICES ASSUME DashInv, CheckInv, SnapInv, sum.at = "done", calm
               PROVE  SummaryIsSnapshot
    BY DEF SummaryIsSnapshot
  <2>1. Told /\ Added /\ Covered /\ sum.list = {}
    BY DEF SnapInv, Turning
  <2>2. Seen = Mine /\ Averaged = Checked
    BY <2>1 DEF Seen, Averaged, InHand, Checked
  <2>3. /\ Answer.total = Cardinality(Mine)
        /\ Answer.pending = Cardinality(Mine \ Checked)
        /\ Answer.unhealthy = Cardinality({id \in Checked : Last(id).status = "down"})
        /\ Answer.healthy = Cardinality({id \in Checked : Last(id).status # "down"})
    <3>1. /\ Down(Mine) = {id \in Checked : Last(id).status = "down"}
          /\ NotDown(Mine) = {id \in Checked : Last(id).status # "down"}
      BY DEF Down, NotDown, Checked
    <3>2. QED
      BY <2>1, <2>2, <3>1 DEF Told, Answer
  <2>4. ASSUME ~excused
        PROVE  /\ Answer.uptime = Ratio(10000 * SumFunctionOnSet(UptimeOf, Windowed),
                                        Whole * Cardinality(Windowed))
               /\ Answer.response = Ratio(SumFunctionOnSet(ResponseOf, Windowed),
                                          Cardinality(Windowed))
    <3>1. Windowed = Checked
      <4>1. \A c \in checks : c.at \in Nat
        BY DEF CheckInv, Time
      <4>2. \A id \in Id : Since(id, sum.since) \subseteq Since(id, 0)
        BY <4>1 DEF Since
      <4>3. Windowed \subseteq Checked
        BY <4>2 DEF Windowed, Checked, Mine
      <4>4. QED
        BY <2>1, <2>2, <2>4, <4>3 DEF Covered
    <3>2. Cardinality(Windowed) \in Nat /\ sum.statsCount = Cardinality(Windowed)
      BY <2>1, <2>2, <3>1, IdsFinite DEF Windowed, Mine, Added
    <3>3. Whole * Cardinality(Windowed) = 0 <=> sum.statsCount = 0
      <4>1. sum.statsCount > 0 => Whole * 1 <= Whole * sum.statsCount
        BY <3>2, WholeType, Scaled
      <4>2. QED
        BY <3>2, <4>1, WholeType
    <3>4. QED
      BY <2>1, <2>2, <3>1, <3>2, <3>3 DEF Added, Answer, roundTo2, Ratio
  <2>5. QED
    BY <2>3, <2>4 DEF SummaryIsSnapshot
<1>2. QED
  BY <1>1, DashAlways, SnapAlways, PTL
=============================================================================
