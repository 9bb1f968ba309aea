--------------------------- MODULE AccountsProofs ---------------------------
(***************************************************************************)
(* What holds of the accounts for every number of users, browsers,         *)
(* requests, tokens and addresses, whatever fails or is lost: the types,   *)
(* the limiter's budget, the last admin, and what a session is worth.      *)
(***************************************************************************)
EXTENDS Accounts, FiniteSetTheorems, TLAPS

Place == {"idle", "limit", "begin", "issue", "getUser", "revoke", "revokeFamily",
          "count", "write", "reply"}

\* What a request goroutine may hold.
Request ==
    [at : Place,
     op : Ops \cup {None}, by : Clients \cup {None}, limiter : Limiter \cup {None},
     user : Users \cup {None}, token : Token \cup {None},
     claims : AccessToken \cup {None}, family : Token \cup {None},
     role : Roles \cup NewRole \cup {None}, stale : BOOLEAN,
     status : Status \cup {None},
     cookie : Token \cup {Clear, None}, access : AccessToken \cup {None}]

\* What a request is sure of, by the statement it is at: what it came with, what
\* it has read, and that there is no response before the reply.
Sane(r) ==
    LET q == req[r]
    IN  /\ q.at # "idle" => q.op \in Ops /\ q.by \in Clients
        /\ q.at # "reply" => q.status = None /\ q.cookie = None /\ q.access = None
        /\ q.at = "limit" => q.limiter \in Limiter
        /\ q.op \in {"register", "login", "updateRole"} => q.user \in Users
        /\ q.op \in {"refresh", "logout"} => q.token \in Stored
        /\ q.at \in {"getUser", "revoke"} => q.op = "refresh"
        /\ q.at = "issue" => q.op \in {"login", "refresh"}
        /\ q.at = "revokeFamily" => q.op \in {"refresh", "logout"}
        /\ q.at \in {"count", "write"} => q.op = "updateRole"
        /\ q.at \in {"getUser", "revoke", "issue"} =>
              q.user \in Users /\ users[q.user] \in Roles
        /\ q.at \in {"revoke", "issue", "count", "write"} => q.role \in Roles
        /\ (q.at \in {"getUser", "revoke", "revokeFamily"}
               \/ (q.at = "issue" /\ q.op = "refresh")) =>
              q.family = tokens[q.token].family
        /\ q.token \in Stored \cup {None} /\ q.cookie \in Stored \cup {Clear, None}

\* Tokens are numbered without a gap; each has a family that began with a token,
\* and belongs to an account.
Numbered == \E k \in 0..MaxTokens : Stored = 1..k

Rooted ==
    \A t \in Stored : tokens[t].family \in Stored /\ users[tokens[t].user] \in Roles

TypeInv ==
    /\ TypeOK
    /\ req \in [Requests -> Request]
    /\ \A r \in Requests : Sane(r)
    /\ Numbered /\ Rooted /\ raced \cup ended \subseteq Stored

-----------------------------------------------------------------------------
(* The limiter.                                                            *)

\* Who holds the limiter of the map is in the map.
LimiterKnown ==
    \A r \in Requests : LET l == req[r].limiter
                        IN  l # None => /\ l[2] <= cleanups
                                        /\ l[2] = cleanups => l[1] \in visitors

\* What was admitted, and what the bucket in the map still has to give.
Budget ==
    \A ip \in IP :
        IF ip \in visitors
        THEN admitted[ip] + bucket[LimiterOf(ip)] <= Burst * (1 + cleanups) + refills
        ELSE admitted[ip] <= Burst * cleanups + refills

-----------------------------------------------------------------------------
(* The last admin.                                                         *)

\* An update that is not stale and about to demote an admin leaves another one.
OthersRemain ==
    \A r \in Requests :
        At(r, "updateRole", "write") /\ ~req[r].stale /\ req[r].role # "admin" =>
            \E u \in Admins : u # req[r].user

AdminInv == rushed \/ (Admins # {} /\ OthersRemain)

-----------------------------------------------------------------------------
(* Sessions.                                                               *)

OneLive(f) == \A s, t \in Live(f) : s = t

\* A family that no two refreshes were at work on.
Rotation ==
    \A f \in Token \ raced :
        /\ OneLive(f)
        /\ \A p, q \in Refreshing(f) : p = q
        /\ \A r \in Refreshing(f) :
              Live(f) \subseteq (IF req[r].at = "issue" THEN {} ELSE {req[r].token})

\* A family that was revoked with no refresh at work on it.
Ended == \A f \in ended \ slipped : Live(f) = {} /\ Refreshing(f) = {}

ReuseTold ==
    \A r \in Requests :
        req[r].status = "reuse" =>
            req[r].op = "refresh" /\ tokens[req[r].token].family \in ended

SessionInv == Rotation /\ Ended /\ ReuseTold

-----------------------------------------------------------------------------
(* Honest clients.                                                         *)

Busy(r, c) == req[r].at # "idle" /\ req[r].by = c

\* The tokens that a browser has, has sent or is about to get.
Holds(c, t) ==
    t \in Stored /\ \/ jar[c] = t
                    \/ \E r \in Requests : Busy(r, c) /\ t \in {req[r].token, req[r].cookie}

\* No two browsers share a session.
Owned ==
    \A c, d \in Clients : \A s, t \in Stored :
        Holds(c, s) /\ Holds(d, t) /\ tokens[s].family = tokens[t].family => c = d

\* The cookie of c is good.
Safe(c) == jar[c] = None \/ ~tokens[jar[c]].revoked

\* What a request of a browser that is not troubled may be about to do: its cookie is
\* good unless the request is about to replace or to delete it.
Good(c, r) ==
    /\ req[r].op \in {"refresh", "logout"} => req[r].token = jar[c]
    /\ req[r].at = "revokeFamily" => req[r].op = "logout"
    /\ req[r].at \notin {"issue", "reply"} => Safe(c)
    /\ req[r].at = "reply" =>
          /\ req[r].status # "reuse"
          /\ \/ req[r].status = "failed"
             \/ req[r].cookie = Clear
             \/ req[r].cookie \in Token /\ ~tokens[req[r].cookie].revoked
             \/ req[r].cookie = None /\ Safe(c)

\* It has one request at a time.
HonestAt(c) ==
    /\ \A p, q \in Requests : Busy(p, c) /\ Busy(q, c) => p = q
    /\ (\A q \in Requests : ~Busy(q, c)) => Safe(c)
    /\ \A r \in Requests : Busy(r, c) => Good(c, r)

Honest == \A c \in Clients \ troubled : HonestAt(c)

-----------------------------------------------------------------------------
(* What the actions do to the request they are about.                      *)

\* Only r moves.
Moves(r) == req' \in [Requests -> Request] /\ \A q \in Requests \ {r} : req'[q] = req[q]

\* What r came with stays.
Came(r) == /\ req'[r].op = req[r].op /\ req'[r].by = req[r].by
           /\ req'[r].limiter = req[r].limiter /\ req'[r].token = req[r].token
           /\ req'[r].claims = req[r].claims

\* What it has read stays.
Read(r) == /\ req'[r].user = req[r].user /\ req'[r].family = req[r].family
           /\ req'[r].role = req[r].role /\ req'[r].stale = req[r].stale

\* Its response stays.
Quiet(r) == /\ req'[r].status = req[r].status /\ req'[r].cookie = req[r].cookie
            /\ req'[r].access = req[r].access

LEMMA RespondEffect ==
    ASSUME req \in [Requests -> Request], NEW r \in Requests,
           NEW s \in Status,
           NEW k \in Token \cup {Clear, None}, NEW a \in AccessToken \cup {None},
           Respond(r, s, k, a)
    PROVE  /\ Moves(r) /\ Came(r) /\ Read(r)
           /\ req'[r].at = "reply" /\ req'[r].status = s /\ req'[r].cookie = k
<1>1. /\ req'[r].at = "reply" /\ req'[r].status = s /\ req'[r].cookie = k
      /\ req'[r].access = a /\ Came(r) /\ Read(r)
  BY DEF Respond, Request, Came, Read
<1>2. \A q \in Requests \ {r} : req'[q] = req[q]
  BY DEF Respond
<1>3. req' \in [Requests -> Request]
  <2> DEFINE r1 == [req EXCEPT ![r].at = "reply"]
             r2 == [r1 EXCEPT ![r].status = s]
             r3 == [r2 EXCEPT ![r].cookie = k]
  <2>1. r1 \in [Requests -> Request]
    BY DEF Request, Place
  <2>2. r2 = [r1 EXCEPT ![r].status = s]
    OBVIOUS
  <2>3. r3 = [r2 EXCEPT ![r].cookie = k]
    OBVIOUS
  <2>4. req' = [r3 EXCEPT ![r].access = a]
    BY DEF Respond
  <2> HIDE DEF r1, r2, r3
  <2>5. r2 \in [Requests -> Request]
    BY <2>1, <2>2 DEF Request
  <2>6. r3 \in [Requests -> Request]
    BY <2>3, <2>5 DEF Request
  <2>7. QED
    BY <2>4, <2>6 DEF Request
<1>4. QED
  BY <1>1, <1>2, <1>3 DEF Moves

LEMMA GotoEffect ==
    ASSUME req \in [Requests -> Request], NEW r \in Requests,
           NEW at \in {"begin", "issue", "count", "write"}, Goto(r, at)
    PROVE  Moves(r) /\ Came(r) /\ Read(r) /\ Quiet(r) /\ req'[r].at = at
BY DEF Goto, Request, Place, Moves, Came, Read, Quiet

\* One field more.
LEMMA SetField ==
    ASSUME NEW f \in [Requests -> Request], NEW r \in Requests
    PROVE  /\ \A role \in Roles : [f EXCEPT ![r].role = role] \in [Requests -> Request]
           /\ \A t \in Token : [f EXCEPT ![r].family = t] \in [Requests -> Request]
           /\ \A u \in Users : [f EXCEPT ![r].user = u] \in [Requests -> Request]
           /\ \A at \in Place : [f EXCEPT ![r].at = at] \in [Requests -> Request]
<1>1. \A role \in Roles : [f EXCEPT ![r].role = role] \in [Requests -> Request]
  BY DEF Request
<1>2. \A t \in Token : [f EXCEPT ![r].family = t] \in [Requests -> Request]
  BY DEF Request
<1>3. \A u \in Users : [f EXCEPT ![r].user = u] \in [Requests -> Request]
  BY DEF Request
<1>4. \A at \in Place : [f EXCEPT ![r].at = at] \in [Requests -> Request]
  BY DEF Request
<1>5. QED
  BY <1>1, <1>2, <1>3, <1>4

\* The reads of Login, Logout and Refresh, and of GetUser.
ReadsRole(r, at, role) == req' = [req EXCEPT ![r].at = at, ![r].role = role]
ReadsFamily(r, at, family) == req' = [req EXCEPT ![r].at = at, ![r].family = family]
ReadsOwner(r, at, user, family) ==
    req' = [req EXCEPT ![r].at = at, ![r].user = user, ![r].family = family]

LEMMA RoleEffect ==
    ASSUME req \in [Requests -> Request], NEW r \in Requests,
           NEW at \in Place, NEW role \in Roles,
           ReadsRole(r, at, role)
    PROVE  /\ Moves(r) /\ Came(r) /\ Quiet(r) /\ req'[r].at = at /\ req'[r].role = role
           /\ req'[r].user = req[r].user /\ req'[r].family = req[r].family
<1>f. /\ Came(r) /\ Quiet(r) /\ req'[r].at = at /\ req'[r].role = role
      /\ req'[r].user = req[r].user /\ req'[r].family = req[r].family
  BY DEF ReadsRole, Came, Quiet, Request
<1>o. \A q \in Requests \ {r} : req'[q] = req[q]
  BY DEF ReadsRole
<1> DEFINE there == [req EXCEPT ![r].at = at]
<1>1. there \in [Requests -> Request]
  BY SetField
<1>2. req' = [there EXCEPT ![r].role = role]
  BY DEF ReadsRole
<1> HIDE DEF there
<1>3. req' \in [Requests -> Request]
  BY <1>1, <1>2, SetField
<1>4. QED
  BY <1>f, <1>o, <1>3 DEF Moves

LEMMA FamilyEffect ==
    ASSUME req \in [Requests -> Request], NEW r \in Requests,
           NEW at \in Place, NEW family \in Token,
           ReadsFamily(r, at, family)
    PROVE  /\ Moves(r) /\ Came(r) /\ Quiet(r)
           /\ req'[r].at = at /\ req'[r].family = family
<1>f. Came(r) /\ Quiet(r) /\ req'[r].at = at /\ req'[r].family = family
  BY DEF ReadsFamily, Came, Quiet, Request
<1>o. \A q \in Requests \ {r} : req'[q] = req[q]
  BY DEF ReadsFamily
<1> DEFINE there == [req EXCEPT ![r].at = at]
<1>1. there \in [Requests -> Request]
  BY SetField
<1>2. req' = [there EXCEPT ![r].family = family]
  BY DEF ReadsFamily
<1> HIDE DEF there
<1>3. req' \in [Requests -> Request]
  BY <1>1, <1>2, SetField
<1>4. QED
  BY <1>f, <1>o, <1>3 DEF Moves

LEMMA OwnerEffect ==
    ASSUME req \in [Requests -> Request], NEW r \in Requests,
           NEW at \in Place, NEW user \in Users, NEW family \in Token,
           ReadsOwner(r, at, user, family)
    PROVE  /\ Moves(r) /\ Came(r) /\ Quiet(r) /\ req'[r].at = at
           /\ req'[r].user = user /\ req'[r].family = family
<1>f. /\ Came(r) /\ Quiet(r) /\ req'[r].at = at
      /\ req'[r].user = user /\ req'[r].family = family
  BY DEF ReadsOwner, Came, Quiet, Request
<1>o. \A q \in Requests \ {r} : req'[q] = req[q]
  BY DEF ReadsOwner
<1> DEFINE there == [req EXCEPT ![r].at = at]
           named == [there EXCEPT ![r].user = user]
<1>1. there \in [Requests -> Request]
  BY SetField
<1>2. req' = [named EXCEPT ![r].family = family]
  BY DEF ReadsOwner
<1> HIDE DEF there
<1>3. named \in [Requests -> Request]
  BY <1>1, SetField
<1> HIDE DEF named
<1>4. req' \in [Requests -> Request]
  BY <1>2, <1>3, SetField
<1>5. QED
  BY <1>f, <1>o, <1>4 DEF Moves

LEMMA IdleEffect ==
    ASSUME req \in [Requests -> Request], NEW r \in Requests,
           req' = [req EXCEPT ![r] = Idle]
    PROVE  Moves(r) /\ req'[r] = Idle
BY DEF Idle, Request, Place, Moves, Clear

LEMMA FailEffect ==
    ASSUME req \in [Requests -> Request], NEW r \in Requests, Fail(r)
    PROVE  /\ Moves(r) /\ Came(r) /\ Read(r) /\ req'[r].at = "reply"
           /\ req'[r].status = IF req[r].op = "logout" THEN "ok" ELSE "failed"
           /\ req'[r].cookie = IF req[r].op = "logout" THEN Clear ELSE None
BY RespondEffect DEF Fail, Status

-----------------------------------------------------------------------------
(* Types.  The database, the requests, the limiter and the browsers change *)
(* one by one; what holds of a request needs of the database only that     *)
(* tokens and accounts stay.                                               *)

Tables ==
    /\ users \in [Users -> Roles \cup {None}]
    /\ tokens \in [Token -> Row \cup {None}]
    /\ slipped \subseteq ended /\ raced \cup ended \subseteq Stored
    /\ Numbered /\ Rooted

Browsers ==
    /\ jar \in [Clients -> Stored \cup {None}]
    /\ access \in [Clients -> AccessToken \cup {None}]
    /\ rushed \in BOOLEAN /\ troubled \subseteq Clients /\ sent \in 0..MaxRequests

Calm(r) == Sane(r) /\ (req[r].at = "idle" <=> req[r] = Idle)

LEMMA TypeParts ==
    TypeInv <=> /\ Tables /\ Browsers /\ LimiterTypeOK
                /\ req \in [Requests -> Request] /\ \A r \in Requests : Calm(r)
BY DEF TypeInv, TypeOK, Tables, Browsers, Calm, Stored

LEMMA TypePartsThen ==
    ASSUME Tables', Browsers', LimiterTypeOK', req' \in [Requests -> Request],
           \A r \in Requests : Calm(r)'
    PROVE  TypeInv'
BY DEF TypeInv, TypeOK, Tables, Browsers, Calm, Stored

\* No step loses a token or an account, or makes a revoked token good.
Kept ==
    /\ \A t \in Stored : /\ t \in Stored'
                         /\ tokens'[t].family = tokens[t].family
                         /\ tokens'[t].user = tokens[t].user
                         /\ tokens[t].revoked => tokens'[t].revoked
    /\ \A u \in Users : users[u] \in Roles => users'[u] \in Roles

LEMMA KeptCalm ==
    ASSUME TypeInv, Kept, NEW q \in Requests, req'[q] = req[q]
    PROVE  Calm(q)'
<1>1. Calm(q) /\ req \in [Requests -> Request]
  BY TypeParts
<1>2. \A t \in Stored : t \in Stored' /\ tokens'[t].family = tokens[t].family
  BY DEF Kept
<1>3. \A u \in Users : users[u] \in Roles => users'[u] \in Roles
  BY DEF Kept
<1>4. req[q].at \in {"getUser", "revoke", "issue", "revokeFamily"} /\ req[q].op # "login"
        => req[q].token \in Stored
  BY <1>1 DEF Calm, Sane
<1>5. QED
  BY <1>1, <1>2, <1>3, <1>4 DEF Calm, Sane

\* A statement that reads, or none.
LEMMA NoWrite ==
    ASSUME TypeInv, UNCHANGED stored
    PROVE  Tables' /\ Kept
BY TypeParts DEF stored, history, Tables, Kept, Numbered, Rooted, Stored

\* A row of the table changes, but neither its user nor its family.
LEMMA RowsChange ==
    ASSUME TypeInv, UNCHANGED <<users, raced>>,
           tokens' \in [Token -> Row \cup {None}],
           \A t \in Token : tokens[t] = None => tokens'[t] = None,
           \A t \in Stored : /\ tokens'[t] \in Row
                             /\ tokens'[t].family = tokens[t].family
                             /\ tokens'[t].user = tokens[t].user
                             /\ tokens[t].revoked => tokens'[t].revoked,
           slipped' \subseteq ended', ended' \subseteq Stored
    PROVE  Tables' /\ Kept /\ Stored' = Stored
<1>1. Tables
  BY TypeParts
<1>2. Stored' = Stored
  BY AuthAssumption DEF Stored
<1>3. Kept
  BY <1>2 DEF Kept
<1>4. Numbered' /\ Rooted'
  BY <1>1, <1>2 DEF Tables, Numbered, Rooted
<1>5. QED
  BY <1>1, <1>2, <1>3, <1>4 DEF Tables

\* Tokens are handed out in order.
LEMMA NextToken ==
    ASSUME Tables, Cardinality(Stored) + 1 \in Token
    PROVE  /\ Cardinality(Stored) \in Nat
           /\ Stored = 1..Cardinality(Stored)
           /\ Cardinality(Stored) + 1 \notin Stored
<1>1. PICK k \in 0..MaxTokens : Stored = 1..k
  BY DEF Tables, Numbered
<1>2. Cardinality(Stored) = k /\ k \in Nat
  BY <1>1, FS_Interval, AuthAssumption
<1>3. QED
  BY <1>1, <1>2

LEMMA RowInserted ==
    ASSUME TypeInv, UNCHANGED <<users, history>>,
           NEW t, t = Cardinality(Stored) + 1, t \in Token,
           NEW row \in Row, row.family \in Stored \cup {t}, users[row.user] \in Roles,
           tokens' = [tokens EXCEPT ![t] = row]
    PROVE  Tables' /\ Kept /\ t \notin Stored /\ Stored' = Stored \cup {t}
<1>1. Tables
  BY TypeParts
<1>2. /\ Cardinality(Stored) \in Nat /\ Stored = 1..Cardinality(Stored)
      /\ t \notin Stored
  BY <1>1, NextToken
<1>3. /\ tokens' \in [Token -> Row \cup {None}] /\ tokens'[t] = row
      /\ \A s \in Token : s # t => tokens'[s] = tokens[s]
  BY <1>1 DEF Tables
<1>4. Stored' = Stored \cup {t}
  BY <1>3, AuthAssumption DEF Stored
<1>5. Kept
  BY <1>2, <1>3, <1>4 DEF Kept, Stored
<1>6. Numbered'
  <2>1. t \in 0..MaxTokens /\ Stored' = 1..t
    BY <1>2, <1>4, AuthAssumption DEF Token
  <2>2. QED
    BY <2>1 DEF Numbered
<1>7. Rooted'
  BY <1>1, <1>2, <1>3, <1>4 DEF Tables, Rooted, Stored
<1>8. QED
  BY <1>1, <1>2, <1>3, <1>4, <1>5, <1>6, <1>7 DEF Tables, history

\* Facts about a request in a handler that the steps below have in common.
LEMMA InHandler ==
    ASSUME TypeInv, NEW r \in Requests
    PROVE  /\ req \in [Requests -> Request] /\ req[r] \in Request
           /\ Tables /\ Browsers /\ LimiterTypeOK /\ Calm(r)
           /\ users \in [Users -> Roles \cup {None}]
           /\ tokens \in [Token -> Row \cup {None}]
           /\ \A t \in Stored : tokens[t] \in Row
           /\ req[r].op \in {"refresh", "logout"} => req[r].token \in Stored
           /\ \A t \in Stored : tokens[t].family \in Stored
                                /\ tokens[t].user \in Users
                                /\ users[tokens[t].user] \in Roles
<1>1. /\ req \in [Requests -> Request] /\ Tables /\ Browsers /\ LimiterTypeOK /\ Calm(r)
  BY TypeParts
<1>2. /\ users \in [Users -> Roles \cup {None}] /\ tokens \in [Token -> Row \cup {None}]
      /\ \A t \in Stored : tokens[t] \in Row
  BY <1>1 DEF Tables, Stored
<1>3. req[r].op \in {"refresh", "logout"} => req[r].token \in Stored
  BY <1>1 DEF Calm, Sane
<1>4. \A t \in Stored : tokens[t].user \in Users
  BY <1>2 DEF Row
<1>5. QED
  BY <1>1, <1>2, <1>3, <1>4 DEF Tables, Rooted

LEMMA ReplyCalm ==
    ASSUME TypeInv, Kept, NEW r \in Requests, req[r].at # "idle",
           Came(r), Read(r), req'[r].at = "reply",
           req'[r].cookie \in Stored' \cup {Clear, None}
    PROVE  Calm(r)'
<1>1. Calm(r) /\ Idle.at = "idle"
  BY TypeParts DEF Idle
<1>2. req[r].token \in Stored => req'[r].token \in Stored'
  BY DEF Kept, Came
<1>3. Sane(r)'
  BY <1>1, <1>2 DEF Calm, Sane, Came, Read
<1>4. QED
  BY <1>1, <1>3 DEF Calm

LEMMA RefuseTypes ==
    ASSUME TypeInv, NEW r \in Requests, req[r].at # "idle",
           UNCHANGED stored, Respond(r, "refused", None, None)
    PROVE  /\ Tables' /\ Kept /\ Moves(r) /\ Calm(r)' /\ Came(r) /\ Read(r)
           /\ req'[r].at = "reply" /\ req'[r].status = "refused" /\ req'[r].cookie = None
BY NoWrite, InHandler, RespondEffect, ReplyCalm DEF Status

LEMMA FailTypes ==
    ASSUME TypeInv, NEW r \in Requests, req[r].at # "idle", Kept, Fail(r)
    PROVE  /\ Moves(r) /\ Calm(r)' /\ Came(r) /\ Read(r) /\ req'[r].at = "reply"
           /\ \/ req[r].op = "logout" /\ req'[r].status = "ok" /\ req'[r].cookie = Clear
              \/ /\ req[r].op # "logout"
                 /\ req'[r].status = "failed" /\ req'[r].cookie = None
BY InHandler, FailEffect, ReplyCalm

LEMMA RegisterTypes ==
    ASSUME TypeInv, NEW r \in Requests, Register(r)
    PROVE  /\ Tables' /\ Kept /\ Moves(r) /\ Calm(r)' /\ Came(r) /\ Read(r)
           /\ req'[r].at = "reply" /\ req'[r].status \in {"ok", "failed"}
           /\ req'[r].cookie = None
           /\ Admins' = Admins /\ UNCHANGED <<tokens, history>>
<1>1. /\ req[r].op = "register" /\ req[r].at = "begin" /\ req[r].user \in Users
      /\ users' = [users EXCEPT ![req[r].user] = "viewer"]
      /\ UNCHANGED <<tokens, history>>
  BY InHandler DEF Register, At, Calm, Sane
<1>2. users' \in [Users -> Roles \cup {None}]
  BY <1>1, InHandler DEF Roles
<1>3. \A u \in Users : users[u] \in Roles => users'[u] \in Roles
  BY <1>1, InHandler DEF Roles
<1>4. Stored' = Stored /\ Kept
  BY <1>1, <1>3 DEF Stored, Kept
<1>5. Numbered' /\ Rooted'
  BY <1>1, <1>3, <1>4, InHandler DEF Tables, Numbered, Rooted
<1>6. Tables'
  BY <1>1, <1>2, <1>4, <1>5, InHandler DEF Tables, history
<1>7. /\ Moves(r) /\ Calm(r)' /\ Came(r) /\ Read(r)
      /\ req'[r].at = "reply" /\ req'[r].status \in {"ok", "failed"}
      /\ req'[r].cookie = None
  <2>1. CASE Respond(r, "ok", None, None)
    <3>1. /\ Moves(r) /\ Came(r) /\ Read(r)
          /\ req'[r].at = "reply" /\ req'[r].status = "ok" /\ req'[r].cookie = None
      BY <2>1, InHandler, RespondEffect DEF Status
    <3>2. QED
      BY <1>1, <1>4, <3>1, ReplyCalm
  <2>2. CASE Fail(r)
    BY <1>1, <1>4, <2>2, FailTypes
  <2>3. QED
    BY <2>1, <2>2 DEF Register
<1>9. Admins' = Admins
  <2>1. None # "admin" /\ users[req[r].user] = None
    BY AuthAssumption DEF Register, Roles
  <2>2. QED
    BY <1>1, <2>1, InHandler DEF Admins
<1>10. QED
  BY <1>1, <1>4, <1>6, <1>7, <1>9

LEMMA LoginTypes ==
    ASSUME TypeInv, NEW r \in Requests, Login(r)
    PROVE  /\ Tables' /\ Kept /\ Moves(r) /\ Calm(r)' /\ Came(r) /\ Quiet(r)
           /\ req[r].op = "login" /\ req'[r].at = "issue" /\ UNCHANGED stored
<1>1. /\ req[r].op = "login" /\ req[r].at = "begin" /\ req[r].user \in Users
      /\ users[req[r].user] \in Roles
      /\ req' = [req EXCEPT ![r].at = "issue", ![r].role = users[req[r].user]]
      /\ UNCHANGED stored
  BY InHandler DEF Login, At, Calm, Sane
<1>2. /\ Moves(r) /\ Came(r) /\ Quiet(r) /\ req'[r].at = "issue"
      /\ req'[r].user = req[r].user /\ req'[r].role \in Roles
  BY <1>1, InHandler, RoleEffect DEF ReadsRole, Place
<1>3. Calm(r)'
  <2>1. Sane(r)'
    BY <1>1, <1>2, InHandler DEF Calm, Sane, Came, Quiet, stored, Stored
  <2>2. QED
    BY <1>2, <2>1 DEF Calm, Idle
<1>4. QED
  BY <1>1, <1>2, <1>3, NoWrite

LEMMA IssueTypes ==
    ASSUME TypeInv, NEW r \in Requests, IssueTokenPair(r)
    PROVE  /\ Tables' /\ Kept /\ Moves(r) /\ Calm(r)' /\ Came(r) /\ Read(r)
           /\ UNCHANGED <<users, history>> /\ req'[r].at = "reply"
           /\ \E t \in Token \ Stored :
                 /\ Stored' = Stored \cup {t} /\ ~tokens'[t].revoked
                 /\ tokens'[t].family = IF req[r].op = "login" THEN t ELSE req[r].family
                 /\ \A s \in Stored : tokens'[s] = tokens[s]
                 /\ \/ req'[r].status = "ok" /\ req'[r].cookie = t
                    \/ req'[r].status = "failed" /\ req'[r].cookie = None
<1> DEFINE t == Cardinality(Stored) + 1
           f == IF req[r].op = "login" THEN t ELSE req[r].family
           row == [user |-> req[r].user, family |-> f, revoked |-> FALSE, expired |-> FALSE]
<1>1. /\ req[r].at = "issue" /\ t \in Token /\ tokens' = [tokens EXCEPT ![t] = row]
      /\ UNCHANGED <<users, history>>
      /\ \/ Respond(r, "ok", t, [user |-> req[r].user, role |-> req[r].role])
         \/ Fail(r)
  BY DEF IssueTokenPair
<1>2. /\ req[r].op \in {"login", "refresh"} /\ req[r].user \in Users
      /\ users[req[r].user] \in Roles /\ req[r].role \in Roles
  BY <1>1, InHandler DEF Calm, Sane
<1>3. req[r].op = "refresh" => req[r].family \in Stored
  BY <1>1, InHandler DEF Calm, Sane
<1>4. f \in Stored \cup {t} /\ f \in Token
  BY <1>1, <1>2, <1>3 DEF Stored
<1>5. row \in Row /\ row.family = f /\ row.user = req[r].user
  BY <1>2, <1>4 DEF Row
<1>6. /\ Tables' /\ Kept /\ t \in Token \ Stored /\ Stored' = Stored \cup {t}
      /\ tokens'[t].family = f /\ ~tokens'[t].revoked
      /\ \A s \in Stored : tokens'[s] = tokens[s]
  <2>1. t \in Token => tokens'[t] = row /\ row.revoked = FALSE
    BY <1>1, InHandler
  <2> HIDE DEF row, f, t
  <2>2. Tables' /\ Kept /\ t \notin Stored /\ Stored' = Stored \cup {t}
    BY <1>1, <1>2, <1>4, <1>5, RowInserted DEF t
  <2>3. \A s \in Stored : s # t => tokens'[s] = tokens[s]
    BY <1>1, InHandler DEF Stored
  <2>4. QED
    BY <1>1, <1>5, <2>1, <2>2, <2>3
<1> HIDE DEF row
<1>7. CASE Fail(r)
  <2>1. /\ Moves(r) /\ Calm(r)' /\ Came(r) /\ Read(r) /\ req'[r].at = "reply"
        /\ req'[r].status = "failed" /\ req'[r].cookie = None
    BY <1>1, <1>2, <1>6, <1>7, FailTypes
  <2>2. QED
    BY <1>1, <1>6, <2>1
<1>8. CASE Respond(r, "ok", t, [user |-> req[r].user, role |-> req[r].role])
  <2>1. [user |-> req[r].user, role |-> req[r].role] \in AccessToken
    BY <1>2 DEF AccessToken
  <2> HIDE DEF t
  <2>2. /\ Moves(r) /\ Came(r) /\ Read(r) /\ req'[r].at = "reply"
        /\ req'[r].status = "ok" /\ req'[r].cookie = t
    BY <1>1, <1>8, <2>1, InHandler, RespondEffect DEF Status
  <2>3. Calm(r)'
    BY <1>1, <1>6, <2>2, ReplyCalm
  <2>4. QED
    BY <1>1, <1>6, <2>2, <2>3
<1>9. QED
  BY <1>1, <1>7, <1>8

\* A refresh or a logout has found the row of its token.
LEMMA FamilyFound ==
    ASSUME TypeInv, NEW r \in Requests, RefreshReused(r) \/ Logout(r)
    PROVE  /\ Tables' /\ Kept /\ Moves(r) /\ Calm(r)'
           /\ req[r].op \in {"refresh", "logout"} /\ Came(r) /\ Quiet(r)
           /\ req'[r].at = "revokeFamily"
<1>1. /\ req[r].op \in {"refresh", "logout"} /\ req[r].at = "begin"
      /\ req' = [req EXCEPT ![r].at = "revokeFamily",
                            ![r].family = tokens[req[r].token].family]
      /\ UNCHANGED stored
  BY DEF RefreshReused, Logout, At
<1>2. req[r].token \in Stored /\ tokens[req[r].token].family \in Token
  BY <1>1, InHandler DEF Stored
<1>3. /\ Moves(r) /\ Came(r) /\ Quiet(r) /\ req'[r].at = "revokeFamily"
      /\ req'[r].family = tokens[req[r].token].family
  BY <1>1, <1>2, InHandler, FamilyEffect DEF ReadsFamily, Place
<1>4. Calm(r)'
  <2>1. Sane(r)'
    BY <1>1, <1>2, <1>3, InHandler DEF Calm, Sane, Came, Quiet, stored, Stored
  <2>2. QED
    BY <1>3, <2>1 DEF Calm, Idle
<1>5. QED
  BY <1>1, <1>3, <1>4, NoWrite

\* RefreshExpired: the row is found to be too old.
LEMMA ExpiredTypes ==
    ASSUME TypeInv, NEW r \in Requests, RefreshExpired(r)
    PROVE  /\ Tables' /\ Kept /\ Moves(r) /\ Calm(r)' /\ Came(r) /\ Read(r)
           /\ req'[r].at = "reply" /\ req'[r].status = "refused" /\ req'[r].cookie = None
           /\ Stored' = Stored
           /\ \A t \in Stored : tokens'[t].revoked = tokens[t].revoked
<1> DEFINE t == req[r].token
<1>1. /\ req[r].op = "refresh" /\ req[r].at = "begin"
      /\ tokens' = [tokens EXCEPT ![t].expired = TRUE]
      /\ Respond(r, "refused", None, None) /\ UNCHANGED <<users, history>>
  BY DEF RefreshExpired, At
<1>2. t \in Stored /\ t \in Token /\ tokens[t] \in Row
  BY <1>1, InHandler DEF Stored
<1> HIDE DEF t
<1>3. /\ tokens' \in [Token -> Row \cup {None}]
      /\ \A s \in Token : s # t => tokens'[s] = tokens[s]
      /\ tokens'[t] \in Row /\ tokens'[t].family = tokens[t].family
      /\ tokens'[t].user = tokens[t].user /\ tokens'[t].revoked = tokens[t].revoked
  BY <1>1, <1>2, InHandler DEF Row
<1>4. \A s \in Stored : s \in Token /\ tokens[s] \in Row
  BY InHandler DEF Stored
<1>5. \A s \in Stored : /\ tokens'[s] \in Row /\ tokens'[s].family = tokens[s].family
                        /\ tokens'[s].user = tokens[s].user
                        /\ tokens'[s].revoked = tokens[s].revoked
  BY <1>3, <1>4
<1>6. \A s \in Token : tokens[s] = None => tokens'[s] = None
  BY <1>2, <1>3, AuthAssumption DEF Stored
<1>7. Tables' /\ Kept /\ Stored' = Stored
  BY <1>1, <1>3, <1>5, <1>6, InHandler, RowsChange DEF Tables, history
<1>8. /\ Moves(r) /\ Came(r) /\ Read(r) /\ req'[r].at = "reply"
      /\ req'[r].status = "refused" /\ req'[r].cookie = None
  BY <1>1, InHandler, RespondEffect DEF Status
<1>9. QED
  BY <1>1, <1>5, <1>7, <1>8, ReplyCalm

LEMMA RefreshTypes ==
    ASSUME TypeInv, NEW r \in Requests, Refresh(r)
    PROVE  /\ Tables' /\ Kept /\ Moves(r) /\ Calm(r)' /\ Came(r) /\ Quiet(r)
           /\ req[r].token \in Stored /\ ~tokens[req[r].token].revoked
           /\ req'[r].at = "getUser"
           /\ req'[r].family = tokens[req[r].token].family
<1> DEFINE row == tokens[req[r].token]
<1>1. /\ req[r].op = "refresh" /\ req[r].at = "begin" /\ ~row.revoked
      /\ ReadsOwner(r, "getUser", row.user, row.family)
      /\ raced' \subseteq raced \cup {row.family}
      /\ UNCHANGED <<users, tokens, ended, slipped>>
  BY DEF Refresh, At, ReadsOwner
<1>2. /\ req[r].token \in Stored /\ row.family \in Stored /\ row.family \in Token
      /\ row.user \in Users /\ users[row.user] \in Roles
  BY <1>1, InHandler DEF Stored
<1>3. Stored' = Stored /\ Kept
  BY <1>1 DEF Stored, Kept
<1>4. Tables'
  BY <1>1, <1>2, <1>3, InHandler DEF Tables, Numbered, Rooted
<1>5. /\ Moves(r) /\ Came(r) /\ Quiet(r) /\ req'[r].at = "getUser"
      /\ req'[r].user = row.user /\ req'[r].family = row.family
  BY <1>1, <1>2, InHandler, OwnerEffect DEF Place
<1>6. Sane(r)'
  BY <1>1, <1>2, <1>3, <1>5, InHandler DEF Calm, Sane, Came, Quiet
<1>7. QED
  BY <1>1, <1>2, <1>3, <1>4, <1>5, <1>6 DEF Calm, Idle

LEMMA GetUserTypes ==
    ASSUME TypeInv, NEW r \in Requests, GetUser(r)
    PROVE  /\ Tables' /\ Kept /\ Moves(r) /\ Calm(r)' /\ Came(r) /\ Quiet(r)
           /\ req'[r].at = "revoke" /\ req'[r].family = req[r].family
<1>1. /\ req[r].op = "refresh" /\ req[r].at = "getUser" /\ UNCHANGED stored
      /\ ReadsRole(r, "revoke", users[req[r].user])
  BY DEF GetUser, At, ReadsRole
<1>2. /\ req[r].user \in Users /\ users[req[r].user] \in Roles
      /\ req[r].family = tokens[req[r].token].family
  BY <1>1, InHandler DEF Calm, Sane
<1>3. /\ Moves(r) /\ Came(r) /\ Quiet(r) /\ req'[r].at = "revoke"
      /\ req'[r].role \in Roles /\ req'[r].user = req[r].user
      /\ req'[r].family = req[r].family
  BY <1>1, <1>2, InHandler, RoleEffect DEF Place
<1>4. Sane(r)'
  BY <1>1, <1>2, <1>3, InHandler DEF Calm, Sane, Came, Quiet, stored, Stored
<1>5. QED
  BY <1>1, <1>3, <1>4, NoWrite DEF Calm, Idle

LEMMA RevokeTypes ==
    ASSUME TypeInv, NEW r \in Requests, Revoke(r)
    PROVE  /\ Tables' /\ Kept /\ Moves(r) /\ Calm(r)' /\ Came(r) /\ Read(r)
           /\ Stored' = Stored
           /\ \A t \in Stored \ {req[r].token} : tokens'[t].revoked = tokens[t].revoked
           /\ req[r].token \in Stored /\ tokens'[req[r].token].revoked
           /\ \/ req'[r].at = "issue" /\ Quiet(r)
              \/ /\ req'[r].at = "reply" /\ req'[r].status = "failed"
                 /\ req'[r].cookie = None
<1> DEFINE t == req[r].token
<1>1. /\ req[r].op = "refresh" /\ req[r].at = "revoke"
      /\ tokens' = [tokens EXCEPT ![t].revoked = TRUE]
      /\ Goto(r, "issue") \/ Fail(r)
      /\ UNCHANGED <<users, history>>
  BY DEF Revoke, At
<1>2. t \in Stored /\ t \in Token /\ tokens[t] \in Row
  BY <1>1, InHandler DEF Stored
<1> HIDE DEF t
<1>3. /\ tokens' \in [Token -> Row \cup {None}]
      /\ \A s \in Token : s # t => tokens'[s] = tokens[s]
      /\ tokens'[t] \in Row /\ tokens'[t].family = tokens[t].family
      /\ tokens'[t].user = tokens[t].user /\ tokens'[t].revoked
  BY <1>1, <1>2, InHandler DEF Row
<1>4. \A s \in Stored : s \in Token /\ tokens[s] \in Row
  BY InHandler DEF Stored
<1>5. \A s \in Stored : /\ tokens'[s] \in Row /\ tokens'[s].family = tokens[s].family
                        /\ tokens'[s].user = tokens[s].user
                        /\ tokens[s].revoked => tokens'[s].revoked
  BY <1>3, <1>4
<1>6. \A s \in Token : tokens[s] = None => tokens'[s] = None
  BY <1>2, <1>3, AuthAssumption DEF Stored
<1>7. Tables' /\ Kept /\ Stored' = Stored
  BY <1>1, <1>3, <1>5, <1>6, InHandler, RowsChange DEF Tables, history
<1>8. \A s \in Stored \ {t} : tokens'[s].revoked = tokens[s].revoked
  BY <1>3, <1>4
<1>9. CASE Goto(r, "issue")
  <2>1. Moves(r) /\ Came(r) /\ Read(r) /\ Quiet(r) /\ req'[r].at = "issue"
    BY <1>9, InHandler, GotoEffect
  <2>2. Sane(r)'
    <3>1. Sane(r) /\ req'[r].family = tokens[t].family /\ tokens'[t].family = tokens[t].family
      BY <1>1, <1>3, <2>1, InHandler DEF Calm, Sane, Read, t
    <3>2. QED
      BY <1>1, <1>2, <1>7, <2>1, <3>1 DEF Sane, Came, Read, Quiet, t
  <2>3. QED
    BY <1>2, <1>3, <1>7, <1>8, <2>1, <2>2 DEF Calm, Idle, t
<1>10. CASE Fail(r)
  <2>1. /\ Moves(r) /\ Came(r) /\ Read(r) /\ req'[r].at = "reply"
        /\ req'[r].status = "failed" /\ req'[r].cookie = None
    BY <1>1, <1>10, InHandler, FailEffect
  <2>2. QED
    BY <1>1, <1>2, <1>3, <1>7, <1>8, <2>1, ReplyCalm DEF t
<1>11. QED
  BY <1>1, <1>9, <1>10

LEMMA RevokeFamilyTypes ==
    ASSUME TypeInv, NEW r \in Requests, RevokeFamily(r)
    PROVE  /\ Tables' /\ Kept /\ Moves(r) /\ Calm(r)' /\ Came(r) /\ Read(r)
           /\ Stored' = Stored
           /\ req[r].op \in {"refresh", "logout"}
           /\ req[r].token \in Stored /\ req[r].family = tokens[req[r].token].family
           /\ \A t \in Stored : tokens'[t].revoked =
                 (tokens[t].revoked \/ tokens[t].family = req[r].family)
           /\ req'[r].at = "reply" /\ req'[r].cookie \in {None, Clear}
           /\ \/ req'[r].status = "ok" /\ req'[r].cookie = Clear
              \/ req[r].op = "refresh" /\ req'[r].status \in {"reuse", "failed"}
<1> DEFINE f == req[r].family
<1>1. /\ req[r].at = "revokeFamily"
      /\ tokens' = [t \in Token |-> IF t \in Live(f) THEN [tokens[t] EXCEPT !.revoked = TRUE]
                                    ELSE tokens[t]]
      /\ ended' = ended \cup {f}
      /\ slipped' \subseteq slipped \cup {f} /\ slipped \subseteq slipped'
      /\ \/ req[r].op = "refresh" /\ Respond(r, "reuse", Clear, None)
         \/ req[r].op = "logout" /\ Respond(r, "ok", Clear, None)
         \/ Fail(r)
      /\ UNCHANGED <<users, raced>>
  BY DEF RevokeFamily
<1>2. /\ req[r].op \in {"refresh", "logout"}
      /\ req[r].token \in Stored /\ f = tokens[req[r].token].family /\ f \in Stored
  BY <1>1, InHandler DEF Calm, Sane
<1> HIDE DEF f
<1>3. \A t \in Stored : t \in Token /\ tokens[t] \in Row /\ tokens[t].revoked \in BOOLEAN
  BY InHandler DEF Stored, Row
<1>4. ASSUME NEW t \in Stored
      PROVE  /\ tokens'[t] \in Row /\ tokens'[t].family = tokens[t].family
             /\ tokens'[t].user = tokens[t].user
             /\ tokens'[t].revoked = (tokens[t].revoked \/ tokens[t].family = f)
  BY <1>1, <1>3 DEF Live, Row
<1>5. \A t \in Token : tokens[t] = None => tokens'[t] = None
  BY <1>1 DEF Live, Stored
<1>6. tokens' \in [Token -> Row \cup {None}]
  <2>1. \A t \in Token : tokens'[t] \in Row \cup {None}
    BY <1>4, <1>5 DEF Stored
  <2>2. QED
    BY <1>1, <2>1
<1>7. slipped' \subseteq ended' /\ ended' \subseteq Stored
  BY <1>1, <1>2, InHandler DEF Tables
<1>8. Tables' /\ Kept /\ Stored' = Stored
  <2>1. \A t \in Stored : tokens[t].revoked => tokens'[t].revoked
    BY <1>4
  <2>2. QED
    BY <1>1, <1>4, <1>5, <1>6, <1>7, <2>1, RowsChange
<1>9. /\ Moves(r) /\ Came(r) /\ Read(r) /\ req'[r].at = "reply"
      /\ req'[r].cookie \in {Clear, None}
      /\ \/ req'[r].status = "ok" /\ req'[r].cookie = Clear
         \/ req[r].op = "refresh" /\ req'[r].status \in {"reuse", "failed"}
  BY <1>1, <1>2, InHandler, RespondEffect, FailEffect DEF Status
<1>10. Calm(r)'
  BY <1>1, <1>8, <1>9, ReplyCalm
<1>11. QED
  BY <1>2, <1>4, <1>8, <1>9, <1>10 DEF f

LEMMA CallFailsTypes ==
    ASSUME TypeInv, NEW r \in Requests, CallFails(r)
    PROVE  /\ Tables' /\ Kept /\ Moves(r) /\ Calm(r)' /\ Came(r) /\ Read(r)
           /\ UNCHANGED stored /\ req'[r].at = "reply"
           /\ \/ req[r].op = "logout" /\ req'[r].status = "ok" /\ req'[r].cookie = Clear
              \/ /\ req[r].op # "logout"
                 /\ req'[r].status = "failed" /\ req'[r].cookie = None
BY NoWrite, FailTypes DEF CallFails

LEMMA RefuseStepTypes ==
    ASSUME TypeInv, NEW r \in Requests,
           RegisterConflicts(r) \/ LoginFails(r) \/ RefuseUpdate(r)
    PROVE  /\ Tables' /\ Kept /\ Moves(r) /\ Calm(r)' /\ Came(r) /\ Read(r)
           /\ UNCHANGED stored /\ req'[r].at = "reply"
           /\ req'[r].status = "refused" /\ req'[r].cookie = None
BY RefuseTypes DEF RegisterConflicts, LoginFails, RefuseUpdate, At, Refuse

\* GetTarget and CountAdmins go on, or refuse.
LEMMA LookTypes ==
    ASSUME TypeInv, NEW r \in Requests, GetTarget(r) \/ CountAdmins(r)
    PROVE  Tables' /\ Kept /\ Moves(r) /\ Calm(r)' /\ Came(r) /\ Read(r)
<1>1. /\ req[r].op = "updateRole" /\ req[r].at \in {"begin", "count"}
      /\ req[r].role \in Roles /\ UNCHANGED stored
  BY InHandler DEF GetTarget, CountAdmins, At, Calm, Sane
<1>2. \/ Respond(r, "refused", None, None)
      \/ Goto(r, "count") \/ Goto(r, "write")
  BY DEF GetTarget, CountAdmins
<1>3. CASE Respond(r, "refused", None, None)
  BY <1>1, <1>3, RefuseTypes, RespondEffect, InHandler DEF Status
<1>4. ASSUME NEW at \in {"count", "write"}, Goto(r, at)
      PROVE  Moves(r) /\ Calm(r)' /\ Came(r) /\ Read(r)
  <2>1. Moves(r) /\ Came(r) /\ Read(r) /\ Quiet(r) /\ req'[r].at = at
    BY <1>4, InHandler, GotoEffect
  <2>2. Sane(r)'
    BY <1>1, <2>1, InHandler DEF Calm, Sane, Came, Read, Quiet, stored, Stored
  <2>3. QED
    BY <2>1, <2>2 DEF Calm, Idle
<1>5. QED
  BY <1>1, <1>2, <1>3, <1>4, NoWrite

\* The request goes on as it was, though what it has looked at may have got old.
Same(q) == /\ req'[q].at = req[q].at /\ Came(q) /\ Quiet(q)
           /\ req'[q].user = req[q].user /\ req'[q].family = req[q].family
           /\ req'[q].role = req[q].role

LEMMA WriteRoleTypes ==
    ASSUME TypeInv, NEW r \in Requests, WriteRole(r)
    PROVE  /\ Tables' /\ Kept /\ req' \in [Requests -> Request]
           /\ \A q \in Requests : Calm(q)'
           /\ \A q \in Requests \ {r} :
                 /\ Same(q)
                 /\ q \in Updating => req'[q].stale
                 /\ q \notin Updating => req'[q].stale = req[q].stale
           /\ Came(r) /\ Read(r) /\ req'[r].at = "reply"
           /\ req'[r].status \in {"ok", "failed"} /\ req'[r].cookie = None
<1>1. /\ req[r].op = "updateRole" /\ req[r].at = "write" /\ req[r].role \in Roles
      /\ req[r].user \in Users
      /\ users' = [users EXCEPT ![req[r].user] = req[r].role]
      /\ UNCHANGED <<tokens, history>>
  BY InHandler DEF WriteRole, At, Calm, Sane
<1>2. PICK status \in {"ok", "failed"} :
          req' = [q \in Requests |->
                     IF q = r THEN [req[r] EXCEPT !.at = "reply", !.status = status]
                     ELSE [req[q] EXCEPT !.stale = @ \/ q \in Updating]]
  BY DEF WriteRole
<1>3. \A q \in Requests : req[q] \in Request
  BY InHandler
<1>4. ASSUME NEW q \in Requests \ {r}
      PROVE  /\ req'[q] \in Request /\ Same(q)
             /\ q \in Updating => req'[q].stale
             /\ q \notin Updating => req'[q] = req[q]
  <2>1. req'[q] = [req[q] EXCEPT !.stale = req[q].stale \/ q \in Updating]
    BY <1>2
  <2>2. req[q] \in Request /\ (req[q].stale \/ q \in Updating) \in BOOLEAN
    BY <1>3 DEF Request
  <2>3. req'[q] \in Request /\ Same(q)
    <3>1. PICK b \in BOOLEAN : req'[q] = [req[q] EXCEPT !.stale = b]
      BY <2>1, <2>2
    <3>2. Same(q)
      BY <2>2, <3>1 DEF Request, Same, Came, Quiet
    <3>3. req'[q] \in Request
      BY <2>2, <3>1 DEF Request
    <3>4. QED
      BY <3>2, <3>3
  <2>4. req'[q].stale = (req[q].stale \/ q \in Updating)
    BY <2>1, <2>2 DEF Request
  <2>5. ASSUME q \notin Updating PROVE req'[q] = req[q]
    <3>1. (req[q].stale \/ q \in Updating) = req[q].stale
      BY <2>2, <2>5 DEF Request
    <3>2. req'[q] = [req[q] EXCEPT !.stale = req[q].stale]
      BY <2>1, <3>1
    <3>3. QED
      BY <2>2, <3>2 DEF Request
  <2>6. QED
    BY <2>3, <2>4, <2>5
<1>5. /\ req'[r] \in Request /\ Came(r) /\ Read(r) /\ req'[r].at = "reply"
      /\ req'[r].status \in {"ok", "failed"} /\ req'[r].cookie = req[r].cookie
  <2>1. req'[r] = [req[r] EXCEPT !.at = "reply", !.status = status] /\ req[r] \in Request
    BY <1>2, <1>3
  <2>2. status \in Status /\ "reply" \in Place
    BY DEF Status, Place
  <2>3. /\ Came(r) /\ Read(r) /\ req'[r].at = "reply"
        /\ req'[r].status = status /\ req'[r].cookie = req[r].cookie
    BY <2>1 DEF Request, Came, Read
  <2> DEFINE there == [req[r] EXCEPT !.at = "reply"]
  <2>4. there \in Request
    BY <2>1, <2>2 DEF Request
  <2>5. req'[r] = [there EXCEPT !.status = status]
    BY <2>1
  <2> HIDE DEF there
  <2>6. req'[r] \in Request
    BY <2>2, <2>4, <2>5 DEF Request
  <2>7. QED
    BY <2>3, <2>6
<1>6. req[r].cookie = None
  BY <1>1, InHandler DEF Calm, Sane
<1>7. /\ users' \in [Users -> Roles \cup {None}]
      /\ \A u \in Users : users[u] \in Roles => users'[u] \in Roles
  BY <1>1, InHandler
<1>8. Stored' = Stored /\ Kept
  BY <1>1, <1>7 DEF Stored, Kept
<1>9. Tables'
  BY <1>1, <1>7, <1>8, InHandler DEF Tables, Numbered, Rooted, history
<1>10. req' \in [Requests -> Request]
  <2>1. \A q \in Requests : req'[q] \in Request
    BY <1>4, <1>5
  <2>2. QED
    BY <1>2, <2>1
<1>11. ASSUME NEW q \in Requests \ {r} PROVE Calm(q)'
  <2>1. CASE q \notin Updating
    BY <1>4, <1>8, <2>1, KeptCalm
  <2>2. CASE q \in Updating
    <3>1. Calm(q) /\ req[q].op = "updateRole" /\ req[q].at \in {"count", "write"} /\ Same(q)
      BY <1>4, <2>2, InHandler DEF Updating
    <3>2. Sane(q)'
      BY <1>8, <3>1 DEF Calm, Sane, Same, Came, Quiet
    <3>3. QED
      BY <3>1, <3>2 DEF Calm, Same, Idle
  <2>3. QED
    BY <2>1, <2>2
<1>12. Calm(r)'
  BY <1>1, <1>5, <1>6, <1>8, ReplyCalm
<1>13. QED
  BY <1>4, <1>5, <1>6, <1>8, <1>9, <1>10, <1>11, <1>12

\* A request of browser c, before any statement.
Incoming(r, c) ==
    /\ req'[r].by = c /\ req'[r].op \in Ops
    /\ req'[r].family = None /\ req'[r].stale = FALSE
    /\ req'[r].status = None /\ req'[r].cookie = None /\ req'[r].access = None

LEMMA ArriveAuthTypes ==
    ASSUME TypeInv, NEW c \in Clients, NEW r \in Requests, ArriveAuth(c, r)
    PROVE  /\ Tables' /\ Kept /\ Browsers' /\ Moves(r) /\ Calm(r)' /\ Incoming(r, c)
           /\ req[r] = Idle /\ req'[r].at = "limit" /\ req'[r].op # "updateRole"
           /\ UNCHANGED <<stored, jar, access, rushed>>
           /\ req'[r].op \in {"refresh", "logout"} =>
                 req'[r].token = jar[c] /\ jar[c] \in Stored
           /\ req'[r].op \notin {"refresh", "logout"} => req'[r].token = None
           /\ \E ip \in IP : GetLimiter(ip) /\ req'[r].limiter = LimiterOf(ip)
<1>1. PICK ip \in IP, op \in {"register", "login", "refresh", "logout"},
           u \in Users \cup {None} :
        /\ (op \in {"register", "login"}) = (u # None)
        /\ u = None => jar[c] # None
        /\ Arrive(c, r, [Idle EXCEPT !.at = "limit", !.op = op, !.user = u,
                                     !.token = IF u = None THEN jar[c] ELSE None,
                                     !.limiter = LimiterOf(ip)])
        /\ GetLimiter(ip)
  BY DEF ArriveAuth
<1> DEFINE t == IF u = None THEN jar[c] ELSE None
           fresh == [Idle EXCEPT !.at = "limit", !.op = op, !.user = u,
                                 !.token = t, !.limiter = LimiterOf(ip)]
<1>2. /\ req[r] = Idle /\ req' = [req EXCEPT ![r] = [fresh EXCEPT !.by = c]]
      /\ UNCHANGED <<jar, access, stored, rushed>>
      /\ sent < MaxRequests /\ sent' = sent + 1
      /\ troubled' \in {troubled, troubled \cup {c}}
  BY <1>1 DEF Arrive
<1>3. t \in Token \cup {None} /\ (op \in {"refresh", "logout"} => t = jar[c] /\ t \in Stored)
      /\ (op \notin {"refresh", "logout"} => t = None)
  BY <1>1, InHandler DEF Browsers, Stored
<1>4. LimiterOf(ip) \in Limiter
  BY InHandler DEF LimiterOf, Limiter, LimiterTypeOK
<1> DEFINE e1 == [Idle EXCEPT !.at = "limit"]
           e2 == [e1 EXCEPT !.op = op]
           e3 == [e2 EXCEPT !.user = u]
           e4 == [e3 EXCEPT !.token = t]
           l == LimiterOf(ip)
           come == [fresh EXCEPT !.by = c]
<1>5. fresh = [e4 EXCEPT !.limiter = l]
  OBVIOUS
<1>6. /\ come.at = "limit" /\ come.op = op /\ come.by = c /\ come.limiter = l
      /\ come.user = u /\ come.token = t /\ come.family = None /\ come.role = None
      /\ come.stale = FALSE
      /\ come.status = None /\ come.cookie = None /\ come.access = None
  BY DEF Idle
<1> HIDE DEF t, fresh, l
<1>7. op \in Ops /\ "limit" \in Place /\ FALSE \in BOOLEAN
  BY DEF Ops, Place
<1>8. come \in Request
  <2>1. Idle \in Request
    BY DEF Idle, Request, Place
  <2>2. e1 \in Request
    BY <1>7, <2>1 DEF Request
  <2> HIDE DEF e1
  <2>3. e2 \in Request
    BY <1>7, <2>2 DEF Request
  <2> HIDE DEF e2
  <2>4. e3 \in Request
    BY <2>3 DEF Request
  <2> HIDE DEF e3
  <2>5. e4 \in Request
    BY <1>3, <2>4 DEF Request
  <2> HIDE DEF e4
  <2>6. fresh \in Request
    BY <1>4, <1>5, <2>5 DEF Request, l
  <2>7. QED
    BY <2>6 DEF Request
<1>9. req' = [req EXCEPT ![r] = come]
  BY <1>2
<1> HIDE DEF come
<1>10. Moves(r) /\ req'[r] = come
  BY <1>8, <1>9, InHandler DEF Moves
<1>11. Tables' /\ Kept /\ Stored' = Stored
  BY <1>2, NoWrite DEF stored, Stored
<1>12. Browsers'
  BY <1>2, <1>11, InHandler, AccountsAssumption DEF Browsers
<1>13. Sane(r)'
  BY <1>1, <1>3, <1>4, <1>6, <1>7, <1>10, <1>11 DEF Sane, l
<1>14. Calm(r)'
  BY <1>6, <1>10, <1>13 DEF Calm, Idle
<1>15. Incoming(r, c)
  BY <1>6, <1>7, <1>10 DEF Incoming
<1>16. QED
  BY <1>1, <1>2, <1>3, <1>6, <1>10, <1>11, <1>12, <1>14, <1>15 DEF l

LEMMA ArriveAdminTypes ==
    ASSUME TypeInv, NEW c \in Clients, NEW r \in Requests, ArriveAdmin(c, r)
    PROVE  /\ Tables' /\ Kept /\ Browsers' /\ Moves(r) /\ Calm(r)' /\ Incoming(r, c)
           /\ req[r] = Idle /\ req'[r].at = "begin" /\ req'[r].op = "updateRole"
           /\ req'[r].token = None /\ req'[r].limiter = None
           /\ UNCHANGED <<stored, jar, access, rushed, limiterVars>>
<1>1. PICK u \in Users, role \in NewRole :
          Arrive(c, r, [Idle EXCEPT !.at = "begin", !.op = "updateRole", !.user = u,
                                    !.role = role, !.claims = access[c]])
  BY DEF ArriveAdmin
<1> DEFINE fresh == [Idle EXCEPT !.at = "begin", !.op = "updateRole", !.user = u,
                                 !.role = role, !.claims = access[c]]
           e1 == [Idle EXCEPT !.at = "begin"]
           e2 == [e1 EXCEPT !.op = "updateRole"]
           e3 == [e2 EXCEPT !.user = u]
           e4 == [e3 EXCEPT !.role = role]
           come == [fresh EXCEPT !.by = c]
<1>2. /\ req[r] = Idle /\ req' = [req EXCEPT ![r] = come]
      /\ UNCHANGED <<jar, access, stored, rushed, limiterVars>>
      /\ sent < MaxRequests /\ sent' = sent + 1
      /\ troubled' \in {troubled, troubled \cup {c}}
  BY <1>1 DEF Arrive, ArriveAdmin
<1>3. access[c] \in AccessToken \cup {None}
  BY InHandler DEF Browsers
<1>4. fresh = [e4 EXCEPT !.claims = access[c]]
  OBVIOUS
<1>5. /\ come.at = "begin" /\ come.op = "updateRole" /\ come.by = c /\ come.limiter = None
      /\ come.user = u /\ come.token = None /\ come.family = None
      /\ come.stale = FALSE
      /\ come.status = None /\ come.cookie = None /\ come.access = None
  BY DEF Idle
<1> HIDE DEF fresh
<1>6. "updateRole" \in Ops /\ "begin" \in Place
  BY DEF Ops, Place
<1>7. come \in Request
  <2>1. Idle \in Request
    BY DEF Idle, Request, Place
  <2>2. e1 \in Request
    BY <1>6, <2>1 DEF Request
  <2> HIDE DEF e1
  <2>3. e2 \in Request
    BY <1>6, <2>2 DEF Request
  <2> HIDE DEF e2
  <2>4. e3 \in Request
    BY <2>3 DEF Request
  <2> HIDE DEF e3
  <2>5. e4 \in Request
    BY <2>4 DEF Request
  <2> HIDE DEF e4
  <2>6. fresh \in Request
    BY <1>3, <1>4, <2>5 DEF Request
  <2>7. QED
    BY <2>6 DEF Request
<1> HIDE DEF come
<1>8. Moves(r) /\ req'[r] = come
  BY <1>2, <1>7, InHandler DEF Moves
<1>9. Tables' /\ Kept /\ Stored' = Stored
  BY <1>2, NoWrite DEF stored, Stored
<1>10. Browsers'
  BY <1>2, <1>9, InHandler, AccountsAssumption DEF Browsers
<1>11. Sane(r)'
  BY <1>5, <1>6, <1>8 DEF Sane
<1>12. Calm(r)'
  BY <1>5, <1>8, <1>11 DEF Calm, Idle
<1>13. Incoming(r, c)
  BY <1>5, <1>6, <1>8 DEF Incoming
<1>14. QED
  BY <1>2, <1>5, <1>8, <1>9, <1>10, <1>12, <1>13

\* Limit lets the request through to its handler, or answers it.
LEMMA LimitTypes ==
    ASSUME TypeInv, NEW r \in Requests, Limit(r)
    PROVE  /\ Tables' /\ Kept /\ Moves(r) /\ Calm(r)' /\ Came(r) /\ Read(r)
           /\ UNCHANGED <<stored, rushed, browserVars>> /\ req[r].at = "limit"
           /\ req[r].limiter \in Limiter
           /\ \/ Allow(req[r].limiter) /\ req'[r].at = "begin" /\ Quiet(r)
              \/ /\ UNCHANGED limiterVars /\ req'[r].at = "reply"
                 /\ req'[r].status = "refused" /\ req'[r].cookie = None
<1>1. /\ req[r].at = "limit" /\ req[r].limiter \in Limiter
      /\ UNCHANGED <<stored, rushed, browserVars>>
  BY InHandler DEF Limit, Calm, Sane
<1>2. CASE Allow(req[r].limiter) /\ Goto(r, "begin")
  <2>1. Moves(r) /\ Came(r) /\ Read(r) /\ Quiet(r) /\ req'[r].at = "begin"
    BY <1>2, InHandler, GotoEffect
  <2>2. Sane(r)'
    BY <1>1, <2>1, InHandler DEF Calm, Sane, Came, Read, Quiet, stored, Stored
  <2>3. QED
    BY <1>1, <1>2, <2>1, <2>2, NoWrite DEF Calm, Idle
<1>3. CASE Deny(req[r].limiter) /\ Respond(r, "refused", None, None)
  <2>1. /\ Moves(r) /\ Came(r) /\ Read(r) /\ req'[r].at = "reply"
        /\ req'[r].status = "refused" /\ req'[r].cookie = None
    BY <1>3, InHandler, RespondEffect DEF Status
  <2>2. QED
    BY <1>1, <1>3, <2>1, RefuseTypes DEF Deny
<1>4. QED
  BY <1>2, <1>3 DEF Limit

LEMMA DeliverTypes ==
    ASSUME TypeInv, NEW r \in Requests, Deliver(r) \/ Lose(r)
    PROVE  /\ Tables' /\ Kept /\ Browsers' /\ Moves(r) /\ Calm(r)' /\ req'[r] = Idle
           /\ req[r].at = "reply" /\ req[r].by \in Clients
           /\ UNCHANGED <<stored, rushed, limiterVars>>
<1>1. /\ req[r].at = "reply" /\ req' = [req EXCEPT ![r] = Idle]
      /\ UNCHANGED <<stored, rushed, limiterVars, sent>>
  BY DEF Deliver, Lose
<1>2. req[r].by \in Clients /\ req[r].cookie \in Stored \cup {Clear, None}
  BY <1>1, InHandler DEF Calm, Sane
<1>3. Moves(r) /\ req'[r] = Idle
  BY <1>1, InHandler, IdleEffect
<1>4. Tables' /\ Kept /\ Stored' = Stored
  BY <1>1, NoWrite DEF stored, Stored
<1>5. jar' \in [Clients -> Stored \cup {None}]
  BY <1>2, InHandler DEF Deliver, Lose, Browsers
<1>6. access' \in [Clients -> AccessToken \cup {None}]
  BY <1>2, InHandler DEF Deliver, Lose, Browsers, Request
<1>7. troubled' \subseteq Clients
  BY <1>2, InHandler DEF Deliver, Lose, Browsers
<1>8. Calm(r)'
  <2>1. \A op \in Ops : op # None
    BY AuthAssumption DEF Ops
  <2>2. Sane(r)'
    BY <1>3, <2>1 DEF Sane, Idle, Ops
  <2>3. QED
    BY <1>3, <2>2 DEF Calm, Idle
<1>9. QED
  BY <1>1, <1>2, <1>3, <1>4, <1>5, <1>6, <1>7, <1>8, InHandler DEF Browsers

-----------------------------------------------------------------------------
(* Types of the limiter.                                                   *)

LEMMA LimiterTypes ==
    ASSUME LimiterTypeOK, LimiterAssumption,
           \/ \E ip \in IP : GetLimiter(ip)
           \/ \E l \in Limiter : Allow(l)
           \/ Refill \/ Cleanup
    PROVE  LimiterTypeOK'
<1>1. ASSUME NEW ip \in IP, GetLimiter(ip) PROVE LimiterTypeOK'
  <2>1. LimiterOf(ip) \in Limiter /\ Burst \in 0..Burst
    BY LimiterAssumption DEF LimiterTypeOK, LimiterOf, Limiter
  <2>2. bucket' \in [Limiter -> 0..Burst]
    BY <1>1, <2>1 DEF LimiterTypeOK, GetLimiter
  <2>3. QED
    BY <1>1, <2>2 DEF LimiterTypeOK, GetLimiter
<1>2. ASSUME NEW l \in Limiter, Allow(l) PROVE LimiterTypeOK'
  <2>1. l[1] \in IP
    BY DEF Limiter
  <2>2. bucket[l] \in 0..Burst /\ bucket[l] - 1 \in 0..Burst
    BY <1>2, LimiterAssumption DEF LimiterTypeOK, Allow
  <2>3. bucket' \in [Limiter -> 0..Burst]
    BY <1>2, <2>2 DEF LimiterTypeOK, Allow
  <2>4. admitted' \in [IP -> Nat]
    BY <1>2, <2>1 DEF LimiterTypeOK, Allow
  <2>5. QED
    BY <1>2, <2>3, <2>4 DEF LimiterTypeOK, Allow
<1>3. CASE Refill
  <2>1. \A l \in Limiter : bucket[l] \in 0..Burst
    BY DEF LimiterTypeOK
  <2>2. \A l \in Limiter :
            (IF bucket[l] < Burst THEN bucket[l] + 1 ELSE Burst) \in 0..Burst
    BY <2>1, LimiterAssumption
  <2>3. bucket' \in [Limiter -> 0..Burst]
    BY <1>3, <2>2 DEF Refill
  <2>4. refills' \in 0..MaxRefills
    BY <1>3, LimiterAssumption DEF Refill, LimiterTypeOK
  <2>5. QED
    BY <1>3, <2>3, <2>4 DEF Refill, LimiterTypeOK
<1>4. CASE Cleanup
  BY <1>4, LimiterAssumption DEF Cleanup, LimiterTypeOK
<1>5. QED
  BY <1>1, <1>2, <1>3, <1>4

-----------------------------------------------------------------------------
(* The type invariant.                                                     *)

LEMMA HandleTypes ==
    ASSUME TypeInv, NEW r \in Requests, Handle(r) \/ CallFails(r)
    PROVE  Tables' /\ Kept /\ Moves(r) /\ Calm(r)' /\ Came(r)
BY RegisterTypes, RefuseStepTypes, LoginTypes, IssueTypes, FamilyFound, ExpiredTypes,
   RefreshTypes, GetUserTypes, RevokeTypes, RevokeFamilyTypes, CallFailsTypes
   DEF Handle

LEMMA MoveTypes ==
    ASSUME TypeInv, NEW r \in Requests, Tables', Kept, Moves(r), Calm(r)',
           Browsers', LimiterTypeOK'
    PROVE  TypeInv'
<1>1. \A q \in Requests : Calm(q)'
  BY KeptCalm DEF Moves
<1>2. req' \in [Requests -> Request]
  BY DEF Moves
<1>3. QED
  BY <1>1, <1>2, TypePartsThen

LEMMA BrowsersStay ==
    ASSUME TypeInv, Kept, UNCHANGED <<rushed, browserVars>>
    PROVE  Browsers'
<1>1. Stored \subseteq Stored' /\ Browsers
  BY TypeParts DEF Kept
<1>2. QED
  BY <1>1 DEF Browsers, browserVars

LEMMA LimiterStays ==
    ASSUME LimiterTypeOK, UNCHANGED limiterVars
    PROVE  LimiterTypeOK'
BY DEF LimiterTypeOK, limiterVars

LEMMA TypeInit == Init => TypeInv
<1> SUFFICES ASSUME Init PROVE TypeInv
  OBVIOUS
<1>1. PICK founders \in (SUBSET Users) \ {{}} :
          users = [u \in Users |-> IF u \in founders THEN "admin" ELSE None]
  BY DEF Init
<1>2. users \in [Users -> Roles \cup {None}]
  BY <1>1 DEF Roles
<1>3. Stored = {} /\ tokens \in [Token -> Row \cup {None}]
  BY DEF Init, Stored
<1>4. Numbered
  <2>1. 0 \in 0..MaxTokens /\ 1..0 = {}
    BY AuthAssumption
  <2>2. QED
    BY <1>3, <2>1 DEF Numbered
<1>5. Tables
  <2>1. raced = {} /\ ended = {} /\ slipped = {}
    BY DEF Init
  <2>2. QED
    BY <1>2, <1>3, <1>4, <2>1 DEF Tables, Rooted
<1>6. Browsers
  <2>1. /\ jar = [c \in Clients |-> None] /\ access = [c \in Clients |-> None]
        /\ troubled = {} /\ sent = 0 /\ rushed = FALSE
    BY DEF Init
  <2>2. 0 \in 0..MaxRequests
    BY AccountsAssumption
  <2>3. QED
    BY <2>1, <2>2 DEF Browsers
<1>7. LimiterTypeOK
  BY LimiterAssumption DEF Init, LimiterInit, LimiterTypeOK
<1>8. Idle \in Request
  BY DEF Idle, Request, Place
<1>9. req \in [Requests -> Request]
  BY <1>8 DEF Init
<1>10. ASSUME NEW r \in Requests PROVE Calm(r)
  <2>1. \A op \in Ops : op # None
    BY AuthAssumption
  <2>2. req[r] = Idle
    BY DEF Init
  <2>3. Sane(r)
    BY <2>1, <2>2 DEF Sane, Idle, Ops
  <2>4. QED
    BY <2>2, <2>3 DEF Calm, Idle
<1>11. QED
  BY <1>5, <1>6, <1>7, <1>9, <1>10, TypeParts

LEMMA TypeStep == TypeInv /\ [Next]_vars => TypeInv'
<1> SUFFICES ASSUME TypeInv, [Next]_vars PROVE TypeInv'
  OBVIOUS
<1>1. ASSUME NEW c \in Clients, NEW r \in Requests, ArriveAuth(c, r) PROVE TypeInv'
  BY <1>1, ArriveAuthTypes, LimiterTypes, LimiterAssumption, TypeParts, MoveTypes
<1>2. ASSUME NEW c \in Clients, NEW r \in Requests, ArriveAdmin(c, r) PROVE TypeInv'
  BY <1>2, ArriveAdminTypes, LimiterStays, TypeParts, MoveTypes
<1>3. ASSUME NEW r \in Requests, Limit(r) PROVE TypeInv'
  <2>1. LimiterTypeOK'
    BY <1>3, LimitTypes, LimiterTypes, LimiterStays, LimiterAssumption, TypeParts
  <2>2. QED
    BY <1>3, <2>1, LimitTypes, BrowsersStay, MoveTypes
<1>4. ASSUME NEW r \in Requests, Deliver(r) \/ Lose(r) PROVE TypeInv'
  BY <1>4, DeliverTypes, LimiterStays, TypeParts, MoveTypes
<1>5. ASSUME NEW r \in Requests, Handle(r) \/ CallFails(r),
             UNCHANGED <<rushed, limiterVars, browserVars>>
      PROVE  TypeInv'
  BY <1>5, HandleTypes, BrowsersStay, LimiterStays, TypeParts, MoveTypes
<1>6. ASSUME NEW r \in Requests, UpdateRole(r), UNCHANGED <<limiterVars, browserVars>>
      PROVE  TypeInv'
  <2>1. CASE RefuseUpdate(r)
    BY <1>6, <2>1, RefuseStepTypes, BrowsersStay, LimiterStays, TypeParts, MoveTypes
       DEF RefuseUpdate
  <2>2. CASE GetTarget(r) \/ CountAdmins(r)
    BY <1>6, <2>2, LookTypes, BrowsersStay, LimiterStays, TypeParts, MoveTypes
       DEF GetTarget, CountAdmins
  <2>3. CASE WriteRole(r)
    <3>1. /\ Tables' /\ Kept /\ req' \in [Requests -> Request]
          /\ \A q \in Requests : Calm(q)'
      BY <2>3, WriteRoleTypes
    <3>2. rushed' \in BOOLEAN
      BY <2>3 DEF WriteRole
    <3>3. Browsers'
      BY <1>6, <3>1, <3>2, TypeParts DEF Browsers, browserVars, Kept
    <3>4. LimiterTypeOK'
      BY <1>6, LimiterStays, TypeParts
    <3>5. QED
      BY <3>1, <3>3, <3>4, TypePartsThen
  <2>4. QED
    BY <1>6, <2>1, <2>2, <2>3 DEF UpdateRole
<1>7. CASE Time
  <2>1. LimiterTypeOK'
    BY <1>7, LimiterTypes, LimiterAssumption, TypeParts DEF Time
  <2>2. UNCHANGED <<stored, req, rushed, browserVars>>
    BY <1>7 DEF Time
  <2>3. Tables' /\ Kept /\ Browsers'
    BY <2>2, NoWrite, BrowsersStay
  <2>4. \A q \in Requests : Calm(q)'
    BY <2>2, <2>3, KeptCalm
  <2>5. req' \in [Requests -> Request]
    BY <2>2, TypeParts
  <2>6. QED
    BY <2>1, <2>3, <2>4, <2>5, TypePartsThen
<1>8. CASE UNCHANGED vars
  <2>1. UNCHANGED <<stored, req, rushed, browserVars, limiterVars>>
    BY <1>8 DEF vars
  <2>2. Tables' /\ Kept /\ Browsers' /\ LimiterTypeOK'
    BY <2>1, NoWrite, BrowsersStay, LimiterStays, TypeParts
  <2>3. \A q \in Requests : Calm(q)'
    BY <2>1, <2>2, KeptCalm
  <2>4. req' \in [Requests -> Request]
    BY <2>1, TypeParts
  <2>5. QED
    BY <2>2, <2>3, <2>4, TypePartsThen
<1>9. QED
  BY <1>1, <1>2, <1>3, <1>4, <1>5, <1>6, <1>7, <1>8 DEF Next

\* Tokens are numbered without a gap, none is ever lost, and a request that has passed
\* a check of the table still finds there what it checked.
LEMMA TypeAlways == Spec => []TypeInv
BY TypeInit, TypeStep, PTL DEF Spec

\* Accounts, refresh tokens, browsers and limiters stay what they are meant to be, and
\* the cookie of a browser is a token that is stored.
THEOREM AccountsTypes == Spec => []TypeOK
<1>1. TypeInv => TypeOK
  BY DEF TypeInv
<1>2. QED
  BY <1>1, TypeAlways, PTL

-----------------------------------------------------------------------------
(* The limiter's budget.                                                   *)

LimiterInv == LimiterKnown /\ Budget

\* Outside ArriveAuth no request gets a limiter.
LEMMA NoNewLimiter ==
    ASSUME TypeInv, [Next]_vars,
           ~ \E c \in Clients, r \in Requests : ArriveAuth(c, r)
    PROVE  \A q \in Requests : req'[q].limiter \in {req[q].limiter, None}
<1>1. ASSUME NEW r \in Requests, Moves(r), Came(r) \/ req'[r].limiter = None
      PROVE  \A q \in Requests : req'[q].limiter \in {req[q].limiter, None}
  BY <1>1 DEF Moves, Came
<1>2. ASSUME NEW c \in Clients, NEW r \in Requests, ArriveAdmin(c, r)
      PROVE  \A q \in Requests : req'[q].limiter \in {req[q].limiter, None}
  BY <1>1, <1>2, ArriveAdminTypes
<1>3. ASSUME NEW r \in Requests, Limit(r)
      PROVE  \A q \in Requests : req'[q].limiter \in {req[q].limiter, None}
  BY <1>1, <1>3, LimitTypes
<1>4. ASSUME NEW r \in Requests, Deliver(r) \/ Lose(r)
      PROVE  \A q \in Requests : req'[q].limiter \in {req[q].limiter, None}
  BY <1>1, <1>4, DeliverTypes DEF Idle
<1>5. ASSUME NEW r \in Requests, Handle(r) \/ CallFails(r)
      PROVE  \A q \in Requests : req'[q].limiter \in {req[q].limiter, None}
  BY <1>1, <1>5, HandleTypes
<1>6. ASSUME NEW r \in Requests, UpdateRole(r)
      PROVE  \A q \in Requests : req'[q].limiter \in {req[q].limiter, None}
  <2>1. CASE RefuseUpdate(r) \/ GetTarget(r) \/ CountAdmins(r)
    BY <1>1, <2>1, RefuseStepTypes, LookTypes
  <2>2. CASE WriteRole(r)
    BY <2>2, WriteRoleTypes DEF Same, Came
  <2>3. QED
    BY <1>6, <2>1, <2>2 DEF UpdateRole
<1>7. CASE Time \/ UNCHANGED vars
  BY <1>7 DEF Time, vars
<1>8. QED
  BY <1>2, <1>3, <1>4, <1>5, <1>6, <1>7 DEF Next

LEMMA KnownStays ==
    ASSUME LimiterKnown, visitors' = visitors, cleanups' = cleanups,
           \A q \in Requests : req'[q].limiter \in {req[q].limiter, None}
    PROVE  LimiterKnown'
BY DEF LimiterKnown

LEMMA LimiterStep == TypeInv /\ LimiterInv /\ [Next]_vars => LimiterInv'
<1> SUFFICES ASSUME TypeInv, LimiterInv, [Next]_vars PROVE LimiterInv'
  OBVIOUS
<1>1. LimiterTypeOK /\ LimiterKnown /\ Budget
  BY TypeParts DEF LimiterInv
<1>2. /\ cleanups \in Nat /\ refills \in Nat /\ Burst \in Nat
      /\ \A ip \in IP : LimiterOf(ip) \in Limiter /\ admitted[ip] \in Nat
      /\ \A l \in Limiter : bucket[l] \in 0..Burst
  BY <1>1, LimiterAssumption DEF LimiterTypeOK, LimiterOf, Limiter
<1>3. ASSUME NEW c \in Clients, NEW r \in Requests, ArriveAuth(c, r)
      PROVE  LimiterInv'
  <2>1. PICK ip \in IP : GetLimiter(ip) /\ req'[r].limiter = LimiterOf(ip)
    BY <1>3, ArriveAuthTypes
  <2>2. /\ visitors' = visitors \cup {ip} /\ UNCHANGED <<cleanups, refills, admitted>>
        /\ bucket' = IF ip \in visitors THEN bucket
                     ELSE [bucket EXCEPT ![LimiterOf(ip)] = Burst]
    BY <2>1 DEF GetLimiter
  <2>3. LimiterKnown'
    <3>1. Moves(r)
      BY <1>3, ArriveAuthTypes
    <3>2. LimiterOf(ip)[2] = cleanups /\ LimiterOf(ip)[1] = ip
      BY DEF LimiterOf
    <3>3. QED
      BY <1>1, <1>2, <2>1, <2>2, <3>1, <3>2 DEF LimiterKnown, Moves
  <2>4. ASSUME NEW jp \in IP
        PROVE  IF jp \in visitors'
               THEN admitted[jp] + bucket'[LimiterOf(jp)] <= Burst * (1 + cleanups) + refills
               ELSE admitted[jp] <= Burst * cleanups + refills
    <3>1. CASE jp = ip /\ ip \notin visitors
      <4>1. bucket'[LimiterOf(ip)] = Burst
        BY <1>1, <1>2, <2>2, <3>1 DEF LimiterTypeOK
      <4>2. admitted[ip] <= Burst * cleanups + refills
        BY <1>1, <3>1 DEF Budget
      <4>3. admitted[ip] + Burst <= Burst * (1 + cleanups) + refills
        BY <1>2, <4>2
      <4>4. QED
        BY <2>2, <3>1, <4>1, <4>3
    <3>2. CASE ~(jp = ip /\ ip \notin visitors)
      <4>1. jp \in visitors' <=> jp \in visitors
        BY <2>2, <3>2
      <4>2. jp \in visitors => bucket'[LimiterOf(jp)] = bucket[LimiterOf(jp)]
        BY <1>1, <1>2, <2>2, <3>2 DEF LimiterTypeOK, LimiterOf
      <4>3. QED
        BY <1>1, <4>1, <4>2 DEF Budget
    <3>3. QED
      BY <3>1, <3>2
  <2>5. Budget'
    BY <2>2, <2>4 DEF Budget, LimiterOf
  <2>6. QED
    BY <2>3, <2>5 DEF LimiterInv
<1>4. CASE ~ \E c \in Clients, r \in Requests : ArriveAuth(c, r)
  <2>1. \A q \in Requests : req'[q].limiter \in {req[q].limiter, None}
    BY <1>4, NoNewLimiter
  <2>2. ASSUME UNCHANGED limiterVars PROVE LimiterInv'
    <3>1. LimiterKnown'
      BY <1>1, <2>1, <2>2, KnownStays DEF limiterVars
    <3>2. Budget'
      BY <1>1, <2>2 DEF Budget, LimiterOf, limiterVars
    <3>3. QED
      BY <3>1, <3>2 DEF LimiterInv
  <2>3. ASSUME NEW r \in Requests, Limit(r), Allow(req[r].limiter) PROVE LimiterInv'
    <3> DEFINE l == req[r].limiter
    <3>1. l \in Limiter /\ l # None /\ l[1] \in IP /\ l = <<l[1], l[2]>>
      <4>1. req[r].at = "limit" /\ l \in Limiter
        BY <2>3, LimitTypes
      <4>2. l[1] \in IP /\ l = <<l[1], l[2]>>
        BY <4>1 DEF Limiter
      <4>3. QED
        BY <4>1, <4>2, AccountsAssumption
    <3>2. /\ bucket[l] > 0 /\ bucket' = [bucket EXCEPT ![l] = @ - 1]
          /\ admitted' = IF l = LimiterOf(l[1])
                         THEN [admitted EXCEPT ![l[1]] = @ + 1] ELSE admitted
          /\ UNCHANGED <<visitors, cleanups, refills>>
      BY <2>3 DEF Allow
    <3>3. LimiterKnown'
      BY <1>1, <2>1, <3>2, KnownStays
    <3>4. l = LimiterOf(l[1]) => l[1] \in visitors
      BY <1>1, <3>1 DEF LimiterKnown, LimiterOf
    <3> HIDE DEF l
    <3>5. ASSUME NEW ip \in IP
          PROVE  IF ip \in visitors
                 THEN admitted'[ip] + bucket'[LimiterOf(ip)] <= Burst * (1 + cleanups) + refills
                 ELSE admitted'[ip] <= Burst * cleanups + refills
      <4>1. CASE l = LimiterOf(ip)
        <5>1. l[1] = ip
          BY <4>1 DEF LimiterOf
        <5>2. admitted'[ip] = admitted[ip] + 1 /\ bucket'[l] = bucket[l] - 1
          BY <1>1, <3>1, <3>2, <4>1, <5>1 DEF LimiterTypeOK
        <5>3. admitted[ip] + bucket[l] <= Burst * (1 + cleanups) + refills
          BY <1>1, <3>4, <4>1, <5>1 DEF Budget
        <5>4. admitted'[ip] + bucket'[l] = admitted[ip] + bucket[l]
          BY <1>2, <3>1, <5>2
        <5>5. QED
          BY <3>4, <4>1, <5>1, <5>3, <5>4
      <4>2. CASE l # LimiterOf(ip)
        <5>1. admitted'[ip] = admitted[ip]
          BY <1>1, <3>1, <3>2, <4>2 DEF LimiterTypeOK
        <5>2. bucket'[LimiterOf(ip)] = bucket[LimiterOf(ip)]
          BY <1>1, <1>2, <3>1, <3>2, <4>2 DEF LimiterTypeOK
        <5>3. QED
          BY <1>1, <5>1, <5>2 DEF Budget
      <4>3. QED
        BY <4>1, <4>2
    <3>6. Budget'
      BY <3>2, <3>5 DEF Budget, LimiterOf
    <3>7. QED
      BY <3>3, <3>6 DEF LimiterInv
  <2>4. CASE Refill
    <3>1. LimiterKnown'
      BY <1>1, <2>1, <2>4, KnownStays DEF Refill
    <3>2. \A l \in Limiter : bucket'[l] <= bucket[l] + 1 /\ bucket'[l] \in 0..Burst
      BY <1>2, <2>4 DEF Refill
    <3>3. ASSUME NEW ip \in IP
          PROVE  IF ip \in visitors
                 THEN admitted[ip] + bucket'[LimiterOf(ip)] <= Burst * (1 + cleanups) + (refills + 1)
                 ELSE admitted[ip] <= Burst * cleanups + (refills + 1)
      <4> DEFINE full == Burst * (1 + cleanups)
                 past == Burst * cleanups
      <4>1. full \in Nat /\ past \in Nat
        BY <1>2
      <4>2. ip \in visitors => admitted[ip] + bucket[LimiterOf(ip)] <= full + refills
        BY <1>1 DEF Budget
      <4>3. ip \notin visitors => admitted[ip] <= past + refills
        BY <1>1 DEF Budget
      <4> HIDE DEF full, past
      <4>4. ip \in visitors => admitted[ip] + bucket'[LimiterOf(ip)] <= full + (refills + 1)
        <5>1. LimiterOf(ip) \in Limiter /\ admitted[ip] \in Nat
          BY <1>2
        <5>2. bucket[LimiterOf(ip)] \in Nat /\ bucket'[LimiterOf(ip)] \in Nat
              /\ bucket'[LimiterOf(ip)] <= bucket[LimiterOf(ip)] + 1
          BY <1>2, <3>2, <5>1
        <5>3. QED
          BY <1>2, <4>1, <4>2, <5>1, <5>2
      <4>5. ip \notin visitors => admitted[ip] <= past + (refills + 1)
        BY <1>2, <4>1, <4>3
      <4>6. QED
        BY <4>4, <4>5 DEF full, past
    <3>4. Budget'
      BY <2>4, <3>3 DEF Refill, Budget, LimiterOf
    <3>5. QED
      BY <3>1, <3>4 DEF LimiterInv
  <2>5. CASE Cleanup
    <3>1. /\ visitors' = {} /\ cleanups' = cleanups + 1
          /\ UNCHANGED <<bucket, refills, admitted>>
      BY <2>5 DEF Cleanup
    <3>2. LimiterKnown'
      <4>1. ASSUME NEW q \in Requests, req'[q].limiter # None
            PROVE  /\ req'[q].limiter[2] <= cleanups'
                   /\ req'[q].limiter[2] # cleanups'
        <5>1. req'[q].limiter = req[q].limiter
          BY <2>1, <4>1
        <5>2. req[q].limiter \in Limiter
          BY <4>1, <5>1, TypeParts DEF Request
        <5>3. req[q].limiter[2] \in Int
          BY <5>2 DEF Limiter
        <5>4. req[q].limiter[2] <= cleanups
          BY <1>1, <4>1, <5>1 DEF LimiterKnown
        <5>5. QED
          BY <1>2, <3>1, <5>1, <5>3, <5>4
      <4>2. QED
        BY <4>1 DEF LimiterKnown
    <3>3. ASSUME NEW ip \in IP
          PROVE  admitted[ip] <= Burst * (cleanups + 1) + refills
      <4>1. ip \in visitors => admitted[ip] + bucket[LimiterOf(ip)] <= Burst * (1 + cleanups) + refills
        BY <1>1 DEF Budget
      <4>2. ip \notin visitors => admitted[ip] <= Burst * cleanups + refills
        BY <1>1 DEF Budget
      <4>3. bucket[LimiterOf(ip)] \in Nat /\ admitted[ip] \in Nat
        BY <1>2
      <4>4. Burst * (1 + cleanups) = Burst * cleanups + Burst /\ Burst * cleanups \in Nat
        BY <1>2
      <4>5. QED
        BY <1>2, <4>1, <4>2, <4>3, <4>4
    <3>4. Budget'
      BY <3>1, <3>3 DEF Budget
    <3>5. QED
      BY <3>2, <3>4 DEF LimiterInv
  <2>6. QED
    <3>1. ASSUME NEW r \in Requests, Limit(r) PROVE LimiterInv'
      BY <2>2, <2>3, <3>1, LimitTypes
    <3>2. ASSUME NEW r \in Requests, Deliver(r) \/ Lose(r) PROVE LimiterInv'
      BY <2>2, <3>2, DeliverTypes
    <3>3. ASSUME NEW c \in Clients, NEW r \in Requests, ArriveAdmin(c, r) PROVE LimiterInv'
      BY <2>2, <3>3, ArriveAdminTypes
    <3>4. QED
      BY <1>4, <2>2, <2>4, <2>5, <3>1, <3>2, <3>3 DEF Next, Time, vars
<1>5. QED
  BY <1>3, <1>4

\* The limiter of the auth routes keeps to "5 req/min sustained, burst of 10": however
\* many requests look their limiter up before others use it, and whenever the map is
\* emptied, an address is admitted no more than a burst for every map and what time has
\* refilled (RateLimiter.Limit, cleanupLoop).
THEOREM AddressesStayInBudget == Spec => []WithinBudget
<1>1. Init => LimiterInv
  BY LimiterAssumption DEF Init, LimiterInit, LimiterInv, LimiterKnown, Budget, Idle
<1>2. Spec => []LimiterInv
  BY <1>1, LimiterStep, TypeAlways, PTL DEF Spec
<1>3. TypeInv /\ LimiterInv => WithinBudget
  <2> SUFFICES ASSUME LimiterTypeOK, Budget, NEW ip \in IP
               PROVE  admitted[ip] <= Burst * (1 + cleanups) + refills
    BY TypeParts DEF LimiterInv, WithinBudget
  <2>1. /\ cleanups \in Nat /\ refills \in Nat /\ Burst \in Nat
        /\ bucket[LimiterOf(ip)] \in Nat /\ admitted[ip] \in Nat
    BY LimiterAssumption DEF LimiterTypeOK, LimiterOf, Limiter
  <2>2. Burst * (1 + cleanups) = Burst * cleanups + Burst /\ Burst * cleanups \in Nat
    BY <2>1
  <2>3. \/ admitted[ip] + bucket[LimiterOf(ip)] <= Burst * (1 + cleanups) + refills
        \/ admitted[ip] <= Burst * cleanups + refills
    BY DEF Budget
  <2>4. QED
    BY <2>1, <2>2, <2>3
<1>4. QED
  BY <1>2, <1>3, TypeAlways, PTL

-----------------------------------------------------------------------------
(* The last admin.                                                         *)

\* CountByRole found more than one: there is another.
LEMMA AnotherOne ==
    ASSUME NEW S, IsFiniteSet(S), Cardinality(S) > 1, NEW x
    PROVE  \E y \in S : y # x
<1> SUFFICES ASSUME \A y \in S : y = x PROVE FALSE
  OBVIOUS
<1>1. S = {} \/ S = {x}
  OBVIOUS
<1>2. Cardinality(S) = 0 \/ Cardinality(S) = 1
  BY <1>1, FS_EmptySet, FS_Singleton
<1>3. QED
  BY <1>2

LEMMA HandleElsewhere ==
    ASSUME TypeInv, NEW r \in Requests, Handle(r) \/ CallFails(r)
    PROVE  /\ Admins' = Admins
           /\ req'[r].at = "reply" \/ req[r].op # "updateRole"
<1>1. CASE Register(r)
  BY <1>1, RegisterTypes
<1>2. CASE RegisterConflicts(r) \/ LoginFails(r) \/ CallFails(r)
  BY <1>2, RefuseStepTypes, CallFailsTypes DEF Admins, stored
<1>3. CASE Login(r) \/ RefreshReused(r) \/ RefreshExpired(r) \/ Refresh(r) \/ GetUser(r)
           \/ Revoke(r) \/ Logout(r)
  BY <1>3 DEF Login, RefreshReused, RefreshExpired, Refresh, GetUser, Revoke, Logout,
              At, Admins, stored
<1>4. CASE IssueTokenPair(r) \/ RevokeFamily(r)
  BY <1>4, IssueTypes, RevokeFamilyTypes DEF IssueTokenPair, RevokeFamily, Admins
<1>5. QED
  BY <1>1, <1>2, <1>3, <1>4 DEF Handle

\* Steps that neither change who is an admin nor bring an update to its write.
LEMMA AdminsStay ==
    ASSUME AdminInv, Admins' = Admins, rushed' = rushed, NEW r \in Requests,
           Moves(r), req'[r].at # "write" \/ req'[r].op # "updateRole"
    PROVE  AdminInv'
BY DEF AdminInv, OthersRemain, Moves, At

LEMMA AdminStep == TypeInv /\ AdminInv /\ [Next]_vars => AdminInv'
<1> SUFFICES ASSUME TypeInv, AdminInv, [Next]_vars PROVE AdminInv'
  OBVIOUS
<1>1. ASSUME NEW c \in Clients, NEW r \in Requests, ArriveAuth(c, r) \/ ArriveAdmin(c, r)
      PROVE  AdminInv'
  <2>1. /\ Moves(r) /\ req'[r].at # "write" /\ UNCHANGED <<stored, rushed>>
    BY <1>1, ArriveAuthTypes, ArriveAdminTypes
  <2>2. QED
    BY <2>1, AdminsStay DEF Admins, stored
<1>2. ASSUME NEW r \in Requests, Limit(r) PROVE AdminInv'
  <2>1. Moves(r) /\ req'[r].at # "write" /\ UNCHANGED <<stored, rushed>>
    BY <1>2, LimitTypes
  <2>2. QED
    BY <2>1, AdminsStay DEF Admins, stored
<1>3. ASSUME NEW r \in Requests, Deliver(r) \/ Lose(r) PROVE AdminInv'
  <2>1. Moves(r) /\ req'[r].at # "write" /\ UNCHANGED <<stored, rushed>>
    BY <1>3, DeliverTypes DEF Idle
  <2>2. QED
    BY <2>1, AdminsStay DEF Admins, stored
<1>4. ASSUME NEW r \in Requests, Handle(r) \/ CallFails(r), UNCHANGED rushed
      PROVE  AdminInv'
  <2>1. Moves(r) /\ Came(r)
    BY <1>4, HandleTypes
  <2>2. req'[r].at # "write" \/ req'[r].op # "updateRole"
    BY <1>4, <2>1, HandleElsewhere DEF Came
  <2>3. QED
    BY <1>4, <2>1, <2>2, AdminsStay, HandleElsewhere
<1>5. ASSUME NEW r \in Requests, RefuseUpdate(r) PROVE AdminInv'
  <2>1. Moves(r) /\ req'[r].at # "write" /\ UNCHANGED <<stored, rushed>>
    BY <1>5, RefuseStepTypes DEF RefuseUpdate
  <2>2. QED
    BY <2>1, AdminsStay DEF Admins, stored
<1>6. ASSUME NEW r \in Requests, GetTarget(r) \/ CountAdmins(r) PROVE AdminInv'
  <2>1. /\ Moves(r) /\ Came(r) /\ Read(r) /\ UNCHANGED <<stored, rushed>>
        /\ Admins' = Admins
    BY <1>6, LookTypes DEF GetTarget, CountAdmins, Admins, stored
  <2>2. CASE req'[r].at # "write"
    BY <2>1, <2>2, AdminsStay
  <2>3. CASE req'[r].at = "write"
    <3>1. CASE rushed
      BY <2>1, <3>1 DEF AdminInv
    <3>2. ASSUME ~rushed, req[r].role # "admin"
          PROVE  \E u \in Admins : u # req[r].user
      <4>1. CASE GetTarget(r)
        <5>1. req[r].user \notin Admins
          <6>1. Goto(r, "count") => req'[r].at = "count"
            BY InHandler, GotoEffect
          <6>2. Respond(r, "refused", None, None) => req'[r].at = "reply"
            BY InHandler, RespondEffect DEF Status
          <6>3. QED
            BY <2>3, <3>2, <4>1, <6>1, <6>2 DEF GetTarget
        <5>2. Admins # {}
          BY <3>2 DEF AdminInv
        <5>3. QED
          BY <5>1, <5>2
      <4>2. CASE CountAdmins(r)
        <5>1. ~(Cardinality(Admins) <= 1)
          <6>1. Respond(r, "refused", None, None) => req'[r].at = "reply"
            BY InHandler, RespondEffect DEF Status
          <6>2. QED
            BY <2>3, <4>2, <6>1 DEF CountAdmins
        <5>2. IsFiniteSet(Admins) /\ Cardinality(Admins) \in Nat
          <6>1. Admins \subseteq Users
            BY DEF Admins
          <6>2. QED
            BY <6>1, FS_Subset, FS_CardinalityType, AuthAssumption
        <5>3. Cardinality(Admins) > 1
          BY <5>1, <5>2
        <5>4. QED
          BY <5>2, <5>3, AnotherOne
      <4>3. QED
        BY <1>6, <4>1, <4>2
    <3>3. ASSUME ~rushed PROVE AdminInv'
      <4>1. OthersRemain /\ Admins # {}
        BY <3>3 DEF AdminInv
      <4>2. OthersRemain'
        BY <2>1, <3>2, <3>3, <4>1 DEF OthersRemain, Moves, Read, At
      <4>3. QED
        BY <2>1, <4>1, <4>2 DEF AdminInv
    <3>4. QED
      BY <3>1, <3>3
  <2>4. QED
    BY <2>2, <2>3
<1>7. ASSUME NEW r \in Requests, WriteRole(r) PROVE AdminInv'
  <2>1. /\ req[r].op = "updateRole" /\ req[r].at = "write" /\ req[r].user \in Users
        /\ users' = [users EXCEPT ![req[r].user] = req[r].role]
        /\ rushed' = (rushed \/ req[r].stale)
    BY <1>7, InHandler DEF WriteRole, At, Calm, Sane
  <2>2. CASE rushed \/ req[r].stale
    BY <2>1, <2>2 DEF AdminInv
  <2>3. CASE ~rushed /\ ~req[r].stale
    <3>1. Admins # {} /\ OthersRemain
      BY <2>3 DEF AdminInv
    <3>2. Admins' # {}
      <4>1. CASE req[r].role = "admin"
        <5>1. req[r].user \in Admins'
          BY <2>1, <4>1, InHandler DEF Admins
        <5>2. QED
          BY <5>1
      <4>2. CASE req[r].role # "admin"
        <5>1. PICK u \in Admins : u # req[r].user
          BY <2>1, <2>3, <3>1, <4>2 DEF OthersRemain, At
        <5>2. u \in Admins'
          BY <2>1, <5>1, InHandler DEF Admins
        <5>3. QED
          BY <5>2
      <4>3. QED
        BY <4>1, <4>2
    <3>3. OthersRemain'
      <4>1. ASSUME NEW q \in Requests, At(q, "updateRole", "write")'
            PROVE  req'[q].stale
        <5>1. q # r
          BY <1>7, <4>1, WriteRoleTypes DEF At
        <5>2. Same(q)
          BY <1>7, <5>1, WriteRoleTypes
        <5>3. q \in Updating
          BY <4>1, <5>2 DEF At, Updating, Same, Came
        <5>4. QED
          BY <1>7, <5>1, <5>3, WriteRoleTypes
      <4>2. QED
        BY <4>1 DEF OthersRemain
    <3>4. QED
      BY <3>2, <3>3 DEF AdminInv
  <2>4. QED
    BY <2>2, <2>3
<1>8. CASE Time \/ UNCHANGED vars
  <2>1. req' = req /\ users' = users /\ rushed' = rushed
    BY <1>8 DEF Time, vars, stored
  <2>2. QED
    BY <2>1 DEF AdminInv, OthersRemain, Admins, At
<1>9. QED
  BY <1>1, <1>2, <1>3, <1>4, <1>5, <1>6, <1>7, <1>8 DEF Next, UpdateRole

\* "The system can never be left with zero admins" (UserService.UpdateRole): for any
\* number of accounts and of concurrent requests, whatever fails, there is an admin
\* unless some role was written on a look at the accounts that another role change had
\* made old.
THEOREM AdminsAreKept == Spec => []LastAdminKept
<1>1. Init => AdminInv
  <2> SUFFICES ASSUME Init PROVE AdminInv
    OBVIOUS
  <2>1. PICK founders \in (SUBSET Users) \ {{}} :
            users = [u \in Users |-> IF u \in founders THEN "admin" ELSE None]
    BY DEF Init
  <2>2. Admins # {}
    <3>1. PICK u \in founders : u \in Users
      OBVIOUS
    <3>2. users[u] = "admin"
      BY <2>1, <3>1
    <3>3. QED
      BY <3>1, <3>2 DEF Admins
  <2>3. \A r \in Requests : req[r].at = "idle"
    BY DEF Init, Idle
  <2>4. QED
    BY <2>2, <2>3 DEF AdminInv, OthersRemain, At
<1>2. Spec => []AdminInv
  BY <1>1, AdminStep, TypeAlways, PTL DEF Spec
<1>3. AdminInv => LastAdminKept
  BY DEF AdminInv, LastAdminKept
<1>4. QED
  BY <1>2, <1>3, PTL

-----------------------------------------------------------------------------
(* Sessions: what a step leaves of the refreshes at work.                  *)

Working(q) == req[q].op = "refresh" /\ req[q].at \in {"getUser", "revoke", "issue"}

\* q has not begun a refresh, and goes on to issue a token only when it has revoked
\* the one that it was given.
Steady(q) ==
    Working(q)' => /\ Working(q) /\ Came(q) /\ req'[q].family = req[q].family
                   /\ req[q].at = "issue" => req'[q].at = "issue"
                   /\ req'[q].at = "issue" =>
                         req[q].at = "issue" \/ tokens'[req[q].token].revoked

\* q is not told of a reuse in this step.
Untold(q) == req'[q].status = "reuse" => req[q].status = "reuse" /\ Came(q)

LEMMA SameSteady ==
    ASSUME NEW q \in Requests, Same(q)
    PROVE  Steady(q) /\ Untold(q)
BY DEF Same, Steady, Untold, Working, Came, Quiet

LEMMA MovesSame ==
    ASSUME NEW r \in Requests, Moves(r)
    PROVE  \A q \in Requests \ {r} : Same(q)
BY DEF Moves, Same, Came, Quiet

LEMMA RotationShrinks ==
    ASSUME Rotation, Ended, Kept, Stored' = Stored, raced' = raced,
           \A q \in Requests : Steady(q)
    PROVE  /\ Rotation'
           /\ \A f \in ended \ slipped : Live(f)' = {} /\ Refreshing(f)' = {}
<1>1. \A f : Live(f)' \subseteq Live(f)
  BY DEF Live, Kept
<1>2. \A f : Refreshing(f)' \subseteq Refreshing(f)
  BY DEF Refreshing, Steady, Working
<1>3. ASSUME NEW f \in Token \ raced
      PROVE  /\ OneLive(f)' /\ \A p, q \in Refreshing(f)' : p = q
             /\ \A r \in Refreshing(f)' :
                   Live(f)' \subseteq (IF req'[r].at = "issue" THEN {} ELSE {req'[r].token})
  <2>1. /\ OneLive(f) /\ \A p, q \in Refreshing(f) : p = q
        /\ \A r \in Refreshing(f) :
              Live(f) \subseteq (IF req[r].at = "issue" THEN {} ELSE {req[r].token})
    BY DEF Rotation
  <2>2. OneLive(f)' /\ \A p, q \in Refreshing(f)' : p = q
    BY <1>1, <1>2, <2>1 DEF OneLive
  <2>3. ASSUME NEW r \in Refreshing(f)'
        PROVE  Live(f)' \subseteq (IF req'[r].at = "issue" THEN {} ELSE {req'[r].token})
    <3>1. /\ r \in Refreshing(f) /\ req'[r].token = req[r].token
          /\ req[r].at = "issue" => req'[r].at = "issue"
          /\ req'[r].at = "issue" => req[r].at = "issue" \/ tokens'[req[r].token].revoked
      BY <1>2, <2>3 DEF Refreshing, Steady, Working, Came
    <3>2. tokens'[req[r].token].revoked => req[r].token \notin Live(f)'
      BY DEF Live
    <3>3. Live(f) \subseteq (IF req[r].at = "issue" THEN {} ELSE {req[r].token})
      BY <2>1, <3>1
    <3>4. CASE req[r].at = "issue"
      BY <1>1, <3>3, <3>4
    <3>5. CASE req[r].at # "issue" /\ req'[r].at = "issue"
      BY <1>1, <3>1, <3>2, <3>3, <3>5
    <3>6. CASE req'[r].at # "issue"
      BY <1>1, <3>1, <3>3, <3>6
    <3>7. QED
      BY <3>4, <3>5, <3>6
  <2>4. QED
    BY <2>2, <2>3
<1>4. Rotation'
  BY <1>3 DEF Rotation, Token
<1>5. \A f \in ended \ slipped : Live(f)' = {} /\ Refreshing(f)' = {}
  BY <1>1, <1>2 DEF Ended
<1>6. QED
  BY <1>4, <1>5

LEMMA ReuseStaysTold ==
    ASSUME TypeInv, ReuseTold, Kept, ended \subseteq ended',
           \A q \in Requests :
               \/ Untold(q)
               \/ req'[q].op = "refresh" /\ tokens'[req'[q].token].family \in ended'
    PROVE  ReuseTold'
<1>1. ASSUME NEW q \in Requests, req'[q].status = "reuse", Untold(q)
      PROVE  req'[q].op = "refresh" /\ tokens'[req'[q].token].family \in ended'
  <2>1. /\ req[q].status = "reuse" /\ req'[q].op = req[q].op
        /\ req'[q].token = req[q].token
    BY <1>1 DEF Untold, Came
  <2>2. req[q].op = "refresh" /\ tokens[req[q].token].family \in ended
    BY <2>1 DEF ReuseTold
  <2>3. req[q].token \in Stored
    BY <2>2, InHandler
  <2>4. QED
    BY <2>1, <2>2, <2>3 DEF Kept
<1>2. QED
  BY <1>1 DEF ReuseTold

\* The steps that leave the sessions alone.
LEMMA SteadySession ==
    ASSUME TypeInv, SessionInv, Kept, Stored' = Stored, UNCHANGED history,
           \A q \in Requests : Steady(q) /\ Untold(q)
    PROVE  SessionInv'
<1>1. /\ Rotation' /\ \A f \in ended \ slipped : Live(f)' = {} /\ Refreshing(f)' = {}
  BY RotationShrinks DEF SessionInv, history
<1>2. Ended'
  BY <1>1 DEF Ended, history
<1>3. ReuseTold'
  BY ReuseStaysTold DEF SessionInv, history
<1>4. QED
  BY <1>1, <1>2, <1>3 DEF SessionInv

LEMMA SteadyStep ==
    ASSUME TypeInv, SessionInv, Kept, UNCHANGED <<tokens, history>>, NEW r \in Requests,
           \A q \in Requests \ {r} : Same(q), Steady(r), Untold(r)
    PROVE  SessionInv'
<1>1. Stored' = Stored
  BY DEF Stored
<1>2. \A q \in Requests : Steady(q) /\ Untold(q)
  BY SameSteady
<1>3. QED
  BY <1>1, <1>2, SteadySession

\* A family belongs to a token that is stored, wherever a refresh at work has it from.
LEMMA WorkingFamily ==
    ASSUME TypeInv, NEW q \in Requests, Working(q)
    PROVE  req[q].token \in Stored /\ req[q].family = tokens[req[q].token].family
           /\ req[q].family \in Stored
BY InHandler DEF Working, Calm, Sane

LEMMA RefreshSession ==
    ASSUME TypeInv, SessionInv, NEW r \in Requests, Refresh(r)
    PROVE  SessionInv'
<1>0. PICK t, f : t = req[r].token /\ f = tokens[t].family
  OBVIOUS
<1>1. /\ Kept /\ Moves(r) /\ Came(r) /\ Quiet(r) /\ t \in Stored /\ ~tokens[t].revoked
      /\ req'[r].at = "getUser" /\ req'[r].family = f
  BY <1>0, RefreshTypes
<1>2. /\ req[r].op = "refresh" /\ req[r].at = "begin"
      /\ raced' = IF Refreshing(f) = {} THEN raced ELSE raced \cup {f}
      /\ UNCHANGED <<users, tokens, ended, slipped>>
  BY <1>0 DEF Refresh, At
<1>3. /\ Rotation /\ Ended /\ ReuseTold
  BY DEF SessionInv
<1>4. \A g : Live(g)' = Live(g)
  BY <1>2 DEF Live, Stored
<1>5. t \in Live(f)
  BY <1>0, <1>1 DEF Live
<1>6. \A g : Refreshing(g)' = Refreshing(g) \cup (IF g = f THEN {r} ELSE {})
  BY <1>1, <1>2 DEF Refreshing, Moves, Came
<1>7. \A q \in Requests \ {r} : req'[q] = req[q]
  BY <1>1 DEF Moves
<1>8. \A g \in Token : r \notin Refreshing(g)
  BY <1>2 DEF Refreshing
<1>9. ASSUME NEW g \in Token \ raced'
      PROVE  /\ OneLive(g)' /\ \A p, q \in Refreshing(g)' : p = q
             /\ \A q \in Refreshing(g)' :
                   Live(g)' \subseteq (IF req'[q].at = "issue" THEN {} ELSE {req'[q].token})
  <2>1. /\ OneLive(g) /\ \A p, q \in Refreshing(g) : p = q
        /\ \A q \in Refreshing(g) :
              Live(g) \subseteq (IF req[q].at = "issue" THEN {} ELSE {req[q].token})
    BY <1>2, <1>3 DEF Rotation
  <2>2. OneLive(g)'
    BY <1>4, <2>1 DEF OneLive
  <2>3. CASE g = f
    <3>1. Refreshing(f) = {} /\ Refreshing(f)' = {r}
      BY <1>2, <1>6, <2>3
    <3>2. Live(f)' \subseteq {req'[r].token} /\ req'[r].at # "issue"
      BY <1>0, <1>1, <1>4, <1>5, <2>1, <2>3 DEF OneLive, Came
    <3>3. QED
      BY <2>2, <2>3, <3>1, <3>2
  <2>4. CASE g # f
    <3>1. Refreshing(g)' = Refreshing(g)
      BY <1>6, <2>4
    <3>2. \A q \in Refreshing(g) : req'[q] = req[q]
      BY <1>7, <1>8 DEF Refreshing
    <3>3. QED
      BY <1>4, <2>1, <2>2, <3>1, <3>2
  <2>5. QED
    BY <2>3, <2>4
<1>10. Rotation'
  BY <1>9 DEF Rotation, Token
<1>11. Ended'
  <2>1. f \notin ended \ slipped
    BY <1>3, <1>5 DEF Ended
  <2>2. QED
    BY <1>2, <1>3, <1>4, <1>6, <2>1 DEF Ended
<1>12. ReuseTold'
  <2>1. \A q \in Requests : Untold(q)
    BY <1>1, <1>7 DEF Untold, Came, Quiet
  <2>2. QED
    BY <1>1, <1>2, <1>3, <2>1, ReuseStaysTold
<1>13. QED
  BY <1>10, <1>11, <1>12 DEF SessionInv

LEMMA IssueSession ==
    ASSUME TypeInv, SessionInv, NEW r \in Requests, IssueTokenPair(r)
    PROVE  SessionInv'
<1>1. PICK t \in Token \ Stored :
          /\ Stored' = Stored \cup {t} /\ ~tokens'[t].revoked
          /\ tokens'[t].family = IF req[r].op = "login" THEN t ELSE req[r].family
          /\ \A s \in Stored : tokens'[s] = tokens[s]
          /\ req'[r].status # "reuse"
  BY IssueTypes
<1>2. /\ Kept /\ Moves(r) /\ Came(r) /\ Read(r) /\ req'[r].at = "reply"
      /\ UNCHANGED <<raced, ended, slipped>>
  BY IssueTypes DEF history
<1>3. /\ req[r].at = "issue" /\ req[r].op \in {"login", "refresh"}
  BY InHandler DEF IssueTokenPair, Calm, Sane
<1>4. /\ Rotation /\ Ended /\ ReuseTold
  BY DEF SessionInv
<1> DEFINE f == tokens'[t].family
<1>5. \A g : Live(g)' = Live(g) \cup (IF g = f THEN {t} ELSE {})
  BY <1>1 DEF Live
<1>6. \A q \in Requests \ {r} : req'[q] = req[q]
  BY <1>2 DEF Moves
<1>7. \A g : Refreshing(g)' = Refreshing(g) \ {r}
  BY <1>2, <1>6 DEF Refreshing
\* The family has no good token, and no other refresh at work.
<1>8. /\ f \notin raced => Live(f) = {} /\ Refreshing(f) \ {r} = {}
      /\ f \notin ended \ slipped
  <2>1. CASE req[r].op = "login"
    <3>1. f = t
      BY <1>1, <2>1
    <3>2. Live(t) = {}
      BY <1>1, InHandler DEF Live
    <3>3. Refreshing(t) = {}
      BY <1>1, WorkingFamily DEF Refreshing, Working
    <3>4. t \notin ended
      BY <1>1, InHandler DEF Tables
    <3>5. QED
      BY <3>1, <3>2, <3>3, <3>4
  <2>2. CASE req[r].op = "refresh"
    <3>1. f = req[r].family /\ Working(r) /\ f \in Token
      BY <1>1, <1>3, <2>2, WorkingFamily DEF Working, Stored
    <3>2. r \in Refreshing(f)
      BY <1>3, <2>2, <3>1 DEF Refreshing
    <3>3. f \notin ended \ slipped
      BY <1>4, <3>2 DEF Ended
    <3>4. ASSUME f \notin raced PROVE Live(f) = {} /\ Refreshing(f) \ {r} = {}
      BY <1>3, <1>4, <3>1, <3>2, <3>4 DEF Rotation
    <3>5. QED
      BY <3>3, <3>4
  <2>3. QED
    BY <1>3, <2>1, <2>2
<1> HIDE DEF f
<1>9. ASSUME NEW g \in Token \ raced
      PROVE  /\ OneLive(g)' /\ \A p, q \in Refreshing(g)' : p = q
             /\ \A q \in Refreshing(g)' :
                   Live(g)' \subseteq (IF req'[q].at = "issue" THEN {} ELSE {req'[q].token})
  <2>1. CASE g = f
    <3>1. Live(g)' = {t} /\ Refreshing(g)' = {}
      BY <1>5, <1>7, <1>8, <1>9, <2>1
    <3>2. QED
      BY <3>1 DEF OneLive
  <2>2. CASE g # f
    <3>1. Live(g)' = Live(g) /\ Refreshing(g)' = Refreshing(g) \ {r}
      BY <1>5, <1>7, <2>2
    <3>2. \A q \in Refreshing(g)' : req'[q] = req[q] /\ q \in Refreshing(g)
      BY <1>6, <3>1 DEF Refreshing
    <3>3. /\ OneLive(g) /\ \A p, q \in Refreshing(g) : p = q
          /\ \A q \in Refreshing(g) :
                Live(g) \subseteq (IF req[q].at = "issue" THEN {} ELSE {req[q].token})
      BY <1>4 DEF Rotation
    <3>4. QED
      BY <3>1, <3>2, <3>3 DEF OneLive
  <2>3. QED
    BY <2>1, <2>2
<1>10. Rotation'
  BY <1>2, <1>9 DEF Rotation, Token
<1>11. Ended'
  BY <1>2, <1>4, <1>5, <1>7, <1>8 DEF Ended
<1>12. ReuseTold'
  <2>1. \A q \in Requests : Untold(q)
    BY <1>1, <1>6 DEF Untold, Came
  <2>2. QED
    BY <1>2, <1>4, <2>1, ReuseStaysTold
<1>13. QED
  BY <1>10, <1>11, <1>12 DEF SessionInv

LEMMA RevokeSession ==
    ASSUME TypeInv, SessionInv, NEW r \in Requests, Revoke(r)
    PROVE  SessionInv'
<1>1. /\ Kept /\ Moves(r) /\ Came(r) /\ Read(r) /\ Stored' = Stored
      /\ tokens'[req[r].token].revoked
      /\ \/ req'[r].at = "issue" /\ Quiet(r)
         \/ req'[r].at = "reply" /\ req'[r].status = "failed"
  BY RevokeTypes
<1>2. req[r].op = "refresh" /\ req[r].at = "revoke" /\ UNCHANGED history
  BY DEF Revoke, At
<1>3. Steady(r) /\ Untold(r)
  BY <1>1, <1>2 DEF Steady, Untold, Working, Read, Quiet
<1>4. \A q \in Requests : Steady(q) /\ Untold(q)
  BY <1>1, <1>3, MovesSame, SameSteady
<1>5. QED
  BY <1>1, <1>2, <1>4, SteadySession

LEMMA RevokeFamilySession ==
    ASSUME TypeInv, SessionInv, NEW r \in Requests, RevokeFamily(r)
    PROVE  SessionInv'
<1>0. PICK f : f = req[r].family
  OBVIOUS
<1>1. /\ Kept /\ Moves(r) /\ Came(r) /\ Read(r) /\ Stored' = Stored
      /\ req[r].op \in {"refresh", "logout"}
      /\ req[r].token \in Stored /\ f = tokens[req[r].token].family
      /\ \A t \in Stored :
            tokens'[t].revoked = (tokens[t].revoked \/ tokens[t].family = f)
      /\ req'[r].at = "reply"
      /\ \/ req'[r].status = "ok" /\ req'[r].cookie = Clear
         \/ req[r].op = "refresh" /\ req'[r].status \in {"reuse", "failed"}
  BY <1>0, RevokeFamilyTypes
<1>2. /\ raced' = raced /\ ended' = ended \cup {f}
      /\ slipped' = IF Refreshing(f) = {} THEN slipped ELSE slipped \cup {f}
  BY <1>0 DEF RevokeFamily
<1>3. Rotation /\ Ended /\ ReuseTold
  BY DEF SessionInv
<1>4. Steady(r) /\ (Untold(r) \/ (req'[r].op = "refresh"
                                 /\ tokens'[req'[r].token].family \in ended'))
  BY <1>1, <1>2 DEF Steady, Untold, Working, Came, Kept
<1>5. \A q \in Requests \ {r} : Steady(q) /\ Untold(q)
  BY <1>1, MovesSame, SameSteady
<1>6. Rotation' /\ \A g \in ended \ slipped : Live(g)' = {} /\ Refreshing(g)' = {}
  BY <1>1, <1>2, <1>3, <1>4, <1>5, RotationShrinks
<1>7. Live(f)' = {}
  <2>1. \A t \in Stored : tokens[t].family = f => tokens'[t].revoked
    BY <1>1
  <2>2. \A t \in Stored' : tokens'[t].family = f => tokens'[t].revoked
    BY <1>1, <2>1 DEF Kept
  <2>3. QED
    BY <2>2 DEF Live
<1>8. Refreshing(f)' \subseteq Refreshing(f)
  BY <1>4, <1>5 DEF Refreshing, Steady, Working
<1>9. Ended'
  BY <1>2, <1>6, <1>7, <1>8 DEF Ended
<1>10. ReuseTold'
  BY <1>1, <1>2, <1>3, <1>4, <1>5, ReuseStaysTold
<1>11. QED
  BY <1>6, <1>9, <1>10 DEF SessionInv

LEMMA NoReuseBefore == "reuse" # None
BY AuthAssumption DEF Status

LEMMA SessionStep == TypeInv /\ SessionInv /\ [Next]_vars => SessionInv'
<1> SUFFICES ASSUME TypeInv, SessionInv, [Next]_vars PROVE SessionInv'
  OBVIOUS
\* A step of r that is not part of a refresh, or ends it, and changes no token.
<1>0. ASSUME NEW r \in Requests, Kept, UNCHANGED <<tokens, history>>,
             \A q \in Requests \ {r} : Same(q),
             req'[r].op # "refresh" \/ req'[r].at \notin {"getUser", "revoke", "issue"},
             Untold(r)
      PROVE  SessionInv'
  BY <1>0, SteadyStep DEF Steady, Working
<1>1. ASSUME NEW c \in Clients, NEW r \in Requests, ArriveAuth(c, r) \/ ArriveAdmin(c, r)
      PROVE  SessionInv'
  <2>1. /\ Moves(r) /\ Kept /\ Incoming(r, c) /\ UNCHANGED stored
        /\ req'[r].at \in {"limit", "begin"}
    BY <1>1, ArriveAuthTypes, ArriveAdminTypes
  <2>2. Untold(r)
    BY <2>1, NoReuseBefore DEF Incoming, Untold
  <2>3. QED
    BY <1>0, <2>1, <2>2, MovesSame DEF stored
<1>2. ASSUME NEW r \in Requests, Limit(r) PROVE SessionInv'
  <2>1. /\ Moves(r) /\ Kept /\ Came(r) /\ UNCHANGED stored
        /\ req'[r].at \in {"begin", "reply"} /\ (Quiet(r) \/ req'[r].status = "refused")
    BY <1>2, LimitTypes
  <2>2. Untold(r)
    BY <2>1 DEF Quiet, Untold
  <2>3. QED
    BY <1>0, <2>1, <2>2, MovesSame DEF stored
<1>3. ASSUME NEW r \in Requests, Deliver(r) \/ Lose(r) PROVE SessionInv'
  <2>1. Moves(r) /\ Kept /\ UNCHANGED stored /\ req'[r] = Idle
    BY <1>3, DeliverTypes
  <2>2. Untold(r) /\ req'[r].at = "idle"
    BY <2>1, NoReuseBefore DEF Untold, Idle
  <2>3. QED
    BY <1>0, <2>1, <2>2, MovesSame DEF stored
<1>4. ASSUME NEW r \in Requests, CallFails(r) \/ Register(r) \/ RegisterConflicts(r)
                                 \/ LoginFails(r) \/ RefuseUpdate(r)
      PROVE  SessionInv'
  <2>1. /\ Moves(r) /\ Kept /\ UNCHANGED <<tokens, history>>
        /\ req'[r].at = "reply" /\ req'[r].status \in {"ok", "failed", "refused"}
    BY <1>4, CallFailsTypes, RegisterTypes, RefuseStepTypes DEF stored
  <2>2. Untold(r)
    BY <2>1 DEF Untold
  <2>3. QED
    BY <1>0, <2>1, <2>2, MovesSame
<1>5. ASSUME NEW r \in Requests, Login(r) \/ RefreshReused(r) \/ Logout(r)
      PROVE  SessionInv'
  <2>1. /\ Moves(r) /\ Kept /\ UNCHANGED stored /\ Came(r) /\ Quiet(r)
        /\ req'[r].op # "refresh" \/ req'[r].at = "revokeFamily"
    BY <1>5, LoginTypes, FamilyFound DEF RefreshReused, Logout, Came
  <2>2. Untold(r)
    BY <2>1 DEF Untold, Quiet
  <2>3. QED
    BY <1>0, <2>1, <2>2, MovesSame DEF stored
<1>6. ASSUME NEW r \in Requests, GetUser(r) PROVE SessionInv'
  <2>1. /\ Moves(r) /\ Kept /\ UNCHANGED stored /\ Came(r) /\ Quiet(r)
        /\ req[r].op = "refresh" /\ req[r].at = "getUser"
        /\ req'[r].at = "revoke" /\ req'[r].family = req[r].family
    BY <1>6, GetUserTypes DEF GetUser, At
  <2>2. Steady(r) /\ Untold(r)
    BY <2>1 DEF Steady, Untold, Working, Quiet
  <2>3. QED
    BY <2>1, <2>2, MovesSame, SteadyStep DEF stored
<1>7. ASSUME NEW r \in Requests, RefreshExpired(r) PROVE SessionInv'
  <2>1. /\ Moves(r) /\ Kept /\ Stored' = Stored /\ UNCHANGED history
        /\ req'[r].at = "reply" /\ req'[r].status = "refused"
    BY <1>7, ExpiredTypes DEF RefreshExpired
  <2>2. Steady(r) /\ Untold(r)
    BY <2>1 DEF Steady, Untold, Working
  <2>3. \A q \in Requests : Steady(q) /\ Untold(q)
    BY <2>1, <2>2, MovesSame, SameSteady
  <2>4. QED
    BY <2>1, <2>3, SteadySession
<1>8. ASSUME NEW r \in Requests, GetTarget(r) \/ CountAdmins(r) PROVE SessionInv'
  <2>1. /\ Moves(r) /\ Kept /\ UNCHANGED stored /\ Came(r) /\ req[r].op = "updateRole"
        /\ Untold(r)
    <3>1. /\ Moves(r) /\ Kept /\ Came(r)
      BY <1>8, LookTypes
    <3>2. UNCHANGED stored /\ req[r].op = "updateRole"
      BY <1>8 DEF GetTarget, CountAdmins, At
    <3>3. Respond(r, "refused", None, None) => req'[r].status = "refused"
      BY InHandler, RespondEffect DEF Status
    <3>4. Goto(r, "count") \/ Goto(r, "write") => Quiet(r)
      BY InHandler, GotoEffect
    <3>5. Untold(r)
      BY <1>8, <3>1, <3>3, <3>4 DEF GetTarget, CountAdmins, Untold, Quiet
    <3>6. QED
      BY <3>1, <3>2, <3>5
  <2>2. QED
    BY <1>0, <2>1, MovesSame DEF stored, Came
<1>9. ASSUME NEW r \in Requests, WriteRole(r) PROVE SessionInv'
  <2>1. /\ Kept /\ UNCHANGED <<tokens, history>>
        /\ \A q \in Requests \ {r} : Same(q)
        /\ req'[r].at = "reply" /\ req'[r].status \in {"ok", "failed"}
    BY <1>9, WriteRoleTypes DEF WriteRole
  <2>2. Untold(r)
    BY <2>1 DEF Untold
  <2>3. QED
    BY <1>0, <2>1, <2>2
<1>10. CASE Time \/ UNCHANGED vars
  <2>1. UNCHANGED <<req, stored>>
    BY <1>10 DEF Time, vars
  <2>2. Kept /\ Stored' = Stored /\ UNCHANGED history
    BY <2>1, NoWrite DEF stored, Stored
  <2>3. \A q \in Requests : Same(q)
    BY <2>1 DEF Same, Came, Quiet
  <2>4. QED
    BY <2>2, <2>3, SameSteady, SteadySession
<1>11. QED
  BY <1>1, <1>2, <1>3, <1>4, <1>5, <1>6, <1>7, <1>8, <1>9, <1>10,
     RefreshSession, IssueSession, RevokeSession, RevokeFamilySession
     DEF Next, Handle, UpdateRole

LEMMA SessionAlways == Spec => []SessionInv
<1>1. Init => SessionInv
  <2> SUFFICES ASSUME Init PROVE SessionInv
    OBVIOUS
  <2>1. Stored = {} /\ ended = {}
    BY DEF Init, Stored
  <2>2. \A r \in Requests : req[r].at = "idle" /\ req[r].status # "reuse"
    BY NoReuseBefore DEF Init, Idle
  <2>3. \A f : Live(f) = {} /\ Refreshing(f) = {}
    BY <2>1, <2>2 DEF Live, Refreshing
  <2>4. QED
    BY <2>1, <2>2, <2>3 DEF SessionInv, Rotation, Ended, ReuseTold, OneLive
<1>2. QED
  BY <1>1, SessionStep, TypeAlways, PTL DEF Spec

\* Rotation "fails closed" instead of "doubling the live token count" (the comment in
\* AuthService.Refresh): whatever call fails and whatever other requests do, a family
\* has at most one good token unless two refreshes of it were at work at the same time.
THEOREM OneTokenIsLive == Spec => []SingleLiveToken
<1>1. TypeInv /\ SessionInv => SingleLiveToken
  <2> SUFFICES ASSUME TypeInv, SessionInv, NEW f \in Families \ raced
               PROVE  Cardinality(Live(f)) <= 1
    BY DEF SingleLiveToken
  <2>1. f \in Token \ raced
    BY TypeParts DEF Families, Tables, Rooted, Stored
  <2>2. OneLive(f)
    BY <2>1 DEF SessionInv, Rotation
  <2>3. Live(f) = {} \/ \E t \in Live(f) : Live(f) = {t}
    BY <2>2 DEF OneLive
  <2>4. Cardinality(Live(f)) = 0 \/ Cardinality(Live(f)) = 1
    BY <2>3, FS_EmptySet, FS_Singleton
  <2>5. QED
    BY <2>4
<1>2. QED
  BY <1>1, SessionAlways, TypeAlways, PTL

\* "Log out actually invalidates the session, including any tokens already rotated
\* forward", and so does a token that is used twice (AuthService.Logout, Refresh): a
\* revoked family has no good token ever after, unless a refresh was past its look at
\* the table, and nobody hears of a reuse before its family is revoked.
THEOREM RevocationIsFinal == Spec => []LogoutEndsSession
<1>1. SessionInv => LogoutEndsSession
  BY DEF SessionInv, Ended, ReuseTold, LogoutEndsSession
<1>2. QED
  BY <1>1, SessionAlways, PTL

-----------------------------------------------------------------------------
(* Honest clients: whose tokens they are.                                  *)

\* q holds no token that it did not hold before.
Carries(q) ==
    req'[q].at # "idle" => /\ req[q].at # "idle" /\ req'[q].by = req[q].by
                           /\ req'[q].token = req[q].token
                           /\ req'[q].cookie \in {req[q].cookie, None, Clear}

LEMMA SameCarries ==
    ASSUME NEW q \in Requests, Same(q)
    PROVE  Carries(q)
BY DEF Same, Carries, Came, Quiet

LEMMA NoTokens == None \notin Token /\ Clear \notin Token
BY AuthAssumption DEF Token, Clear

\* Whoever holds a token held one of its family before.
LEMMA OwnedInherits ==
    ASSUME TypeInv, Owned, Kept,
           \A c \in Clients, t \in Stored' :
               Holds(c, t)' => \E s \in Stored : /\ Holds(c, s)
                                                 /\ tokens[s].family = tokens'[t].family
    PROVE  Owned'
BY DEF Owned

LEMMA OwnedSteady ==
    ASSUME TypeInv, Owned, Kept, Stored' = Stored, UNCHANGED jar,
           \A q \in Requests : Carries(q)
    PROVE  Owned'
<1>1. ASSUME NEW c \in Clients, NEW t \in Stored, Holds(c, t)' PROVE Holds(c, t)
  <2>1. t # None /\ t # Clear
    BY NoTokens DEF Stored
  <2>2. CASE jar'[c] = t
    BY <2>2 DEF Holds
  <2>3. ASSUME NEW q \in Requests, Busy(q, c)', t \in {req'[q].token, req'[q].cookie}
        PROVE  Holds(c, t)
    BY <2>1, <2>3 DEF Carries, Busy, Holds
  <2>4. QED
    BY <1>1, <2>2, <2>3 DEF Holds
<1>2. QED
  BY <1>1, OwnedInherits DEF Kept

LEMMA OwnedArrive ==
    ASSUME TypeInv, Owned, NEW c \in Clients, NEW r \in Requests,
           ArriveAuth(c, r) \/ ArriveAdmin(c, r)
    PROVE  Owned'
<1>1. /\ Kept /\ Moves(r) /\ Incoming(r, c) /\ UNCHANGED <<stored, jar>>
      /\ req'[r].token \in {jar[c], None}
  <2>1. CASE ArriveAuth(c, r)
    BY <2>1, ArriveAuthTypes
  <2>2. CASE ArriveAdmin(c, r)
    BY <2>2, ArriveAdminTypes
  <2>3. QED
    BY <2>1, <2>2
<1>2. Stored' = Stored
  BY <1>1 DEF stored, Stored
<1>3. ASSUME NEW d \in Clients, NEW t \in Stored, Holds(d, t)' PROVE Holds(d, t)
  <2>1. t # None
    BY NoTokens DEF Stored
  <2>2. CASE jar'[d] = t
    BY <1>1, <2>2 DEF Holds
  <2>3. ASSUME NEW q \in Requests, Busy(q, d)', t \in {req'[q].token, req'[q].cookie}
        PROVE  Holds(d, t)
    <3>1. CASE q = r
      BY <1>1, <2>1, <2>3, <3>1 DEF Incoming, Busy, Holds
    <3>2. CASE q # r
      BY <1>1, <2>3, <3>2 DEF Moves, Busy, Holds
    <3>3. QED
      BY <3>1, <3>2
  <2>4. QED
    BY <1>3, <2>2, <2>3 DEF Holds
<1>4. QED
  BY <1>1, <1>2, <1>3, OwnedInherits DEF Kept

LEMMA OwnedDeliver ==
    ASSUME TypeInv, Owned, NEW r \in Requests, Deliver(r) \/ Lose(r)
    PROVE  Owned'
<1>0. PICK c \in Clients : c = req[r].by /\ req[r].at = "reply"
  BY DeliverTypes
<1>1. Kept /\ Moves(r) /\ UNCHANGED stored /\ req'[r].at = "idle"
  BY DeliverTypes DEF Idle
<1>2. /\ jar \in [Clients -> Stored \cup {None}]
      /\ \/ jar' = jar \/ jar' = [jar EXCEPT ![c] = None]
         \/ jar' = [jar EXCEPT ![c] = req[r].cookie]
  BY <1>0, InHandler DEF Deliver, Lose, Browsers
<1>3. Stored' = Stored
  BY <1>1 DEF stored, Stored
<1>4. ASSUME NEW d \in Clients, NEW t \in Stored, Holds(d, t)' PROVE Holds(d, t)
  <2>1. t # None
    BY NoTokens DEF Stored
  <2>2. CASE jar'[d] = t
    <3>1. jar[d] = t \/ (d = c /\ t = req[r].cookie)
      BY <1>2, <2>1, <2>2
    <3>2. QED
      BY <1>0, <3>1 DEF Holds, Busy
  <2>3. ASSUME NEW q \in Requests, Busy(q, d)', t \in {req'[q].token, req'[q].cookie}
        PROVE  Holds(d, t)
    BY <1>1, <2>3 DEF Moves, Busy, Holds
  <2>4. QED
    BY <1>4, <2>2, <2>3 DEF Holds
<1>5. QED
  BY <1>1, <1>3, <1>4, OwnedInherits DEF Kept

LEMMA OwnedIssue ==
    ASSUME TypeInv, Owned, NEW r \in Requests, IssueTokenPair(r), UNCHANGED jar
    PROVE  Owned'
<1>1. /\ Kept /\ Moves(r) /\ Came(r)
  BY IssueTypes
<1>2. PICK t \in Token \ Stored :
          /\ Stored' = Stored \cup {t}
          /\ tokens'[t].family = IF req[r].op = "login" THEN t ELSE req[r].family
          /\ \A s \in Stored : tokens'[s] = tokens[s]
          /\ req'[r].cookie \in {t, None}
  BY IssueTypes
<1>3. PICK c \in Clients : /\ c = req[r].by /\ req[r].at = "issue"
                           /\ req[r].op \in {"login", "refresh"}
  BY InHandler DEF IssueTokenPair, Calm, Sane
\* All that is new is that the browser will get t.
<1>4. ASSUME NEW d \in Clients, NEW s \in Stored', Holds(d, s)'
      PROVE  (s \in Stored /\ Holds(d, s)) \/ (s = t /\ d = c)
  <2>1. s # None /\ jar[d] # t
    BY <1>2, NoTokens, InHandler DEF Stored, Browsers
  <2>2. CASE jar'[d] = s
    BY <1>2, <2>1, <2>2 DEF Holds
  <2>3. ASSUME NEW q \in Requests, Busy(q, d)', s \in {req'[q].token, req'[q].cookie}
        PROVE  (s \in Stored /\ Holds(d, s)) \/ (s = t /\ d = c)
    <3>1. CASE s \in Stored
      <4>1. CASE q = r
        BY <1>1, <1>2, <1>3, <2>1, <2>3, <3>1, <4>1 DEF Came, Busy, Holds
      <4>2. CASE q # r
        BY <1>1, <2>3, <3>1, <4>2 DEF Moves, Busy, Holds
      <4>3. QED
        BY <4>1, <4>2
    <3>2. CASE s \notin Stored
      <4>1. s = t
        BY <1>2, <3>2
      <4>2. CASE q = r
        BY <1>1, <1>3, <2>3, <4>1, <4>2 DEF Came, Busy
      <4>3. CASE q # r
        <5>1. req[q].token = t \/ req[q].cookie = t
          BY <1>1, <2>3, <4>1, <4>3 DEF Moves
        <5>2. req[q].at # "idle"
          BY <1>1, <2>3, <4>3 DEF Moves, Busy
        <5>3. req[q].cookie # t
          BY <1>2, NoTokens, InHandler DEF Calm, Sane
        <5>4. req[q].token # t
          BY <1>2, NoTokens, InHandler DEF Calm, Sane
        <5>5. QED
          BY <5>1, <5>3, <5>4
      <4>4. QED
        BY <4>2, <4>3
    <3>3. QED
      BY <3>1, <3>2
  <2>4. QED
    BY <1>4, <2>2, <2>3 DEF Holds
<1>5. CASE req[r].op = "refresh"
  <2>1. /\ req[r].token \in Stored /\ tokens'[t].family = tokens[req[r].token].family
    BY <1>2, <1>3, <1>5, WorkingFamily DEF Working
  <2>2. Holds(c, req[r].token)
    BY <1>3, <2>1 DEF Holds, Busy
  <2>3. QED
    BY <1>1, <1>2, <1>4, <2>1, <2>2, OwnedInherits
<1>6. CASE req[r].op = "login"
  <2>1. tokens'[t].family = t
    BY <1>2, <1>6
  <2>2. \A s \in Stored : tokens'[s].family # t
    BY <1>2, InHandler
  <2>3. QED
    <3>1. ASSUME NEW d \in Clients, NEW e \in Clients, NEW s \in Stored', NEW u \in Stored',
                 Holds(d, s)', Holds(e, u)', tokens'[s].family = tokens'[u].family
          PROVE  d = e
      <4>1. CASE s = t \/ u = t
        <5>1. s = t /\ u = t
          BY <1>2, <2>1, <2>2, <3>1, <4>1
        <5>2. QED
          BY <1>2, <1>4, <3>1, <5>1
      <4>2. CASE s # t /\ u # t
        <5>1. /\ s \in Stored /\ u \in Stored /\ Holds(d, s) /\ Holds(e, u)
              /\ tokens[s].family = tokens[u].family
          BY <1>2, <1>4, <3>1, <4>2
        <5>2. QED
          BY <5>1 DEF Owned
      <4>3. QED
        BY <4>1, <4>2
    <3>2. QED
      BY <3>1 DEF Owned
<1>7. QED
  BY <1>3, <1>5, <1>6

-----------------------------------------------------------------------------
(* Honest clients: their requests.                                         *)

\* No token of d is revoked.
Spared(d) == \A t \in Stored : Holds(d, t) /\ ~tokens[t].revoked =>
                 t \in Stored' /\ ~tokens'[t].revoked

\* A step of another browser.
LEMMA OtherHonest ==
    ASSUME TypeInv, NEW d \in Clients, HonestAt(d), Spared(d), jar'[d] = jar[d],
           \A q \in Requests : /\ Busy(q, d)' <=> Busy(q, d)
                               /\ Busy(q, d) => Same(q)
    PROVE  HonestAt(d)'
<1>1. Safe(d) => Safe(d)'
  <2>1. jar[d] \in Stored \cup {None}
    BY InHandler, TypeParts DEF Browsers
  <2>2. jar[d] \in Stored => Holds(d, jar[d])
    BY DEF Holds
  <2>3. QED
    BY <2>1, <2>2 DEF Safe, Spared
<1>2. ASSUME NEW q \in Requests, Busy(q, d)' PROVE Good(d, q)'
  <2>1. Busy(q, d) /\ Same(q) /\ Good(d, q)
    BY <1>2 DEF HonestAt
  <2>2. ASSUME req[q].cookie \in Token, ~tokens[req[q].cookie].revoked
        PROVE  ~tokens'[req'[q].cookie].revoked
    <3>1. req[q].cookie \in Stored
      BY <2>2, NoTokens, InHandler DEF Calm, Sane
    <3>2. Holds(d, req[q].cookie)
      BY <2>1, <3>1 DEF Holds
    <3>3. QED
      BY <2>1, <2>2, <3>1, <3>2 DEF Spared, Same, Quiet
  <2>3. QED
    BY <1>1, <2>1, <2>2 DEF Good, Same, Came, Quiet
<1>3. QED
  BY <1>1, <1>2 DEF HonestAt

\* The next statement of the only request of c.
LEMMA OwnHonest ==
    ASSUME NEW c \in Clients, HonestAt(c), NEW r \in Requests, Busy(r, c),
           \A q \in Requests \ {r} : Same(q),
           Came(r), req'[r].at # "idle", Good(c, r)'
    PROVE  HonestAt(c)'
<1>1. \A q \in Requests : Busy(q, c)' <=> q = r
  BY DEF HonestAt, Busy, Same, Came
<1>2. QED
  BY <1>1 DEF HonestAt

\* A statement of r: its browser has to stay good, the others are to be spared.
LEMMA StatementHonest ==
    ASSUME TypeInv, Honest, NEW r \in Requests, req[r].at # "idle",
           \A q \in Requests \ {r} : Same(q), Came(r), req'[r].at # "idle",
           UNCHANGED <<jar, troubled>>,
           NEW c \in Clients, c = req[r].by,
           \A d \in Clients \ {c} : Spared(d),
           c \notin troubled => Good(c, r)'
    PROVE  Honest'
<1>1. ASSUME NEW d \in Clients \ troubled, d # c PROVE HonestAt(d)'
  <2>1. \A q \in Requests : Busy(q, d)' <=> Busy(q, d)
    BY <1>1 DEF Busy, Same, Came
  <2>2. \A q \in Requests : Busy(q, d) => Same(q)
    BY <1>1 DEF Busy
  <2>3. HonestAt(d) /\ Spared(d)
    BY <1>1 DEF Honest
  <2>4. QED
    BY <2>1, <2>2, <2>3, OtherHonest
<1>2. ASSUME c \notin troubled PROVE HonestAt(c)'
  <2>1. HonestAt(c) /\ Busy(r, c)
    BY <1>2 DEF Honest, Busy
  <2>2. QED
    BY <1>2, <2>1, OwnHonest
<1>3. QED
  BY <1>1, <1>2 DEF Honest

\* A statement that revokes nothing.
Spares == \A t \in Stored : t \in Stored' /\ tokens'[t].revoked = tokens[t].revoked

LEMMA SparesAll == Spares => \A d : Spared(d)
BY DEF Spares, Spared

LEMMA UnchangedSpares == UNCHANGED tokens => Spares
BY DEF Spares, Stored

LEMMA SparesSafe ==
    ASSUME TypeInv, Spares, NEW c \in Clients, UNCHANGED jar, Safe(c)
    PROVE  Safe(c)'
<1>1. jar[c] \in Stored \cup {None}
  BY TypeParts DEF Browsers
<1>2. QED
  BY <1>1 DEF Safe, Spares

\* What is known of the browser of a request at work.
LEMMA OwnerGood ==
    ASSUME TypeInv, Honest, NEW r \in Requests, req[r].at # "idle"
    PROVE  /\ req[r].by \in Clients
           /\ req[r].by \notin troubled => Good(req[r].by, r)
BY InHandler DEF Calm, Sane, Honest, HonestAt, Busy

\* Statements that revoke nothing and go on, or answer without a cookie, or fail.
LEMMA SparingHonest ==
    ASSUME TypeInv, Honest, NEW r \in Requests,
           req[r].at \notin {"idle", "issue", "reply"},
           \A q \in Requests \ {r} : Same(q), Came(r), UNCHANGED <<jar, troubled>>, Spares,
           \/ req'[r].at \notin {"idle", "revokeFamily", "reply"}
           \/ req'[r].at = "revokeFamily" /\ req[r].op = "logout"
           \/ /\ req'[r].at = "reply" /\ req'[r].status # "reuse"
              /\ req'[r].status = "failed" \/ req'[r].cookie \in {None, Clear}
    PROVE  Honest'
<1>0. PICK c \in Clients : c = req[r].by
  BY OwnerGood
<1>1. ASSUME c \notin troubled PROVE Good(c, r)'
  <2>1. Good(c, r) /\ Safe(c)
    BY <1>0, <1>1, OwnerGood DEF Good
  <2>2. Safe(c)'
    BY <2>1, SparesSafe
  <2>3. QED
    BY <2>1, <2>2 DEF Good, Came
<1>2. QED
  BY <1>0, <1>1, SparesAll, StatementHonest

LEMMA FailHonest ==
    ASSUME TypeInv, Honest, NEW r \in Requests, req[r].at # "idle",
           Moves(r), Came(r), UNCHANGED <<tokens, jar, troubled>>,
           req'[r].at = "reply", req'[r].status # "reuse",
           req'[r].status = "failed" \/ req'[r].cookie = Clear
    PROVE  Honest'
<1>0. PICK c \in Clients : c = req[r].by
  BY OwnerGood
<1>1. ASSUME c \notin troubled PROVE Good(c, r)'
  BY <1>0, <1>1, OwnerGood DEF Good, Came
<1>2. \A d : Spared(d)
  BY SparesAll, UnchangedSpares
<1>3. QED
  BY <1>0, <1>1, <1>2, MovesSame, StatementHonest

LEMMA IssueHonest ==
    ASSUME TypeInv, Honest, NEW r \in Requests, IssueTokenPair(r), UNCHANGED <<jar, troubled>>
    PROVE  Honest'
<1>1. /\ Moves(r) /\ Came(r) /\ req'[r].at = "reply"
  BY IssueTypes
<1>2. PICK t \in Token \ Stored :
          /\ Stored' = Stored \cup {t} /\ ~tokens'[t].revoked
          /\ \A s \in Stored : tokens'[s] = tokens[s]
          /\ \/ req'[r].status = "ok" /\ req'[r].cookie = t
             \/ req'[r].status = "failed" /\ req'[r].cookie = None
  BY IssueTypes
<1>3. PICK c \in Clients : c = req[r].by /\ req[r].at = "issue"
  BY OwnerGood DEF IssueTokenPair
<1>4. Spares
  BY <1>2 DEF Spares
<1>5. ASSUME c \notin troubled PROVE Good(c, r)'
  BY <1>1, <1>2, <1>3, <1>5, OwnerGood DEF Good, Came
<1>6. QED
  BY <1>1, <1>3, <1>4, <1>5, SparesAll, MovesSame, StatementHonest

LEMMA RevokeHonest ==
    ASSUME TypeInv, Honest, Owned, NEW r \in Requests, Revoke(r), UNCHANGED <<jar, troubled>>
    PROVE  Honest'
<1>1. /\ Moves(r) /\ Came(r) /\ Stored' = Stored /\ req[r].token \in Stored
      /\ \A t \in Stored \ {req[r].token} : tokens'[t].revoked = tokens[t].revoked
      /\ \/ req'[r].at = "issue"
         \/ req'[r].at = "reply" /\ req'[r].status = "failed"
  BY RevokeTypes
<1>2. PICK c \in Clients : c = req[r].by /\ req[r].at = "revoke" /\ req[r].op = "refresh"
  BY OwnerGood DEF Revoke, At
<1>3. ASSUME NEW d \in Clients \ {c} PROVE Spared(d)
  <2>1. Holds(c, req[r].token)
    BY <1>1, <1>2 DEF Holds, Busy
  <2>2. ~Holds(d, req[r].token)
    BY <1>1, <1>3, <2>1 DEF Owned
  <2>3. QED
    BY <1>1, <2>2 DEF Spared
<1>4. ASSUME c \notin troubled PROVE Good(c, r)'
  BY <1>1, <1>2, <1>4, OwnerGood DEF Good, Came
<1>5. QED
  BY <1>1, <1>2, <1>3, <1>4, MovesSame, StatementHonest

LEMMA RevokeFamilyHonest ==
    ASSUME TypeInv, Honest, Owned, NEW r \in Requests, RevokeFamily(r),
           UNCHANGED <<jar, troubled>>
    PROVE  Honest'
<1>1. /\ Moves(r) /\ Came(r) /\ Stored' = Stored
      /\ req[r].token \in Stored /\ req[r].family = tokens[req[r].token].family
      /\ \A t \in Stored : tokens'[t].revoked =
            (tokens[t].revoked \/ tokens[t].family = req[r].family)
      /\ req'[r].at = "reply"
      /\ \/ req'[r].status = "ok" /\ req'[r].cookie = Clear
         \/ req[r].op = "refresh" /\ req'[r].status \in {"reuse", "failed"}
  BY RevokeFamilyTypes
<1>2. PICK c \in Clients : c = req[r].by /\ req[r].at = "revokeFamily"
  BY OwnerGood DEF RevokeFamily
<1>3. ASSUME NEW d \in Clients \ {c} PROVE Spared(d)
  <2>1. Holds(c, req[r].token)
    BY <1>1, <1>2 DEF Holds, Busy
  <2>2. ASSUME NEW t \in Stored, Holds(d, t) PROVE tokens[t].family # req[r].family
    BY <1>1, <1>3, <2>1, <2>2 DEF Owned
  <2>3. ASSUME NEW t \in Stored, Holds(d, t), ~tokens[t].revoked PROVE ~tokens'[t].revoked
    BY <1>1, <2>2, <2>3
  <2>4. QED
    BY <1>1, <2>3 DEF Spared
<1>4. ASSUME c \notin troubled PROVE Good(c, r)'
  <2>1. Good(c, r) /\ req[r].op = "logout"
    BY <1>2, <1>4, OwnerGood DEF Good
  <2>2. QED
    BY <1>1, <2>1 DEF Good, Came
<1>5. QED
  BY <1>1, <1>2, <1>3, <1>4, MovesSame, StatementHonest

LEMMA ArriveHonest ==
    ASSUME TypeInv, Honest, NEW c \in Clients, NEW r \in Requests,
           ArriveAuth(c, r) \/ ArriveAdmin(c, r)
    PROVE  Honest'
<1>1. /\ Moves(r) /\ Incoming(r, c) /\ UNCHANGED <<stored, jar>> /\ req[r] = Idle
      /\ req'[r].at \in {"limit", "begin"}
      /\ req'[r].op \in {"refresh", "logout"} => req'[r].token = jar[c]
  <2>1. CASE ArriveAuth(c, r)
    BY <2>1, ArriveAuthTypes
  <2>2. CASE ArriveAdmin(c, r)
    BY <2>2, ArriveAdminTypes
  <2>3. QED
    BY <2>1, <2>2
<1>2. troubled' = IF \E q \in Requests : req[q].by = c THEN troubled \cup {c} ELSE troubled
  BY DEF ArriveAuth, ArriveAdmin, Arrive
<1>3. \A d : Spared(d)
  BY <1>1, SparesAll, UnchangedSpares DEF stored
<1>4. ASSUME NEW d \in Clients \ troubled', d # c PROVE HonestAt(d)'
  <2>1. \A q \in Requests : Busy(q, d)' <=> Busy(q, d)
    BY <1>1, <1>4 DEF Busy, Moves, Incoming, Idle
  <2>2. \A q \in Requests : Busy(q, d) => Same(q)
    BY <1>1, MovesSame DEF Busy, Idle
  <2>3. HonestAt(d)
    BY <1>2, <1>4 DEF Honest
  <2>4. QED
    BY <1>1, <1>3, <2>1, <2>2, <2>3, OtherHonest
<1>5. ASSUME c \notin troubled' PROVE HonestAt(c)'
  <2>1. c \notin troubled /\ \A q \in Requests : ~Busy(q, c)
    BY <1>2, <1>5 DEF Busy
  <2>2. Safe(c)
    BY <2>1 DEF Honest, HonestAt
  <2>3. Safe(c)'
    BY <1>1, <2>2 DEF Safe, stored
  <2>4. \A q \in Requests : Busy(q, c)' <=> q = r
    BY <1>1, <2>1 DEF Busy, Moves, Incoming
  <2>5. Good(c, r)'
    BY <1>1, <2>3 DEF Good
  <2>6. QED
    BY <2>4, <2>5 DEF HonestAt
<1>6. QED
  BY <1>4, <1>5 DEF Honest

LEMMA DeliverHonest ==
    ASSUME TypeInv, Honest, NEW r \in Requests, Deliver(r) \/ Lose(r)
    PROVE  Honest'
<1>0. PICK c \in Clients : c = req[r].by /\ req[r].at = "reply"
  BY DeliverTypes
<1>1. /\ Moves(r) /\ UNCHANGED stored /\ req'[r].at = "idle"
  BY DeliverTypes DEF Idle
<1>2. jar \in [Clients -> Stored \cup {None}] /\ troubled' \in {troubled, troubled \cup {c}}
  BY <1>0, InHandler DEF Deliver, Lose, Browsers
<1>3. \A d \in Clients \ {c} : jar'[d] = jar[d]
  BY <1>0, <1>2 DEF Deliver, Lose
<1>4. \A d : Spared(d)
  BY <1>1, SparesAll, UnchangedSpares DEF stored
<1>5. ASSUME NEW d \in Clients \ troubled', d # c PROVE HonestAt(d)'
  <2>1. \A q \in Requests : Busy(q, d)' <=> Busy(q, d)
    BY <1>0, <1>1, <1>5 DEF Busy, Moves
  <2>2. \A q \in Requests : Busy(q, d) => Same(q)
    BY <1>0, <1>1, <1>5, MovesSame DEF Busy
  <2>3. HonestAt(d)
    BY <1>2, <1>5 DEF Honest
  <2>4. QED
    BY <1>3, <1>4, <1>5, <2>1, <2>2, <2>3, OtherHonest
<1>6. ASSUME c \notin troubled' PROVE HonestAt(c)'
  <2>1. c \notin troubled /\ HonestAt(c) /\ Busy(r, c)
    BY <1>0, <1>2, <1>6 DEF Honest, Busy
  <2>2. /\ Deliver(r) /\ req[r].status # "failed"
    BY <1>0, <1>6 DEF Deliver, Lose
  <2>3. \A q \in Requests : ~Busy(q, c)'
    BY <1>1, <2>1 DEF HonestAt, Busy, Moves
  <2>4. \/ req[r].cookie = Clear
        \/ req[r].cookie \in Token /\ ~tokens[req[r].cookie].revoked
        \/ req[r].cookie = None /\ Safe(c)
    BY <1>0, <2>1, <2>2 DEF HonestAt, Good
  <2>5. Safe(c)'
    <3>1. /\ req[r].cookie = None => jar'[c] = jar[c]
          /\ req[r].cookie = Clear => jar'[c] = None
          /\ req[r].cookie \in Token => jar'[c] = req[r].cookie
      <4>1. jar' = CASE req[r].cookie = None -> jar
                     [] req[r].cookie = Clear -> [jar EXCEPT ![c] = None]
                     [] OTHER -> [jar EXCEPT ![c] = req[r].cookie]
        BY <1>0, <2>2 DEF Deliver
      <4>2. None # Clear
        BY AuthAssumption DEF Clear
      <4>3. QED
        BY <1>2, <4>1, <4>2, NoTokens
    <3>2. tokens' = tokens
      BY <1>1 DEF stored
    <3>3. QED
      BY <2>4, <3>1, <3>2 DEF Safe
  <2>6. QED
    BY <2>3, <2>5 DEF HonestAt
<1>7. QED
  BY <1>5, <1>6 DEF Honest

\* A refresh of a browser that is not troubled does not find its token used.
LEMMA ReusedHonest ==
    ASSUME TypeInv, Honest, NEW r \in Requests, RefreshReused(r), UNCHANGED <<jar, troubled>>
    PROVE  Honest'
<1>1. /\ Moves(r) /\ Came(r) /\ req'[r].at = "revokeFamily" /\ UNCHANGED stored
  BY FamilyFound DEF RefreshReused
<1>2. PICK c \in Clients : /\ c = req[r].by /\ req[r].at = "begin"
                           /\ req[r].op = "refresh" /\ tokens[req[r].token].revoked
  BY OwnerGood DEF RefreshReused, At
<1>3. c \in troubled
  <2>1. req[r].token \in Stored /\ req[r].token # None
    BY <1>2, NoTokens, InHandler DEF Stored
  <2>2. ASSUME c \notin troubled PROVE FALSE
    BY <1>2, <2>1, <2>2, OwnerGood DEF Good, Safe
  <2>3. QED
    BY <2>2
<1>4. \A d : Spared(d)
  BY <1>1, SparesAll, UnchangedSpares DEF stored
<1>5. QED
  BY <1>1, <1>2, <1>3, <1>4, MovesSame, StatementHonest

HonestInv == Owned /\ Honest

LEMMA HonestStep == TypeInv /\ HonestInv /\ [Next]_vars => HonestInv'
<1> SUFFICES ASSUME TypeInv, Owned, Honest, [Next]_vars PROVE Owned' /\ Honest'
  BY DEF HonestInv
\* A statement of r that stores no token.
<1>0. ASSUME NEW r \in Requests, \A q \in Requests \ {r} : Same(q), Came(r), Kept,
             Stored' = Stored, UNCHANGED jar, req[r].at # "idle",
             req'[r].cookie \in {req[r].cookie, None, Clear}
      PROVE  Owned'
  <2>1. \A q \in Requests : Carries(q)
    BY <1>0, SameCarries DEF Carries, Came
  <2>2. QED
    BY <1>0, <2>1, OwnedSteady
<1>1. ASSUME NEW c \in Clients, NEW r \in Requests, ArriveAuth(c, r) \/ ArriveAdmin(c, r)
      PROVE  Owned' /\ Honest'
  BY <1>1, OwnedArrive, ArriveHonest
<1>2. ASSUME NEW r \in Requests, Limit(r) PROVE Owned' /\ Honest'
  <2>1. /\ Moves(r) /\ Came(r) /\ Kept /\ UNCHANGED <<stored, browserVars>>
        /\ req[r].at = "limit"
        /\ \/ req'[r].at = "begin" /\ Quiet(r)
           \/ /\ req'[r].at = "reply" /\ req'[r].status = "refused"
              /\ req'[r].cookie = None
    BY <1>2, LimitTypes
  <2>2. Spares /\ Stored' = Stored /\ UNCHANGED <<jar, troubled>>
    BY <2>1, UnchangedSpares DEF stored, Stored, browserVars
  <2>3. QED
    BY <1>0, <2>1, <2>2, MovesSame, SparingHonest DEF Quiet
<1>3. ASSUME NEW r \in Requests, Deliver(r) \/ Lose(r) PROVE Owned' /\ Honest'
  BY <1>3, OwnedDeliver, DeliverHonest
<1>4. ASSUME NEW r \in Requests, Handle(r) \/ CallFails(r), UNCHANGED browserVars
      PROVE  Owned' /\ Honest'
  <2>0. UNCHANGED <<jar, troubled>>
    BY <1>4 DEF browserVars
  <2>1. CASE CallFails(r)
    <3>1. /\ Moves(r) /\ Came(r) /\ Kept /\ UNCHANGED stored /\ req'[r].at = "reply"
          /\ \/ req'[r].status = "ok" /\ req'[r].cookie = Clear
             \/ req'[r].status = "failed" /\ req'[r].cookie = None
          /\ req[r].at # "idle"
      BY <2>1, CallFailsTypes DEF CallFails
    <3>2. Stored' = Stored /\ UNCHANGED tokens
      BY <3>1 DEF stored, Stored
    <3>3. QED
      BY <1>0, <2>0, <3>1, <3>2, MovesSame, FailHonest
  <2>2. CASE Register(r) \/ RegisterConflicts(r) \/ LoginFails(r)
    <3>1. /\ Moves(r) /\ Came(r) /\ Kept /\ UNCHANGED tokens /\ req'[r].at = "reply"
          /\ req'[r].status \in {"ok", "failed", "refused"} /\ req'[r].cookie = None
          /\ req[r].at = "begin"
      BY <2>2, RegisterTypes, RefuseStepTypes
         DEF Register, RegisterConflicts, LoginFails, At, stored
    <3>2. Stored' = Stored /\ Spares
      BY <3>1, UnchangedSpares DEF Stored
    <3>3. QED
      BY <1>0, <2>0, <3>1, <3>2, MovesSame, SparingHonest
  <2>3. CASE Login(r) \/ Logout(r) \/ Refresh(r) \/ GetUser(r)
    <3>1. /\ Moves(r) /\ Came(r) /\ Quiet(r) /\ Kept /\ UNCHANGED tokens
      BY <2>3, LoginTypes, FamilyFound, RefreshTypes, GetUserTypes
         DEF Login, Logout, Refresh, GetUser, stored
    <3>2. /\ req[r].at \in {"begin", "getUser"}
          /\ \/ req'[r].at \in {"issue", "getUser", "revoke"}
             \/ req'[r].at = "revokeFamily" /\ req[r].op = "logout"
      BY <2>3, LoginTypes, FamilyFound, RefreshTypes, GetUserTypes
         DEF Login, Logout, Refresh, GetUser, At
    <3>3. Stored' = Stored /\ Spares
      BY <3>1, UnchangedSpares DEF Stored
    <3>4. QED
      BY <1>0, <2>0, <3>1, <3>2, <3>3, MovesSame, SparingHonest DEF Quiet
  <2>4. CASE RefreshReused(r)
    <3>1. /\ Moves(r) /\ Came(r) /\ Quiet(r) /\ Kept /\ UNCHANGED stored
          /\ req[r].at = "begin"
      BY <2>4, FamilyFound DEF RefreshReused, At
    <3>2. Stored' = Stored
      BY <3>1 DEF stored, Stored
    <3>3. QED
      BY <1>0, <2>0, <2>4, <3>1, <3>2, MovesSame, ReusedHonest DEF Quiet
  <2>5. CASE RefreshExpired(r)
    <3>1. /\ Moves(r) /\ Came(r) /\ Kept /\ Stored' = Stored
          /\ req'[r].at = "reply" /\ req'[r].status = "refused" /\ req'[r].cookie = None
          /\ \A t \in Stored : tokens'[t].revoked = tokens[t].revoked
          /\ req[r].at = "begin"
      BY <2>5, ExpiredTypes DEF RefreshExpired, At
    <3>2. Spares
      BY <3>1 DEF Spares
    <3>3. QED
      BY <1>0, <2>0, <3>1, <3>2, MovesSame, SparingHonest
  <2>6. CASE IssueTokenPair(r)
    BY <2>0, <2>6, OwnedIssue, IssueHonest
  <2>7. CASE Revoke(r)
    <3>1. /\ Moves(r) /\ Came(r) /\ Kept /\ Stored' = Stored
          /\ req'[r].cookie \in {req[r].cookie, None} /\ req[r].at = "revoke"
      BY <2>7, RevokeTypes DEF Revoke, At, Quiet
    <3>2. QED
      BY <1>0, <2>0, <2>7, <3>1, MovesSame, RevokeHonest
  <2>8. CASE RevokeFamily(r)
    <3>1. /\ Moves(r) /\ Came(r) /\ Kept /\ Stored' = Stored
          /\ req'[r].cookie \in {None, Clear} /\ req[r].at = "revokeFamily"
      BY <2>8, RevokeFamilyTypes DEF RevokeFamily
    <3>2. QED
      BY <1>0, <2>0, <2>8, <3>1, MovesSame, RevokeFamilyHonest
  <2>9. QED
    BY <1>4, <2>1, <2>2, <2>3, <2>4, <2>5, <2>6, <2>7, <2>8 DEF Handle
<1>5. ASSUME NEW r \in Requests, UpdateRole(r), UNCHANGED browserVars
      PROVE  Owned' /\ Honest'
  <2>0. UNCHANGED <<jar, troubled>>
    BY <1>5 DEF browserVars
  <2>1. /\ \A q \in Requests \ {r} : Same(q)
        /\ Came(r) /\ Kept /\ UNCHANGED tokens
        /\ req[r].at \in {"begin", "count", "write"}
        /\ \/ req'[r].at \in {"count", "write"} /\ Quiet(r)
           \/ /\ req'[r].at = "reply" /\ req'[r].status \in {"ok", "failed", "refused"}
              /\ req'[r].cookie = None
    <3>1. CASE RefuseUpdate(r)
      BY <3>1, RefuseStepTypes, MovesSame DEF RefuseUpdate, At, stored
    <3>2. CASE GetTarget(r) \/ CountAdmins(r)
      <4>1. Moves(r) /\ Came(r) /\ Kept
        BY <3>2, LookTypes
      <4>2. UNCHANGED tokens /\ req[r].at \in {"begin", "count"}
        BY <3>2 DEF GetTarget, CountAdmins, At, stored
      <4>3. \/ Respond(r, "refused", None, None)
            \/ Goto(r, "count") \/ Goto(r, "write")
        BY <3>2 DEF GetTarget, CountAdmins
      <4>4. \/ req'[r].at \in {"count", "write"} /\ Quiet(r)
            \/ /\ req'[r].at = "reply" /\ req'[r].status = "refused"
               /\ req'[r].cookie = None
        BY <4>3, InHandler, GotoEffect, RespondEffect DEF Status
      <4>5. QED
        BY <4>1, <4>2, <4>4, MovesSame
    <3>3. CASE WriteRole(r)
      BY <3>3, WriteRoleTypes DEF WriteRole, At
    <3>4. QED
      BY <1>5, <3>1, <3>2, <3>3 DEF UpdateRole
  <2>2. Stored' = Stored /\ Spares
    BY <2>1, UnchangedSpares DEF Stored
  <2>3. QED
    BY <1>0, <2>0, <2>1, <2>2, SparingHonest DEF Quiet
<1>6. CASE Time \/ UNCHANGED vars
  <2>1. UNCHANGED <<req, stored, jar, troubled>>
    BY <1>6 DEF Time, vars, browserVars
  <2>2. UNCHANGED tokens /\ Stored' = Stored
    BY <2>1 DEF stored, Stored
  <2>3. Owned'
    BY <2>1, <2>2 DEF Owned, Holds, Busy
  <2>4. Honest'
    BY <2>1, <2>2 DEF Honest, HonestAt, Good, Safe, Busy
  <2>5. QED
    BY <2>3, <2>4
<1>7. QED
  BY <1>1, <1>2, <1>3, <1>4, <1>5, <1>6 DEF Next

\* The price of reuse detection is "a small chance of inconveniencing a legitimate
\* client (e.g. a retried request racing a real rotation)" (AuthService.Refresh), and no
\* more: a browser is told that its token was used before only if its requests
\* overlapped, a response to it was lost, or it was answered 500, however many other
\* browsers there are and whatever they send.
THEOREM HonestClientsAreKept == Spec => []HonestClientKeepsSession
<1>1. Init => HonestInv
  <2> SUFFICES ASSUME Init PROVE Owned /\ Honest
    BY DEF HonestInv
  <2>1. Stored = {}
    BY DEF Init, Stored
  <2>2. \A r \in Requests : req[r].at = "idle"
    BY DEF Init, Idle
  <2>3. \A c \in Clients : jar[c] = None
    BY DEF Init
  <2>4. QED
    BY <2>1, <2>2, <2>3 DEF Owned, Honest, HonestAt, Safe, Busy
<1>2. Spec => []HonestInv
  BY <1>1, HonestStep, TypeAlways, PTL DEF Spec
<1>3. TypeInv /\ HonestInv => HonestClientKeepsSession
  <2> SUFFICES ASSUME TypeInv, Honest, NEW r \in Requests, req[r].status = "reuse"
               PROVE  req[r].by \in troubled
    BY DEF HonestInv, HonestClientKeepsSession
  <2>1. req[r].at = "reply"
    BY NoReuseBefore, InHandler DEF Calm, Sane
  <2>2. QED
    BY <2>1, OwnerGood DEF Good
<1>4. QED
  BY <1>2, <1>3, TypeAlways, PTL
=============================================================================
