------------------------------ MODULE Accounts ------------------------------
(***************************************************************************)
(* Browsers in front of the account routes: router (server.go), rate       *)
(* limiter, Authenticate and RequireRole, AuthService and UserService.  A  *)
(* browser keeps one refresh cookie and one access token, may have several *)
(* requests under way (tabs, retries), and may lose a response.            *)
(***************************************************************************)
EXTENDS UserService, RateLimiter

CONSTANTS
    Clients,          \* browsers
    MaxRequests       \* bound on the requests they send

ASSUME AccountsAssumption == MaxRequests \in Nat /\ None \notin Limiter

VARIABLES
    jar,              \* the cookie of each browser: a refresh token, or None
    access,           \* its access token: the claims it carries, or None
    troubled,         \* history: browsers that had requests under way at the same
                      \* time, lost a response or were answered 500
    sent              \* requests so far

browserVars == <<jar, access, troubled, sent>>
vars == <<stored, req, rushed, limiterVars, browserVars>>

\* Some accounts, at least one an admin by way of the database.
Init ==
    /\ \E founders \in (SUBSET Users) \ {{}} :
           users = [u \in Users |-> IF u \in founders THEN "admin" ELSE None]
    /\ tokens = [t \in Token |-> None]
    /\ req = [r \in Requests |-> Idle]
    /\ raced = {} /\ ended = {} /\ slipped = {} /\ rushed = FALSE
    /\ LimiterInit
    /\ jar = [c \in Clients |-> None] /\ access = [c \in Clients |-> None]
    /\ troubled = {} /\ sent = 0

\* A request of browser c reaches a handler goroutine.
Arrive(c, r, request) ==
    /\ req[r] = Idle /\ sent < MaxRequests
    /\ req' = [req EXCEPT ![r] = [request EXCEPT !.by = c]]
    /\ troubled' = IF \E q \in Requests : req[q].by = c THEN troubled \cup {c}
                   ELSE troubled
    /\ sent' = sent + 1
    /\ UNCHANGED <<jar, access, stored, rushed>>

\* /api/v1/auth: RateLimiter.Limit looks the limiter up.  Without a cookie refresh
\* is 401 and logout 204, and neither touches anything.
ArriveAuth(c, r) ==
    \E ip \in IP, op \in {"register", "login", "refresh", "logout"}, u \in Users \cup {None} :
        /\ (op \in {"register", "login"}) = (u # None)
        /\ u = None => jar[c] # None
        /\ Arrive(c, r, [Idle EXCEPT !.at = "limit", !.op = op, !.user = u,
                                     !.token = IF u = None THEN jar[c] ELSE None,
                                     !.limiter = LimiterOf(ip)])
        /\ GetLimiter(ip)

\* ... and then uses it: on to the handler, or 429.
Limit(r) ==
    /\ req[r].at = "limit"
    /\ \/ Allow(req[r].limiter) /\ Goto(r, "begin")
       \/ Deny(req[r].limiter) /\ Respond(r, "refused", None, None)
    /\ UNCHANGED <<stored, rushed, browserVars>>

\* PATCH /admin/users/{id}/role: Authenticate finds the claims of a good access token
\* (without one, or after its fifteen minutes: 401, and nothing happens).
ArriveAdmin(c, r) ==
    /\ access[c] # None
    /\ \E u \in Users, role \in NewRole :
           Arrive(c, r, [Idle EXCEPT !.at = "begin", !.op = "updateRole", !.user = u,
                                     !.role = role, !.claims = access[c]])
    /\ UNCHANGED limiterVars

\* The response arrives: Set-Cookie, and the access token for the page to keep.
Deliver(r) ==
    LET q == req[r]
        c == q.by
    IN  /\ q.at = "reply"
        /\ jar' = CASE q.cookie = None -> jar
                    [] q.cookie = Clear -> [jar EXCEPT ![c] = None]
                    [] OTHER -> [jar EXCEPT ![c] = q.cookie]
        /\ access' = IF q.access = None THEN access ELSE [access EXCEPT ![c] = q.access]
        /\ troubled' = IF q.status = "failed" THEN troubled \cup {c} ELSE troubled
        /\ req' = [req EXCEPT ![r] = Idle]
        /\ UNCHANGED <<stored, rushed, limiterVars, sent>>

Lose(r) ==
    /\ req[r].at = "reply"
    /\ troubled' = troubled \cup {req[r].by}
    /\ req' = [req EXCEPT ![r] = Idle]
    /\ UNCHANGED <<stored, rushed, limiterVars, jar, access, sent>>

Time == (Refill \/ Cleanup) /\ UNCHANGED <<stored, req, rushed, browserVars>>

Next ==
    \/ \E c \in Clients, r \in Requests : ArriveAuth(c, r) \/ ArriveAdmin(c, r)
    \/ \E r \in Requests : Limit(r) \/ Deliver(r) \/ Lose(r)
    \/ \E r \in Requests : /\ Handle(r) \/ CallFails(r)
                           /\ UNCHANGED <<rushed, limiterVars, browserVars>>
    \/ \E r \in Requests : UpdateRole(r) /\ UNCHANGED <<limiterVars, browserVars>>
    \/ Time

Spec == Init /\ [][Next]_vars

-----------------------------------------------------------------------------
TypeOK ==
    /\ LimiterTypeOK
    /\ users \in [Users -> Roles \cup {None}]
    /\ tokens \in [Token -> Row \cup {None}]
    /\ raced \subseteq Token /\ ended \subseteq Token /\ slipped \subseteq ended
    /\ jar \in [Clients -> Stored \cup {None}]
    /\ access \in [Clients -> AccessToken \cup {None}]
    /\ \A r \in Requests : req[r].at = "idle" <=> req[r] = Idle
    /\ rushed \in BOOLEAN /\ troubled \subseteq Clients /\ sent \in 0..MaxRequests

\* The price of reuse detection is "a small chance of inconveniencing a legitimate
\* client (e.g. a retried request racing a real rotation)" (auth_service.go:147-148):
\* a browser is told that its token was used before only if its requests overlapped,
\* a response to it was lost, or it was answered 500; never for using its session.
HonestClientKeepsSession ==
    \A r \in Requests : req[r].status = "reuse" => req[r].by \in troubled
=============================================================================
