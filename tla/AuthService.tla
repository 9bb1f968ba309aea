----------------------------- MODULE AuthService -----------------------------
(***************************************************************************)
(* service.AuthService with handler.AuthHandler in front of it and the     *)
(* repositories behind it (src/internal/service/auth_service.go): Register,*)
(* Login, Refresh and Logout, one action per SQL statement, for requests   *)
(* that run concurrently.  Every statement is atomic, may fail without     *)
(* effect, and a write may take effect although its answer is lost.        *)
(*                                                                         *)
(* An account is named by its e-mail address, which both unique indexes    *)
(* and GetByEmail take up to letter case.  Raw refresh tokens are random,  *)
(* so each is new: they are numbered in the order they are stored.  A      *)
(* family (uuid.NewString) is named by its first token.                    *)
(***************************************************************************)
EXTENDS Naturals, FiniteSets

CONSTANTS
    Users,            \* e-mail addresses
    Requests,         \* request goroutines
    MaxTokens,        \* bound on the rows of refresh_tokens
    None              \* no row, no cookie, no token

Roles == {"admin", "operator", "viewer"}
Token == 1..MaxTokens
Clear == 0                        \* the cookie that deletes the cookie
Row == [user : Users, family : Token, revoked : BOOLEAN, expired : BOOLEAN]
AccessToken == [user : Users, role : Roles]
Ops == {"register", "login", "refresh", "logout", "updateRole"}    \* the routes
Status == {"ok", "failed", "refused", "reuse"}                     \* the answers

ASSUME AuthAssumption ==
    /\ IsFiniteSet(Users) /\ IsFiniteSet(Requests)
    /\ MaxTokens \in Nat /\ None \notin Nat \cup Row \cup Roles \cup Ops \cup Status

VARIABLES
    users,            \* database: the role of each account, or None
    tokens,           \* database: the row of each refresh token, or None
    req,              \* the requests: next statement, locals and response
    raced,            \* history: families two refreshes were at work on
    ended,            \* history: families that have been revoked
    slipped           \* history: those revoked while a refresh was at work

history == <<raced, ended, slipped>>
stored == <<users, tokens, history>>

\* A goroutine without a request.  op, by, user, token and claims are what the
\* request came with, family and role what it has read, the rest its response.
Idle == [at |-> "idle", op |-> None, by |-> None, limiter |-> None,
         user |-> None, token |-> None, claims |-> None,
         family |-> None, role |-> None, stale |-> FALSE,
         status |-> None, cookie |-> None, access |-> None]

At(r, op, at) == req[r].op = op /\ req[r].at = at

Stored == {t \in Token : tokens[t] # None}
Live(f) == {t \in Stored : tokens[t].family = f /\ ~tokens[t].revoked}
Families == {tokens[t].family : t \in Stored}

\* The refreshes that have found a token of the family good and not yet stored
\* its successor.
Refreshing(f) ==
    {r \in Requests : /\ req[r].op = "refresh" /\ req[r].family = f
                      /\ req[r].at \in {"getUser", "revoke", "issue"}}

Respond(r, status, cookie, access) ==
    req' = [req EXCEPT ![r].at = "reply", ![r].status = status,
                       ![r].cookie = cookie, ![r].access = access]

\* A failed call: 500 for the client.  Logout's handler logs it and clears the
\* cookie as if all was well.
Fail(r) ==
    IF req[r].op = "logout" THEN Respond(r, "ok", Clear, None)
                            ELSE Respond(r, "failed", None, None)

Refuse(r) == Respond(r, "refused", None, None) /\ UNCHANGED stored

Goto(r, at) == req' = [req EXCEPT ![r].at = at]

CallFails(r) ==
    /\ req[r].at \in {"begin", "issue", "getUser", "revoke", "revokeFamily",
                      "count", "write"}
    /\ Fail(r)
    /\ UNCHANGED stored

-----------------------------------------------------------------------------
(* Register and Login.                                                     *)

\* Register, with an address and a password that are valid.
Register(r) ==
    /\ At(r, "register", "begin") /\ users[req[r].user] = None
    /\ users' = [users EXCEPT ![req[r].user] = "viewer"]
    /\ Respond(r, "ok", None, None) \/ Fail(r)
    /\ UNCHANGED <<tokens, history>>

\* The unique index rejects the row: ErrEmailTaken, 409.
RegisterConflicts(r) ==
    At(r, "register", "begin") /\ users[req[r].user] # None /\ Refuse(r)

\* Login: GetByEmail and VerifyPassword.
Login(r) ==
    /\ At(r, "login", "begin") /\ users[req[r].user] # None
    /\ req' = [req EXCEPT ![r].at = "issue", ![r].role = users[req[r].user]]
    /\ UNCHANGED stored

\* ErrInvalidCredentials: no such account, or another password.
LoginFails(r) == At(r, "login", "begin") /\ Refuse(r)

\* A fault that HonestClientKeepsSession excludes: Refresh without setRefreshCookie.
IssueTokenPairUnset(r) ==
    LET t == Cardinality(Stored) + 1
        family == IF req[r].op = "login" THEN t ELSE req[r].family
    IN  /\ req[r].at = "issue" /\ t \in Token
        /\ tokens' = [tokens EXCEPT ![t] = [user |-> req[r].user, family |-> family,
                                            revoked |-> FALSE, expired |-> FALSE]]
        /\ \/ Respond(r, "ok", IF req[r].op = "login" THEN t ELSE None,
                      [user |-> req[r].user, role |-> req[r].role])
           \/ Fail(r)
        /\ UNCHANGED <<users, history>>

\* issueTokenPair stores a token of a new family, or of the one being refreshed,
\* and the handler hands it over as a cookie.
IssueTokenPair(r) ==
    LET t == Cardinality(Stored) + 1
        family == IF req[r].op = "login" THEN t ELSE req[r].family
    IN  /\ req[r].at = "issue" /\ t \in Token
        /\ tokens' = [tokens EXCEPT ![t] = [user |-> req[r].user, family |-> family,
                                            revoked |-> FALSE, expired |-> FALSE]]
        /\ \/ Respond(r, "ok", t, [user |-> req[r].user, role |-> req[r].role])
           \/ Fail(r)
        /\ UNCHANGED <<users, history>>

-----------------------------------------------------------------------------
(* Refresh and Logout.                                                     *)

\* Refresh: GetByHash finds a token that has been used or logged out ...
RefreshReused(r) ==
    /\ At(r, "refresh", "begin") /\ tokens[req[r].token].revoked
    /\ req' = [req EXCEPT ![r].at = "revokeFamily",
                          ![r].family = tokens[req[r].token].family]
    /\ UNCHANGED stored

\* ... or one that has expired: ErrTokenInvalid.  Whether seven days have passed is
\* looked at only here, so it is decided here, for good ...
RefreshExpired(r) ==
    LET t == req[r].token
    IN  /\ At(r, "refresh", "begin") /\ ~tokens[t].revoked
        /\ tokens' = [tokens EXCEPT ![t].expired = TRUE]
        /\ Respond(r, "refused", None, None)
        /\ UNCHANGED <<users, history>>

\* ... or a good one.
Refresh(r) ==
    LET row == tokens[req[r].token]
    IN  /\ At(r, "refresh", "begin") /\ ~row.revoked /\ ~row.expired
        /\ req' = [req EXCEPT ![r].at = "getUser", ![r].user = row.user,
                              ![r].family = row.family]
        /\ raced' = IF Refreshing(row.family) = {} THEN raced
                    ELSE raced \cup {row.family}
        /\ UNCHANGED <<users, tokens, ended, slipped>>

\* users.GetByID: the new access token will carry this role.
GetUser(r) ==
    /\ At(r, "refresh", "getUser")
    /\ req' = [req EXCEPT ![r].at = "revoke", ![r].role = users[req[r].user]]
    /\ UNCHANGED stored

\* A fault that SingleLiveToken excludes: failing open, with the old token good.
RevokeLater(r) ==
    /\ At(r, "refresh", "revoke")
    /\ Goto(r, "issue")
    /\ UNCHANGED stored

\* refresh.Revoke, before issueTokenPair.
Revoke(r) ==
    /\ At(r, "refresh", "revoke")
    /\ tokens' = [tokens EXCEPT ![req[r].token].revoked = TRUE]
    /\ Goto(r, "issue") \/ Fail(r)
    /\ UNCHANGED <<users, history>>

\* Logout: GetByHash; Logout does not look whether the token is still good.
Logout(r) ==
    /\ At(r, "logout", "begin")
    /\ req' = [req EXCEPT ![r].at = "revokeFamily",
                          ![r].family = tokens[req[r].token].family]
    /\ UNCHANGED stored

\* A fault that LogoutEndsSession excludes: only the presented token is revoked.
RevokeFamilyOfOne(r) ==
    LET f == req[r].family
    IN  /\ req[r].at = "revokeFamily"
        /\ tokens' = [tokens EXCEPT ![req[r].token].revoked = TRUE]
        /\ ended' = ended \cup {f}
        /\ slipped' = IF Refreshing(f) = {} THEN slipped ELSE slipped \cup {f}
        /\ \/ req[r].op = "refresh" /\ Respond(r, "reuse", Clear, None)
           \/ req[r].op = "logout" /\ Respond(r, "ok", Clear, None)
           \/ Fail(r)
        /\ UNCHANGED <<users, raced>>

\* RevokeFamily, for a reused token (ErrTokenReuse, cookie cleared) or a logout.
RevokeFamily(r) ==
    LET f == req[r].family
    IN  /\ req[r].at = "revokeFamily"
        /\ tokens' = [t \in Token |->
                         IF t \in Live(f) THEN [tokens[t] EXCEPT !.revoked = TRUE]
                         ELSE tokens[t]]
        /\ ended' = ended \cup {f}
        /\ slipped' = IF Refreshing(f) = {} THEN slipped ELSE slipped \cup {f}
        /\ \/ req[r].op = "refresh" /\ Respond(r, "reuse", Clear, None)
           \/ req[r].op = "logout" /\ Respond(r, "ok", Clear, None)
           \/ Fail(r)
        /\ UNCHANGED <<users, raced>>

Handle(r) ==
    \/ Register(r) \/ RegisterConflicts(r) \/ Login(r) \/ LoginFails(r)
    \/ IssueTokenPair(r)
    \/ RefreshReused(r) \/ RefreshExpired(r) \/ Refresh(r)
    \/ GetUser(r) \/ Revoke(r)
    \/ Logout(r) \/ RevokeFamily(r)

-----------------------------------------------------------------------------
(* Properties.                                                             *)

\* Rotation never doubles a session (auth_service.go:177-180): at any moment of
\* any refresh, failed or not, at most one token of a family is good, unless two
\* refreshes of that family were at work at the same time.
SingleLiveToken ==
    \A f \in Families \ raced : Cardinality(Live(f)) <= 1

\* "Log out actually invalidates the session, including any tokens already rotated
\* forward" (auth_service.go:188-190), and a used token that comes back costs its
\* whole family (137-149): once a family is revoked, and before anyone is told that a
\* token was used, none of its tokens is good, then or ever after, unless a refresh
\* was past its look at the table when the family was revoked.
LogoutEndsSession ==
    /\ \A f \in ended \ slipped : Live(f) = {}
    /\ \A r \in Requests :
           req[r].status = "reuse" => tokens[req[r].token].family \in ended
=============================================================================
