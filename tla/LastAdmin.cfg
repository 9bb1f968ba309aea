\* As Accounts.cfg, with a bucket that is never empty: two logins and two role
\* updates that overlap.
SPECIFICATION Spec
CONSTANTS
    Users = {ann, bob}
    Requests = {r1, r2}
    Clients = {c1}
    IP = {home}
    MaxTokens = 4
    MaxRequests = 4
    Burst = 4
    MaxCleanups = 0
    MaxRefills = 0
    None = None
    NewRole = {"viewer"}
SYMMETRY Symmetry
INVARIANT AdminRemains
\* The browser stops when it has sent MaxRequests requests.
CHECK_DEADLOCK FALSE
