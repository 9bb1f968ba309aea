\* Bounds: a browser with two requests under way and four in all, two accounts, a
\* bucket of two with one refill and one reset.
SPECIFICATION Spec
CONSTANTS
    Users = {ann, bob}
    Requests = {r1, r2}
    Clients = {c1}
    IP = {home}
    MaxTokens = 4
    MaxRequests = 4
    Burst = 2
    MaxCleanups = 1
    MaxRefills = 1
    None = None
    NewRole = {"admin", "viewer", "owner"}
SYMMETRY Symmetry
INVARIANTS SingleLiveToken LogoutEndsSession
    HonestClientKeepsSession LastAdminKept WithinBudget
\* The browsers stop when they have sent MaxRequests requests.
CHECK_DEADLOCK FALSE
