----------------------------- MODULE UserService -----------------------------
(***************************************************************************)
(* service.UserService.UpdateRole behind handler.UserHandler               *)
(* (src/internal/service/user_service.go): an admin changes the role of    *)
(* another account.  Look at the target, count the admins if one is being  *)
(* demoted, write: three statements, no transaction, beside the requests   *)
(* of AuthService and beside each other.                                   *)
(***************************************************************************)
EXTENDS AuthService

CONSTANT NewRole      \* what request bodies ask for; need not be a role

VARIABLE rushed       \* history: a role was written on the strength of a look at
                      \* the accounts older than the last change of a role

Admins == {u \in Users : users[u] = "admin"}

\* The role updates that have looked and not yet written.
Updating == {r \in Requests : req[r].op = "updateRole" /\ req[r].at \in {"count", "write"}}

\* Not an admin (RequireRole, ErrNotAdmin), no role (ErrInvalidRole) or one's own
\* account (ErrCannotDemoteSelf), in the order of the code; all are refused.
RefuseUpdate(r) ==
    /\ At(r, "updateRole", "begin")
    /\ \/ req[r].claims.role # "admin"
       \/ req[r].role \notin Roles
       \/ req[r].claims.user = req[r].user
    /\ Refuse(r)
    /\ UNCHANGED rushed

\* GetByID: 404, or on to the count if this demotes an admin.
GetTarget(r) ==
    /\ At(r, "updateRole", "begin")
    /\ req[r].claims.role = "admin" /\ req[r].role \in Roles
    /\ req[r].claims.user # req[r].user
    /\ IF users[req[r].user] = None THEN Respond(r, "refused", None, None)
       ELSE Goto(r, IF req[r].user \in Admins /\ req[r].role # "admin"
                    THEN "count" ELSE "write")
    /\ UNCHANGED <<stored, rushed>>

\* A fault that LastAdminKept excludes: the count is compared with zero.
CountAdminsOffByOne(r) ==
    /\ At(r, "updateRole", "count")
    /\ IF Cardinality(Admins) = 0 THEN Respond(r, "refused", None, None)
                                  ELSE Goto(r, "write")
    /\ UNCHANGED <<stored, rushed>>

\* CountByRole: ErrLastAdmin, 409.
CountAdmins(r) ==
    /\ At(r, "updateRole", "count")
    /\ IF Cardinality(Admins) <= 1 THEN Respond(r, "refused", None, None)
                                   ELSE Goto(r, "write")
    /\ UNCHANGED <<stored, rushed>>

\* users.UpdateRole: whatever the other updates have looked at is now old.
WriteRole(r) ==
    /\ At(r, "updateRole", "write")
    /\ users' = [users EXCEPT ![req[r].user] = req[r].role]
    /\ \E status \in {"ok", "failed"} :
           req' = [q \in Requests |->
                      IF q = r THEN [req[r] EXCEPT !.at = "reply", !.status = status]
                      ELSE [req[q] EXCEPT !.stale = @ \/ q \in Updating]]
    /\ rushed' = (rushed \/ req[r].stale)
    /\ UNCHANGED <<tokens, history>>

UpdateRole(r) == RefuseUpdate(r) \/ GetTarget(r) \/ CountAdmins(r) \/ WriteRole(r)

-----------------------------------------------------------------------------
\* "The system can never be left with zero admins" (user_service.go:83): not by any
\* sequence of role changes, whatever fails, unless one of them was decided on a
\* look at the accounts that another role change had made old.
LastAdminKept == Admins = {} => rushed

\* The same sentence without the exception.
AdminRemains == Admins # {}
=============================================================================
