----------------------------- MODULE MCAccounts -----------------------------
(***************************************************************************)
(* Accounts for TLC.  The run explores a server whose requests overlap and *)
(* one that serves them one after the other; the properties "in turn" are  *)
(* about the second and tell what each handler achieves by itself.         *)
(***************************************************************************)
EXTENDS Accounts

VARIABLE inTurn   \* requests are served one after the other

MCVars == <<vars, inTurn>>

MCInit == Init /\ inTurn \in BOOLEAN

\* A request may begin.
MayBegin == inTurn => \A r \in Request : requests[r] = Free

ServerNext ==
  \/ \E u \in User : MayBegin /\ FirstLogin(u)
  \/ \E r \in Request, admin, user \in User, op \in Op, to \in Role :
       MayBegin /\ Enter(r, admin, op, user, to)
  \/ \E r \in Request : Load(r)
  \/ \E r \in Request : Approve(r)
  \/ \E r \in Request : Reject(r)
  \/ \E r \in Request : SetRole(r)
  \/ \E r \in Request : LookForDriver(r)
  \/ \E r \in Request : SetRoleDriver(r)
  \/ \E r \in Request : ProvisionDriver(r)
  \/ \E r \in Request : Rollback(r)

MCNext == ServerNext /\ UNCHANGED inTurn

MCSpec == MCInit /\ [][MCNext]_MCVars

-----------------------------------------------------------------------------
(* What each handler achieves by itself *)

\* The audit trail ends with the role the account has, and a verification request
\* is decided once (admin_api.py, set_user_role; "No pending verification request
\* for this user").
TrailIsKeptInTurn == inTurn => RoleIsLastChange /\ DecidedOnce

\* Administrators cannot lock everyone out by changing roles (admin_api.py, the
\* comment on self-demotion).
SomeAdminRemainsInTurn == inTurn => SomeAdminRemains

=============================================================================
