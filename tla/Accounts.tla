------------------------------ MODULE Accounts ------------------------------
(***************************************************************************)
(* The accounts administrators manage (api/app/admin_api.py: approve,      *)
(* reject, set_user_role) and the driver rows some of them own             *)
(* (shared/drivers.py).  A handler loads its rows in one statement, decides *)
(* on the copies and commits later; an UPDATE holds the lock of its row    *)
(* until the transaction ends.                                             *)
(***************************************************************************)
EXTENDS Naturals, Sequences

CONSTANTS
  Newcomer,  \* accounts that may log in
  Founder,   \* the account that is an administrator from the start
  Request,   \* requests being handled at once
  Nobody     \* no account

User == Newcomer \cup {Founder}

Role == {"user", "driver", "admin"}
Status == {"pending", "verified", "blocked"}

VARIABLES
  known,      \* accounts that exist
  role, status,
  driverRows, \* accounts that own a row of drivers
  decisions,  \* the verification events of an account in the order of their commits;
              \* their created_at is the start of the transaction, so that sorted
              \* by it the record may have them in another order
  lastRole,   \* the role the role_changed event committed last gave it, or its first
  requests

tables == <<known, role, status, driverRows, decisions, lastRole>>
vars == <<tables, requests>>

\* A verification event, and whether there was none when its request began.
Decision == [outcome: {"verified", "blocked"}, undecided: BOOLEAN]

Op == {"approve", "reject", "set_role", "drive"}
Stages == {"idle", "entered", "loaded", "looked"}

\* undecided is not read by a handler: it says of a request to decide that no decision
\* about the account was stored when it began.
RequestState ==
  [at: Stages, op: Op, admin: User \cup {Nobody}, user: User \cup {Nobody}, to: Role,
   role: Role, status: Status, found: BOOLEAN, undecided: BOOLEAN]

Free == [at |-> "idle", op |-> "approve", admin |-> Nobody, user |-> Nobody, to |-> "user",
         role |-> "user", status |-> "pending", found |-> FALSE, undecided |-> FALSE]

\* The request works on an account that it has found.
HasAccount(r) ==
  \/ requests[r].at \in {"loaded", "looked"}
  \/ requests[r].at = "entered" /\ requests[r].op = "drive"

TypeOK ==
  /\ known \subseteq User /\ Founder \in known
  /\ role \in [User -> Role]
  /\ status \in [User -> Status]
  /\ driverRows \subseteq known
  /\ decisions \in [User -> Seq(Decision)]
  /\ lastRole \in [User -> Role]
  /\ requests \in [Request -> RequestState]
  /\ \A r \in Request : requests[r].at # "idle" => requests[r].user \in User
  /\ \A r \in Request : HasAccount(r) => requests[r].user \in known

Init ==
  /\ known = {Founder}
  /\ role = [u \in User |-> IF u = Founder THEN "admin" ELSE "user"]
  /\ status = [u \in User |-> IF u = Founder THEN "verified" ELSE "pending"]
  /\ driverRows = {}
  /\ decisions = [u \in User |-> <<>>]
  /\ lastRole = role
  /\ requests = [r \in Request |-> Free]

Becomes(r, state) == requests' = [requests EXCEPT ![r] = state]

Done(r) == Becomes(r, Free)

\* The request will change the role it loaded; only then is there an UPDATE.
ChangesRole(r) == requests[r].op = "set_role" /\ requests[r].role # requests[r].to

\* The row of u is not locked by another transaction: looking for the driver row
\* first writes the new role (autoflush) and keeps the lock until the commit.
Unlocked(r, u) ==
  \A q \in Request \ {r} :
    ~(requests[q].at = "looked" /\ requests[q].user = u /\ ChangesRole(q))

-----------------------------------------------------------------------------
\* A first login creates a pending account.
FirstLogin(u) ==
  /\ u \notin known
  /\ known' = known \cup {u}
  /\ role' = [role EXCEPT ![u] = "user"] /\ lastRole' = [lastRole EXCEPT ![u] = "user"]
  /\ status' = [status EXCEPT ![u] = "pending"] /\ decisions' = [decisions EXCEPT ![u] = <<>>]
  /\ UNCHANGED <<driverRows, requests>>

\* require_role: an administrator who is not blocked asks for op on user.
Enter(r, admin, op, user, to) ==
  /\ requests[r] = Free
  /\ admin \in known /\ role[admin] = "admin" /\ status[admin] # "blocked"
  /\ op = "drive" => user = admin
  /\ op # "set_role" => to = "user"
  /\ Becomes(r, [Free EXCEPT !.at = "entered", !.op = op, !.admin = admin, !.user = user,
                             !.to = to, !.role = role[admin], !.status = status[admin],
                             !.undecided = op \in {"approve", "reject"} /\ decisions[user] = <<>>])
  /\ UNCHANGED tables

\* The copy of the account the request works on: its own was loaded on entering.
Loaded(r) ==
  LET q == requests[r]
  IN  IF q.user = q.admin THEN q
      ELSE [q EXCEPT !.role = role[q.user], !.status = status[q.user]]

\* Mistake: administrators may change their own role.
Refused_OwnStatusOnly(q) ==
  q.op \in {"approve", "reject"} /\ q.status # "pending"

\* Mistake: a decision may be changed afterwards.
Refused_Redecides(q) ==
  \/ q.op = "approve" /\ q.status = "verified"
  \/ q.op = "reject" /\ q.status = "blocked"
  \/ q.op = "set_role" /\ q.user = q.admin /\ q.to # "admin"

\* What a handler refuses when it has its copy.
Refused(q) ==
  \/ q.op \in {"approve", "reject"} /\ q.status # "pending"
  \/ q.op = "set_role" /\ q.user = q.admin /\ q.to # "admin"

Load(r) ==
  LET q == Loaded(r)
  IN  /\ requests[r].at = "entered"
      /\ q.op # "drive"
      /\ IF q.user \notin known \/ Refused(q)
         THEN Done(r)
         ELSE Becomes(r, [q EXCEPT !.at = "loaded", !.admin = Nobody])
      /\ UNCHANGED tables

\* The new status and its event are committed together.
Decide(r, op, outcome) ==
  LET u == requests[r].user
  IN  /\ requests[r].at = "loaded" /\ requests[r].op = op
      /\ Unlocked(r, u)
      /\ status' = [status EXCEPT ![u] = outcome]
      /\ decisions' =
           [decisions EXCEPT ![u] =
              Append(@, [outcome |-> outcome, undecided |-> requests[r].undecided])]
      /\ Done(r)
      /\ UNCHANGED <<known, role, driverRows, lastRole>>

Approve(r) == Decide(r, "approve", "verified")

Reject(r) == Decide(r, "reject", "blocked")

\* The stored role becomes the one asked for, unless the copy had it already.
WriteRole(r) ==
  role' = IF ChangesRole(r)
          THEN [role EXCEPT ![requests[r].user] = requests[r].to]
          ELSE role

\* Mistake: the event names the role the account had.
AuditRole_Old(r) == lastRole' = [lastRole EXCEPT ![requests[r].user] = requests[r].role]

AuditRole(r) == lastRole' = [lastRole EXCEPT ![requests[r].user] = requests[r].to]

SetRole(r) ==
  /\ requests[r].at = "loaded" /\ requests[r].op = "set_role" /\ requests[r].to # "driver"
  /\ ChangesRole(r) => Unlocked(r, requests[r].user)
  /\ WriteRole(r) /\ AuditRole(r)
  /\ Done(r)
  /\ UNCHANGED <<known, status, driverRows, decisions>>

\* Is there a row of drivers?  A new driver and an administrator who drives need one.
LookForDriver(r) ==
  LET q == requests[r]
  IN  /\ \/ q.at = "loaded" /\ q.op = "set_role" /\ q.to = "driver"
         \/ q.at = "entered" /\ q.op = "drive"
      /\ ChangesRole(r) => Unlocked(r, q.user)
      /\ Becomes(r, [q EXCEPT !.at = "looked", !.found = q.user \in driverRows])
      /\ UNCHANGED tables

\* Mistake: the row is left to be created on first use.
AddsRow_Never(r) == {}

AddsRow(r) == IF requests[r].found THEN {} ELSE {requests[r].user}

\* The unique constraint on user_id refuses a second row.
Duplicates(r) == AddsRow(r) \cap driverRows # {}

SetRoleDriver(r) ==
  /\ requests[r].at = "looked" /\ requests[r].op = "set_role"
  /\ ~Duplicates(r)
  /\ WriteRole(r) /\ AuditRole(r)
  /\ driverRows' = driverRows \cup AddsRow(r)
  /\ Done(r)
  /\ UNCHANGED <<known, status, decisions>>

\* get_or_create_own_driver, in a handler that commits.
ProvisionDriver(r) ==
  /\ requests[r].at = "looked" /\ requests[r].op = "drive"
  /\ ~Duplicates(r)
  /\ driverRows' = driverRows \cup AddsRow(r)
  /\ Done(r)
  /\ UNCHANGED <<known, role, status, decisions, lastRole>>

\* A duplicate row, a handler that only reads, or any failure: nothing is stored.
Rollback(r) ==
  /\ requests[r].at # "idle"
  /\ Done(r)
  /\ UNCHANGED tables

Next ==
  \/ \E u \in User : FirstLogin(u)
  \/ \E r \in Request :
       \/ \E admin, user \in User, op \in Op, to \in Role : Enter(r, admin, op, user, to)
       \/ Load(r) \/ Approve(r) \/ Reject(r)
       \/ SetRole(r) \/ LookForDriver(r) \/ SetRoleDriver(r) \/ ProvisionDriver(r)
       \/ Rollback(r)

Spec == Init /\ [][Next]_vars

-----------------------------------------------------------------------------
(* Properties *)

\* shared/drivers.py: a driver account has a row of drivers, for the role is only
\* ever assigned alongside creating one.  Requests that overlap may find the row
\* missing, create it first, or change the role back.
DriverAccountsHaveRow == \A u \in known : role[u] = "driver" => u \in driverRows

\* A decision stands: what an account may do is the outcome of a decision on record,
\* or what it was at first when there is none, and no request that begins after a
\* decision was stored makes another.  Only requests under way together may leave
\* several, and which of these is the latest on record is then not told by the status.
DecisionsStand ==
  \A u \in known :
    /\ IF decisions[u] = <<>>
       THEN status[u] = (IF u = Founder THEN "verified" ELSE "pending")
       ELSE \E i \in DOMAIN decisions[u] : decisions[u][i].outcome = status[u]
    /\ \A i \in DOMAIN decisions[u] : decisions[u][i].undecided

\* The audit trail of roles ends with the role the account has.
RoleIsLastChange == lastRole = role

\* A verification request is decided once (admin_api.py: "No pending verification
\* request for this user").
DecidedOnce == \A u \in User : Len(decisions[u]) <= 1

\* Administrators cannot lock everyone out by changing roles: there is no way back
\* short of the database.
SomeAdminRemains == \E u \in known : role[u] = "admin"

=============================================================================
