--------------------------- MODULE AccountsProofs ---------------------------
(***************************************************************************)
(* For any number of accounts and of requests handled at once: a driver    *)
(* account has its row of drivers, and a decision about an account stands. *)
(* Where requests are served one after the other, the audit trail is true  *)
(* and some administrator remains.                                         *)
(***************************************************************************)
EXTENDS MCAccounts, SequenceTheorems, TLAPS

\* A request that found a driver row may rely on it: rows are never deleted.
FoundRowsStay ==
  \A r \in Request :
    requests[r].at = "looked" /\ requests[r].found => requests[r].user \in driverRows

\* A pending account, or one that does not exist yet, has no decision on record; a
\* request that may decide began when there was none.
UndecidedIsPending ==
  /\ \A u \in User : u \notin known \/ status[u] = "pending" => decisions[u] = <<>>
  /\ \A r \in Request :
       LET q == requests[r]
       IN  q.op \in {"approve", "reject"} =>
             /\ q.at = "entered" =>
                  /\ decisions[q.user] = <<>> => q.undecided
                  /\ q.user = q.admin /\ q.status = "pending" => q.undecided
             /\ q.at = "loaded" => q.undecided

IInv == TypeOK /\ FoundRowsStay /\ DriverAccountsHaveRow /\ UndecidedIsPending /\ DecisionsStand

-----------------------------------------------------------------------------
\* Changing the state of one request leaves the others as they were.
LEMMA BecomesOne ==
  ASSUME TypeOK, NEW r \in Request, NEW state \in RequestState, Becomes(r, state)
  PROVE  /\ requests' \in [Request -> RequestState]
         /\ requests'[r] = state
         /\ \A q \in Request : q # r => requests'[q] = requests[q]
BY DEF TypeOK, Becomes

LEMMA FreeIsState == Free \in RequestState /\ Free.at = "idle"
BY DEF Free, RequestState, Stages, Op, Role, Status

\* A request that ends keeps what the invariant says of requests.
LEMMA DoneKeeps ==
  ASSUME TypeOK, FoundRowsStay, NEW r \in Request, Done(r),
         known \subseteq known', driverRows \subseteq driverRows'
  PROVE  /\ requests' \in [Request -> RequestState]
         /\ \A q \in Request : requests'[q].at # "idle" => requests'[q].user \in User
         /\ \A q \in Request : HasAccount(q)' => requests'[q].user \in known'
         /\ FoundRowsStay'
<1>1. /\ requests' \in [Request -> RequestState]
      /\ requests'[r] = Free
      /\ \A q \in Request : q # r => requests'[q] = requests[q]
  BY FreeIsState, BecomesOne DEF Done
<1>. QED  BY <1>1, FreeIsState DEF TypeOK, FoundRowsStay, HasAccount

\* The same for a request that moves on without touching the tables.
LEMMA MovesKeeps ==
  ASSUME TypeOK, FoundRowsStay, NEW r \in Request, NEW state \in RequestState,
         Becomes(r, state), UNCHANGED tables, state.user \in User,
         state.at \in {"loaded", "looked"} \/ state.op = "drive" => state.user \in known,
         state.at = "looked" /\ state.found => state.user \in driverRows
  PROVE  /\ TypeOK' /\ FoundRowsStay'
         /\ requests' \in [Request -> RequestState] /\ requests'[r] = state
         /\ \A q \in Request : q # r => requests'[q] = requests[q]
<1>1. /\ requests' \in [Request -> RequestState]
      /\ requests'[r] = state
      /\ \A q \in Request : q # r => requests'[q] = requests[q]
  BY BecomesOne
<1>. QED  BY <1>1 DEF TypeOK, FoundRowsStay, HasAccount, tables

LEMMA LookedState ==
  ASSUME NEW q \in RequestState, NEW found \in BOOLEAN
  PROVE  [q EXCEPT !.at = "looked", !.found = found] \in RequestState
BY DEF RequestState, Stages

\* A request that ends has nothing more to decide.
LEMMA DoneDecides ==
  ASSUME TypeOK, UndecidedIsPending, NEW r \in Request, Done(r),
         \A u \in User : u \notin known' \/ status'[u] = "pending" => decisions'[u] = <<>>,
         \A u \in User : decisions'[u] = <<>> => decisions[u] = <<>>
  PROVE  UndecidedIsPending'
<1>1. /\ requests'[r] = Free
      /\ \A q \in Request : q # r => requests'[q] = requests[q]
  BY FreeIsState, BecomesOne DEF Done
<1>2. \A q \in Request : requests'[q].at # "idle" => requests'[q] = requests[q] /\ requests[q].user \in User
  BY <1>1, FreeIsState DEF TypeOK
<1>. QED  BY <1>2 DEF UndecidedIsPending

LEMMA DecideKeeps ==
  ASSUME IInv, NEW r \in Request, NEW op \in {"approve", "reject"},
         NEW outcome \in {"verified", "blocked"},
         Decide(r, op, outcome)
  PROVE  IInv'
<1>. DEFINE u == requests[r].user
<1>. DEFINE event == [outcome |-> outcome, undecided |-> requests[r].undecided]
<1>1. u \in User /\ u \in known /\ decisions[u] \in Seq(Decision) /\ event \in Decision
  BY DEF Decide, HasAccount, IInv, TypeOK, Decision, RequestState
<1>. HIDE DEF event
<1>2. /\ Append(decisions[u], event) \in Seq(Decision)
      /\ Append(decisions[u], event) # <<>>
      /\ DOMAIN Append(decisions[u], event) = 1 .. Len(decisions[u]) + 1
      /\ DOMAIN decisions[u] = 1 .. Len(decisions[u]) /\ Len(decisions[u]) \in Nat
      /\ Append(decisions[u], event)[Len(decisions[u]) + 1] = event
      /\ \A i \in DOMAIN decisions[u] : Append(decisions[u], event)[i] = decisions[u][i]
  BY <1>1, AppendProperties
<1>3. /\ decisions' = [decisions EXCEPT ![u] = Append(decisions[u], event)]
      /\ status' = [status EXCEPT ![u] = outcome]
      /\ Done(r) /\ UNCHANGED <<known, role, driverRows, lastRole>>
  BY DEF Decide, event
<1>4. TypeOK' /\ FoundRowsStay'
  BY <1>1, <1>2, <1>3, DoneKeeps DEF IInv, TypeOK, Status
<1>5. DriverAccountsHaveRow'
  BY <1>3 DEF IInv, DriverAccountsHaveRow
<1>6. UndecidedIsPending'
  <2>1. \A v \in User : v \notin known' \/ status'[v] = "pending" => decisions'[v] = <<>>
    BY <1>1, <1>3 DEF IInv, TypeOK, UndecidedIsPending
  <2>2. \A v \in User : decisions'[v] = <<>> => decisions[v] = <<>>
    BY <1>1, <1>2, <1>3 DEF IInv, TypeOK
  <2>. QED  BY <1>3, <2>1, <2>2, DoneDecides DEF IInv
<1>7. event.outcome = outcome /\ event.undecided
  BY DEF event, Decide, IInv, UndecidedIsPending, Op
<1>8. DecisionsStand'
  <2>. SUFFICES ASSUME NEW v \in known
                PROVE  (/\ IF decisions[v] = <<>>
                           THEN status[v] = (IF v = Founder THEN "verified" ELSE "pending")
                           ELSE \E i \in DOMAIN decisions[v] :
                                  decisions[v][i].outcome = status[v]
                        /\ \A i \in DOMAIN decisions[v] : decisions[v][i].undecided)'
    BY <1>3 DEF DecisionsStand
  <2>1. CASE v = u
    <3>1. decisions'[v] = Append(decisions[u], event) /\ status'[v] = outcome
      BY <1>1, <1>3, <2>1 DEF IInv, TypeOK
    <3>2. \A i \in DOMAIN decisions[u] : decisions[u][i].undecided
      BY <1>1 DEF IInv, DecisionsStand
    <3>3. Len(decisions[u]) + 1 \in DOMAIN Append(decisions[u], event)
      BY <1>2
    <3>4. \A i \in DOMAIN Append(decisions[u], event) :
            i \in DOMAIN decisions[u] \/ i = Len(decisions[u]) + 1
      BY <1>2
    <3>. QED  BY <1>2, <1>7, <3>1, <3>2, <3>3, <3>4
  <2>2. CASE v # u
    BY <1>1, <1>3, <2>2 DEF IInv, TypeOK, DecisionsStand
  <2>. QED  BY <2>1, <2>2
<1>. QED  BY <1>4, <1>5, <1>6, <1>8 DEF IInv

-----------------------------------------------------------------------------
\* The accounts table keeps its types and the two relations between the account,
\* its driver row and its audit trail.
THEOREM AccountsKeepIInv == Spec => []IInv
<1>1. Init => IInv
  <2>. SUFFICES ASSUME Init PROVE IInv
    OBVIOUS
  <2>0. Founder \in User
    BY DEF User
  <2>1. requests \in [Request -> RequestState] /\ \A r \in Request : requests[r].at = "idle"
    BY FreeIsState DEF Init
  <2>2. TypeOK
    BY <2>1, <2>0, EmptySeq DEF Init, TypeOK, HasAccount, Role, Status
  <2>. QED  BY <2>1, <2>2, <2>0
            DEF Init, IInv, FoundRowsStay, DriverAccountsHaveRow, DecisionsStand,
                UndecidedIsPending
<1>2. IInv /\ [Next]_vars => IInv'
  <2>. SUFFICES ASSUME IInv, [Next]_vars PROVE IInv'
    OBVIOUS
  <2>1. ASSUME NEW u \in User, FirstLogin(u) PROVE IInv'
    <3>1. TypeOK'
      BY <2>1, EmptySeq DEF FirstLogin, IInv, TypeOK, HasAccount, Role, Status
    <3>2. decisions[u] = <<>> /\ decisions' = decisions /\ UNCHANGED requests
      BY <2>1 DEF FirstLogin, IInv, TypeOK, UndecidedIsPending
    <3>3. UndecidedIsPending'
      BY <2>1, <3>2 DEF FirstLogin, IInv, TypeOK, UndecidedIsPending
    <3>4. DecisionsStand'
      <4>. SUFFICES ASSUME NEW v \in known'
                    PROVE  (/\ IF decisions[v] = <<>>
                               THEN status[v] = (IF v = Founder THEN "verified" ELSE "pending")
                               ELSE \E i \in DOMAIN decisions[v] :
                                      decisions[v][i].outcome = status[v]
                            /\ \A i \in DOMAIN decisions[v] : decisions[v][i].undecided)'
        BY DEF DecisionsStand
      <4>1. CASE v = u
        <5>1. u # Founder /\ status'[u] = "pending" /\ decisions'[u] = <<>>
          BY <2>1, <3>2 DEF FirstLogin, IInv, TypeOK
        <5>2. \A i \in DOMAIN decisions'[u] : FALSE
          BY <5>1
        <5>. QED  BY <4>1, <5>1, <5>2
      <4>2. CASE v # u
        <5>1. v \in known /\ status'[v] = status[v]
          BY <2>1, <4>2 DEF FirstLogin, IInv, TypeOK
        <5>. QED  BY <3>2, <5>1 DEF IInv, DecisionsStand
      <4>. QED  BY <4>1, <4>2
    <3>. QED  BY <2>1, <3>1, <3>3, <3>4 DEF FirstLogin, IInv, TypeOK, FoundRowsStay,
                                            DriverAccountsHaveRow
  <2>2. ASSUME NEW r \in Request, Rollback(r) PROVE IInv'
    <3>1. UndecidedIsPending'
      BY <2>2, DoneDecides DEF Rollback, tables, IInv, UndecidedIsPending
    <3>. QED  BY <2>2, <3>1, DoneKeeps DEF Rollback, tables, IInv, TypeOK,
                                           DriverAccountsHaveRow, DecisionsStand
  <2>3. ASSUME NEW r \in Request, NEW state \in RequestState,
               Becomes(r, state), UNCHANGED tables, state.user \in User,
               state.at \in {"loaded", "looked"} \/ state.op = "drive" => state.user \in known,
               state.at = "looked" /\ state.found => state.user \in driverRows,
               state.op \in {"approve", "reject"} =>
                 /\ state.at = "entered" =>
                      /\ decisions[state.user] = <<>> => state.undecided
                      /\ state.user = state.admin /\ state.status = "pending" =>
                           state.undecided
                 /\ state.at = "loaded" => state.undecided
        PROVE  IInv'
    <3>1. /\ TypeOK' /\ FoundRowsStay' /\ requests'[r] = state
          /\ \A q \in Request : q # r => requests'[q] = requests[q]
      BY <2>3, MovesKeeps DEF IInv
    <3>2. UndecidedIsPending'
      BY <2>3, <3>1 DEF tables, IInv, UndecidedIsPending
    <3>. QED  BY <2>3, <3>1, <3>2 DEF tables, IInv, DriverAccountsHaveRow, DecisionsStand
  <2>4. ASSUME NEW r \in Request, NEW admin \in User, NEW user \in User, NEW op \in Op,
               NEW to \in Role, Enter(r, admin, op, user, to)
        PROVE  IInv'
    <3>. DEFINE undecided == op \in {"approve", "reject"} /\ decisions[user] = <<>>
                state == [Free EXCEPT !.at = "entered", !.op = op, !.admin = admin,
                            !.user = user, !.to = to, !.role = role[admin],
                            !.status = status[admin], !.undecided = undecided]
    <3>0. undecided \in BOOLEAN /\ role[admin] \in Role /\ status[admin] \in Status
      BY DEF IInv, TypeOK
    <3>1. /\ state \in RequestState /\ state.user = user /\ state.at = "entered" /\ state.op = op
          /\ state.admin = admin /\ state.status = status[admin]
          /\ op \in {"approve", "reject"} => (state.undecided <=> decisions[user] = <<>>)
      <4>. HIDE DEF undecided
      <4>1. state \in RequestState /\ state.user = user /\ state.at = "entered"
            /\ state.op = op /\ state.admin = admin /\ state.status = status[admin]
            /\ state.undecided = undecided
        BY <3>0 DEF Free, RequestState, Stages
      <4>2. op \in {"approve", "reject"} => (undecided <=> decisions[user] = <<>>)
        BY DEF undecided
      <4>. QED  BY <4>1, <4>2
    <3>. HIDE DEF state
    <3>2. user = admin /\ status[admin] = "pending" => decisions[user] = <<>>
      BY <2>4 DEF Enter, IInv, UndecidedIsPending
    <3>3. Becomes(r, state) /\ UNCHANGED tables /\ (op = "drive" => user \in known)
      BY <2>4 DEF Enter, state
    <3>. QED  BY <2>4, <2>3, <3>1, <3>2, <3>3
  <2>5. ASSUME NEW r \in Request, Load(r) PROVE IInv'
    <3>. DEFINE q == Loaded(r)
    <3>. DEFINE state == [q EXCEPT !.at = "loaded", !.admin = Nobody]
    <3>1. CASE Done(r)
      <4>1. UndecidedIsPending'
        BY <2>5, <3>1, DoneDecides DEF Load, tables, IInv, UndecidedIsPending
      <4>. QED  BY <2>5, <3>1, <4>1, DoneKeeps DEF Load, tables, IInv, TypeOK,
                                                   DriverAccountsHaveRow, DecisionsStand
    <3>2. CASE q.user \in known /\ ~Refused(q) /\ Becomes(r, state)
      <4>1. requests[r] \in RequestState /\ requests[r].user \in User
        BY <2>5 DEF Load, IInv, TypeOK
      <4>2. q \in RequestState /\ q.user = requests[r].user
        BY <4>1 DEF Loaded, RequestState, IInv, TypeOK
      <4>3. /\ state \in RequestState /\ state.user = q.user /\ state.at = "loaded"
            /\ state.op = q.op /\ state.undecided = q.undecided
        BY <4>2 DEF RequestState, Stages
      <4>4. q.op \in {"approve", "reject"} => q.undecided
        <5>. SUFFICES ASSUME q.op \in {"approve", "reject"} PROVE q.undecided
          OBVIOUS
        <5>1. /\ q.status = "pending" /\ q.op = requests[r].op
              /\ q.undecided = requests[r].undecided
          BY <3>2, <4>1 DEF Refused, Loaded, RequestState
        <5>2. CASE requests[r].user = requests[r].admin
          BY <2>5, <5>1, <5>2 DEF Load, Loaded, IInv, UndecidedIsPending
        <5>3. CASE requests[r].user # requests[r].admin
          <6>1. q.status = status[requests[r].user]
            BY <4>1, <5>3 DEF Loaded, RequestState
          <6>2. decisions[requests[r].user] = <<>>
            BY <4>1, <5>1, <6>1 DEF IInv, UndecidedIsPending
          <6>. QED  BY <2>5, <5>1, <6>2 DEF Load, IInv, UndecidedIsPending
        <5>. QED  BY <5>2, <5>3
      <4>. HIDE DEF state, q
      <4>5. UNCHANGED tables
        BY <2>5 DEF Load
      <4>. QED  BY <2>3, <3>2, <4>1, <4>2, <4>3, <4>4, <4>5
    <3>. QED  BY <2>5, <3>1, <3>2 DEF Load
  <2>6. ASSUME NEW r \in Request, Approve(r) PROVE IInv'
    BY <2>6, DecideKeeps DEF Approve
  <2>7. ASSUME NEW r \in Request, Reject(r) PROVE IInv'
    BY <2>7, DecideKeeps DEF Reject
  <2>8. ASSUME NEW r \in Request, requests[r].at \in {"loaded", "looked"},
               WriteRole(r), AuditRole(r)
        PROVE  /\ role' \in [User -> Role] /\ lastRole' \in [User -> Role]
               /\ \A u \in known :
                    role'[u] = "driver" =>
                      \/ role[u] = "driver"
                      \/ u = requests[r].user /\ requests[r].to = "driver"
    BY <2>8 DEF WriteRole, AuditRole, IInv, TypeOK, RequestState
  <2>9. ASSUME NEW r \in Request, SetRole(r) PROVE IInv'
    <3>1. TypeOK' /\ FoundRowsStay'
      BY <2>8, <2>9, DoneKeeps DEF SetRole, IInv, TypeOK
    <3>2. DriverAccountsHaveRow'
      BY <2>8, <2>9 DEF SetRole, IInv, DriverAccountsHaveRow
    <3>3. UndecidedIsPending'
      BY <2>9, DoneDecides DEF SetRole, IInv, UndecidedIsPending
    <3>. QED  BY <2>9, <3>1, <3>2, <3>3 DEF SetRole, IInv, DecisionsStand
  <2>10. ASSUME NEW r \in Request, LookForDriver(r) PROVE IInv'
    <3>. DEFINE q == requests[r]
    <3>. DEFINE state == [q EXCEPT !.at = "looked", !.found = q.user \in driverRows]
    <3>1. q \in RequestState /\ q.user \in User
      BY <2>10 DEF LookForDriver, IInv, TypeOK
    <3>2. state \in RequestState /\ state.user = q.user /\ state.at = "looked"
      <4>1. (q.user \in driverRows) \in BOOLEAN
        OBVIOUS
      <4>2. state \in RequestState
        BY <3>1, <4>1, LookedState, Zenon
      <4>3. state.user = q.user /\ state.at = "looked"
        BY <3>1, Zenon DEF RequestState
      <4>. QED  BY <4>2, <4>3
    <3>3. q.user \in known
      BY <2>10, <3>1 DEF LookForDriver, HasAccount, IInv, TypeOK
    <3>4. state.found = (q.user \in driverRows)
      BY <3>1, Zenon DEF RequestState
    <3>5. state.op = q.op /\ q.op \notin {"approve", "reject"}
      BY <2>10, <3>1, Zenon DEF RequestState, LookForDriver
    <3>. QED  BY <2>10, <2>3, <3>1, <3>2, <3>3, <3>4, <3>5 DEF LookForDriver
  <2>11. ASSUME NEW r \in Request, SetRoleDriver(r) PROVE IInv'
    <3>1. requests[r].user \in known /\ requests[r].user \in driverRows'
          /\ driverRows \subseteq driverRows' /\ driverRows' \subseteq known
      BY <2>11 DEF SetRoleDriver, AddsRow, HasAccount, IInv, TypeOK, FoundRowsStay
    <3>2. TypeOK' /\ FoundRowsStay'
      BY <2>8, <2>11, <3>1, DoneKeeps DEF SetRoleDriver, IInv, TypeOK
    <3>3. DriverAccountsHaveRow'
      BY <2>8, <2>11, <3>1 DEF SetRoleDriver, IInv, DriverAccountsHaveRow
    <3>4. UndecidedIsPending'
      BY <2>11, DoneDecides DEF SetRoleDriver, IInv, UndecidedIsPending
    <3>. QED  BY <2>11, <3>2, <3>3, <3>4 DEF SetRoleDriver, IInv, DecisionsStand
  <2>12. ASSUME NEW r \in Request, ProvisionDriver(r) PROVE IInv'
    <3>1. driverRows \subseteq driverRows' /\ driverRows' \subseteq known
      BY <2>12 DEF ProvisionDriver, AddsRow, HasAccount, IInv, TypeOK
    <3>2. TypeOK' /\ FoundRowsStay'
      BY <2>12, <3>1, DoneKeeps DEF ProvisionDriver, IInv, TypeOK
    <3>3. UndecidedIsPending'
      BY <2>12, DoneDecides DEF ProvisionDriver, IInv, UndecidedIsPending
    <3>. QED  BY <2>12, <3>1, <3>2, <3>3
              DEF ProvisionDriver, IInv, DriverAccountsHaveRow, DecisionsStand
  <2>13. CASE UNCHANGED vars
    BY <2>13 DEF vars, tables, IInv, TypeOK, HasAccount, FoundRowsStay, DriverAccountsHaveRow,
                 UndecidedIsPending, DecisionsStand
  <2>. QED  BY <2>1, <2>2, <2>4, <2>5, <2>6, <2>7, <2>9, <2>10, <2>11, <2>12, <2>13 DEF Next
<1>. QED  BY <1>1, <1>2, PTL DEF Spec

\* Whatever requests overlap, an account with the role driver owns a driver row.
THEOREM DriversHaveRows == Spec => []DriverAccountsHaveRow
BY AccountsKeepIInv, PTL DEF IInv

\* However many administrators decide at once, an account's status is the outcome of a
\* decision on record, and each of these was begun when there was none.
THEOREM DecisionsStandForGood == Spec => []DecisionsStand
BY AccountsKeepIInv, PTL DEF IInv

-----------------------------------------------------------------------------
(* One request at a time *)

Active(r) == requests[r] # Free

\* The copy the request works on is still true, and one that takes an administrator's
\* role away leaves the administrator who asked.
CopyIsTrue(r) ==
  LET q == requests[r]
  IN  /\ q.at = "entered" =>
           /\ q.admin \in known /\ role[q.admin] = "admin"
           /\ q.role = role[q.admin] /\ q.status = status[q.admin]
      /\ q.at = "loaded" \/ (q.at = "looked" /\ q.op = "set_role") =>
           /\ q.role = role[q.user] /\ q.status = status[q.user]
           /\ q.op \in {"approve", "reject"} => q.status = "pending"
           /\ q.op = "set_role" /\ q.to # "admin" =>
                \E a \in known : a # q.user /\ role[a] = "admin"

\* An account waits for its decision until there is one.
DecidedWhenNotPending ==
  \A u \in User : /\ Len(decisions[u]) <= 1
                  /\ status[u] = "pending" => decisions[u] = <<>>

InTurnInv ==
  /\ \A r, q \in Request : Active(r) /\ Active(q) => r = q
  /\ \A r \in Request : Active(r) => CopyIsTrue(r)
  /\ RoleIsLastChange /\ DecidedWhenNotPending /\ SomeAdminRemains

LEMMA InTurnIsAStep == [MCNext]_MCVars => [Next]_vars /\ UNCHANGED inTurn
BY DEF MCNext, ServerNext, MCVars, Next, vars

LEMMA InTurnRefines == MCSpec => Spec
<1>1. MCInit => Init
  BY DEF MCInit
<1>. QED  BY <1>1, InTurnIsAStep, PTL DEF MCSpec, Spec

\* When the request being served ends, none is left.
LEMMA LastOneEnds ==
  ASSUME TypeOK, InTurnInv, NEW r \in Request, requests[r].at # "idle", Done(r)
  PROVE  \A q \in Request : ~Active(q)'
<1>1. Active(r)
  BY FreeIsState DEF Active
<1>2. \A q \in Request : q # r => requests[q] = Free
  BY <1>1 DEF InTurnInv, Active
<1>. QED  BY <1>2, FreeIsState, BecomesOne DEF Done, Active

\* A request that ends leaves the rest of the invariant to what it stored.
LEMMA EndsInTurn ==
  ASSUME TypeOK, InTurnInv, NEW r \in Request, requests[r].at # "idle", Done(r),
         RoleIsLastChange', DecidedWhenNotPending', SomeAdminRemains'
  PROVE  InTurnInv'
BY LastOneEnds DEF InTurnInv

\* A request that moves on with a true copy stays the only one.
LEMMA MovesInTurn ==
  ASSUME TypeOK, InTurnInv, NEW r \in Request, NEW state \in RequestState, Becomes(r, state),
         \A q \in Request : Active(q) => q = r,
         UNCHANGED tables, CopyIsTrue(r)'
  PROVE  InTurnInv'
<1>1. \A q \in Request : q # r => requests'[q] = Free
  BY BecomesOne DEF Active
<1>. QED  BY <1>1 DEF InTurnInv, Active, tables, RoleIsLastChange, DecidedWhenNotPending,
                     SomeAdminRemains

LEMMA OnlyOne ==
  ASSUME InTurnInv, NEW r \in Request, requests[r].at # "idle"
  PROVE  CopyIsTrue(r) /\ \A q \in Request : Active(q) => q = r
BY FreeIsState DEF InTurnInv, Active

LEMMA FirstLoginInTurn ==
  ASSUME TypeOK, InTurnInv, \A r \in Request : requests[r] = Free,
         NEW u \in User, FirstLogin(u)
  PROVE  InTurnInv'
<1>1. \A r \in Request : ~Active(r)'
  BY DEF FirstLogin, Active
<1>2. RoleIsLastChange'
  BY DEF FirstLogin, InTurnInv, RoleIsLastChange
<1>3. DecidedWhenNotPending'
  <2>. SUFFICES ASSUME NEW v \in User
                PROVE  (Len(decisions[v]) <= 1 /\ (status[v] = "pending" => decisions[v] = <<>>))'
    BY DEF DecidedWhenNotPending
  <2>1. CASE v = u
    BY <2>1, EmptySeq DEF FirstLogin, TypeOK
  <2>2. CASE v # u
    BY <2>2 DEF FirstLogin, TypeOK, InTurnInv, DecidedWhenNotPending
  <2>. QED  BY <2>1, <2>2
<1>4. SomeAdminRemains'
  BY DEF FirstLogin, TypeOK, InTurnInv, SomeAdminRemains
<1>. QED  BY <1>1, <1>2, <1>3, <1>4 DEF InTurnInv

LEMMA EnterInTurn ==
  ASSUME TypeOK, InTurnInv, \A r \in Request : requests[r] = Free,
         NEW r \in Request, NEW admin \in User, NEW user \in User, NEW op \in Op,
         NEW to \in Role, Enter(r, admin, op, user, to)
  PROVE  InTurnInv'
<1>. DEFINE undecided == op \in {"approve", "reject"} /\ decisions[user] = <<>>
            state == [Free EXCEPT !.at = "entered", !.op = op, !.admin = admin,
                        !.user = user, !.to = to, !.role = role[admin],
                        !.status = status[admin], !.undecided = undecided]
<1>0. undecided \in BOOLEAN /\ role[admin] \in Role /\ status[admin] \in Status
  BY DEF TypeOK
<1>1. /\ state \in RequestState /\ state.at = "entered" /\ state.admin = admin
      /\ state.role = role[admin] /\ state.status = status[admin]
  <2>. HIDE DEF undecided
  <2>. QED  BY <1>0 DEF Free, RequestState, Stages
<1>2. Becomes(r, state) /\ UNCHANGED tables /\ admin \in known /\ role[admin] = "admin"
  BY DEF Enter
<1>. HIDE DEF state
<1>3. requests'[r] = state
  BY <1>1, <1>2, BecomesOne
<1>4. CopyIsTrue(r)'
  BY <1>1, <1>2, <1>3 DEF CopyIsTrue, tables
<1>. QED  BY <1>1, <1>2, <1>4, MovesInTurn DEF Active

LEMMA LoadInTurn ==
  ASSUME TypeOK, InTurnInv, NEW r \in Request, Load(r)
  PROVE  InTurnInv'
<1>. DEFINE q == Loaded(r)
            state == [q EXCEPT !.at = "loaded", !.admin = Nobody]
<1>1. /\ requests[r] \in RequestState /\ requests[r].at = "entered"
      /\ requests[r].user \in User /\ UNCHANGED tables
  BY DEF Load, TypeOK
<1>2. CopyIsTrue(r) /\ \A p \in Request : Active(p) => p = r
  BY <1>1, OnlyOne
<1>3. /\ q \in RequestState
      /\ q.user = requests[r].user /\ q.op = requests[r].op /\ q.to = requests[r].to
      /\ q.admin = requests[r].admin
      /\ q.role = role[q.user] /\ q.status = status[q.user]
  BY <1>1, <1>2 DEF Loaded, RequestState, TypeOK, CopyIsTrue
<1>4. CASE Done(r)
  <2>1. RoleIsLastChange' /\ DecidedWhenNotPending' /\ SomeAdminRemains'
    BY <1>1 DEF InTurnInv, tables, RoleIsLastChange, DecidedWhenNotPending, SomeAdminRemains
  <2>. QED  BY <1>1, <1>4, <2>1, EndsInTurn
<1>5. CASE Becomes(r, state) /\ ~Refused(q)
  <2>1. /\ state \in RequestState /\ state.at = "loaded" /\ state.user = q.user
        /\ state.op = q.op /\ state.to = q.to /\ state.role = q.role
        /\ state.status = q.status
    BY <1>3 DEF RequestState, Stages
  <2>. HIDE DEF state, q
  <2>2. requests'[r] = state
    BY <1>5, <2>1, BecomesOne
  <2>3. q.admin \in known /\ role[q.admin] = "admin"
    BY <1>1, <1>2, <1>3 DEF CopyIsTrue
  <2>4. CopyIsTrue(r)'
    BY <1>1, <1>3, <1>5, <2>1, <2>2, <2>3 DEF CopyIsTrue, tables, Refused
  <2>. QED  BY <1>1, <1>2, <1>5, <2>1, <2>4, MovesInTurn
<1>. QED  BY <1>4, <1>5 DEF Load

\* A decision is made about an account that waits for it.
LEMMA DecideInTurn ==
  ASSUME TypeOK, InTurnInv, NEW r \in Request, NEW op \in {"approve", "reject"},
         NEW outcome \in {"verified", "blocked"}, Decide(r, op, outcome)
  PROVE  InTurnInv'
<1>. DEFINE u == requests[r].user
            event == [outcome |-> outcome, undecided |-> requests[r].undecided]
<1>1. u \in User /\ requests[r].at = "loaded" /\ requests[r].op = op
  BY DEF Decide, TypeOK
<1>2. status[u] = "pending" /\ decisions[u] = <<>>
  BY <1>1, OnlyOne DEF CopyIsTrue, InTurnInv, DecidedWhenNotPending
<1>3. DecidedWhenNotPending'
  <2>. SUFFICES ASSUME NEW v \in User
                PROVE  (Len(decisions[v]) <= 1 /\ (status[v] = "pending" => decisions[v] = <<>>))'
    BY DEF DecidedWhenNotPending
  <2>1. CASE v = u
    <3>1. decisions'[v] = Append(<<>>, event) /\ status'[v] = outcome
      BY <1>1, <1>2, <2>1 DEF Decide, TypeOK
    <3>. HIDE DEF event
    <3>2. Len(Append(<<>>, event)) = 1
      BY EmptySeq, AppendProperties
    <3>. QED  BY <3>1, <3>2
  <2>2. CASE v # u
    BY <2>2 DEF Decide, TypeOK, InTurnInv, DecidedWhenNotPending
  <2>. QED  BY <2>1, <2>2
<1>4. RoleIsLastChange' /\ SomeAdminRemains'
  BY DEF Decide, InTurnInv, RoleIsLastChange, SomeAdminRemains
<1>. QED  BY <1>1, <1>3, <1>4, EndsInTurn DEF Decide

\* A change of role is put down in the audit trail, and there is an administrator left.
LEMMA ChangeInTurn ==
  ASSUME TypeOK, InTurnInv, NEW r \in Request,
         \/ requests[r].at = "loaded"
         \/ requests[r].at = "looked",
         requests[r].op = "set_role", WriteRole(r), AuditRole(r), Done(r),
         UNCHANGED <<known, status, decisions>>
  PROVE  InTurnInv'
<1>. DEFINE u == requests[r].user
            to == requests[r].to
<1>1. u \in known /\ u \in User
  BY DEF TypeOK, HasAccount
<1>2. CopyIsTrue(r)
  BY OnlyOne
<1>3. requests[r].role = role[u] /\ role \in [User -> Role]
  BY <1>2 DEF CopyIsTrue, TypeOK
<1>4. role' = [role EXCEPT ![u] = to]
  <2>1. CASE ChangesRole(r)
    BY <2>1 DEF WriteRole
  <2>2. CASE ~ChangesRole(r)
    <3>1. role[u] = to /\ role' = role
      BY <1>3, <2>2 DEF ChangesRole, WriteRole
    <3>. QED  BY <1>1, <1>3, <3>1
  <2>. QED  BY <2>1, <2>2
<1>5. RoleIsLastChange'
  BY <1>4 DEF AuditRole, InTurnInv, RoleIsLastChange
<1>6. SomeAdminRemains'
  <2>1. CASE to = "admin"
    BY <1>1, <1>3, <1>4, <2>1 DEF SomeAdminRemains
  <2>2. CASE to # "admin"
    <3>1. PICK a \in known : a # u /\ role[a] = "admin"
      BY <1>2, <2>2 DEF CopyIsTrue
    <3>2. role'[a] = "admin"
      BY <1>3, <1>4, <3>1 DEF TypeOK
    <3>. QED  BY <3>1, <3>2 DEF SomeAdminRemains
  <2>. QED  BY <2>1, <2>2
<1>7. DecidedWhenNotPending'
  BY DEF InTurnInv, DecidedWhenNotPending
<1>. QED  BY <1>5, <1>6, <1>7, EndsInTurn

LEMMA LookInTurn ==
  ASSUME TypeOK, InTurnInv, NEW r \in Request, LookForDriver(r)
  PROVE  InTurnInv'
<1>. DEFINE q == requests[r]
            state == [q EXCEPT !.at = "looked", !.found = q.user \in driverRows]
<1>1. q \in RequestState /\ q.at # "idle" /\ (q.at = "loaded" \/ q.op = "drive")
  BY DEF LookForDriver, TypeOK
<1>2. state \in RequestState
  <2>1. (q.user \in driverRows) \in BOOLEAN
    OBVIOUS
  <2>. QED  BY <1>1, <2>1, LookedState, Zenon
<1>3. /\ state.at = "looked" /\ state.user = q.user /\ state.op = q.op /\ state.to = q.to
      /\ state.role = q.role /\ state.status = q.status
  BY <1>1, Zenon DEF RequestState
<1>4. Becomes(r, state) /\ UNCHANGED tables
  BY DEF LookForDriver
<1>. HIDE DEF state
<1>5. requests'[r] = state
  BY <1>2, <1>4, BecomesOne
<1>6. CopyIsTrue(r) /\ \A p \in Request : Active(p) => p = r
  BY <1>1, OnlyOne
<1>7. CopyIsTrue(r)'
  BY <1>1, <1>3, <1>4, <1>5, <1>6 DEF CopyIsTrue, tables
<1>. QED  BY <1>2, <1>4, <1>6, <1>7, MovesInTurn

\* A request that only ends, or stores what no part of the invariant is about.
LEMMA QuietEndInTurn ==
  ASSUME TypeOK, InTurnInv, NEW r \in Request, ProvisionDriver(r) \/ Rollback(r)
  PROVE  InTurnInv'
<1>1. /\ requests[r].at # "idle" /\ Done(r)
      /\ UNCHANGED <<known, role, status, decisions, lastRole>>
  BY DEF ProvisionDriver, Rollback, tables
<1>2. RoleIsLastChange' /\ DecidedWhenNotPending' /\ SomeAdminRemains'
  BY <1>1 DEF InTurnInv, RoleIsLastChange, DecidedWhenNotPending, SomeAdminRemains
<1>. QED  BY <1>1, <1>2, EndsInTurn

\* Where requests are served one after the other, the copy a handler decides on is true.
THEOREM InTurnInvHolds == MCSpec => [](inTurn => InTurnInv)
<1>1. MCInit => InTurnInv
  <2>. SUFFICES ASSUME Init PROVE InTurnInv
    BY DEF MCInit
  <2>1. Founder \in User /\ Founder \in known /\ role[Founder] = "admin"
    BY DEF Init, User
  <2>2. \A r \in Request : ~Active(r)
    BY DEF Init, Active
  <2>3. DecidedWhenNotPending
    BY EmptySeq DEF Init, DecidedWhenNotPending
  <2>. QED  BY <2>1, <2>2, <2>3
            DEF Init, InTurnInv, RoleIsLastChange, SomeAdminRemains
<1>2. TypeOK /\ (inTurn => InTurnInv) /\ [MCNext]_MCVars => (inTurn => InTurnInv)'
  <2>. SUFFICES ASSUME TypeOK, inTurn, InTurnInv, [MCNext]_MCVars PROVE InTurnInv'
    BY InTurnIsAStep
  <2>1. CASE \E u \in User : MayBegin /\ FirstLogin(u)
    BY <2>1, FirstLoginInTurn DEF MayBegin
  <2>2. CASE \E r \in Request, admin, user \in User, op \in Op, to \in Role :
               MayBegin /\ Enter(r, admin, op, user, to)
    BY <2>2, EnterInTurn DEF MayBegin
  <2>3. ASSUME NEW r \in Request, Approve(r) \/ Reject(r) PROVE InTurnInv'
    BY <2>3, DecideInTurn DEF Approve, Reject
  <2>4. ASSUME NEW r \in Request, SetRole(r) \/ SetRoleDriver(r) PROVE InTurnInv'
    BY <2>4, ChangeInTurn DEF SetRole, SetRoleDriver
  <2>5. CASE UNCHANGED vars
    BY <2>5 DEF vars, tables, InTurnInv, Active, CopyIsTrue, RoleIsLastChange,
                DecidedWhenNotPending, SomeAdminRemains
  <2>. QED  BY <2>1, <2>2, <2>3, <2>4, <2>5, LoadInTurn, LookInTurn, QuietEndInTurn
            DEF MCNext, ServerNext, MCVars
<1>3. IInv => TypeOK
  BY DEF IInv
<1>. QED  BY <1>1, <1>2, <1>3, InTurnRefines, AccountsKeepIInv, PTL DEF MCSpec

\* One request after the other, the audit trail ends with the role an account has and
\* an account is decided about once (admin_api.py, set_user_role, approve, reject).
THEOREM TrailIsKept == MCSpec => []TrailIsKeptInTurn
<1>1. (inTurn => InTurnInv) => TrailIsKeptInTurn
  BY DEF TrailIsKeptInTurn, InTurnInv, DecidedWhenNotPending, DecidedOnce
<1>. QED  BY <1>1, InTurnInvHolds, PTL

\* One request after the other, administrators cannot change roles until none is left
\* (admin_api.py, the comment on self-demotion).
THEOREM AdminRemains == MCSpec => []SomeAdminRemainsInTurn
<1>1. (inTurn => InTurnInv) => SomeAdminRemainsInTurn
  BY DEF SomeAdminRemainsInTurn, InTurnInv
<1>. QED  BY <1>1, InTurnInvHolds, PTL

=============================================================================
