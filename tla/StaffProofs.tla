---------------------------- MODULE StaffProofs ----------------------------
(***************************************************************************)
(* What the slot picker offers, for any calendar, schedule and answers of  *)
(* the route service; and what AccountsProofs and ScheduleProofs prove of  *)
(* the accounts and of the hours, for the three parts together.            *)
(*                                                                         *)
(* The parts have no variable in common: a step of the whole is a step of  *)
(* one of them or changes none of its variables.                           *)
(***************************************************************************)
EXTENDS MCStaff, TLAPS

Entry == [order: Order, span: BusySpans]

LEMMA SpanType ==
  ASSUME NEW s \in BusySpans
  PROVE  /\ s.from \in Nat /\ s.to \in Nat
         /\ \E m \in Duration : s.to = s.from + m + Buffer
BY NumbersAssumption DEF BusySpans

\* One step of the calendars keeps their type.
LEMMA CalendarType ==
  ASSUME calendar \in [Driver -> SUBSET Entry], Cal!CalendarNext
  PROVE  calendar' \in [Driver -> SUBSET Entry]
<1>1. ASSUME NEW o PROVE Cal!Without(o) \in [Driver -> SUBSET Entry]
  BY DEF Cal!Without
<1>2. ASSUME NEW o \in Order, Cal!StrikeOut(o) PROVE calendar' \in [Driver -> SUBSET Entry]
  BY <1>1, <1>2 DEF Cal!StrikeOut
<1>3. ASSUME NEW o \in Order, NEW d \in Driver, NEW s \in BusySpans, Cal!Book(o, d, s)
      PROVE  calendar' \in [Driver -> SUBSET Entry]
  <2>1. [order |-> o, span |-> s] \in Entry
    BY DEF Entry
  <2>2. Cal!Without(o)[d] \cup {[order |-> o, span |-> s]} \in SUBSET Entry
    BY <1>1, <2>1
  <2> QED
    BY <1>1, <1>3, <2>2 DEF Cal!Book
<1> QED
  BY <1>2, <1>3 DEF Cal!CalendarNext

\* Calendars, hours and absences keep their types; only valid rows are stored.
THEOREM SlotsTypeCorrect == Spec => []TypeOK
<1>1. Init => TypeOK
  BY NumbersAssumption DEF Init, TypeOK, Cal!CalendarInit
<1>2. TypeOK /\ [Next]_vars => TypeOK'
  <2> SUFFICES ASSUME TypeOK, [Next]_vars PROVE TypeOK'
    OBVIOUS
  <2>1. CASE UNCHANGED vars
    BY <2>1 DEF TypeOK, vars
  <2>2. CASE RidesMove
    BY <2>2, CalendarType DEF TypeOK, RidesMove, Entry
  <2>3. ASSUME NEW d \in Driver, NEW windows \in SUBSET ScheduleRow, SetSchedule(d, windows)
        PROVE  TypeOK'
    BY <2>3 DEF TypeOK, SetSchedule
  <2>4. ASSUME NEW d \in Driver, NEW r \in Absence, AddTimeOff(d, r) \/ DeleteTimeOff(d, r)
        PROVE  TypeOK'
    BY <2>4 DEF TypeOK, AddTimeOff, DeleteTimeOff
  <2>5. ASSUME NEW d \in Driver, SetDuty(d)
        PROVE  TypeOK'
    BY <2>5 DEF TypeOK, SetDuty
  <2>6. ASSUME NEW d \in Driver, SetRole(d)
        PROVE  TypeOK'
    BY <2>6 DEF TypeOK, SetRole
  <2>7. CASE Tick
    BY <2>7 DEF TypeOK, Tick
  <2> QED
    BY <2>1, <2>2, <2>3, <2>4, <2>5, <2>6, <2>7 DEF Next
<1> QED
  BY <1>1, <1>2, PTL DEF Spec

\* A gap is never below the buffer.
LEMMA GapType ==
  ASSUME NEW x \in Travel \cup {NoRoute}
  PROVE  RealGap(x) \in Nat /\ RealGap(x) >= Buffer
BY NumbersAssumption DEF RealGap

\* A date is an integer whose day has DayLength instants.
LEMMA DateType ==
  ASSUME TypeOK, NEW day \in Dates
  PROVE  /\ day \in Int /\ InHorizon(day)
         /\ DayStart(day) \in Int /\ DayEnd(day) = DayStart(day) + DayLength
<1>1. Day(now) \in Int /\ HorizonDays \in Int
  BY NumbersAssumption DEF TypeOK, Day
<1>2. day \in Int /\ day >= Day(now) /\ day <= Day(now) + HorizonDays
  BY <1>1 DEF Dates
<1>3. ASSUME NEW x \in Int, NEW y \in Int PROVE (x + 1) * y = x * y + y /\ x * y \in Int
  OBVIOUS
<1> QED
  BY <1>2, <1>3, NumbersAssumption DEF InHorizon, DayStart, DayEnd

\* Every candidate, with its buffer, lies within the date.
LEMMA GridWithinDay ==
  ASSUME TypeOK, NEW d \in Driver, NEW day \in Dates, NEW m \in Duration,
         NEW t \in Grid(d, day, m)
  PROVE  t \in Int /\ DayStart(day) <= t /\ t + m + Buffer <= DayEnd(day)
<1>1. PICK row \in schedule[d] : t \in RowGrid(row, day, m)
  BY DEF Grid
<1>2. row \in ScheduleRow
  BY <1>1 DEF TypeOK
<1>3. row.from \in 0..DayLength /\ row.to \in 0..DayLength
  BY <1>2, NumbersAssumption
<1> QED
  BY <1>1, <1>3, DateType, NumbersAssumption DEF RowGrid

\* The heart of the picker: a free time keeps clear of every ride of the driver
\* by the way to it and from it, fetched for the date or not.
LEMMA ClearOfRide ==
  ASSUME TypeOK, PadCoversRides,
         NEW d \in Driver, NEW day \in Dates, NEW m \in Duration, NEW drives \in Drives,
         NEW t \in FreeTimes(d, day, m, drives), NEW b \in calendar[d]
  PROVE  \/ t + m + RealGap(drives[b].to) <= b.span.from
         \/ b.span.to - Buffer + RealGap(drives[b].back) <= t
<1>1. b.span \in BusySpans /\ b \in Rides
  BY DEF TypeOK, Rides
<1>2. PICK n \in Duration : b.span.to = b.span.from + n + Buffer
  BY <1>1, SpanType
<1>3. b.span.from \in Nat /\ b.span.to \in Nat
  BY <1>1, SpanType
<1>4. drives[b].to \in Travel \cup {NoRoute} /\ drives[b].back \in Travel \cup {NoRoute}
  BY <1>1 DEF Drives, Drive
<1> DEFINE gapTo == RealGap(drives[b].to)
           gapBack == RealGap(drives[b].back)
<1>5. /\ gapTo \in Nat /\ gapTo >= Buffer
      /\ gapBack \in Nat /\ gapBack >= Buffer
  BY <1>4, GapType
<1>6. m + gapTo <= Pad /\ n + gapBack <= Pad
  BY <1>4 DEF PadCoversRides
<1>7. t \in Grid(d, day, m) /\ Available(t, m, BusyRanges(d, day, drives))
  BY DEF FreeTimes
<1>8. t \in Int /\ DayStart(day) <= t /\ t + m + Buffer <= DayEnd(day)
  BY <1>7, GridWithinDay
<1>9. DayStart(day) \in Int /\ DayEnd(day) = DayStart(day) + DayLength
  BY DateType
<1>10. m \in Nat /\ n \in Nat /\ Buffer \in Nat /\ Pad \in Nat /\ DayLength \in Nat
  BY NumbersAssumption
<1>11. CASE b \in Fetched(d, day)
  <2>1. RideRange(b, drives[b]) \in BusyRanges(d, day, drives)
    BY <1>11 DEF BusyRanges
  <2>2. ~(t < RideRange(b, drives[b]).to /\ t + m + Buffer > RideRange(b, drives[b]).from)
    BY <1>7, <2>1 DEF Available
  <2>3. ~(/\ t < b.span.to - Buffer + gapBack
          /\ t + m + Buffer > b.span.from - BeyondBuffer(gapTo))
    BY <2>2 DEF RideRange
  <2>4. BeyondBuffer(gapTo) = gapTo - Buffer
    BY <1>5, <1>10 DEF BeyondBuffer
  <2> HIDE DEF gapTo, gapBack
  <2>5. t + m + gapTo <= b.span.from \/ b.span.to - Buffer + gapBack <= t
    BY <1>3, <1>5, <1>8, <1>10, <2>3, <2>4
  <2> QED
    BY <2>5 DEF gapTo, gapBack
<1>12. CASE b \notin Fetched(d, day)
  <2>1. ~(b.span.from >= DayStart(day) - Pad /\ b.span.from <= DayEnd(day) + Pad)
    BY <1>12 DEF Fetched
  <2> HIDE DEF gapTo, gapBack
  <2>2. t + m + gapTo <= b.span.from \/ b.span.to - Buffer + gapBack <= t
    BY <1>2, <1>3, <1>5, <1>6, <1>8, <1>9, <1>10, <2>1
  <2> QED
    BY <2>2 DEF gapTo, gapBack
<1> QED
  BY <1>11, <1>12

\* Being clear of a ride by the way there implies being clear by the buffer.
LEMMA FreeHasRoom ==
  ASSUME TypeOK, PadCoversRides,
         NEW d \in Driver, NEW day \in Dates, NEW m \in Duration, NEW drives \in Drives,
         NEW t \in FreeTimes(d, day, m, drives)
  PROVE  HasRoom(d, t, m)
<1> SUFFICES ASSUME NEW b \in calendar[d]
             PROVE  Cal!Disjoint(b.span, [from |-> t, to |-> t + m + Buffer])
  BY DEF HasRoom
<1>1. b.span \in BusySpans /\ b \in Rides
  BY DEF TypeOK, Rides
<1>2. b.span.from \in Nat /\ b.span.to \in Nat
  BY <1>1, SpanType
<1>3. drives[b].to \in Travel \cup {NoRoute} /\ drives[b].back \in Travel \cup {NoRoute}
  BY <1>1 DEF Drives, Drive
<1>4. /\ RealGap(drives[b].to) \in Nat /\ RealGap(drives[b].to) >= Buffer
      /\ RealGap(drives[b].back) \in Nat /\ RealGap(drives[b].back) >= Buffer
  BY <1>3, GapType
<1>5. t \in Int /\ m \in Nat /\ Buffer \in Nat
  BY GridWithinDay, NumbersAssumption DEF FreeTimes
<1>6. t + m + Buffer <= b.span.from \/ b.span.to <= t
  BY <1>2, <1>4, <1>5, ClearOfRide
<1> QED
  BY <1>6 DEF Cal!Disjoint

\* Whatever the route service answers, a time offered as available can be
\* booked with the driver asked for or, when any would do, with one who has the
\* role driver: the constraint of the order table has room for it.  Rides must be
\* short enough for the pad get_slots loads around the date.
THEOREM OfferedCanBeBooked == PadCoversRides => (Spec => []OfferedHasRoom)
<1> SUFFICES ASSUME PadCoversRides PROVE Spec => []OfferedHasRoom
  OBVIOUS
<1>1. TypeOK => OfferedHasRoom
  <2> SUFFICES ASSUME TypeOK,
                      NEW q \in Driver \cup {NoDriver}, NEW day \in Dates, NEW m \in Duration,
                      NEW drives \in Drives, NEW t \in Offered(q, day, m, drives)
               PROVE  \E d \in onDuty :
                        /\ d = q \/ (q = NoDriver /\ d \in hasRole)
                        /\ HasRoom(d, t, m)
    BY DEF OfferedHasRoom
  <2>1. PICK d \in Candidates(q) : t \in FreeTimes(d, day, m, drives)
    BY DEF Offered
  <2>2. d \in onDuty /\ (d = q \/ (q = NoDriver /\ d \in hasRole))
    BY DEF Candidates
  <2>3. d \in Driver
    BY <2>2 DEF TypeOK
  <2> QED
    BY <2>1, <2>2, <2>3, FreeHasRoom
<1> QED
  BY <1>1, SlotsTypeCorrect, PTL

\* Whatever the route service answers, the driver gets from ride to ride.
THEOREM DriverReachesNextPickup == PadCoversRides => (Spec => []ReachesNextPickup)
<1> SUFFICES ASSUME PadCoversRides PROVE Spec => []ReachesNextPickup
  OBVIOUS
<1>1. TypeOK => ReachesNextPickup
  <2> SUFFICES ASSUME TypeOK,
                      NEW d \in onDuty, NEW day \in Dates, NEW m \in Duration,
                      NEW drives \in Drives,
                      NEW t \in Offered(d, day, m, drives), NEW b \in calendar[d]
               PROVE  \/ t + m + RealGap(drives[b].to) <= b.span.from
                      \/ b.span.to - Buffer + RealGap(drives[b].back) <= t
    BY DEF ReachesNextPickup
  <2>1. d \in Driver
    BY DEF TypeOK
  <2>2. t \in FreeTimes(d, day, m, drives)
    BY <2>1, NullsAssumption DEF Offered, Candidates
  <2> QED
    BY <2>1, <2>2, ClearOfRide
<1> QED
  BY <1>1, SlotsTypeCorrect, PTL

\* With the flat buffer nothing that could be booked with a driver in question is
\* hidden: neither the merge over drivers nor the padding of rides loses a free time.
THEOREM NothingFreeIsHidden == Spec => []FreeTimesAreOffered
<1>1. TypeOK => FreeTimesAreOffered
  <2> SUFFICES ASSUME TypeOK,
                      NEW q \in Driver \cup {NoDriver}, NEW day \in Dates,
                      NEW m \in Duration, NEW drives \in Drives, ~IsWeekend(day),
                      \A b \in Rides : drives[b] = [to |-> NoRoute, back |-> NoRoute],
                      NEW d \in onDuty, d = q \/ (q = NoDriver /\ d \in hasRole),
                      NEW t \in Grid(d, day, m), t >= now + MinLead,
                      \A r \in timeOff[d] : t + m + Buffer <= r.from \/ r.to <= t,
                      HasRoom(d, t, m)
               PROVE  t \in Offered(q, day, m, drives)
    BY DEF FreeTimesAreOffered
  <2>1. d \in Driver
    BY DEF TypeOK
  <2>2. t \in Int /\ m \in Nat /\ Buffer \in Nat
    BY <2>1, GridWithinDay, NumbersAssumption
  <2>3. ASSUME NEW r \in OffRanges(d, day)
        PROVE  ~(t < r.to /\ t + m + Buffer > r.from)
    <3>1. r \in timeOff[d] /\ r \in Absence
      BY <2>1 DEF OffRanges, TypeOK
    <3>2. r.from \in Nat /\ r.to \in Nat
      BY <3>1, NumbersAssumption
    <3> QED
      BY <2>2, <3>1, <3>2
  <2>4. ASSUME NEW b \in Fetched(d, day)
        PROVE  ~(/\ t < RideRange(b, drives[b]).to
                 /\ t + m + Buffer > RideRange(b, drives[b]).from)
    <3>1. b \in calendar[d] /\ b \in Rides /\ b.span \in BusySpans
      BY <2>1 DEF Fetched, Rides, TypeOK
    <3>2. b.span.from \in Nat /\ b.span.to \in Nat
      BY <3>1, SpanType
    <3>3. drives[b].to = NoRoute /\ drives[b].back = NoRoute
      BY <3>1
    <3>4. RideRange(b, drives[b]) = [from |-> b.span.from - 0, to |-> b.span.to - Buffer + Buffer]
      BY <2>2, <3>3 DEF RideRange, RealGap, BeyondBuffer
    <3>5. Cal!Disjoint(b.span, [from |-> t, to |-> t + m + Buffer])
      BY <3>1 DEF HasRoom
    <3>6. b.span.to <= t \/ t + m + Buffer <= b.span.from
      BY <3>5 DEF Cal!Disjoint
    <3> QED
      BY <2>2, <3>2, <3>4, <3>6
  <2>5. Available(t, m, BusyRanges(d, day, drives))
    BY <2>3, <2>4 DEF Available, BusyRanges
  <2>6. t \in FreeTimes(d, day, m, drives)
    BY <2>5 DEF FreeTimes
  <2>7. d \in Candidates(q)
    BY <2>1, NullsAssumption DEF Candidates
  <2> QED
    BY <2>6, <2>7, DateType DEF Offered
<1> QED
  BY <1>1, SlotsTypeCorrect, PTL

-----------------------------------------------------------------------------
(* The accounts: a behaviour of the whole is one of MCAccounts *)

AccountsProof == INSTANCE AccountsProofs WITH requests <- accountRequests, inTurn <- oneByOne

\* The definitions of the part and of its proofs are the same, one by one.
LEMMA SameAccounts ==
  /\ Accounts!User = AccountsProof!User /\ Accounts!Role = AccountsProof!Role
  /\ Accounts!Op = AccountsProof!Op /\ Accounts!Free = AccountsProof!Free
  /\ Accounts!MayBegin <=> AccountsProof!MayBegin
BY DEF Accounts!User, AccountsProof!User, Accounts!Role, AccountsProof!Role, Accounts!Op,
       AccountsProof!Op, Accounts!Free, AccountsProof!Free, Accounts!MayBegin, AccountsProof!MayBegin

LEMMA SameFirstLogin ==
  ASSUME NEW u
  PROVE  Accounts!FirstLogin(u) <=> AccountsProof!FirstLogin(u)
BY DEF Accounts!FirstLogin, AccountsProof!FirstLogin

LEMMA SameEnter ==
  ASSUME NEW r, NEW admin, NEW op, NEW user, NEW to
  PROVE  Accounts!Enter(r, admin, op, user, to) <=> AccountsProof!Enter(r, admin, op, user, to)
BY SameAccounts
DEF Accounts!Enter, AccountsProof!Enter, Accounts!tables, AccountsProof!tables,
    Accounts!Becomes, AccountsProof!Becomes

LEMMA SameLoad ==
  ASSUME NEW r
  PROVE  Accounts!Load(r) <=> AccountsProof!Load(r)
BY SameAccounts
DEF Accounts!Load, AccountsProof!Load, Accounts!tables, AccountsProof!tables,
    Accounts!Loaded, AccountsProof!Loaded, Accounts!Refused,
    AccountsProof!Refused, Accounts!Done, AccountsProof!Done, Accounts!Becomes,
    AccountsProof!Becomes

LEMMA SameDecide ==
  ASSUME NEW r
  PROVE  /\ Accounts!Approve(r) <=> AccountsProof!Approve(r)
         /\ Accounts!Reject(r) <=> AccountsProof!Reject(r)
BY SameAccounts
DEF Accounts!Approve, AccountsProof!Approve, Accounts!Reject, AccountsProof!Reject,
    Accounts!Decide, AccountsProof!Decide, Accounts!Unlocked, AccountsProof!Unlocked,
    Accounts!ChangesRole, AccountsProof!ChangesRole, Accounts!Done, AccountsProof!Done,
    Accounts!Becomes, AccountsProof!Becomes

LEMMA SameRole ==
  ASSUME NEW r
  PROVE  /\ Accounts!ChangesRole(r) <=> AccountsProof!ChangesRole(r)
         /\ \A u : Accounts!Unlocked(r, u) <=> AccountsProof!Unlocked(r, u)
         /\ Accounts!WriteRole(r) <=> AccountsProof!WriteRole(r)
         /\ Accounts!AuditRole(r) <=> AccountsProof!AuditRole(r)
         /\ Accounts!AddsRow(r) = AccountsProof!AddsRow(r)
BY DEF Accounts!ChangesRole, AccountsProof!ChangesRole, Accounts!Unlocked, AccountsProof!Unlocked,
       Accounts!WriteRole, AccountsProof!WriteRole, Accounts!AuditRole, AccountsProof!AuditRole,
       Accounts!AddsRow, AccountsProof!AddsRow

LEMMA SameSetRole ==
  ASSUME NEW r
  PROVE  /\ Accounts!SetRole(r) <=> AccountsProof!SetRole(r)
         /\ Accounts!LookForDriver(r) <=> AccountsProof!LookForDriver(r)
         /\ Accounts!SetRoleDriver(r) <=> AccountsProof!SetRoleDriver(r)
         /\ Accounts!ProvisionDriver(r) <=> AccountsProof!ProvisionDriver(r)
         /\ Accounts!Rollback(r) <=> AccountsProof!Rollback(r)
BY SameAccounts, SameRole
DEF Accounts!SetRole, AccountsProof!SetRole, Accounts!tables, AccountsProof!tables,
    Accounts!LookForDriver, AccountsProof!LookForDriver,
    Accounts!SetRoleDriver, AccountsProof!SetRoleDriver, Accounts!ProvisionDriver,
    AccountsProof!ProvisionDriver, Accounts!Rollback, AccountsProof!Rollback,
    Accounts!Duplicates, AccountsProof!Duplicates, Accounts!Done, AccountsProof!Done,
    Accounts!Becomes, AccountsProof!Becomes

LEMMA AccountsMove ==
  [MCNext]_MCVars => [AccountsProof!MCNext]_(AccountsProof!MCVars)
<1>1. ASSUME Accounts!ServerNext PROVE AccountsProof!ServerNext
  BY <1>1, SameAccounts, SameFirstLogin, SameEnter, SameLoad, SameDecide, SameSetRole
  DEF Accounts!ServerNext, AccountsProof!ServerNext
<1>2. ASSUME UNCHANGED <<accountVars, oneByOne>> PROVE UNCHANGED AccountsProof!MCVars
  BY <1>2 DEF accountVars, AccountsProof!MCVars, AccountsProof!vars, AccountsProof!tables
<1>. QED  BY <1>1, <1>2 DEF MCNext, MCVars, AccountsProof!MCNext

LEMMA AccountsBehave == MCSpec => AccountsProof!MCSpec
<1>1. MCInit => AccountsProof!MCInit
  BY SameAccounts
  DEF MCInit, Accounts!MCInit, Accounts!Init, AccountsProof!MCInit, AccountsProof!Init
<1>. QED  BY <1>1, AccountsMove, PTL DEF MCSpec, AccountsProof!MCSpec

\* Every account with the role driver owns a driver row, whatever requests overlap
\* (admin_api.py, set_user_role).
THEOREM DriversHaveRows == MCSpec => []DriverAccountsHaveRow
<1>1. DriverAccountsHaveRow <=> AccountsProof!DriverAccountsHaveRow
  BY DEF DriverAccountsHaveRow, Accounts!DriverAccountsHaveRow,
         AccountsProof!DriverAccountsHaveRow
<1>. QED
  BY <1>1, AccountsBehave, AccountsProof!InTurnRefines, AccountsProof!DriversHaveRows, PTL

\* The status of an account is the outcome of a decision on record, and no decision is
\* made by a request that began after one (admin_api.py, approve and reject).
THEOREM DecisionsStandForGood == MCSpec => []DecisionsStand
<1>1. DecisionsStand <=> AccountsProof!DecisionsStand
  BY DEF DecisionsStand, Accounts!DecisionsStand, AccountsProof!DecisionsStand
<1>. QED
  BY <1>1, AccountsBehave, AccountsProof!InTurnRefines, AccountsProof!DecisionsStandForGood, PTL

\* Served one after the other, decisions are made once and changes of role leave their
\* trail (admin_api.py).
THEOREM TrailIsKept == MCSpec => []TrailIsKeptInTurn
<1>1. TrailIsKeptInTurn <=> AccountsProof!TrailIsKeptInTurn
  BY SameAccounts
  DEF TrailIsKeptInTurn, Accounts!TrailIsKeptInTurn, Accounts!RoleIsLastChange,
      Accounts!DecidedOnce, AccountsProof!TrailIsKeptInTurn, AccountsProof!RoleIsLastChange,
      AccountsProof!DecidedOnce
<1>. QED  BY <1>1, AccountsBehave, AccountsProof!TrailIsKept, PTL

\* Served one after the other, changes of role never leave the company without an
\* administrator (admin_api.py, set_user_role).
THEOREM AdminRemains == MCSpec => []SomeAdminRemainsInTurn
<1>1. SomeAdminRemainsInTurn <=> AccountsProof!SomeAdminRemainsInTurn
  BY DEF SomeAdminRemainsInTurn, Accounts!SomeAdminRemainsInTurn, Accounts!SomeAdminRemains,
         AccountsProof!SomeAdminRemainsInTurn, AccountsProof!SomeAdminRemains
<1>. QED  BY <1>1, AccountsBehave, AccountsProof!AdminRemains, PTL

-----------------------------------------------------------------------------
(* The hours and their page: a behaviour of the whole is one of MCSchedule *)

HoursProof ==
  INSTANCE ScheduleProofs WITH
    Driver <- {Me}, requests <- hoursRequests, inTurn <- oneByOne

LEMMA SameHours ==
  /\ Hours!Window = HoursProof!Window
  /\ Hours!Free = HoursProof!Free
  /\ Hours!Bodies = HoursProof!Bodies
  /\ Hours!Page!Window = HoursProof!Page!Window
  /\ Hours!Page!Free = HoursProof!Page!Free
  /\ Hours!Page!NoFetch = HoursProof!Page!NoFetch
  /\ Hours!Page!NoSave = HoursProof!Page!NoSave
  /\ Hours!Page!defaultRows = HoursProof!Page!defaultRows
  /\ Hours!Page!Entered = HoursProof!Page!Entered
  /\ Hours!Page!Settled <=> HoursProof!Page!Settled
BY DEF Hours!Window, HoursProof!Window, Hours!Free, HoursProof!Free, Hours!Bodies,
       HoursProof!Bodies, Hours!Page!Window, HoursProof!Page!Window, Hours!Page!Free,
       HoursProof!Page!Free, Hours!Page!NoFetch, HoursProof!Page!NoFetch, Hours!Page!NoSave,
       HoursProof!Page!NoSave, Hours!Page!defaultRows, HoursProof!Page!defaultRows,
       Hours!Page!Entered, HoursProof!Page!Entered, Hours!Page!Settled, HoursProof!Page!Settled

LEMMA SameWeek ==
  ASSUME NEW body
  PROVE  /\ Hours!Week(body) = HoursProof!Week(body)
         /\ Hours!Accepted(body) <=> HoursProof!Accepted(body)
         /\ Hours!Page!Week(body) = HoursProof!Page!Week(body)
         /\ Hours!Page!Accepted(body) <=> HoursProof!Page!Accepted(body)
BY DEF Hours!Week, HoursProof!Week, Hours!Accepted, HoursProof!Accepted, Hours!Follows,
       HoursProof!Follows, Hours!Before, HoursProof!Before, Hours!Page!Week, HoursProof!Page!Week,
       Hours!Page!Accepted, HoursProof!Page!Accepted, Hours!Page!Follows, HoursProof!Page!Follows,
       Hours!Page!Before, HoursProof!Page!Before

LEMMA SameHoursRequests ==
  ASSUME NEW r
  PROVE  /\ Hours!Deleted(r) <=> HoursProof!Deleted(r)
         /\ Hours!Commit(r) <=> HoursProof!Commit(r)
         /\ Hours!Rollback(r) <=> HoursProof!Rollback(r)
BY SameHours, SameWeek
DEF Hours!Deleted, HoursProof!Deleted, Hours!Commit, HoursProof!Commit, Hours!Rollback,
    HoursProof!Rollback, Hours!Stored, HoursProof!Stored, Hours!Kept, HoursProof!Kept,
    Hours!Collides, HoursProof!Collides, Hours!Overtake, HoursProof!Overtake

LEMMA SameDelete ==
  ASSUME NEW r, NEW d, NEW body
  PROVE  /\ Hours!Delete(r, d, body) <=> HoursProof!Delete(r, d, body)
         /\ Hours!MayBegin(body) <=> HoursProof!MayBegin(body)
BY SameHours, SameWeek
DEF Hours!Delete, HoursProof!Delete, Hours!MayBegin, HoursProof!MayBegin, Hours!OfOneDay,
    HoursProof!OfOneDay, Hours!OverlappingRows, HoursProof!OverlappingRows

LEMMA SameFill ==
  ASSUME NEW hours
  PROVE  /\ Hours!Page!Filled(hours) = HoursProof!Page!Filled(hours)
         /\ Hours!Page!Fills(hours) <=> HoursProof!Page!Fills(hours)
BY SameHours
DEF Hours!Page!Filled, HoursProof!Page!Filled, Hours!Page!Fills, HoursProof!Page!Fills,
    Hours!Page!Latest, HoursProof!Page!Latest, Hours!Page!defaultRows,
    HoursProof!Page!defaultRows

LEMMA SameSequence ==
  ASSUME NEW S
  PROVE  Hours!Page!SetToSeq(S) = HoursProof!Page!SetToSeq(S)
BY DEF Hours!Page!SetToSeq, HoursProof!Page!SetToSeq, Hours!Page!IsInjective,
       HoursProof!Page!IsInjective, Hours!Page!Cardinality, HoursProof!Page!Cardinality

LEMMA SameHoursAsked ==
  /\ Hours!Page!Open <=> HoursProof!Page!Open
  /\ Hours!Page!Ask <=> HoursProof!Page!Ask
  /\ Hours!Page!AnswerHours <=> HoursProof!Page!AnswerHours
  /\ Hours!Page!ShowHours <=> HoursProof!Page!ShowHours
  /\ Hours!Page!LoseHours <=> HoursProof!Page!LoseHours
BY SameFill
DEF Hours!Page!Open, HoursProof!Page!Open, Hours!Page!Ask, HoursProof!Page!Ask,
    Hours!Page!AnswerHours, HoursProof!Page!AnswerHours, Hours!Page!ShowHours,
    HoursProof!Page!ShowHours, Hours!Page!LoseHours, HoursProof!Page!LoseHours,
    Hours!Page!vars, HoursProof!Page!vars, Hours!Page!page, HoursProof!Page!page,
    Hours!Page!query, HoursProof!Page!query, Hours!Page!NoFetch, HoursProof!Page!NoFetch

LEMMA SameUpdate ==
  ASSUME NEW d, NEW time
  PROVE  /\ Hours!Page!ToggleDay(d) <=> HoursProof!Page!ToggleDay(d)
         /\ Hours!Page!SetTime(d, time) <=> HoursProof!Page!SetTime(d, time)
BY DEF Hours!Page!ToggleDay, HoursProof!Page!ToggleDay, Hours!Page!SetTime,
       HoursProof!Page!SetTime, Hours!Page!updateRow, HoursProof!Page!updateRow,
       Hours!Page!RowsAreShown, HoursProof!Page!RowsAreShown, Hours!Page!NoFetch,
       HoursProof!Page!NoFetch, Hours!Page!vars, HoursProof!Page!vars, Hours!Page!query,
       HoursProof!Page!query

LEMMA SamePageSave ==
  /\ Hours!Page!Leave <=> HoursProof!Page!Leave
  /\ Hours!Page!handleSave <=> HoursProof!Page!handleSave
  /\ Hours!Page!RefuseToSave <=> HoursProof!Page!RefuseToSave
BY SameHours, SameWeek, SameSequence
DEF Hours!Page!Leave, HoursProof!Page!Leave, Hours!Page!handleSave, HoursProof!Page!handleSave,
    Hours!Page!RefuseToSave, HoursProof!Page!RefuseToSave, Hours!Page!MaySave,
    HoursProof!Page!MaySave, Hours!Page!Delete, HoursProof!Page!Delete, Hours!Page!NoSave,
    HoursProof!Page!NoSave, Hours!Page!defaultRows, HoursProof!Page!defaultRows,
    Hours!Page!vars, HoursProof!Page!vars, Hours!Page!query, HoursProof!Page!query

LEMMA SameSaved ==
  ASSUME NEW r
  PROVE  /\ Hours!Page!Reaches(r) <=> HoursProof!Page!Reaches(r)
         /\ Hours!Page!Stores(r) <=> HoursProof!Page!Stores(r)
         /\ Hours!Page!Fails(r) <=> HoursProof!Page!Fails(r)
BY SameHours, SameWeek
DEF Hours!Page!Reaches, HoursProof!Page!Reaches, Hours!Page!Stores, HoursProof!Page!Stores,
    Hours!Page!Fails, HoursProof!Page!Fails, Hours!Page!Deleted, HoursProof!Page!Deleted,
    Hours!Page!Commit, HoursProof!Page!Commit, Hours!Page!Rollback, HoursProof!Page!Rollback,
    Hours!Page!Stored, HoursProof!Page!Stored, Hours!Page!Kept, HoursProof!Page!Kept,
    Hours!Page!Collides, HoursProof!Page!Collides, Hours!Page!Overtake, HoursProof!Page!Overtake,
    Hours!Page!page, HoursProof!Page!page, Hours!Page!query, HoursProof!Page!query

LEMMA SameHeard ==
  /\ Hours!Page!HearSaved <=> HoursProof!Page!HearSaved
  /\ Hours!Page!HearFailure <=> HoursProof!Page!HearFailure
BY DEF Hours!Page!HearSaved, HoursProof!Page!HearSaved, Hours!Page!HearFailure,
       HoursProof!Page!HearFailure, Hours!Page!NoFetch, HoursProof!Page!NoFetch,
       Hours!Page!NoSave, HoursProof!Page!NoSave, Hours!Page!vars, HoursProof!Page!vars,
       Hours!Page!query, HoursProof!Page!query

LEMMA SameInits ==
  /\ Hours!Init <=> HoursProof!Init
  /\ Hours!Page!Closed <=> HoursProof!Page!Closed
  /\ Hours!Page!PageInit <=> HoursProof!Page!PageInit
BY SameHours
DEF Hours!Init, HoursProof!Init, Hours!Page!Closed, HoursProof!Page!Closed,
    Hours!Page!PageInit, HoursProof!Page!PageInit, Hours!Page!Overlap, HoursProof!Page!Overlap

LEMMA HoursMove ==
  [MCNext]_MCVars => [HoursProof!MCNext]_(HoursProof!MCVars)
<1>1. ASSUME Hours!ServerNext PROVE HoursProof!ServerNext
  BY <1>1, SameHours, SameDelete, SameHoursRequests
  DEF Hours!ServerNext, HoursProof!ServerNext
<1>2. ASSUME Hours!CalmNext PROVE HoursProof!CalmNext
  BY <1>2, SameHours, SameHoursAsked, SameUpdate, SamePageSave, SameSaved, SameHeard
  DEF Hours!CalmNext, HoursProof!CalmNext, Hours!Page!Touch, HoursProof!Page!Touch,
      Hours!Page!Answers, HoursProof!Page!Answers
<1>3. ASSUME Hours!MCNext, UNCHANGED oneByOne PROVE HoursProof!MCNext
  BY <1>1, <1>2, <1>3
  DEF Hours!MCNext, HoursProof!MCNext, Hours!screen, HoursProof!screen
<1>4. ASSUME UNCHANGED <<hoursVars, oneByOne>> PROVE UNCHANGED HoursProof!MCVars
  BY <1>4 DEF hoursVars, HoursProof!MCVars, HoursProof!vars, HoursProof!screen
<1>. QED  BY <1>3, <1>4 DEF MCNext, MCVars

LEMMA HoursBehave == MCSpec => HoursProof!MCSpec
<1>1. MCInit => HoursProof!MCInit
  BY SameInits
  DEF MCInit, Accounts!MCInit, Hours!MCInit, Hours!Untouched, HoursProof!MCInit
<1>. QED  BY <1>1, HoursMove, PTL DEF MCSpec, HoursProof!MCSpec

LEMMA HoursAreFinite == HoursProof!HoursAssumption
BY HoursAssumption, SameHours
DEF HoursProof!HoursAssumption, IsFiniteSet, HoursProof!IsFiniteSet

\* Replacing the week leaves nothing of what was stored before the request began, however
\* requests overlap (drivers_api.py, set_my_schedule).
THEOREM OldHoursGoAway == MCSpec => OldHoursAreGone
<1>1. Hours!OldHoursGo <=> HoursProof!OldHoursGo
  BY SameWeek DEF Hours!OldHoursGo, HoursProof!OldHoursGo
<1>2. [~atPage => HoursProof!OldHoursGo]_(HoursProof!MCVars)
      => [~atPage => Hours!OldHoursGo]_(Hours!MCVars)
  BY <1>1
  DEF Hours!MCVars, Hours!vars, Hours!screen, HoursProof!MCVars, HoursProof!vars,
      HoursProof!screen
<1>. QED
  BY <1>2, HoursBehave, HoursAreFinite, HoursProof!OldHoursGoAway, PTL
  DEF OldHoursAreGone, Hours!OldHoursAreGone, HoursProof!OldHoursAreGone

\* Served one after the other, requests never leave a driver hours that overlap
\* (drivers_api.py, set_my_schedule).
THEOREM HoursAreDisjoint == MCSpec => []NoOverlappingWindowsInTurn
<1>1. NoOverlappingWindowsInTurn <=> HoursProof!NoOverlappingWindowsInTurn
  BY DEF NoOverlappingWindowsInTurn, Hours!NoOverlappingWindowsInTurn, Hours!NoOverlappingWindows,
         Hours!Overlap, HoursProof!NoOverlappingWindowsInTurn, HoursProof!NoOverlappingWindows,
         HoursProof!Overlap
<1>. QED  BY <1>1, HoursBehave, HoursAreFinite, HoursProof!HoursAreDisjoint, PTL

\* When the page says that the hours are saved, they are those on the page
\* (DriverScheduleScreen.tsx, updateRow and handleSave).
THEOREM SavedHoursAreStored == MCSpec => []SavedIsStoredWhenCalm
<1>1. SavedIsStoredWhenCalm <=> HoursProof!SavedIsStoredWhenCalm
  BY SameHours
  DEF SavedIsStoredWhenCalm, Hours!SavedIsStoredWhenCalm, Hours!Page!SavedIsStored,
      HoursProof!SavedIsStoredWhenCalm, HoursProof!Page!SavedIsStored
<1>. QED  BY <1>1, HoursBehave, HoursAreFinite, HoursProof!SavedHoursAreStored, PTL

\* A save changes no hours but those of the days the driver has changed
\* (DriverScheduleScreen.tsx, handleSave).
THEOREM SavesKeepOtherDays == MCSpec => UntouchedDaysKeptWhenCalm
<1>1. Hours!Page!KeepsUntouchedDays <=> HoursProof!Page!KeepsUntouchedDays
  BY DEF Hours!Page!KeepsUntouchedDays, Hours!Page!On, Hours!Page!Cardinality,
         HoursProof!Page!KeepsUntouchedDays, HoursProof!Page!On, HoursProof!Page!Cardinality
<1>2. [atPage => HoursProof!Page!KeepsUntouchedDays]_(HoursProof!MCVars)
      => [atPage => Hours!Page!KeepsUntouchedDays]_(Hours!MCVars)
  BY <1>1
  DEF Hours!MCVars, Hours!vars, Hours!screen, HoursProof!MCVars, HoursProof!vars,
      HoursProof!screen
<1>. QED
  BY <1>2, HoursBehave, HoursAreFinite, HoursProof!SavesKeepOtherDays, PTL
  DEF UntouchedDaysKeptWhenCalm, Hours!UntouchedDaysKeptWhenCalm,
      HoursProof!UntouchedDaysKeptWhenCalm

=============================================================================
