-------------------------------- MODULE Slots --------------------------------
(***************************************************************************)
(* The slot picker: get_slots of api/app/orders_api.py with the pure grid  *)
(* of shared/slots.py.  For a date, a ride's duration and a driver (or any *)
(* driver) it offers the start times that fit the driver's hours and avoid *)
(* time off and the rides already booked, leaving the driver the time to   *)
(* get from one ride to the next.                                          *)
(*                                                                         *)
(* The rides booked are the drivers' calendars, which move by the steps of *)
(* module Calendar: the order table is proved to move them by no other     *)
(* (OrdersProofs).  Time is counted in slot units from a Monday 00:00      *)
(* in the company's time zone, whose clock never jumps.                    *)
(***************************************************************************)
EXTENDS Integers

CONSTANTS
  Order, Driver,
  NoDriver,     \* "any driver" in a request
  Instant,      \* when rides may be booked
  Duration,     \* values of est_duration_min and duration_min
  Travel,       \* drive times the route service may answer
  NoRoute,      \* no coordinates, or the route service failed
  ScheduleRow,  \* rows the schedule form may send: [weekday, from, to]
  Absence,      \* periods the time-off form may send: [from, to]
  DayLength, Step, Buffer, Margin, MinLead, HorizonDays,
  Pad,          \* window_pad of get_slots
  Start, MaxNow \* bounds of the clock

ASSUME NumbersAssumption ==
  /\ Instant \subseteq Nat /\ Duration \subseteq Nat /\ Travel \subseteq Nat
  /\ DayLength \in Nat \ {0} /\ Step \in Nat \ {0} /\ Buffer \in Nat
  /\ Margin \in Nat /\ MinLead \in Nat /\ HorizonDays \in Nat /\ Pad \in Nat
  /\ Start \in Nat /\ MaxNow \in Nat
  /\ ScheduleRow \subseteq [weekday: 0..6, from: 0..DayLength, to: 0..DayLength]
  /\ Absence \subseteq [from: Nat, to: Nat]

\* The two sentinels are told apart from the values they stand beside.
ASSUME NullsAssumption == NoDriver \notin Driver /\ NoRoute \notin Travel

VARIABLES
  calendar,   \* driver -> the rides booked
  schedule,   \* driver -> rows of driver_schedule
  timeOff,    \* driver -> rows of driver_time_off
  onDuty,     \* drivers whose on_duty flag is set
  hasRole,    \* drivers whose account has the role driver; an administrator's
              \* own driver row is one without
  now

vars == <<calendar, schedule, timeOff, onDuty, hasRole, now>>

BusySpans == {[from |-> t, to |-> t + m + Buffer] : t \in Instant, m \in Duration}

Cal == INSTANCE Calendar WITH Span <- BusySpans

-----------------------------------------------------------------------------
(* Dates *)

Day(t) == t \div DayLength
DayStart(day) == day * DayLength
DayEnd(day) == (day + 1) * DayLength
Weekday(day) == day % 7
IsWeekend(day) == Weekday(day) >= 5

\* The dates get_slots answers for.
InHorizon(day) == day >= Day(now) /\ day <= Day(now) + HorizonDays

-----------------------------------------------------------------------------
(* What a driver cannot take *)

\* The time between two rides: the drive plus a margin, never below the buffer.
RealGap(travel) ==
  IF travel # NoRoute /\ travel + Margin > Buffer THEN travel + Margin ELSE Buffer

\* Mistake: only rides that start on the date itself are fetched.
Fetched_NoPad(d, day) ==
  {b \in calendar[d] : b.span.from >= DayStart(day) /\ b.span.from <= DayEnd(day)}

\* The rides get_slots loads for a date.
Fetched(d, day) ==
  {b \in calendar[d] :
     b.span.from >= DayStart(day) - Pad /\ b.span.from <= DayEnd(day) + Pad}

\* A drive to the ride and one from it, as the route service answers.
Drive == [to: Travel \cup {NoRoute}, back: Travel \cup {NoRoute}]

\* What a gap in front of a ride exceeds the buffer by.
BeyondBuffer(gap) == IF gap > Buffer THEN gap - Buffer ELSE 0

\* Mistake: the gap before a ride is added to the candidate's own buffer.
RideRange_DoubleBuffer(b, drive) ==
  [from |-> b.span.from - RealGap(drive.to),
   to   |-> b.span.to - Buffer + RealGap(drive.back)]

\* Mistake: after a ride the flat buffer is kept, however long the way.
RideRange_FlatAfter(b, drive) ==
  [from |-> b.span.from - BeyondBuffer(RealGap(drive.to)), to |-> b.span.to]

\* The range a ride blocks.  A candidate carries its own buffer at its end, so
\* in front of the ride only what exceeds the buffer is added.
RideRange(b, drive) ==
  [from |-> b.span.from - BeyondBuffer(RealGap(drive.to)),
   to   |-> b.span.to - Buffer + RealGap(drive.back)]

OffRanges(d, day) ==
  {r \in timeOff[d] : r.from < DayEnd(day) /\ r.to > DayStart(day)}

\* drives tells what the route service answers for each ride.
BusyRanges(d, day, drives) ==
  OffRanges(d, day) \cup {RideRange(b, drives[b]) : b \in Fetched(d, day)}

-----------------------------------------------------------------------------
(* What a driver is offered for *)

\* Candidate starts within the hours of one schedule row.
RowGrid(row, day, m) ==
  {t \in DayStart(day) + row.from .. DayStart(day) + row.to - (m + Buffer) :
     (t - (DayStart(day) + row.from)) % Step = 0}

Grid(d, day, m) ==
  UNION {RowGrid(row, day, m) : row \in {r \in schedule[d] : r.weekday = Weekday(day)}}

Available(t, m, busy) ==
  /\ t >= now + MinLead
  /\ \A r \in busy : ~(t < r.to /\ t + m + Buffer > r.from)

FreeTimes(d, day, m, drives) ==
  {t \in Grid(d, day, m) : Available(t, m, BusyRanges(d, day, drives))}

\* The drivers in question: the one asked for, whatever the role of its account;
\* when any would do, those whose account has the role driver.
Candidates(q) == IF q = NoDriver THEN onDuty \cap hasRole ELSE onDuty \cap {q}

\* What get_slots answers for driver q, or for any driver: a time is available
\* when one of the drivers in question can take it.
Offered(q, day, m, drives) ==
  IF InHorizon(day) /\ ~IsWeekend(day)
  THEN UNION {FreeTimes(d, day, m, drives) : d \in Candidates(q)}
  ELSE {}

-----------------------------------------------------------------------------

Init ==
  /\ Cal!CalendarInit
  /\ schedule = [d \in Driver |-> {}]
  /\ timeOff = [d \in Driver |-> {}]
  /\ onDuty = Driver
  /\ hasRole = Driver
  /\ now = Start

\* Rides are booked, moved and called off (module Orders).
RidesMove ==
  /\ Cal!CalendarNext
  /\ UNCHANGED <<schedule, timeOff, onDuty, hasRole, now>>

\* The weekly hours are replaced.  The endpoint refuses windows that overlap;
\* two replacements at once may still leave the union of both, so overlapping
\* windows are not excluded here.
SetSchedule(d, rows) ==
  /\ \A r \in rows : r.weekday <= 4 /\ r.from < r.to
  /\ schedule' = [schedule EXCEPT ![d] = rows]
  /\ UNCHANGED <<calendar, timeOff, onDuty, hasRole, now>>

AddTimeOff(d, r) ==
  /\ r.from < r.to
  /\ timeOff' = [timeOff EXCEPT ![d] = @ \cup {r}]
  /\ UNCHANGED <<calendar, schedule, onDuty, hasRole, now>>

DeleteTimeOff(d, r) ==
  /\ r \in timeOff[d]
  /\ timeOff' = [timeOff EXCEPT ![d] = @ \ {r}]
  /\ UNCHANGED <<calendar, schedule, onDuty, hasRole, now>>

SetDuty(d) ==
  /\ onDuty' \in {onDuty \cup {d}, onDuty \ {d}}
  /\ UNCHANGED <<calendar, schedule, timeOff, hasRole, now>>

\* An administrator gives the account the role driver or takes it away
\* (set_user_role of api/app/admin_api.py).
SetRole(d) ==
  /\ hasRole' \in {hasRole \cup {d}, hasRole \ {d}}
  /\ UNCHANGED <<calendar, schedule, timeOff, onDuty, now>>

Tick ==
  /\ now < MaxNow
  /\ now' = now + 1
  /\ UNCHANGED <<calendar, schedule, timeOff, onDuty, hasRole>>

Next ==
  \/ RidesMove
  \/ \E d \in Driver :
       \/ \E rows \in SUBSET ScheduleRow : SetSchedule(d, rows)
       \/ \E r \in Absence : AddTimeOff(d, r) \/ DeleteTimeOff(d, r)
       \/ SetDuty(d)
       \/ SetRole(d)
  \/ Tick

Spec == Init /\ [][Next]_vars

-----------------------------------------------------------------------------
(* Properties.  A query is a driver or NoDriver, a date, a duration and the  *)
(* answers of the route service.                                             *)

Rides == UNION {calendar[d] : d \in Driver}
Drives == [Rides -> Drive]

\* The dates within the horizon are the only ones get_slots answers for.
Dates == Day(now)..(Day(now) + HorizonDays)

\* Only valid rows are stored.
TypeOK ==
  /\ calendar \in [Driver -> SUBSET [order: Order, span: BusySpans]]
  /\ schedule \in [Driver -> SUBSET {r \in ScheduleRow : r.weekday <= 4 /\ r.from < r.to}]
  /\ timeOff \in [Driver -> SUBSET {r \in Absence : r.from < r.to}]
  /\ onDuty \subseteq Driver
  /\ hasRole \subseteq Driver
  /\ now \in Nat

\* The longest ride with the longest way to the next one is shorter than the
\* pad around the date within which rides are fetched.
PadCoversRides == \A m \in Duration, x \in Travel \cup {NoRoute} : m + RealGap(x) <= Pad

\* Driver d may be booked at t for m units without overlapping another ride,
\* buffers included: what the EXCLUDE constraint will demand of the order.
HasRoom(d, t, m) ==
  \A b \in calendar[d] : Cal!Disjoint(b.span, [from |-> t, to |-> t + m + Buffer])

\* A time offered as available can be booked at once: with the driver asked
\* for, or, when any would do, with a driver on duty whose account has the role
\* driver; an administrator's own driver row is never what makes it available.
OfferedHasRoom ==
  \A q \in Driver \cup {NoDriver}, day \in Dates, m \in Duration, drives \in Drives :
    \A t \in Offered(q, day, m, drives) :
      \E d \in onDuty :
        /\ d = q \/ (q = NoDriver /\ d \in hasRole)
        /\ HasRoom(d, t, m)

\* Between an offered ride and each ride around it the driver has the time the
\* route service says the way takes, and the buffer at least, on either side.
ReachesNextPickup ==
  \A d \in onDuty, day \in Dates, m \in Duration, drives \in Drives :
    \A t \in Offered(d, day, m, drives), b \in calendar[d] :
      \/ t + m + RealGap(drives[b].to) <= b.span.from
      \/ b.span.to - Buffer + RealGap(drives[b].back) <= t

\* With the flat buffer for every gap the picker hides nothing of the drivers in
\* question: it offers every grid time after the lead time at which the driver
\* asked for, or any driver on duty with the role driver, is neither away nor
\* short of room.
FreeTimesAreOffered ==
  \A q \in Driver \cup {NoDriver}, day \in Dates, m \in Duration, drives \in Drives :
    (~IsWeekend(day) /\ \A b \in Rides : drives[b] = [to |-> NoRoute, back |-> NoRoute]) =>
      \A d \in onDuty : (d = q \/ (q = NoDriver /\ d \in hasRole)) =>
        \A t \in Grid(d, day, m) :
          (/\ t >= now + MinLead
           /\ \A r \in timeOff[d] : t + m + Buffer <= r.from \/ r.to <= t
           /\ HasRoom(d, t, m))
          => t \in Offered(q, day, m, drives)

=============================================================================
