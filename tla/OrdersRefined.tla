---------------------------- MODULE OrdersRefined ----------------------------
(***************************************************************************)
(* Orders seen as the two things it promises: the calendars of the drivers *)
(* and the lives of the orders.                                            *)
(***************************************************************************)
EXTENDS Orders

BusySpan(row) == [from |-> row.at, to |-> row.at + row.mins + Buffer]

DriverCalendar ==
  [d \in Driver |->
     {[order |-> o, span |-> BusySpan(orders[o])] :
        o \in {p \in DOMAIN orders : HoldsSlot(orders[p]) /\ orders[p].driver = d}}]

AllSpans == {[from |-> t, to |-> t + m + Buffer] : t \in Time, m \in Duration}

Cal == INSTANCE Calendar
         WITH Order <- OrderId, Span <- AllSpans, calendar <- DriverCalendar

\* Every committed write moves the drivers' calendars by a legal step: one
\* order booked into a free period, moved to one, or struck out.
KeepsCalendars == Cal!CalendarSpec

StageOf(status) ==
  CASE status \in {"draft", "pending_driver"} -> "offered"
    [] status = "driver_countered" -> "negotiating"
    [] status = "confirmed" -> "agreed"
    [] status \in {"driver_en_route", "driver_arrived", "in_progress"} -> "riding"
    [] status = "completed" -> "done"
    [] OTHER -> "called_off"

TripOf(row) ==
  [stage   |-> StageOf(row.status),
   at      |-> row.at,
   ask     |-> IF row.status = "driver_countered" THEN row.proposed ELSE NoTime,
   details |-> row.passengers]

Trips == [o \in DOMAIN orders |-> TripOf(orders[o])]

Life == INSTANCE OrderLifecycle
          WITH Order <- OrderId, Details <- Passengers, trip <- Trips

=============================================================================
