------------------------------ MODULE Calendar ------------------------------
(***************************************************************************)
(* What the order table promises each driver: a calendar of bookings in    *)
(* which no two overlap.  One order at a time is booked, moved to another  *)
(* time or driver, or struck out; nothing is said of why.  Orders          *)
(* implements it (OrdersRefined), whatever its requests do to one another. *)
(***************************************************************************)
EXTENDS Integers

CONSTANTS
  Order,   \* what is booked
  Driver,  \* who is booked
  Span     \* the busy periods a booking may take: records [from, to)

VARIABLE calendar   \* driver -> the bookings of that driver

Booking == [order: Order, span: Span]

Disjoint(s, t) == s.to <= t.from \/ t.to <= s.from

CalendarTypeOK == calendar \in [Driver -> SUBSET Booking]

\* The promise itself.
NoOverlap ==
  \A d \in Driver : \A b, c \in calendar[d] : b # c => Disjoint(b.span, c.span)

CalendarInit == calendar = [d \in Driver |-> {}]

\* The calendars with order o struck out.
Without(o) == [d \in Driver |-> {b \in calendar[d] : b.order # o}]

StrikeOut(o) == calendar' = Without(o)

Book(o, d, s) ==
  /\ \A b \in Without(o)[d] : Disjoint(b.span, s)
  /\ calendar' = [Without(o) EXCEPT ![d] = @ \cup {[order |-> o, span |-> s]}]

CalendarNext ==
  \E o \in Order : StrikeOut(o) \/ \E d \in Driver, s \in Span : Book(o, d, s)

CalendarSpec == CalendarInit /\ [][CalendarNext]_calendar

=============================================================================
