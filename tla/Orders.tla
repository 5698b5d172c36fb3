------------------------------- MODULE Orders -------------------------------
(***************************************************************************)
(* The order table of the ApexRide API and every handler that writes it:  *)
(* api/app/orders_api.py (create, edit, cancel, driver transitions, reply  *)
(* to a counter-proposal) and the order half of api/app/admin_api.py       *)
(* (assign, forced cancel), together with the two database constraints     *)
(* they lean on (the EXCLUDE constraint and the unique idempotency index). *)
(*                                                                         *)
(* The database runs at READ COMMITTED and a handler takes no row lock.    *)
(* Two kinds of handler follow:                                            *)
(*   - read-then-write: session.get loads the row, the guard is tested on  *)
(*     that copy, and the commit writes only the columns whose value       *)
(*     changed with respect to the copy.  It is two steps here: the action *)
(*     of the handler, then CommitInsert or CommitUpdate;                  *)
(*   - compare-and-swap: transition_order tests its guard inside the       *)
(*     UPDATE statement, so it is one step.                                *)
(* A Worker is a request context: one worker means requests run one after  *)
(* the other, two or more mean they interleave.                            *)
(***************************************************************************)
EXTENDS Integers, FiniteSets

CONSTANTS
  OrderId,     \* primary keys the table may hand out
  User,        \* verified accounts that may order
  Driver,      \* drivers with a profile
  Key,         \* idempotency keys a client generates
  Worker,      \* request contexts running at once
  NoDriver,    \* driver_id IS NULL
  NoTime,      \* proposed_scheduled_at IS NULL
  Idle,        \* a worker with no request in flight
  Keep,        \* a column the ORM leaves out of its UPDATE
  Time,        \* instants an order may be scheduled at
  Duration,    \* values of est_duration_min
  Passengers,  \* values of passengers
  Buffer,      \* minutes order_busy_range adds after a ride
  MinLead,     \* ORDER_MIN_LEAD_MIN
  Horizon,     \* ORDER_BOOKING_HORIZON_DAYS
  Weekend,     \* the instants that fall on a weekend
  MaxNow       \* bound on the clock

ASSUME TimesAssumption ==
  /\ Time \subseteq Nat /\ Duration \subseteq Nat /\ Weekend \subseteq Time
  /\ Buffer \in Nat \ {0}
  /\ MinLead \in Nat /\ Horizon \in Nat /\ MaxNow \in Nat

VARIABLES
  orders,    \* the orders table: id -> row
  events,    \* the order_events table: pairs <<order, event_type>>
  onDuty,    \* drivers whose on_duty flag is set
  now,       \* the clock
  inflight   \* per worker: Idle or the write its request will commit

vars == <<orders, events, onDuty, now, inflight>>

-----------------------------------------------------------------------------
(* Rows *)

NON_TERMINAL_STATUSES ==
  {"draft", "pending_driver", "driver_countered", "confirmed",
   "driver_en_route", "driver_arrived", "in_progress"}

TERMINAL_STATUSES ==
  {"completed", "cancelled_by_user", "cancelled_by_driver", "cancelled_by_admin",
   "expired"}

Status == NON_TERMINAL_STATUSES \cup TERMINAL_STATUSES

EDITABLE_STATUSES == {"draft", "pending_driver", "confirmed"}

CANCELLABLE_STATUSES ==
  {"draft", "pending_driver", "driver_countered", "confirmed", "driver_en_route"}

\* Mistake: every order not yet finished can be given to another driver.
ADMIN_REASSIGNABLE_Always == NON_TERMINAL_STATUSES

ADMIN_REASSIGNABLE_STATUSES ==
  {"pending_driver", "driver_countered", "confirmed", "driver_en_route"}

\* action of POST /{order_id}/transition -> status it needs, status it sets,
\* event type it records
Transition ==
  LET Step(from, to, log) == [from |-> from, to |-> to, log |-> log]
  IN  [accept       |-> Step("pending_driver", "confirmed", "status_accept"),
       reject       |-> Step("pending_driver", "cancelled_by_driver", "status_reject"),
       propose_time |-> Step("pending_driver", "driver_countered", "status_propose_time"),
       depart       |-> Step("confirmed", "driver_en_route", "status_depart"),
       arrive       |-> Step("driver_en_route", "driver_arrived", "status_arrive"),
       start        |-> Step("driver_arrived", "in_progress", "status_start"),
       complete     |-> Step("in_progress", "completed", "status_complete")]

EventType ==
  {"created", "cancelled_by_user", "cancelled_by_admin", "counter_accepted",
   "counter_declined", "admin_reassigned", "status_accept", "status_reject",
   "status_propose_time", "status_depart", "status_arrive", "status_start",
   "status_complete"}

CancelledBy == {"none", "user", "driver", "admin"}

Row ==
  [user: User, key: Key, driver: Driver \cup {NoDriver}, status: Status,
   at: Time, mins: Duration, proposed: Time \cup {NoTime},
   cancelledBy: CancelledBy, passengers: Passengers]

\* What the ORM will put in the UPDATE: per column a new value, or Keep.
Dirty ==
  [driver: Driver \cup {NoDriver, Keep}, status: Status \cup {Keep},
   at: Time \cup {Keep}, proposed: Time \cup {NoTime, Keep},
   cancelledBy: CancelledBy \cup {Keep}, passengers: Passengers \cup {Keep}]

Insert == [kind: {"insert"}, row: Row]
Update == [kind: {"update"}, order: OrderId, set: Dirty, log: SUBSET EventType]

\* The sentinels are told apart from the values they stand beside.
ASSUME NullsAssumption ==
  /\ NoDriver \notin Driver /\ NoTime \notin Time
  /\ Keep \notin Driver /\ Keep \notin Time /\ Keep \notin {NoDriver, NoTime}
  /\ Keep \notin Status /\ Keep \notin CancelledBy /\ Keep \notin Passengers
  /\ Idle \notin Insert /\ Idle \notin Update

\* Rows, audit events and the writes in flight have their types; in particular
\* no reply about to be committed sets scheduled_at to NULL.
TypeOK ==
  /\ DOMAIN orders \subseteq OrderId
  /\ orders \in [DOMAIN orders -> Row]
  /\ events \subseteq (DOMAIN orders) \X EventType
  /\ onDuty \subseteq Driver
  /\ now \in 0..MaxNow
  /\ inflight \in [Worker -> Insert \cup Update \cup {Idle}]
  /\ \A w \in Worker : inflight[w] \in Update => inflight[w].order \in DOMAIN orders

Init ==
  /\ orders = [o \in {} |-> Idle]
  /\ events = {}
  /\ onDuty \in SUBSET Driver
  /\ now = 0
  /\ inflight = [w \in Worker |-> Idle]

-----------------------------------------------------------------------------
(* Rules on the data *)

\* The checks create_order and propose_time make on a requested instant.
Bookable(t) == t >= now + MinLead /\ t <= now + Horizon /\ t \notin Weekend

\* Mistake: the rides themselves are compared, the buffer is left out.
Overlaps_NoBuffer(a, b) == a.at < b.at + b.mins /\ b.at < a.at + a.mins

\* order_busy_range of two rows intersects.
Overlaps(a, b) == a.at < b.at + b.mins + Buffer /\ b.at < a.at + a.mins + Buffer

\* The WHERE clause of excl_orders_driver_overlap.
HoldsSlot(row) == row.driver # NoDriver /\ row.status \notin TERMINAL_STATUSES

\* excl_orders_driver_overlap accepts row as the new version of order o.
ExclusionHolds(o, row) ==
  HoldsSlot(row) =>
    \A p \in DOMAIN orders \ {o} :
      HoldsSlot(orders[p]) /\ orders[p].driver = row.driver => ~Overlaps(orders[p], row)

\* uq_orders_user_idempotency_key accepts row as a new order.
UniqueIndexHolds(row) ==
  ~ \E p \in DOMAIN orders : orders[p].user = row.user /\ orders[p].key = row.key

\* The driver's own queue (GET /queue).
Queue(d) ==
  {o \in DOMAIN orders :
     /\ orders[o].status \in NON_TERMINAL_STATUSES
     /\ \/ orders[o].driver = d
        \/ orders[o].driver = NoDriver /\ orders[o].status = "pending_driver"}

-----------------------------------------------------------------------------
(* Reading and committing *)

\* Mistake: the audit events are not part of the transaction.
Write_Unaudited(o, row, log) ==
  /\ ExclusionHolds(o, row)
  /\ orders' = [p \in DOMAIN orders \cup {o} |-> IF p = o THEN row ELSE orders[p]]
  /\ events' = events

\* A row is written together with its audit events, in one transaction.
Write(o, row, log) ==
  /\ ExclusionHolds(o, row)
  /\ orders' = [p \in DOMAIN orders \cup {o} |-> IF p = o THEN row ELSE orders[p]]
  /\ events' = events \cup ({o} \X log)

Diff(old, new) == IF new = old THEN Keep ELSE new

\* The columns of obj that differ from the loaded copy.
Changes(copy, obj) ==
  [driver      |-> Diff(copy.driver, obj.driver),
   status      |-> Diff(copy.status, obj.status),
   at          |-> Diff(copy.at, obj.at),
   proposed    |-> Diff(copy.proposed, obj.proposed),
   cancelledBy |-> Diff(copy.cancelledBy, obj.cancelledBy),
   passengers  |-> Diff(copy.passengers, obj.passengers)]

Column(old, new) == IF new = Keep THEN old ELSE new

\* The row an UPDATE of those columns leaves, whatever was committed since.
Updated(row, set) ==
  [row EXCEPT !.driver      = Column(row.driver, set.driver),
              !.status      = Column(row.status, set.status),
              !.at          = Column(row.at, set.at),
              !.proposed    = Column(row.proposed, set.proposed),
              !.cancelledBy = Column(row.cancelledBy, set.cancelledBy),
              !.passengers  = Column(row.passengers, set.passengers)]

\* A handler has loaded order o, changed its copy into obj and is about to
\* commit it with the events in log.
Stage(w, o, obj, log) ==
  /\ inflight[w] = Idle
  /\ inflight' = [inflight EXCEPT ![w] =
       [kind |-> "update", order |-> o, set |-> Changes(orders[o], obj), log |-> log]]
  /\ UNCHANGED <<orders, events, onDuty, now>>

CommitInsert(w, o) ==
  /\ inflight[w] \in Insert
  /\ o \notin DOMAIN orders
  /\ UniqueIndexHolds(inflight[w].row)
  /\ Write(o, inflight[w].row, {"created"})
  /\ inflight' = [inflight EXCEPT ![w] = Idle]
  /\ UNCHANGED <<onDuty, now>>

\* Mistake: the EXCLUDE constraint is enforced for new orders only.
CommitUpdate_Unchecked(w) ==
  /\ inflight[w] \in Update
  /\ LET u == inflight[w]
     IN  /\ orders' = [orders EXCEPT ![u.order] = Updated(orders[u.order], u.set)]
         /\ events' = events \cup ({u.order} \X u.log)
  /\ inflight' = [inflight EXCEPT ![w] = Idle]
  /\ UNCHANGED <<onDuty, now>>

CommitUpdate(w) ==
  /\ inflight[w] \in Update
  /\ LET u == inflight[w] IN Write(u.order, Updated(orders[u.order], u.set), u.log)
  /\ inflight' = [inflight EXCEPT ![w] = Idle]
  /\ UNCHANGED <<onDuty, now>>

\* The transaction is rolled back: an IntegrityError, a lost connection, or
\* the API process dying.  Nothing of it was visible.
Rollback(w) ==
  /\ inflight[w] # Idle
  /\ inflight' = [inflight EXCEPT ![w] = Idle]
  /\ UNCHANGED <<orders, events, onDuty, now>>

-----------------------------------------------------------------------------
(* Handlers of the employee *)

\* A replay (the key is already there) returns the stored order and writes
\* nothing, so only the other branch is a step.
CreateOrder(w, u, k, d, t, m, n) ==
  /\ inflight[w] = Idle
  /\ ~ \E o \in DOMAIN orders : orders[o].user = u /\ orders[o].key = k
  /\ Bookable(t)
  /\ d = NoDriver \/ d \in onDuty
  /\ inflight' = [inflight EXCEPT ![w] =
       [kind |-> "insert",
        row  |-> [user |-> u, key |-> k, driver |-> d, status |-> "pending_driver",
                  at |-> t, mins |-> m, proposed |-> NoTime,
                  cancelledBy |-> "none", passengers |-> n]]]
  /\ UNCHANGED <<orders, events, onDuty, now>>

UpdateOrder(w, u, o, n) ==
  /\ orders[o].user = u
  /\ orders[o].status \in EDITABLE_STATUSES
  /\ Stage(w, o, [orders[o] EXCEPT !.passengers = n], {})

CancelOrder(w, u, o) ==
  /\ orders[o].user = u
  /\ orders[o].status \in CANCELLABLE_STATUSES
  /\ Stage(w, o, [orders[o] EXCEPT !.status = "cancelled_by_user", !.cancelledBy = "user"],
           {"cancelled_by_user"})

\* Mistake: the proposed time is left on the confirmed order.
CounterAccepted_KeepsProposal(row) ==
  [row EXCEPT !.at = row.proposed, !.status = "confirmed"]

\* Mistake: the order is confirmed at its old time.
CounterAccepted_OldTime(row) ==
  [row EXCEPT !.proposed = NoTime, !.status = "confirmed"]

\* What accepting and declining a proposed time make of the loaded order.
CounterAccepted(row) ==
  [row EXCEPT !.at = row.proposed, !.proposed = NoTime, !.status = "confirmed"]

CounterDeclined(row) ==
  [row EXCEPT !.status = "cancelled_by_user", !.cancelledBy = "user", !.proposed = NoTime]

RespondToCounter(w, u, o) ==
  /\ orders[o].user = u
  /\ orders[o].status = "driver_countered"
  /\ \/ Stage(w, o, CounterAccepted(orders[o]), {"counter_accepted"})
     \/ Stage(w, o, CounterDeclined(orders[o]), {"counter_declined"})

-----------------------------------------------------------------------------
(* Handlers of the administrator *)

AssignOrder(w, o, d) ==
  /\ orders[o].status \in ADMIN_REASSIGNABLE_STATUSES
  /\ Stage(w, o, [orders[o] EXCEPT !.driver = d], {"admin_reassigned"})

AdminCancelOrder(w, o) ==
  /\ orders[o].status \notin TERMINAL_STATUSES
  /\ Stage(w, o, [orders[o] EXCEPT !.status = "cancelled_by_admin", !.cancelledBy = "admin"],
           {"cancelled_by_admin"})

-----------------------------------------------------------------------------
(* Handlers of the driver *)

\* Mistake: the UPDATE names the driver but not the status it starts from.
SwapMatches_AnyStatus(d, o, a) ==
  /\ orders[o].status \in NON_TERMINAL_STATUSES
  /\ orders[o].driver = d \/ (a = "accept" /\ orders[o].driver = NoDriver)

\* Mistake: the UPDATE names the status it starts from but not the driver.
SwapMatches_AnyDriver(d, o, a) == orders[o].status = Transition[a].from

\* The WHERE clause of the compare-and-swap UPDATE.
SwapMatches(d, o, a) ==
  /\ orders[o].status = Transition[a].from
  /\ orders[o].driver = d \/ (a = "accept" /\ orders[o].driver = NoDriver)

\* Mistake: accepting an unassigned order does not take it.
Swapped_Unclaimed(row, d, a, t) ==
  [row EXCEPT !.status      = Transition[a].to,
              !.cancelledBy = IF a = "reject" THEN "driver" ELSE row.cancelledBy,
              !.proposed    = IF a = "propose_time" THEN t ELSE row.proposed]

\* t is the proposed time of propose_time and NoTime otherwise.
Swapped(row, d, a, t) ==
  [row EXCEPT !.status      = Transition[a].to,
              !.driver      = IF a = "accept" THEN d ELSE row.driver,
              !.cancelledBy = IF a = "reject" THEN "driver" ELSE row.cancelledBy,
              !.proposed    = IF a = "propose_time" THEN t ELSE row.proposed]

TransitionOrder(d, o, a, t) ==
  /\ \E w \in Worker : inflight[w] = Idle
  /\ IF a = "propose_time" THEN t \in Time /\ Bookable(t) ELSE t = NoTime
  /\ SwapMatches(d, o, a)
  /\ Write(o, Swapped(orders[o], d, a, t), {Transition[a].log})
  /\ UNCHANGED <<onDuty, now, inflight>>

SetDuty(d) ==
  /\ \E w \in Worker : inflight[w] = Idle
  /\ onDuty' \in {onDuty \cup {d}, onDuty \ {d}}
  /\ UNCHANGED <<orders, events, now, inflight>>

-----------------------------------------------------------------------------

Tick ==
  /\ now < MaxNow
  /\ now' = now + 1
  /\ UNCHANGED <<orders, events, onDuty, inflight>>

EmployeeStep ==
  \E w \in Worker, u \in User :
    \/ \E k \in Key, d \in Driver \cup {NoDriver}, t \in Time, m \in Duration, n \in Passengers :
         CreateOrder(w, u, k, d, t, m, n)
    \/ \E o \in DOMAIN orders :
         \/ \E n \in Passengers : UpdateOrder(w, u, o, n)
         \/ CancelOrder(w, u, o)
         \/ RespondToCounter(w, u, o)

AdminStep ==
  \E w \in Worker, o \in DOMAIN orders :
    \/ \E d \in Driver \cup {NoDriver} : AssignOrder(w, o, d)
    \/ AdminCancelOrder(w, o)

DriverStep ==
  \E d \in Driver :
    \/ \E o \in DOMAIN orders, a \in DOMAIN Transition, t \in Time \cup {NoTime} :
         TransitionOrder(d, o, a, t)
    \/ SetDuty(d)

RequestEnd ==
  \E w \in Worker :
    \/ \E o \in OrderId : CommitInsert(w, o)
    \/ CommitUpdate(w)
    \/ Rollback(w)

Next == EmployeeStep \/ AdminStep \/ DriverStep \/ RequestEnd \/ Tick

Spec == Init /\ [][Next]_vars

-----------------------------------------------------------------------------
(* What holds however requests interleave *)

\* A driver is never booked for two live orders whose rides, each followed by
\* the buffer, overlap: every path that makes a row live, gives it a driver or
\* moves it in time goes through the EXCLUDE constraint, a stale write that
\* brings a cancelled order back included.
NoDoubleBooking ==
  \A o, p \in DOMAIN orders :
    /\ o # p
    /\ orders[o].status \notin TERMINAL_STATUSES
    /\ orders[p].status \notin TERMINAL_STATUSES
    /\ orders[o].driver = orders[p].driver
    /\ orders[o].driver \in Driver
    => \/ orders[o].at + orders[o].mins + Buffer <= orders[p].at
       \/ orders[p].at + orders[p].mins + Buffer <= orders[o].at

\* Two taps on "order" with one idempotency key book one ride, although both
\* requests may pass create_order's lookup before either has committed.
OneOrderPerKey ==
  \A o, p \in DOMAIN orders :
    orders[o].user = orders[p].user /\ orders[o].key = orders[p].key => o = p

\* A live order carries a proposed time exactly while its owner is being asked
\* about it; respond_to_counter reads that column to reschedule the ride, so a
\* NULL there would break the reply, and a leftover would be answered twice.
ProposalIffCountered ==
  \A o \in DOMAIN orders :
    orders[o].status \notin TERMINAL_STATUSES =>
      (orders[o].proposed # NoTime <=> orders[o].status = "driver_countered")

\* What a stale copy may do to the status: nothing, close the order, or confirm
\* it and clear the proposal with the same UPDATE.
StagedWrites ==
  \A w \in Worker :
    inflight[w] \in Update =>
      LET set == inflight[w].set
      IN  \/ set.status = Keep /\ set.proposed = Keep
          \/ set.status \in TERMINAL_STATUSES
          \/ set.status = "confirmed" /\ set.proposed = NoTime

\* New orders start out unanswered.
StagedInserts ==
  \A w \in Worker :
    inflight[w] \in Insert =>
      inflight[w].row.status = "pending_driver" /\ inflight[w].row.proposed = NoTime

\* The inductive invariant: the reply to a proposal is well typed only because
\* every countered order has a proposal, and that is kept by every write in
\* flight because of what handlers put into their copies.
OrdersInv == TypeOK /\ ProposalIffCountered /\ StagedWrites /\ StagedInserts

\* The audit trail has the whole history of an order, whatever stale writes hit its
\* row: the event that gave it its last status and, if the ride has finished, that
\* somebody agreed to it (driver or, after a counter-proposal, owner) and that the
\* driver departed, arrived and started.
HistoryComplete ==
  \A o \in DOMAIN orders :
    LET logged(e) == <<o, e>> \in events
        status == orders[o].status
    IN  /\ logged("created")
        /\ status = "completed" => logged("status_complete")
        /\ status = "cancelled_by_driver" => logged("status_reject")
        /\ status = "cancelled_by_admin" => logged("cancelled_by_admin")
        /\ status = "cancelled_by_user" =>
             logged("cancelled_by_user") \/ logged("counter_declined")
        /\ logged("status_complete") =>
             /\ logged("status_accept") \/ logged("counter_accepted")
             /\ logged("status_depart") /\ logged("status_arrive") /\ logged("status_start")

\* The step commits a reassignment of order o by an administrator.
Reassigns(o) ==
  \E w \in Worker :
    /\ CommitUpdate(w)
    /\ inflight[w].order = o /\ "admin_reassigned" \in inflight[w].log

\* An order is taken once (transition_order: of concurrent accepts "at most one of
\* them ever affects a row").  Once it left pending_driver it is never offered again,
\* whatever stale copies are committed; and no driver takes it from another: it
\* changes hands when it is accepted while it is pending and nobody's, and when a
\* reassignment is committed.
TakenOnce ==
  [][\A o \in DOMAIN orders :
       /\ orders[o].status # "pending_driver" => orders'[o].status # "pending_driver"
       /\ orders'[o].driver # orders[o].driver =>
            \/ /\ orders[o].status = "pending_driver" /\ orders[o].driver = NoDriver
               /\ orders'[o].status = "confirmed"
            \/ Reassigns(o)]_vars

\* An order somebody agreed to drive has a driver, unless an administrator took
\* the driver off it (assign with driver_id null keeps the status).
AgreedRideHasDriver ==
  \A o \in DOMAIN orders :
    orders[o].status \in NON_TERMINAL_STATUSES \ {"draft", "pending_driver"} =>
      orders[o].driver # NoDriver \/ <<o, "admin_reassigned">> \in events

-----------------------------------------------------------------------------
(* What the handlers' guards are for: each holds when requests run one after  *)
(* the other                                                                  *)

\* A step keeps the status of finished and cancelled orders.
KeepsTerminal ==
  \A o \in DOMAIN orders :
    orders[o].status \in TERMINAL_STATUSES => orders'[o].status = orders[o].status

\* A finished or cancelled order keeps its status (admin_api.py answers 409
\* "Order is already in a terminal state").
TerminalIsFinal == [][KeepsTerminal]_vars

=============================================================================
