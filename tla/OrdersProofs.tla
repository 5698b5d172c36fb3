---------------------------- MODULE OrdersProofs ----------------------------
(***************************************************************************)
(* Orders for every number of orders, drivers, users and requests in       *)
(* flight: rows keep their types, no driver is booked twice, the table     *)
(* implements the calendars of the drivers, and an order lives the life    *)
(* the documents give it as long as requests are served one after the      *)
(* other.  And the screens: what the driver and the owner tap does what    *)
(* the screen said, however old it is, or nothing.                         *)
(***************************************************************************)
EXTENDS MCOrders, Desk, TLAPS

-----------------------------------------------------------------------------
(* The helpers the actions are built from *)

\* The row an UPDATE leaves is a row.
LEMMA UpdatedType ==
  ASSUME NEW row \in Row, NEW set \in Dirty
  PROVE  Updated(row, set) \in Row
<1>1. /\ Column(row.driver, set.driver) \in Driver \cup {NoDriver}
      /\ Column(row.status, set.status) \in Status
      /\ Column(row.at, set.at) \in Time
      /\ Column(row.proposed, set.proposed) \in Time \cup {NoTime}
      /\ Column(row.cancelledBy, set.cancelledBy) \in CancelledBy
      /\ Column(row.passengers, set.passengers) \in Passengers
  BY DEF Column, Row, Dirty
<1> QED
  BY <1>1 DEF Updated, Row

\* The changes between two rows are columns of an UPDATE.
LEMMA ChangesType ==
  ASSUME NEW copy \in Row, NEW obj \in Row
  PROVE  Changes(copy, obj) \in Dirty
BY DEF Changes, Diff, Row, Dirty

\* The row a driver's transition leaves is a row.
LEMMA SwappedType ==
  ASSUME NEW row \in Row, NEW d \in Driver, NEW a \in DOMAIN Transition,
         NEW t \in Time \cup {NoTime}
  PROVE  Swapped(row, d, a, t) \in Row
<1>1. Transition[a].to \in Status
  BY DEF Transition, Status, NON_TERMINAL_STATUSES, TERMINAL_STATUSES
<1> QED
  BY <1>1 DEF Swapped, Row, CancelledBy

\* What one write does to the two tables.
LEMMA WriteType ==
  ASSUME TypeOK, NEW o \in OrderId, NEW row \in Row, NEW log \in SUBSET EventType,
         Write(o, row, log)
  PROVE  /\ DOMAIN orders' = DOMAIN orders \cup {o}
         /\ DOMAIN orders' \subseteq OrderId
         /\ orders' \in [DOMAIN orders' -> Row]
         /\ orders'[o] = row
         /\ \A p \in DOMAIN orders : p # o => orders'[p] = orders[p]
         /\ events' \subseteq (DOMAIN orders') \X EventType
BY DEF Write, TypeOK

-----------------------------------------------------------------------------
(* The inductive invariant OrdersInv *)

\* What staging a changed copy establishes for the worker that staged it.
LEMMA StageInv ==
  ASSUME OrdersInv, NEW w \in Worker, NEW o \in DOMAIN orders,
         NEW obj \in Row, NEW log \in SUBSET EventType,
         Stage(w, o, obj, log),
         \/ obj.status = orders[o].status /\ obj.proposed = orders[o].proposed
         \/ obj.status \in TERMINAL_STATUSES /\ orders[o].status \notin TERMINAL_STATUSES
         \/ /\ obj.status = "confirmed" /\ orders[o].status = "driver_countered"
            /\ obj.proposed = NoTime
  PROVE  OrdersInv'
<1> USE DEF OrdersInv
<1> DEFINE set == Changes(orders[o], obj)
           u   == [kind |-> "update", order |-> o, set |-> set, log |-> log]
<1>1. orders[o] \in Row /\ set \in Dirty
  BY ChangesType DEF TypeOK
<1>2. u \in Update /\ u \notin Insert
  BY <1>1 DEF Update, Insert, TypeOK
<1>3. inflight' = [inflight EXCEPT ![w] = u]
  BY DEF Stage
<1>4. UNCHANGED <<orders, events, onDuty, now>>
  BY DEF Stage
<1>5. TypeOK'
  BY <1>2, <1>3, <1>4 DEF TypeOK
<1>6. ProposalIffCountered'
  BY <1>4 DEF ProposalIffCountered
<1>7. StagedInserts'
  BY <1>2, <1>3 DEF StagedInserts, TypeOK
<1>8. \/ set.status = Keep /\ set.proposed = Keep
      \/ set.status \in TERMINAL_STATUSES
      \/ set.status = "confirmed" /\ set.proposed = NoTime
  <2>1. set.status = Diff(orders[o].status, obj.status)
        /\ set.proposed = Diff(orders[o].proposed, obj.proposed)
    BY DEF Changes
  <2>2. orders[o].status = "driver_countered" => orders[o].proposed # NoTime
    BY DEF ProposalIffCountered, TERMINAL_STATUSES
  <2> QED
    BY <2>1, <2>2 DEF Diff
<1>9. StagedWrites'
  BY <1>3, <1>8 DEF StagedWrites, TypeOK
<1> QED
  BY <1>5, <1>6, <1>7, <1>9

\* What a write of a consistent row does to the invariant, whoever makes it:
\* the other rows and the requests in flight do not matter.
LEMMA WriteInv ==
  ASSUME OrdersInv, NEW o \in OrderId, NEW row \in Row, NEW log \in SUBSET EventType,
         Write(o, row, log), UNCHANGED <<onDuty, now>>,
         \/ UNCHANGED inflight
         \/ \E w \in Worker : inflight' = [inflight EXCEPT ![w] = Idle],
         row.status \notin TERMINAL_STATUSES =>
           (row.proposed # NoTime <=> row.status = "driver_countered")
  PROVE  OrdersInv'
<1> USE DEF OrdersInv
<1>1. /\ DOMAIN orders' = DOMAIN orders \cup {o}
      /\ DOMAIN orders' \subseteq OrderId
      /\ orders' \in [DOMAIN orders' -> Row]
      /\ orders'[o] = row
      /\ \A p \in DOMAIN orders : p # o => orders'[p] = orders[p]
      /\ events' \subseteq (DOMAIN orders') \X EventType
  BY WriteType
<1>2. \A v \in Worker : inflight'[v] = inflight[v] \/ inflight'[v] = Idle
  BY DEF TypeOK
<1>3. inflight' \in [Worker -> Insert \cup Update \cup {Idle}]
  BY DEF TypeOK
<1>4. \A v \in Worker : inflight'[v] \in Update => inflight'[v] = inflight[v]
  BY <1>2, NullsAssumption
<1>5. \A v \in Worker : inflight'[v] \in Insert => inflight'[v] = inflight[v]
  BY <1>2, NullsAssumption
<1>6. TypeOK'
  BY <1>1, <1>3, <1>4 DEF TypeOK
<1>7. ProposalIffCountered'
  BY <1>1 DEF ProposalIffCountered
<1>8. StagedWrites'
  BY <1>4 DEF StagedWrites
<1>9. StagedInserts'
  BY <1>5 DEF StagedInserts
<1> QED
  BY <1>6, <1>7, <1>8, <1>9

LEMMA InitInv == Init => OrdersInv
BY NullsAssumption, TimesAssumption
DEF Init, OrdersInv, TypeOK, ProposalIffCountered, StagedWrites, StagedInserts

LEMMA EmployeeStepInv == OrdersInv /\ EmployeeStep => OrdersInv'
<1> SUFFICES ASSUME OrdersInv, EmployeeStep PROVE OrdersInv'
  OBVIOUS
<1> USE DEF OrdersInv
<1> PICK w \in Worker, u \in User :
      \/ \E k \in Key, d \in Driver \cup {NoDriver}, t \in Time, m \in Duration, n \in Passengers :
           CreateOrder(w, u, k, d, t, m, n)
      \/ \E o \in DOMAIN orders :
           \/ \E n \in Passengers : UpdateOrder(w, u, o, n)
           \/ CancelOrder(w, u, o)
           \/ RespondToCounter(w, u, o)
  BY DEF EmployeeStep
<1>1. ASSUME NEW k \in Key, NEW d \in Driver \cup {NoDriver}, NEW t \in Time,
             NEW m \in Duration, NEW n \in Passengers, CreateOrder(w, u, k, d, t, m, n)
      PROVE  OrdersInv'
  <2> DEFINE row == [user |-> u, key |-> k, driver |-> d, status |-> "pending_driver",
                     at |-> t, mins |-> m, proposed |-> NoTime,
                     cancelledBy |-> "none", passengers |-> n]
             new == [kind |-> "insert", row |-> row]
  <2>1. row \in Row
    BY DEF Row, Status, NON_TERMINAL_STATUSES, CancelledBy
  <2>2. new \in Insert /\ new \notin Update
    BY <2>1 DEF Insert, Update
  <2>3. inflight' = [inflight EXCEPT ![w] = new] /\ UNCHANGED <<orders, events, onDuty, now>>
    BY <1>1 DEF CreateOrder
  <2>4. TypeOK'
    BY <2>2, <2>3 DEF TypeOK
  <2>5. ProposalIffCountered'
    BY <2>3 DEF ProposalIffCountered
  <2>6. StagedWrites' /\ StagedInserts'
    BY <2>2, <2>3 DEF StagedWrites, StagedInserts, TypeOK
  <2> QED
    BY <2>4, <2>5, <2>6
<1>2. ASSUME NEW o \in DOMAIN orders, NEW n \in Passengers, UpdateOrder(w, u, o, n)
      PROVE  OrdersInv'
  <2> DEFINE obj == [orders[o] EXCEPT !.passengers = n]
  <2>1. /\ obj \in Row
        /\ obj.status = orders[o].status /\ obj.proposed = orders[o].proposed
    BY DEF Row, TypeOK
  <2>2. {} \in SUBSET EventType
    OBVIOUS
  <2>3. Stage(w, o, obj, {})
    BY <1>2 DEF UpdateOrder
  <2> HIDE DEF obj, OrdersInv
  <2> QED
    BY <2>1, <2>2, <2>3, StageInv
<1>3. ASSUME NEW o \in DOMAIN orders, CancelOrder(w, u, o)
      PROVE  OrdersInv'
  <2> DEFINE obj == [orders[o] EXCEPT !.status = "cancelled_by_user", !.cancelledBy = "user"]
  <2>1. /\ obj \in Row
        /\ obj.status \in TERMINAL_STATUSES /\ orders[o].status \notin TERMINAL_STATUSES
    BY <1>3 DEF Row, TypeOK, CancelOrder, CANCELLABLE_STATUSES, Status, CancelledBy,
                TERMINAL_STATUSES
  <2>2. {"cancelled_by_user"} \in SUBSET EventType
    BY DEF EventType
  <2> QED
    BY <1>3, <2>1, <2>2, StageInv DEF CancelOrder
<1>4. ASSUME NEW o \in DOMAIN orders, RespondToCounter(w, u, o)
      PROVE  OrdersInv'
  <2>1. /\ orders[o] \in Row
        /\ orders[o].status = "driver_countered"
        /\ orders[o].proposed \in Time
    BY <1>4 DEF RespondToCounter, TypeOK, ProposalIffCountered, TERMINAL_STATUSES, Row
  <2>2. /\ CounterAccepted(orders[o]) \in Row
        /\ CounterAccepted(orders[o]).status = "confirmed"
        /\ CounterAccepted(orders[o]).proposed = NoTime
    BY <2>1 DEF CounterAccepted, Row, Status, NON_TERMINAL_STATUSES
  <2>3. /\ CounterDeclined(orders[o]) \in Row
        /\ CounterDeclined(orders[o]).status \in TERMINAL_STATUSES
    BY <2>1 DEF CounterDeclined, Row, Status, CancelledBy, TERMINAL_STATUSES
  <2>4. orders[o].status \notin TERMINAL_STATUSES
    BY <2>1 DEF TERMINAL_STATUSES
  <2>5. {"counter_accepted"} \in SUBSET EventType /\ {"counter_declined"} \in SUBSET EventType
    BY DEF EventType
  <2>6. CASE Stage(w, o, CounterAccepted(orders[o]), {"counter_accepted"})
    BY <2>1, <2>2, <2>5, <2>6, StageInv
  <2>7. CASE Stage(w, o, CounterDeclined(orders[o]), {"counter_declined"})
    BY <2>3, <2>4, <2>5, <2>7, StageInv
  <2> QED
    BY <1>4, <2>6, <2>7 DEF RespondToCounter
<1> QED
  BY <1>1, <1>2, <1>3, <1>4

LEMMA AdminStepInv == OrdersInv /\ AdminStep => OrdersInv'
<1> SUFFICES ASSUME OrdersInv, AdminStep PROVE OrdersInv'
  OBVIOUS
<1> USE DEF OrdersInv
<1> PICK w \in Worker, o \in DOMAIN orders :
      \/ \E d \in Driver \cup {NoDriver} : AssignOrder(w, o, d)
      \/ AdminCancelOrder(w, o)
  BY DEF AdminStep
<1>1. ASSUME NEW d \in Driver \cup {NoDriver}, AssignOrder(w, o, d)
      PROVE  OrdersInv'
  <2> DEFINE obj == [orders[o] EXCEPT !.driver = d]
  <2>1. /\ obj \in Row
        /\ obj.status = orders[o].status /\ obj.proposed = orders[o].proposed
    BY DEF Row, TypeOK
  <2>2. {"admin_reassigned"} \in SUBSET EventType
    BY DEF EventType
  <2> QED
    BY <1>1, <2>1, <2>2, StageInv DEF AssignOrder
<1>2. ASSUME AdminCancelOrder(w, o)
      PROVE  OrdersInv'
  <2> DEFINE obj == [orders[o] EXCEPT !.status = "cancelled_by_admin", !.cancelledBy = "admin"]
  <2>1. /\ obj \in Row
        /\ obj.status \in TERMINAL_STATUSES /\ orders[o].status \notin TERMINAL_STATUSES
    BY <1>2 DEF Row, TypeOK, AdminCancelOrder, Status, CancelledBy, TERMINAL_STATUSES
  <2>2. {"cancelled_by_admin"} \in SUBSET EventType
    BY DEF EventType
  <2> QED
    BY <1>2, <2>1, <2>2, StageInv DEF AdminCancelOrder
<1> QED
  BY <1>1, <1>2

LEMMA DriverStepInv == OrdersInv /\ DriverStep => OrdersInv'
<1> SUFFICES ASSUME OrdersInv, DriverStep PROVE OrdersInv'
  OBVIOUS
<1> USE DEF OrdersInv
<1> PICK d \in Driver :
      \/ \E o \in DOMAIN orders, a \in DOMAIN Transition, t \in Time \cup {NoTime} :
           TransitionOrder(d, o, a, t)
      \/ SetDuty(d)
  BY DEF DriverStep
<1>1. ASSUME NEW o \in DOMAIN orders, NEW a \in DOMAIN Transition,
             NEW t \in Time \cup {NoTime}, TransitionOrder(d, o, a, t)
      PROVE  OrdersInv'
  <2> DEFINE row == Swapped(orders[o], d, a, t)
  <2>1. orders[o] \in Row /\ o \in OrderId
    BY DEF TypeOK
  <2>2. row \in Row
    BY <2>1, SwappedType
  <2>3. Write(o, row, {Transition[a].log}) /\ UNCHANGED <<onDuty, now, inflight>>
    BY <1>1 DEF TransitionOrder
  <2>4. {Transition[a].log} \in SUBSET EventType
    BY DEF Transition, EventType
  <2>5. /\ row.status = Transition[a].to
        /\ row.proposed = IF a = "propose_time" THEN t ELSE orders[o].proposed
        /\ orders[o].status = Transition[a].from
        /\ a = "propose_time" => t # NoTime
    BY <1>1, <2>1, NullsAssumption DEF TransitionOrder, SwapMatches, Swapped, Row
  <2>6. CASE a = "propose_time"
    BY <2>1, <2>2, <2>3, <2>4, <2>5, <2>6, WriteInv DEF Transition
  <2>7. CASE a # "propose_time"
    <3>1. orders[o].status \notin TERMINAL_STATUSES /\ orders[o].status # "driver_countered"
      BY <2>5 DEF Transition, TERMINAL_STATUSES
    <3>2. orders[o].proposed = NoTime
      BY <3>1 DEF ProposalIffCountered
    <3>3. row.status # "driver_countered" /\ row.proposed = NoTime
      BY <2>5, <2>7, <3>2 DEF Transition
    <3> QED
      BY <2>1, <2>2, <2>3, <2>4, <3>3, WriteInv
  <2> QED
    BY <2>6, <2>7
<1>2. ASSUME SetDuty(d)
      PROVE  OrdersInv'
  BY <1>2 DEF SetDuty, TypeOK, ProposalIffCountered, StagedWrites, StagedInserts
<1> QED
  BY <1>1, <1>2

LEMMA RequestEndInv == OrdersInv /\ RequestEnd => OrdersInv'
<1> SUFFICES ASSUME OrdersInv, RequestEnd PROVE OrdersInv'
  OBVIOUS
<1> USE DEF OrdersInv
<1> PICK w \in Worker :
      (\E o \in OrderId : CommitInsert(w, o)) \/ CommitUpdate(w) \/ Rollback(w)
  BY DEF RequestEnd
<1>1. ASSUME NEW o \in OrderId, CommitInsert(w, o)
      PROVE  OrdersInv'
  <2> DEFINE row == inflight[w].row
  <2>1. /\ inflight[w] \in Insert
        /\ Write(o, row, {"created"})
        /\ inflight' = [inflight EXCEPT ![w] = Idle]
        /\ UNCHANGED <<onDuty, now>>
    BY <1>1 DEF CommitInsert
  <2>2. row \in Row /\ row.proposed = NoTime /\ row.status # "driver_countered"
    BY <2>1 DEF Insert, StagedInserts
  <2>3. {"created"} \in SUBSET EventType
    BY DEF EventType
  <2> QED
    BY <2>1, <2>2, <2>3, WriteInv
<1>2. ASSUME CommitUpdate(w)
      PROVE  OrdersInv'
  <2> DEFINE o   == inflight[w].order
             old == orders[o]
             set == inflight[w].set
             row == Updated(old, set)
  <2>1. /\ inflight[w] \in Update
        /\ Write(o, row, inflight[w].log)
        /\ inflight' = [inflight EXCEPT ![w] = Idle]
        /\ UNCHANGED <<onDuty, now>>
    BY <1>2 DEF CommitUpdate
  <2>2. /\ o \in DOMAIN orders /\ o \in OrderId /\ old \in Row
        /\ set \in Dirty /\ inflight[w].log \in SUBSET EventType
    BY <2>1 DEF TypeOK, Update
  <2>3. row \in Row
    BY <2>2, UpdatedType
  <2>4. row.status = Column(old.status, set.status)
        /\ row.proposed = Column(old.proposed, set.proposed)
    BY <2>2 DEF Updated, Row
  <2>5. row.status \notin TERMINAL_STATUSES =>
          (row.proposed # NoTime <=> row.status = "driver_countered")
    <3>1. CASE set.status = Keep /\ set.proposed = Keep
      BY <2>2, <2>4, <3>1 DEF Column, ProposalIffCountered
    <3>2. CASE set.status \in TERMINAL_STATUSES
      <4>1. set.status # Keep
        BY <3>2, NullsAssumption DEF Status
      <4> QED
        BY <2>4, <3>2, <4>1 DEF Column
    <3>3. CASE set.status = "confirmed" /\ set.proposed = NoTime
      <4>1. set.status # Keep /\ set.proposed # Keep
        BY <3>3, NullsAssumption DEF Status, NON_TERMINAL_STATUSES
      <4> QED
        BY <2>4, <3>3, <4>1 DEF Column
    <3> QED
      BY <2>1, <3>1, <3>2, <3>3 DEF StagedWrites
  <2> QED
    BY <2>1, <2>2, <2>3, <2>5, WriteInv
<1>3. ASSUME Rollback(w)
      PROVE  OrdersInv'
  <2>1. \A v \in Worker : inflight'[v] = inflight[v] \/ inflight'[v] = Idle
    BY <1>3 DEF Rollback, TypeOK
  <2>2. \A v \in Worker : inflight'[v] \in Update \cup Insert => inflight'[v] = inflight[v]
    BY <2>1, NullsAssumption
  <2>3. inflight' \in [Worker -> Insert \cup Update \cup {Idle}]
    BY <1>3 DEF Rollback, TypeOK
  <2> QED
    BY <1>3, <2>2, <2>3
    DEF Rollback, TypeOK, ProposalIffCountered, StagedWrites, StagedInserts
<1> QED
  BY <1>1, <1>2, <1>3

LEMMA NextInv == OrdersInv /\ [Next]_vars => OrdersInv'
<1> SUFFICES ASSUME OrdersInv, [Next]_vars PROVE OrdersInv'
  OBVIOUS
<1>1. CASE Tick
  BY <1>1, TimesAssumption
  DEF Tick, OrdersInv, TypeOK, ProposalIffCountered, StagedWrites, StagedInserts
<1>2. CASE UNCHANGED vars
  BY <1>2 DEF vars, OrdersInv, TypeOK, ProposalIffCountered, StagedWrites, StagedInserts
<1> QED
  BY <1>1, <1>2, EmployeeStepInv, AdminStepInv, DriverStepInv, RequestEndInv DEF Next

\* The inductive invariant holds in every reachable state of order table and
\* requests in flight.
THEOREM InvariantHolds == Spec => []OrdersInv
BY InitInv, NextInv, PTL DEF Spec

\* Every row, audit event and write in flight has its type, so no handler ever
\* commits a row the schema would refuse.
THEOREM TypeCorrect == Spec => []TypeOK
BY InvariantHolds, PTL DEF OrdersInv

\* However replies, cancellations, edits and reassignments race, a live order
\* has a proposed time exactly while its owner's answer is awaited.
THEOREM ProposalsMatchStatus == Spec => []ProposalIffCountered
BY InvariantHolds, PTL DEF OrdersInv

-----------------------------------------------------------------------------
(* The writes a step can make *)

\* Every step either leaves both tables alone or is one write: a new order
\* that passed the unique index, or a new version of an order that keeps its
\* owner, key and duration and does not return to pending_driver.
LEMMA OneWrite ==
  ASSUME OrdersInv, [Next]_vars
  PROVE  \/ UNCHANGED <<orders, events>>
         \/ \E o \in OrderId, row \in Row, log \in SUBSET EventType :
              /\ Write(o, row, log)
              /\ \/ o \notin DOMAIN orders /\ UniqueIndexHolds(row)
                 \/ /\ o \in DOMAIN orders
                    /\ row.user = orders[o].user /\ row.key = orders[o].key
                    /\ row.mins = orders[o].mins
                    /\ orders[o].status # "pending_driver" => row.status # "pending_driver"
<1> USE DEF OrdersInv
<1>0. ASSUME NEW w, NEW o, NEW obj, NEW log, Stage(w, o, obj, log)
      PROVE  UNCHANGED <<orders, events>>
  BY <1>0 DEF Stage
<1>1. CASE EmployeeStep
  <2>1. ASSUME NEW w, NEW u, NEW k, NEW d, NEW t, NEW m, NEW n, CreateOrder(w, u, k, d, t, m, n)
        PROVE  UNCHANGED <<orders, events>>
    BY <2>1 DEF CreateOrder
  <2>2. ASSUME NEW w, NEW u, NEW o, NEW n,
               UpdateOrder(w, u, o, n) \/ CancelOrder(w, u, o) \/ RespondToCounter(w, u, o)
        PROVE  UNCHANGED <<orders, events>>
    BY <1>0, <2>2 DEF UpdateOrder, CancelOrder, RespondToCounter
  <2> QED
    BY <1>1, <2>1, <2>2 DEF EmployeeStep
<1>2. CASE AdminStep
  BY <1>0, <1>2 DEF AdminStep, AssignOrder, AdminCancelOrder
<1>3. CASE Tick \/ UNCHANGED vars
  BY <1>3 DEF Tick, vars
<1>4. CASE DriverStep
  <2>1. CASE \E d \in Driver : SetDuty(d)
    BY <2>1 DEF SetDuty
  <2>2. CASE \E d \in Driver, o \in DOMAIN orders, a \in DOMAIN Transition,
                t \in Time \cup {NoTime} : TransitionOrder(d, o, a, t)
    <3> PICK d \in Driver, o \in DOMAIN orders, a \in DOMAIN Transition,
             t \in Time \cup {NoTime} : TransitionOrder(d, o, a, t)
      BY <2>2
    <3> DEFINE row == Swapped(orders[o], d, a, t)
    <3>1. o \in OrderId /\ orders[o] \in Row
      BY DEF TypeOK
    <3>2. row \in Row
      BY <3>1, SwappedType
    <3>3. /\ row.user = orders[o].user /\ row.key = orders[o].key
          /\ row.mins = orders[o].mins /\ row.status = Transition[a].to
      BY <3>1 DEF Swapped, Row
    <3>4. row.status # "pending_driver"
      BY <3>3 DEF Transition
    <3>5. Write(o, row, {Transition[a].log}) /\ {Transition[a].log} \in SUBSET EventType
      BY DEF TransitionOrder, Transition, EventType
    <3> QED
      BY <3>1, <3>2, <3>3, <3>4, <3>5
  <2> QED
    BY <1>4, <2>1, <2>2 DEF DriverStep
<1>5. CASE RequestEnd
  <2> PICK w \in Worker :
        (\E o \in OrderId : CommitInsert(w, o)) \/ CommitUpdate(w) \/ Rollback(w)
    BY <1>5 DEF RequestEnd
  <2>1. CASE \E o \in OrderId : CommitInsert(w, o)
    <3> PICK o \in OrderId : CommitInsert(w, o)
      BY <2>1
    <3>1. /\ inflight[w].row \in Row /\ o \notin DOMAIN orders
          /\ UniqueIndexHolds(inflight[w].row)
          /\ Write(o, inflight[w].row, {"created"})
      BY DEF CommitInsert, Insert
    <3>2. {"created"} \in SUBSET EventType
      BY DEF EventType
    <3> QED
      BY <3>1, <3>2
  <2>2. CASE CommitUpdate(w)
    <3> DEFINE o   == inflight[w].order
               set == inflight[w].set
               row == Updated(orders[o], set)
    <3>1. inflight[w] \in Update /\ Write(o, row, inflight[w].log)
      BY <2>2 DEF CommitUpdate
    <3>2. /\ o \in DOMAIN orders /\ o \in OrderId /\ orders[o] \in Row
          /\ set \in Dirty /\ inflight[w].log \in SUBSET EventType
      BY <3>1 DEF TypeOK, Update
    <3>3. row \in Row
      BY <3>2, UpdatedType
    <3>4. /\ row.user = orders[o].user /\ row.key = orders[o].key
          /\ row.mins = orders[o].mins
          /\ row.status = Column(orders[o].status, set.status)
      BY <3>2 DEF Updated, Row
    <3>5. set.status = Keep \/ set.status \in TERMINAL_STATUSES \/ set.status = "confirmed"
      BY <3>1 DEF StagedWrites
    <3>6. orders[o].status # "pending_driver" => row.status # "pending_driver"
      BY <3>4, <3>5 DEF Column, TERMINAL_STATUSES
    <3> QED
      BY <3>1, <3>2, <3>3, <3>4, <3>6
  <2>3. CASE Rollback(w)
    BY <2>3 DEF Rollback
  <2> QED
    BY <2>1, <2>2, <2>3
<1> QED
  BY <1>1, <1>2, <1>3, <1>4, <1>5 DEF Next

-----------------------------------------------------------------------------
(* Safety *)

\* The EXCLUDE constraint, the WHERE clause it is limited to and the paths
\* that write a row together rule out a double booking.
THEOREM NeverDoubleBooked == Spec => []NoDoubleBooking
<1>1. Init => NoDoubleBooking
  BY DEF Init, NoDoubleBooking
<1>2. OrdersInv /\ NoDoubleBooking /\ [Next]_vars => NoDoubleBooking'
  <2> SUFFICES ASSUME OrdersInv, NoDoubleBooking, [Next]_vars PROVE NoDoubleBooking'
    OBVIOUS
  <2> USE DEF OrdersInv
  <2>1. CASE UNCHANGED <<orders, events>>
    BY <2>1 DEF NoDoubleBooking
  <2>2. ASSUME NEW o \in OrderId, NEW row \in Row, NEW log \in SUBSET EventType,
               Write(o, row, log)
        PROVE  NoDoubleBooking'
    <3>1. /\ DOMAIN orders' = DOMAIN orders \cup {o}
          /\ orders'[o] = row
          /\ \A p \in DOMAIN orders : p # o => orders'[p] = orders[p]
      BY <2>2, WriteType
    <3>2. ExclusionHolds(o, row)
      BY <2>2 DEF Write
    <3> SUFFICES ASSUME NEW p \in DOMAIN orders, p # o,
                        row.status \notin TERMINAL_STATUSES,
                        orders[p].status \notin TERMINAL_STATUSES,
                        row.driver = orders[p].driver, row.driver \in Driver
                 PROVE  \/ row.at + row.mins + Buffer <= orders[p].at
                        \/ orders[p].at + orders[p].mins + Buffer <= row.at
      BY <3>1 DEF NoDoubleBooking
    <3>3. ~ Overlaps(orders[p], row)
      BY <3>2, NullsAssumption DEF ExclusionHolds, HoldsSlot
    <3>4. row.at \in Nat /\ row.mins \in Nat /\ orders[p].at \in Nat /\ orders[p].mins \in Nat
      BY TimesAssumption DEF TypeOK, Row
    <3> QED
      BY <3>3, <3>4, TimesAssumption DEF Overlaps
  <2> QED
    BY <2>1, <2>2, OneWrite
<1> QED
  BY <1>1, <1>2, InvariantHolds, PTL DEF Spec

\* The unique index settles what create_order's lookup leaves open: two
\* requests with one key never book two rides.
THEOREM NeverOrderedTwice == Spec => []OneOrderPerKey
<1>1. Init => OneOrderPerKey
  BY DEF Init, OneOrderPerKey
<1>2. OrdersInv /\ OneOrderPerKey /\ [Next]_vars => OneOrderPerKey'
  <2> SUFFICES ASSUME OrdersInv, OneOrderPerKey, [Next]_vars PROVE OneOrderPerKey'
    OBVIOUS
  <2> USE DEF OrdersInv
  <2>1. CASE UNCHANGED <<orders, events>>
    BY <2>1 DEF OneOrderPerKey
  <2>2. ASSUME NEW o \in OrderId, NEW row \in Row, NEW log \in SUBSET EventType,
               Write(o, row, log),
               \/ o \notin DOMAIN orders /\ UniqueIndexHolds(row)
               \/ /\ o \in DOMAIN orders
                  /\ row.user = orders[o].user /\ row.key = orders[o].key
        PROVE  OneOrderPerKey'
    <3>1. /\ DOMAIN orders' = DOMAIN orders \cup {o}
          /\ orders'[o] = row
          /\ \A p \in DOMAIN orders : p # o => orders'[p] = orders[p]
      BY <2>2, WriteType
    <3> QED
      BY <2>2, <3>1 DEF OneOrderPerKey, UniqueIndexHolds
  <2> QED
    BY <2>1, <2>2, OneWrite
<1> QED
  BY <1>1, <1>2, InvariantHolds, PTL DEF Spec

-----------------------------------------------------------------------------
(* The history of an order *)

Log(o) == {e \in EventType : <<o, e>> \in events}

Agreed(log) == "status_accept" \in log \/ "counter_accepted" \in log

\* A log explains a status, and each step of a ride the one before it.
Explains(log, status) ==
  /\ "created" \in log
  /\ status = "confirmed" => Agreed(log)
  /\ status = "driver_en_route" => "status_depart" \in log
  /\ status = "driver_arrived" => "status_arrive" \in log
  /\ status = "in_progress" => "status_start" \in log
  /\ status = "completed" => "status_complete" \in log
  /\ status = "cancelled_by_driver" => "status_reject" \in log
  /\ status = "cancelled_by_admin" => "cancelled_by_admin" \in log
  /\ status = "cancelled_by_user" =>
       "cancelled_by_user" \in log \/ "counter_declined" \in log
  /\ "status_depart" \in log => Agreed(log)
  /\ "status_arrive" \in log => "status_depart" \in log
  /\ "status_start" \in log => "status_arrive" \in log
  /\ "status_complete" \in log => "status_start" \in log

\* Somebody drives, or an administrator decided otherwise.
Manned(row, log) == row.driver # NoDriver \/ "admin_reassigned" \in log

AgreedStatus == NON_TERMINAL_STATUSES \ {"draft", "pending_driver"}

HandlerEvents ==
  {"cancelled_by_user", "cancelled_by_admin", "counter_accepted", "counter_declined",
   "admin_reassigned"}

\* The events staged with an UPDATE explain the status it sets, whatever the row will
\* be by then.
StagedExplains(u) ==
  /\ u.log \subseteq HandlerEvents
  /\ u.set.driver = Keep \/ "admin_reassigned" \in u.log
  /\ \/ u.set.status = Keep
     \/ u.set.status = "cancelled_by_user" /\ u.log \cap {"cancelled_by_user", "counter_declined"} # {}
     \/ u.set.status = "cancelled_by_admin" /\ "cancelled_by_admin" \in u.log
     \/ u.set.status = "confirmed" /\ "counter_accepted" \in u.log

Explained == \A o \in DOMAIN orders : Explains(Log(o), orders[o].status)

AgreedIsManned ==
  \A o \in DOMAIN orders : orders[o].status \in AgreedStatus => Manned(orders[o], Log(o))

StagedExplained == \A w \in Worker : inflight[w] \in Update => StagedExplains(inflight[w])

\* What an UPDATE will confirm was manned when its copy was loaded, and still is.
StagedIsManned ==
  \A w \in Worker :
    inflight[w] \in Update /\ inflight[w].set.status = "confirmed" =>
      Manned(orders[inflight[w].order], Log(inflight[w].order))

\* The inductive invariant of the audit trail, beside OrdersInv.
HistoryInv == Explained /\ AgreedIsManned /\ StagedExplained /\ StagedIsManned

\* More events take no explanation away.
LEMMA LogsGrow ==
  ASSUME NEW status, NEW log, NEW more \in SUBSET HandlerEvents, Explains(log, status)
  PROVE  Explains(log \cup more, status)
BY DEF Explains, Agreed, HandlerEvents

\* A driver's transition explains the status it sets.
LEMMA TransitionExplains ==
  ASSUME NEW a \in DOMAIN Transition, NEW log, Explains(log, Transition[a].from)
  PROVE  Explains(log \cup {Transition[a].log}, Transition[a].to)
<1>1. a \in {"accept", "reject", "propose_time", "depart", "arrive", "start", "complete"}
  BY DEF Transition
<1>2. CASE a = "accept"
  BY <1>2 DEF Transition, Explains, Agreed
<1>3. CASE a = "reject"
  BY <1>3 DEF Transition, Explains, Agreed
<1>4. CASE a = "propose_time"
  BY <1>4 DEF Transition, Explains, Agreed
<1>5. CASE a = "depart"
  BY <1>5 DEF Transition, Explains, Agreed
<1>6. CASE a = "arrive"
  BY <1>6 DEF Transition, Explains, Agreed
<1>7. CASE a = "start"
  BY <1>7 DEF Transition, Explains, Agreed
<1>8. CASE a = "complete"
  BY <1>8 DEF Transition, Explains, Agreed
<1> QED
  BY <1>1, <1>2, <1>3, <1>4, <1>5, <1>6, <1>7, <1>8

\* A committed UPDATE explains the status it leaves.
LEMMA UpdateExplains ==
  ASSUME NEW u, StagedExplains(u), NEW log, NEW status, Explains(log, status)
  PROVE  Explains(log \cup u.log, Column(status, u.set.status))
<1>1. u.log \in SUBSET HandlerEvents
  BY DEF StagedExplains
<1>2. Explains(log \cup u.log, status)
  BY <1>1, LogsGrow
<1>3. CASE Column(status, u.set.status) = status
  BY <1>2, <1>3
<1>4. CASE Column(status, u.set.status) # status
  <2>1. Column(status, u.set.status) = u.set.status /\ u.set.status # Keep
    BY <1>4 DEF Column
  <2>2. CASE u.set.status = "cancelled_by_user"
    BY <1>2, <2>1, <2>2 DEF StagedExplains, Explains
  <2>3. CASE u.set.status = "cancelled_by_admin"
    BY <1>2, <2>1, <2>3 DEF StagedExplains, Explains
  <2>4. CASE u.set.status = "confirmed"
    BY <1>2, <2>1, <2>4 DEF StagedExplains, Explains, Agreed
  <2> QED
    BY <2>1, <2>2, <2>3, <2>4 DEF StagedExplains
<1> QED
  BY <1>3, <1>4

\* What staging establishes, if the events staged explain the status staged.
LEMMA StageHistory ==
  ASSUME OrdersInv, HistoryInv, NEW w \in Worker, NEW o \in DOMAIN orders,
         NEW obj \in Row, NEW log \in SUBSET HandlerEvents,
         Stage(w, o, obj, log),
         obj.driver = orders[o].driver \/ "admin_reassigned" \in log,
         \/ obj.status = orders[o].status
         \/ obj.status = "cancelled_by_user" /\ log \cap {"cancelled_by_user", "counter_declined"} # {}
         \/ obj.status = "cancelled_by_admin" /\ "cancelled_by_admin" \in log
         \/ /\ obj.status = "confirmed" /\ "counter_accepted" \in log
            /\ Manned(orders[o], Log(o))
  PROVE  HistoryInv'
<1> DEFINE set == Changes(orders[o], obj)
           u   == [kind |-> "update", order |-> o, set |-> set, log |-> log]
<1>1. inflight' = [inflight EXCEPT ![w] = u] /\ UNCHANGED <<orders, events>>
  BY DEF Stage
<1>2. Explained' /\ AgreedIsManned'
  BY <1>1 DEF HistoryInv, Explained, AgreedIsManned, Log
<1>3. /\ set.status = Diff(orders[o].status, obj.status)
      /\ set.driver = Diff(orders[o].driver, obj.driver)
  BY DEF Changes
<1>4. StagedExplains(u)
  BY <1>3 DEF StagedExplains, Diff
<1>5. \A v \in Worker : inflight'[v] = inflight[v] \/ inflight'[v] = u
  BY <1>1 DEF OrdersInv, TypeOK
<1>6. StagedExplained'
  <2> HIDE DEF u
  <2> QED
    BY <1>4, <1>5 DEF HistoryInv, StagedExplained
<1>7. set.status = "confirmed" => Manned(orders[o], Log(o))
  BY <1>3, NullsAssumption DEF Diff, Status, NON_TERMINAL_STATUSES
<1>8. u.order = o /\ u.set = set
  OBVIOUS
<1>9. StagedIsManned'
  <2>1. \A p : Log(p)' = Log(p)
    BY <1>1 DEF Log
  <2> HIDE DEF u, set
  <2> QED
    BY <1>1, <1>5, <1>7, <1>8, <2>1 DEF HistoryInv, StagedIsManned
<1> QED
  BY <1>2, <1>6, <1>9 DEF HistoryInv

\* What a write preserves, if its events explain its status and it takes the driver
\* off an order only with an event that says so.
LEMMA WriteHistory ==
  ASSUME OrdersInv, HistoryInv, NEW o \in OrderId, NEW row \in Row,
         NEW log \in SUBSET EventType, Write(o, row, log),
         \A v \in Worker : inflight'[v] = inflight[v] \/ inflight'[v] = Idle,
         Explains(Log(o) \cup log, row.status),
         row.status \in AgreedStatus => Manned(row, Log(o) \cup log),
         o \in DOMAIN orders /\ Manned(orders[o], Log(o)) => Manned(row, Log(o) \cup log)
  PROVE  HistoryInv'
<1>1. /\ DOMAIN orders' = DOMAIN orders \cup {o}
      /\ orders'[o] = row
      /\ \A p \in DOMAIN orders : p # o => orders'[p] = orders[p]
  BY WriteType DEF OrdersInv
<1>2. Log(o)' = Log(o) \cup log /\ \A p : p # o => Log(p)' = Log(p)
  BY DEF Write, Log
<1>3. Explained'
  BY <1>1, <1>2 DEF HistoryInv, Explained
<1>4. AgreedIsManned'
  BY <1>1, <1>2 DEF HistoryInv, AgreedIsManned, Manned
<1>5. \A v \in Worker : inflight'[v] \in Update => inflight'[v] = inflight[v]
  BY NullsAssumption
<1>6. StagedExplained'
  BY <1>5 DEF HistoryInv, StagedExplained
<1>7. \A p \in DOMAIN orders :
        Manned(orders[p], Log(p)) => Manned(orders'[p], Log(p)')
  BY <1>1, <1>2 DEF Manned
<1>8. StagedIsManned'
  BY <1>5, <1>7 DEF HistoryInv, StagedIsManned, OrdersInv, TypeOK
<1> QED
  BY <1>3, <1>4, <1>6, <1>8 DEF HistoryInv

LEMMA EmployeeStepHistory == OrdersInv /\ HistoryInv /\ EmployeeStep => HistoryInv'
<1> SUFFICES ASSUME OrdersInv, HistoryInv, EmployeeStep PROVE HistoryInv'
  OBVIOUS
<1> PICK w \in Worker, u \in User :
      \/ \E k \in Key, d \in Driver \cup {NoDriver}, t \in Time, m \in Duration, n \in Passengers :
           CreateOrder(w, u, k, d, t, m, n)
      \/ \E o \in DOMAIN orders :
           \/ \E n \in Passengers : UpdateOrder(w, u, o, n)
           \/ CancelOrder(w, u, o)
           \/ RespondToCounter(w, u, o)
  BY DEF EmployeeStep
<1>1. ASSUME NEW k \in Key, NEW d \in Driver \cup {NoDriver}, NEW t \in Time,
             NEW m \in Duration, NEW n \in Passengers, CreateOrder(w, u, k, d, t, m, n)
      PROVE  HistoryInv'
  <2>1. UNCHANGED <<orders, events>>
    BY <1>1 DEF CreateOrder
  <2>2. \A v \in Worker : inflight'[v] \in Update => inflight'[v] = inflight[v]
    BY <1>1 DEF CreateOrder, OrdersInv, TypeOK, Update
  <2> QED
    BY <2>1, <2>2
    DEF HistoryInv, Explained, AgreedIsManned, StagedExplained, StagedIsManned, Log
<1>2. ASSUME NEW o \in DOMAIN orders, NEW n \in Passengers, UpdateOrder(w, u, o, n)
      PROVE  HistoryInv'
  <2> DEFINE obj == [orders[o] EXCEPT !.passengers = n]
  <2>1. obj \in Row /\ obj.status = orders[o].status /\ obj.driver = orders[o].driver
    BY DEF Row, OrdersInv, TypeOK
  <2>2. Stage(w, o, obj, {}) /\ {} \in SUBSET HandlerEvents
    BY <1>2 DEF UpdateOrder
  <2> HIDE DEF obj
  <2> QED
    BY <2>1, <2>2, StageHistory
<1>3. ASSUME NEW o \in DOMAIN orders, CancelOrder(w, u, o)
      PROVE  HistoryInv'
  <2> DEFINE obj == [orders[o] EXCEPT !.status = "cancelled_by_user", !.cancelledBy = "user"]
  <2>0. orders[o] \in Row
    BY DEF OrdersInv, TypeOK
  <2>1. obj \in Row /\ obj.status = "cancelled_by_user" /\ obj.driver = orders[o].driver
    BY <2>0 DEF Row, Status, CancelledBy, TERMINAL_STATUSES
  <2>2. Stage(w, o, obj, {"cancelled_by_user"}) /\ {"cancelled_by_user"} \in SUBSET HandlerEvents
    BY <1>3 DEF CancelOrder, HandlerEvents
  <2> HIDE DEF obj
  <2> QED
    BY <2>1, <2>2, StageHistory
<1>4. ASSUME NEW o \in DOMAIN orders, RespondToCounter(w, u, o)
      PROVE  HistoryInv'
  <2>1. /\ orders[o] \in Row
        /\ orders[o].status = "driver_countered"
        /\ orders[o].proposed \in Time
    BY <1>4 DEF RespondToCounter, OrdersInv, TypeOK, ProposalIffCountered, TERMINAL_STATUSES, Row
  <2>2. Manned(orders[o], Log(o))
    BY <2>1 DEF HistoryInv, AgreedIsManned, AgreedStatus, NON_TERMINAL_STATUSES
  <2>3. /\ CounterAccepted(orders[o]) \in Row
        /\ CounterAccepted(orders[o]).status = "confirmed"
        /\ CounterAccepted(orders[o]).driver = orders[o].driver
    BY <2>1 DEF CounterAccepted, Row, Status, NON_TERMINAL_STATUSES
  <2>4. /\ CounterDeclined(orders[o]) \in Row
        /\ CounterDeclined(orders[o]).status = "cancelled_by_user"
        /\ CounterDeclined(orders[o]).driver = orders[o].driver
    BY <2>1 DEF CounterDeclined, Row, Status, CancelledBy, TERMINAL_STATUSES
  <2>5. {"counter_accepted"} \in SUBSET HandlerEvents /\ {"counter_declined"} \in SUBSET HandlerEvents
    BY DEF HandlerEvents
  <2>6. CASE Stage(w, o, CounterAccepted(orders[o]), {"counter_accepted"})
    BY <2>2, <2>3, <2>5, <2>6, StageHistory
  <2>7. CASE Stage(w, o, CounterDeclined(orders[o]), {"counter_declined"})
    BY <2>4, <2>5, <2>7, StageHistory
  <2> QED
    BY <1>4, <2>6, <2>7 DEF RespondToCounter
<1> QED
  BY <1>1, <1>2, <1>3, <1>4

LEMMA AdminStepHistory == OrdersInv /\ HistoryInv /\ AdminStep => HistoryInv'
<1> SUFFICES ASSUME OrdersInv, HistoryInv, AdminStep PROVE HistoryInv'
  OBVIOUS
<1> PICK w \in Worker, o \in DOMAIN orders :
      \/ \E d \in Driver \cup {NoDriver} : AssignOrder(w, o, d)
      \/ AdminCancelOrder(w, o)
  BY DEF AdminStep
<1>1. ASSUME NEW d \in Driver \cup {NoDriver}, AssignOrder(w, o, d)
      PROVE  HistoryInv'
  <2> DEFINE obj == [orders[o] EXCEPT !.driver = d]
  <2>1. obj \in Row /\ obj.status = orders[o].status
    BY DEF Row, OrdersInv, TypeOK
  <2>2. Stage(w, o, obj, {"admin_reassigned"}) /\ {"admin_reassigned"} \in SUBSET HandlerEvents
    BY <1>1 DEF AssignOrder, HandlerEvents
  <2> HIDE DEF obj
  <2> QED
    BY <2>1, <2>2, StageHistory
<1>2. ASSUME AdminCancelOrder(w, o)
      PROVE  HistoryInv'
  <2> DEFINE obj == [orders[o] EXCEPT !.status = "cancelled_by_admin", !.cancelledBy = "admin"]
  <2>0. orders[o] \in Row
    BY DEF OrdersInv, TypeOK
  <2>1. obj \in Row /\ obj.status = "cancelled_by_admin" /\ obj.driver = orders[o].driver
    BY <2>0 DEF Row, Status, CancelledBy, TERMINAL_STATUSES
  <2>2. Stage(w, o, obj, {"cancelled_by_admin"}) /\ {"cancelled_by_admin"} \in SUBSET HandlerEvents
    BY <1>2 DEF AdminCancelOrder, HandlerEvents
  <2> HIDE DEF obj
  <2> QED
    BY <2>1, <2>2, StageHistory
<1> QED
  BY <1>1, <1>2

LEMMA DriverStepHistory == OrdersInv /\ HistoryInv /\ DriverStep => HistoryInv'
<1> SUFFICES ASSUME OrdersInv, HistoryInv, DriverStep PROVE HistoryInv'
  OBVIOUS
<1> PICK d \in Driver :
      \/ \E o \in DOMAIN orders, a \in DOMAIN Transition, t \in Time \cup {NoTime} :
           TransitionOrder(d, o, a, t)
      \/ SetDuty(d)
  BY DEF DriverStep
<1>1. ASSUME NEW o \in DOMAIN orders, NEW a \in DOMAIN Transition,
             NEW t \in Time \cup {NoTime}, TransitionOrder(d, o, a, t)
      PROVE  HistoryInv'
  <2> DEFINE row == Swapped(orders[o], d, a, t)
             log == {Transition[a].log}
  <2>1. orders[o] \in Row /\ o \in OrderId
    BY DEF OrdersInv, TypeOK
  <2>2. row \in Row
    BY <2>1, SwappedType
  <2>3. Write(o, row, log) /\ UNCHANGED inflight
    BY <1>1 DEF TransitionOrder
  <2>4. log \in SUBSET EventType
    BY DEF Transition, EventType
  <2>5. /\ row.status = Transition[a].to /\ orders[o].status = Transition[a].from
        /\ row.driver = IF a = "accept" THEN d ELSE orders[o].driver
        /\ orders[o].driver = d \/ a = "accept"
    BY <1>1, <2>1 DEF TransitionOrder, SwapMatches, Swapped, Row
  <2>6. Explains(Log(o) \cup log, row.status)
    BY <2>5, TransitionExplains DEF HistoryInv, Explained
  <2>7. Manned(row, Log(o) \cup log)
    BY <2>5, NullsAssumption DEF Manned
  <2> HIDE DEF row, log
  <2> QED
    BY <2>1, <2>2, <2>3, <2>4, <2>6, <2>7, WriteHistory
<1>2. ASSUME SetDuty(d)
      PROVE  HistoryInv'
  BY <1>2 DEF SetDuty, HistoryInv, Explained, AgreedIsManned, StagedExplained, StagedIsManned, Log
<1> QED
  BY <1>1, <1>2

LEMMA RequestEndHistory == OrdersInv /\ HistoryInv /\ RequestEnd => HistoryInv'
<1> SUFFICES ASSUME OrdersInv, HistoryInv, RequestEnd PROVE HistoryInv'
  OBVIOUS
<1> PICK w \in Worker :
      (\E o \in OrderId : CommitInsert(w, o)) \/ CommitUpdate(w) \/ Rollback(w)
  BY DEF RequestEnd
<1>1. \A v \in Worker : inflight'[v] = inflight[v] \/ inflight'[v] = Idle
  BY DEF CommitInsert, CommitUpdate, Rollback, OrdersInv, TypeOK
<1>2. ASSUME NEW o \in OrderId, CommitInsert(w, o)
      PROVE  HistoryInv'
  <2> DEFINE row == inflight[w].row
  <2>1. /\ inflight[w] \in Insert /\ o \notin DOMAIN orders
        /\ Write(o, row, {"created"})
    BY <1>2 DEF CommitInsert
  <2>2. row \in Row /\ row.status = "pending_driver"
    BY <2>1 DEF Insert, OrdersInv, StagedInserts
  <2>3. {"created"} \in SUBSET EventType
    BY DEF EventType
  <2>4. Log(o) = {}
    BY <2>1 DEF OrdersInv, TypeOK, Log
  <2>5. Explains(Log(o) \cup {"created"}, row.status) /\ row.status \notin AgreedStatus
    BY <2>2, <2>4 DEF Explains, AgreedStatus
  <2> HIDE DEF row
  <2> QED
    BY <1>1, <2>1, <2>2, <2>3, <2>5, WriteHistory
<1>3. ASSUME CommitUpdate(w)
      PROVE  HistoryInv'
  <2> DEFINE u   == inflight[w]
             o   == u.order
             row == Updated(orders[o], u.set)
  <2>1. u \in Update /\ Write(o, row, u.log)
    BY <1>3 DEF CommitUpdate
  <2>2. /\ o \in DOMAIN orders /\ o \in OrderId /\ orders[o] \in Row
        /\ u.set \in Dirty /\ u.log \in SUBSET EventType
    BY <2>1 DEF OrdersInv, TypeOK, Update
  <2>3. row \in Row
    BY <2>2, UpdatedType
  <2>4. /\ row.status = Column(orders[o].status, u.set.status)
        /\ row.driver = Column(orders[o].driver, u.set.driver)
    BY <2>2 DEF Updated, Row
  <2>5. StagedExplains(u)
    BY <2>1 DEF HistoryInv, StagedExplained
  <2>6. Explains(Log(o) \cup u.log, row.status)
    BY <2>2, <2>4, <2>5, UpdateExplains DEF HistoryInv, Explained
  <2>7. Manned(orders[o], Log(o)) => Manned(row, Log(o) \cup u.log)
    BY <2>4, <2>5 DEF StagedExplains, Manned, Column
  <2>8. row.status \in AgreedStatus => Manned(orders[o], Log(o))
    <3>1. CASE row.status = orders[o].status
      BY <2>2, <3>1 DEF HistoryInv, AgreedIsManned
    <3>2. CASE row.status # orders[o].status
      <4>1. row.status = u.set.status /\ u.set.status # Keep
        BY <2>4, <3>2 DEF Column
      <4> QED
        BY <2>1, <2>5, <4>1
        DEF StagedExplains, AgreedStatus, NON_TERMINAL_STATUSES, HistoryInv, StagedIsManned
    <3> QED
      BY <3>1, <3>2
  <2> HIDE DEF row, u
  <2> QED
    BY <1>1, <2>1, <2>2, <2>3, <2>6, <2>7, <2>8, WriteHistory
<1>4. ASSUME Rollback(w)
      PROVE  HistoryInv'
  <2>1. \A v \in Worker : inflight'[v] \in Update => inflight'[v] = inflight[v]
    BY <1>1, NullsAssumption
  <2> QED
    BY <1>4, <2>1
    DEF Rollback, HistoryInv, Explained, AgreedIsManned, StagedExplained, StagedIsManned, Log
<1> QED
  BY <1>2, <1>3, <1>4

\* Every event the trail needs to explain an order is there, in the order table and
\* in every write in flight.
THEOREM HistoryInvHolds == Spec => []HistoryInv
<1>1. Init => HistoryInv
  BY NullsAssumption
  DEF Init, HistoryInv, Explained, AgreedIsManned, StagedExplained, StagedIsManned
<1>2. OrdersInv /\ HistoryInv /\ [Next]_vars => HistoryInv'
  <2> SUFFICES ASSUME OrdersInv, HistoryInv, [Next]_vars PROVE HistoryInv'
    OBVIOUS
  <2>1. CASE Tick \/ UNCHANGED vars
    BY <2>1
    DEF Tick, vars, HistoryInv, Explained, AgreedIsManned, StagedExplained, StagedIsManned, Log
  <2> QED
    BY <2>1, EmployeeStepHistory, AdminStepHistory, DriverStepHistory, RequestEndHistory DEF Next
<1> QED
  BY <1>1, <1>2, InvariantHolds, PTL DEF Spec

\* The audit trail is complete, whatever stale writes hit the row of an order.
THEOREM TrailIsComplete == Spec => []HistoryComplete
<1>1. OrdersInv /\ HistoryInv => HistoryComplete
  <2> SUFFICES ASSUME OrdersInv, HistoryInv, NEW o \in DOMAIN orders
               PROVE  LET logged(e) == <<o, e>> \in events
                          status == orders[o].status
                      IN  /\ logged("created")
                          /\ status = "completed" => logged("status_complete")
                          /\ status = "cancelled_by_driver" => logged("status_reject")
                          /\ status = "cancelled_by_admin" => logged("cancelled_by_admin")
                          /\ status = "cancelled_by_user" =>
                               logged("cancelled_by_user") \/ logged("counter_declined")
                          /\ logged("status_complete") =>
                               /\ logged("status_accept") \/ logged("counter_accepted")
                               /\ logged("status_depart") /\ logged("status_arrive")
                               /\ logged("status_start")
    BY DEF HistoryComplete
  <2>1. \A e \in EventType : <<o, e>> \in events <=> e \in Log(o)
    BY DEF Log
  <2>2. Explains(Log(o), orders[o].status)
    BY DEF HistoryInv, Explained
  <2> QED
    BY <2>1, <2>2 DEF Explains, Agreed, EventType
<1> QED
  BY <1>1, InvariantHolds, HistoryInvHolds, PTL

\* An agreed ride has a driver unless an administrator took the driver off it.
THEOREM AgreedRidesAreManned == Spec => []AgreedRideHasDriver
<1>1. HistoryInv => AgreedRideHasDriver
  BY DEF HistoryInv, AgreedIsManned, AgreedStatus, Manned, Log, AgreedRideHasDriver
<1> QED
  BY <1>1, HistoryInvHolds, PTL

-----------------------------------------------------------------------------
(* Who takes an order *)

\* No interleaving of stale writes offers an order to drivers a second time.
LEMMA NeverOfferedAgain ==
  ASSUME OrdersInv, [Next]_vars, NEW o \in DOMAIN orders,
         orders[o].status # "pending_driver"
  PROVE  orders'[o].status # "pending_driver"
<1>1. CASE UNCHANGED <<orders, events>>
  BY <1>1
<1>2. ASSUME NEW q \in OrderId, NEW row \in Row, NEW log \in SUBSET EventType,
             Write(q, row, log),
             \/ q \notin DOMAIN orders
             \/ orders[q].status # "pending_driver" => row.status # "pending_driver"
      PROVE  orders'[o].status # "pending_driver"
  BY <1>2, WriteType DEF OrdersInv
<1> QED
  BY <1>1, <1>2, OneWrite

\* A driver's transition gives the order to nobody but a driver who accepts it while
\* it is pending and has no other.
LEMMA TransitionTakesOnce ==
  ASSUME OrdersInv, NEW d \in Driver, NEW q \in DOMAIN orders, NEW a \in DOMAIN Transition,
         NEW t \in Time \cup {NoTime}, TransitionOrder(d, q, a, t),
         NEW o \in DOMAIN orders, orders'[o].driver # orders[o].driver
  PROVE  /\ orders[o].status = "pending_driver" /\ orders[o].driver = NoDriver
         /\ orders'[o].status = "confirmed"
<1> DEFINE row == Swapped(orders[q], d, a, t)
<1>1. q \in OrderId /\ orders[q] \in Row
  BY DEF OrdersInv, TypeOK
<1>2. row \in Row
  BY <1>1, SwappedType
<1>3. /\ row.status = Transition[a].to
      /\ row.driver = IF a = "accept" THEN d ELSE orders[q].driver
      /\ orders[q].status = Transition[a].from
      /\ orders[q].driver = d \/ (a = "accept" /\ orders[q].driver = NoDriver)
  BY <1>1 DEF Swapped, Row, TransitionOrder, SwapMatches
<1>4. Write(q, row, {Transition[a].log}) /\ {Transition[a].log} \in SUBSET EventType
  BY DEF TransitionOrder, Transition, EventType
<1> HIDE DEF row
<1>5. orders'[q] = row /\ \A p \in DOMAIN orders : p # q => orders'[p] = orders[p]
  BY <1>1, <1>2, <1>4, WriteType DEF OrdersInv
<1>6. o = q /\ a = "accept" /\ orders[q].driver = NoDriver
  BY <1>3, <1>5
<1> QED
  BY <1>3, <1>5, <1>6 DEF Transition

\* An UPDATE of a loaded copy changes the driver only if it is a reassignment.
LEMMA UpdateTakesNobodys ==
  ASSUME OrdersInv, HistoryInv, NEW w \in Worker, CommitUpdate(w),
         NEW o \in DOMAIN orders, orders'[o].driver # orders[o].driver
  PROVE  Reassigns(o)
<1> DEFINE u   == inflight[w]
           row == Updated(orders[u.order], u.set)
<1>1. u \in Update /\ Write(u.order, row, u.log)
  BY DEF CommitUpdate
<1>2. /\ u.order \in DOMAIN orders /\ u.order \in OrderId /\ orders[u.order] \in Row
      /\ u.set \in Dirty /\ u.log \in SUBSET EventType
  BY <1>1 DEF OrdersInv, TypeOK, Update
<1>3. row \in Row /\ row.driver = Column(orders[u.order].driver, u.set.driver)
  BY <1>2, UpdatedType DEF Updated, Row
<1>4. /\ orders'[u.order] = row
      /\ \A p \in DOMAIN orders : p # u.order => orders'[p] = orders[p]
  <2> HIDE DEF row, u
  <2> QED
    BY <1>1, <1>2, <1>3, WriteType DEF OrdersInv
<1>5. u.order = o /\ u.set.driver # Keep
  <2> HIDE DEF row
  <2> QED
    BY <1>3, <1>4 DEF Column
<1>6. "admin_reassigned" \in u.log
  BY <1>1, <1>5 DEF HistoryInv, StagedExplained, StagedExplains
<1> QED
  BY <1>5, <1>6 DEF Reassigns

\* However acceptances, replies, edits and reassignments race, an order is taken by one
\* driver, and changes hands after that only when an administrator reassigns it.
THEOREM OneDriverTakesIt == Spec => TakenOnce
<1>1. ASSUME OrdersInv, HistoryInv, [Next]_vars, NEW o \in DOMAIN orders,
             orders'[o].driver # orders[o].driver
      PROVE  \/ /\ orders[o].status = "pending_driver" /\ orders[o].driver = NoDriver
                /\ orders'[o].status = "confirmed"
             \/ Reassigns(o)
  <2>0. orders' # orders
    BY <1>1
  <2>1. CASE EmployeeStep
    <3>1. ASSUME NEW w, NEW u, NEW k, NEW d, NEW t, NEW m, NEW n, CreateOrder(w, u, k, d, t, m, n)
          PROVE  UNCHANGED orders
      BY <3>1 DEF CreateOrder
    <3>2. ASSUME NEW w, NEW u, NEW q, NEW n,
                 UpdateOrder(w, u, q, n) \/ CancelOrder(w, u, q) \/ RespondToCounter(w, u, q)
          PROVE  UNCHANGED orders
      BY <3>2 DEF UpdateOrder, CancelOrder, RespondToCounter, Stage
    <3> QED
      BY <2>0, <2>1, <3>1, <3>2 DEF EmployeeStep
  <2>2. CASE AdminStep
    BY <2>0, <2>2 DEF AdminStep, AssignOrder, AdminCancelOrder, Stage
  <2>3. CASE Tick \/ UNCHANGED vars
    BY <2>0, <2>3 DEF Tick, vars
  <2>4. CASE DriverStep
    BY <1>1, <2>0, <2>4, TransitionTakesOnce DEF DriverStep, SetDuty
  <2>5. CASE RequestEnd
    <3> PICK w \in Worker :
          (\E q \in OrderId : CommitInsert(w, q)) \/ CommitUpdate(w) \/ Rollback(w)
      BY <2>5 DEF RequestEnd
    <3>1. CASE \E q \in OrderId : CommitInsert(w, q)
      <4> PICK q \in OrderId : CommitInsert(w, q)
        BY <3>1
      <4>1. q # o /\ orders' = [p \in DOMAIN orders \cup {q} |->
                                IF p = q THEN inflight[w].row ELSE orders[p]]
        BY DEF CommitInsert, Write
      <4>2. orders'[o] = orders[o]
        BY <4>1
      <4> QED
        BY <1>1, <4>2
    <3>2. CASE CommitUpdate(w)
      BY <1>1, <3>2, UpdateTakesNobodys
    <3>3. CASE Rollback(w)
      BY <2>0, <3>3 DEF Rollback
    <3> QED
      BY <3>1, <3>2, <3>3
  <2> QED
    BY <1>1, <2>1, <2>2, <2>3, <2>4, <2>5 DEF Next
<1>2. OrdersInv /\ HistoryInv /\ [Next]_vars =>
        [\A o \in DOMAIN orders :
           /\ orders[o].status # "pending_driver" => orders'[o].status # "pending_driver"
           /\ orders'[o].driver # orders[o].driver =>
                \/ /\ orders[o].status = "pending_driver" /\ orders[o].driver = NoDriver
                   /\ orders'[o].status = "confirmed"
                \/ Reassigns(o)]_vars
  BY <1>1, NeverOfferedAgain
<1> QED
  BY <1>2, InvariantHolds, HistoryInvHolds, PTL DEF Spec, TakenOnce

-----------------------------------------------------------------------------
(* What the screens offer *)

\* A button of the driver's queue is there when, and only when, the UPDATE of
\* transition_order would find its row.
THEOREM DriverSeesWhatIsAllowed == Spec => []DriverIsOfferedWhatIsAllowed
<1>1. OrdersInv => DriverIsOfferedWhatIsAllowed
  <2> SUFFICES ASSUME OrdersInv, NEW d \in Driver, NEW o \in DOMAIN orders,
                      NEW a \in DOMAIN Transition
               PROVE  SwapMatches(d, o, a) <=> o \in Queue(d) /\ a \in DriverButtons(orders[o])
    BY DEF DriverIsOfferedWhatIsAllowed
  <2>1. a \in {"accept", "reject", "propose_time", "depart", "arrive", "start", "complete"}
    BY DEF Transition
  <2>2. o \in Queue(d) <=>
          /\ orders[o].status \in NON_TERMINAL_STATUSES
          /\ \/ orders[o].driver = d
             \/ orders[o].driver = NoDriver /\ orders[o].status = "pending_driver"
    BY DEF Queue
  <2>3. d # NoDriver
    BY NullsAssumption
  <2>4. a \in DriverButtons(orders[o]) <=>
          \/ a = "accept" /\ orders[o].status = "pending_driver"
          \/ a = "depart" /\ orders[o].status = "confirmed"
          \/ a = "arrive" /\ orders[o].status = "driver_en_route"
          \/ a = "start" /\ orders[o].status = "driver_arrived"
          \/ a = "complete" /\ orders[o].status = "in_progress"
          \/ /\ a \in {"reject", "propose_time"}
             /\ orders[o].status = "pending_driver" /\ orders[o].driver # NoDriver
    <3>1. \A s : s \in DOMAIN nextAction =>
            /\ s = "pending_driver" => nextAction[s] = "accept"
            /\ s = "confirmed" => nextAction[s] = "depart"
            /\ s = "driver_en_route" => nextAction[s] = "arrive"
            /\ s = "driver_arrived" => nextAction[s] = "start"
            /\ s = "in_progress" => nextAction[s] = "complete"
      BY DEF nextAction
    <3>2. DOMAIN nextAction = {"pending_driver", "confirmed", "driver_en_route",
                               "driver_arrived", "in_progress"}
      BY DEF nextAction
    <3> QED
      BY <2>1, <3>1, <3>2 DEF DriverButtons
  <2>5. Transition[a].from =
          CASE a \in {"accept", "reject", "propose_time"} -> "pending_driver"
            [] a = "depart" -> "confirmed"
            [] a = "arrive" -> "driver_en_route"
            [] a = "start" -> "driver_arrived"
            [] a = "complete" -> "in_progress"
    BY <2>1 DEF Transition
  <2> QED
    BY <2>1, <2>2, <2>3, <2>4, <2>5 DEF SwapMatches, NON_TERMINAL_STATUSES
<1> QED
  BY <1>1, InvariantHolds, PTL

\* The owner's page offers what the handlers accept: a countered order always
\* has the proposed time its page is about.
THEOREM OwnerSeesWhatIsAllowed == Spec => []OwnerIsOfferedWhatIsAllowed
<1>1. OrdersInv => OwnerIsOfferedWhatIsAllowed
  <2> SUFFICES ASSUME OrdersInv, NEW o \in DOMAIN orders
               PROVE  LET row == orders[o]
                          offered == OwnerButtons(row)
                      IN  /\ offered # {} => o \in Upcoming(row.user)
                          /\ "edit" \in offered <=> row.status \in EDITABLE_STATUSES
                          /\ {"accept", "decline"} \subseteq offered
                               <=> row.status = "driver_countered"
                          /\ offered \cap {"cancel", "decline"} # {}
                               <=> row.status \in CANCELLABLE_STATUSES
    BY DEF OwnerIsOfferedWhatIsAllowed
  <2>1. orders[o].status = "driver_countered" => orders[o].proposed # NoTime
    BY DEF OrdersInv, ProposalIffCountered, TERMINAL_STATUSES
  <2>2. /\ "edit" \in OwnerButtons(orders[o]) <=> CanModify(orders[o])
        /\ "cancel" \in OwnerButtons(orders[o])
             <=> CanCancel(orders[o]) /\ ~IsCountered(orders[o])
        /\ "accept" \in OwnerButtons(orders[o]) <=> IsCountered(orders[o])
        /\ "decline" \in OwnerButtons(orders[o]) <=> IsCountered(orders[o])
    BY <2>1 DEF OwnerButtons, IsCountered
  <2>3. OwnerButtons(orders[o]) # {} => orders[o].status \in NON_TERMINAL_STATUSES
    BY DEF OwnerButtons, CanModify, CanCancel, IsCountered, NON_TERMINAL_STATUSES
  <2>4. OwnerButtons(orders[o]) # {} => o \in Upcoming(orders[o].user)
    BY <2>3 DEF Upcoming
  <2> QED
    BY <2>2, <2>4
    DEF CanModify, CanCancel, IsCountered, EDITABLE_STATUSES, CANCELLABLE_STATUSES
<1> QED
  BY <1>1, InvariantHolds, PTL

-----------------------------------------------------------------------------
(* The calendars, and the life of an order *)

\* A function that differs from another by one more element at one point.
LEMMA GrownAtOnePoint ==
  ASSUME NEW S, NEW f, NEW g, NEW d \in S, NEW x,
         f = [e \in S |-> f[e]], g = [e \in S |-> g[e]],
         \A e \in S : g[e] = IF e = d THEN f[e] \cup {x} ELSE f[e]
  PROVE  g = [f EXCEPT ![d] = f[d] \cup {x}]
<1>1. [f EXCEPT ![d] = f[d] \cup {x}] = [e \in S |-> IF e = d THEN f[d] \cup {x} ELSE f[e]]
  OBVIOUS
<1> QED
  BY <1>1

\* A driver's calendar, entry by entry.
LEMMA CalendarEntries ==
  ASSUME NEW d \in Driver
  PROVE  \A b : b \in DriverCalendar[d] <=>
           \E p \in DOMAIN orders :
             /\ HoldsSlot(orders[p]) /\ orders[p].driver = d
             /\ b = [order |-> p, span |-> BusySpan(orders[p])]
BY DEF DriverCalendar

\* One write moves the calendars by one legal step.
LEMMA WriteStep ==
  ASSUME OrdersInv, NEW o \in OrderId, NEW row \in Row, NEW log \in SUBSET EventType,
         Write(o, row, log)
  PROVE  Cal!CalendarNext
<1> USE DEF OrdersInv
<1> DEFINE entry == [order |-> o, span |-> BusySpan(row)]
<1>1. /\ DOMAIN orders' = DOMAIN orders \cup {o}
      /\ orders'[o] = row
      /\ \A p \in DOMAIN orders : p # o => orders'[p] = orders[p]
  BY WriteType
<1>2. /\ DriverCalendar = [d \in Driver |-> DriverCalendar[d]]
      /\ DriverCalendar' = [d \in Driver |-> DriverCalendar'[d]]
  BY DEF DriverCalendar
<1>3. ASSUME NEW d \in Driver
      PROVE  \A b : b \in DriverCalendar'[d] <=>
               \E p \in DOMAIN orders' :
                 /\ HoldsSlot(orders'[p]) /\ orders'[p].driver = d
                 /\ b = [order |-> p, span |-> BusySpan(orders'[p])]
  BY DEF DriverCalendar, HoldsSlot, BusySpan
<1>4. Cal!Without(o) = [d \in Driver |-> {b \in DriverCalendar[d] : b.order # o}]
  BY DEF Cal!Without
<1>5. ASSUME NEW d \in Driver
      PROVE  DriverCalendar'[d] =
               Cal!Without(o)[d] \cup
                 (IF HoldsSlot(row) /\ row.driver = d THEN {entry} ELSE {})
  <2>1. \A b : b \in Cal!Without(o)[d] <=>
          \E p \in DOMAIN orders :
            /\ p # o /\ HoldsSlot(orders[p]) /\ orders[p].driver = d
            /\ b = [order |-> p, span |-> BusySpan(orders[p])]
    BY <1>4, CalendarEntries
  <2>2. \A b : b \in DriverCalendar'[d] <=>
          \/ \E p \in DOMAIN orders :
               /\ p # o /\ HoldsSlot(orders[p]) /\ orders[p].driver = d
               /\ b = [order |-> p, span |-> BusySpan(orders[p])]
          \/ HoldsSlot(row) /\ row.driver = d /\ b = entry
    BY <1>1, <1>3
  <2> QED
    BY <2>1, <2>2
<1>6. CASE HoldsSlot(row)
  <2> DEFINE d == row.driver
             s == BusySpan(row)
  <2>1. d \in Driver
    BY <1>6 DEF HoldsSlot, Row
  <2>2. s \in AllSpans
    BY DEF BusySpan, AllSpans, Row
  <2>3. ASSUME NEW b \in Cal!Without(o)[d]
        PROVE  Cal!Disjoint(b.span, s)
    <3>1. PICK p \in DOMAIN orders :
            /\ p # o /\ HoldsSlot(orders[p]) /\ orders[p].driver = d
            /\ b = [order |-> p, span |-> BusySpan(orders[p])]
      BY <1>4, <2>1, CalendarEntries
    <3>2. ~ Overlaps(orders[p], row)
      BY <1>6, <3>1 DEF Write, ExclusionHolds
    <3>3. row.at \in Nat /\ row.mins \in Nat /\ orders[p].at \in Nat /\ orders[p].mins \in Nat
      BY TimesAssumption DEF TypeOK, Row
    <3> QED
      BY <3>1, <3>2, <3>3, TimesAssumption DEF Cal!Disjoint, BusySpan, Overlaps
  <2>4. DriverCalendar' = [Cal!Without(o) EXCEPT ![d] = @ \cup {entry}]
    <3> DEFINE W == Cal!Without(o)
    <3>1. W = [e \in Driver |-> W[e]]
      BY <1>4
    <3>2. \A e \in Driver : DriverCalendar'[e] = IF e = d THEN W[e] \cup {entry} ELSE W[e]
      BY <1>5, <1>6
    <3>3. DriverCalendar' = [e \in Driver |-> DriverCalendar'[e]]
      BY <1>2
    <3> QED
      BY <2>1, <3>1, <3>2, <3>3, GrownAtOnePoint
  <2>5. Cal!Book(o, d, s)
    BY <2>3, <2>4 DEF Cal!Book
  <2> QED
    BY <2>1, <2>2, <2>5 DEF Cal!CalendarNext
<1>7. CASE ~HoldsSlot(row)
  <2>1. DriverCalendar' = Cal!Without(o)
    BY <1>2, <1>4, <1>5, <1>7
  <2> QED
    BY <2>1 DEF Cal!CalendarNext, Cal!StrikeOut
<1> QED
  BY <1>6, <1>7

\* Orders implements Calendar: whatever the handlers do to one another, each
\* committed write books, moves or strikes out one order and never overlaps.
THEOREM ImplementsCalendar == Spec => KeepsCalendars
<1>1. Init => Cal!CalendarInit
  BY DEF Init, Cal!CalendarInit, DriverCalendar
<1>2. OrdersInv /\ [Next]_vars => [Cal!CalendarNext]_DriverCalendar
  <2> SUFFICES ASSUME OrdersInv, [Next]_vars PROVE [Cal!CalendarNext]_DriverCalendar
    OBVIOUS
  <2>1. CASE UNCHANGED <<orders, events>>
    BY <2>1 DEF DriverCalendar, HoldsSlot, BusySpan
  <2> QED
    BY <2>1, OneWrite, WriteStep
<1> QED
  BY <1>1, <1>2, InvariantHolds, PTL DEF Spec, KeepsCalendars, Cal!CalendarSpec

\* What implementing Calendar is worth: no driver's calendar ever holds two
\* bookings that overlap, buffers included.
THEOREM CalendarsNeverOverlap == Spec => []Cal!NoOverlap
<1>1. Cal!CalendarInit => Cal!NoOverlap
  BY DEF Cal!CalendarInit, Cal!NoOverlap
<1>2. Cal!NoOverlap /\ [Cal!CalendarNext]_DriverCalendar => Cal!NoOverlap'
  <2> SUFFICES ASSUME Cal!NoOverlap, [Cal!CalendarNext]_DriverCalendar PROVE Cal!NoOverlap'
    OBVIOUS
  <2>1. ASSUME NEW o
        PROVE  \A d \in Driver : Cal!Without(o)[d] \subseteq DriverCalendar[d]
    BY DEF Cal!Without
  <2>2. CASE UNCHANGED DriverCalendar
    BY <2>2 DEF Cal!NoOverlap
  <2>3. ASSUME NEW o \in OrderId, Cal!StrikeOut(o)
        PROVE  Cal!NoOverlap'
    BY <2>1, <2>3 DEF Cal!StrikeOut, Cal!NoOverlap
  <2>4. ASSUME NEW o \in OrderId, NEW d \in Driver, NEW s \in AllSpans, Cal!Book(o, d, s)
        PROVE  Cal!NoOverlap'
    <3> DEFINE entry == [order |-> o, span |-> s]
    <3>1. ASSUME NEW e \in Driver
          PROVE  DriverCalendar'[e] = IF e = d THEN Cal!Without(o)[e] \cup {entry}
                                               ELSE Cal!Without(o)[e]
      BY <2>4 DEF Cal!Book, Cal!Without
    <3>2. \A b \in Cal!Without(o)[d] : Cal!Disjoint(b.span, s) /\ Cal!Disjoint(s, b.span)
      BY <2>4 DEF Cal!Book, Cal!Disjoint
    <3>3. entry.span = s
      OBVIOUS
    <3> HIDE DEF entry
    <3>4. ASSUME NEW e \in Driver, NEW b \in DriverCalendar'[e], NEW c \in DriverCalendar'[e],
                 b # c
          PROVE  Cal!Disjoint(b.span, c.span)
      <4>1. CASE b \in Cal!Without(o)[e] /\ c \in Cal!Without(o)[e]
        BY <2>1, <3>4, <4>1 DEF Cal!NoOverlap
      <4>2. CASE e = d /\ b = entry /\ c \in Cal!Without(o)[d]
        BY <3>2, <3>3, <4>2
      <4>3. CASE e = d /\ c = entry /\ b \in Cal!Without(o)[d]
        BY <3>2, <3>3, <4>3
      <4>4. CASE e = d
        <5>1. DriverCalendar'[e] = Cal!Without(o)[e] \cup {entry}
          BY <3>1, <4>4
        <5> HIDE DEF Cal!Without
        <5> QED
          BY <3>4, <4>1, <4>2, <4>3, <4>4, <5>1
      <4>5. CASE e # d
        <5>1. DriverCalendar'[e] = Cal!Without(o)[e]
          BY <3>1, <4>5
        <5> QED
          BY <3>4, <4>1, <5>1
      <4> QED
        BY <4>4, <4>5
    <3> QED
      BY <3>4 DEF Cal!NoOverlap, Cal!Disjoint
  <2> QED
    BY <2>2, <2>3, <2>4 DEF Cal!CalendarNext
<1> QED
  BY <1>1, <1>2, ImplementsCalendar, PTL DEF KeepsCalendars, Cal!CalendarSpec

-----------------------------------------------------------------------------
(* One request at a time: the life of an order *)

\* What may become of a trip in one step.
Lives(a, b) ==
  \/ b = a
  \/ a.stage \in {"offered", "agreed"} /\ \E x \in Passengers : b = [a EXCEPT !.details = x]
  \/ a.stage = "offered" /\ b = [a EXCEPT !.stage = "agreed"]
  \/ a.stage = "offered" /\ \E t \in Time : b = [a EXCEPT !.stage = "negotiating", !.ask = t]
  \/ /\ a.stage = "negotiating"
     /\ b = [a EXCEPT !.stage = "agreed", !.at = a.ask, !.ask = NoTime]
  \/ a.stage = "agreed" /\ b = [a EXCEPT !.stage = "riding"]
  \/ a.stage = "riding" /\ b = [a EXCEPT !.stage = "done"]
  \/ /\ a.stage \in {"offered", "negotiating", "agreed", "riding"}
     /\ b = [a EXCEPT !.stage = "called_off", !.ask = NoTime]

\* Nothing was committed since the copy was loaded: what is staged is a legal step of
\* the row as it is.
FreshCopy ==
  \A w \in Worker :
    inflight[w] \in Update =>
      LET u == inflight[w]
      IN  Lives(TripOf(orders[u.order]), TripOf(Updated(orders[u.order], u.set)))

\* A write that a trip may live through is a step of OrderLifecycle.
LEMMA LivesStep ==
  ASSUME OrdersInv, NEW o \in DOMAIN orders, NEW row \in Row, NEW log \in SUBSET EventType,
         Write(o, row, log), Lives(TripOf(orders[o]), TripOf(row))
  PROVE  [Life!LifecycleNext]_Trips
<1> DEFINE a == Trips[o]
           b == TripOf(row)
<1>1. /\ DOMAIN orders' = DOMAIN orders \cup {o}
      /\ orders'[o] = row
      /\ \A p \in DOMAIN orders : p # o => orders'[p] = orders[p]
      /\ o \in OrderId
  BY WriteType DEF OrdersInv, TypeOK
<1>2. /\ Trips' = [p \in DOMAIN Trips |-> IF p = o THEN b ELSE Trips[p]]
      /\ o \in DOMAIN Trips /\ Lives(a, b)
  BY <1>1 DEF Trips, TripOf, StageOf
<1>3. Trips' = [Trips EXCEPT ![o] = b]
  BY <1>2
<1> HIDE DEF a, b
<1>4. CASE b = a
  <2>1. Trips = [p \in DOMAIN Trips |-> Trips[p]]
    BY DEF Trips
  <2>2. Trips' = [p \in DOMAIN Trips |-> Trips[p]]
    BY <1>2, <1>4 DEF a
  <2> QED
    BY <2>1, <2>2
<1>5. ASSUME a.stage \in {"offered", "agreed"}, NEW x \in Passengers, b = [a EXCEPT !.details = x]
      PROVE  Life!LifecycleNext
  <2>1. Life!Edit(o, x)
    BY <1>3, <1>5 DEF Life!Edit, a
  <2> QED
    BY <1>1, <1>2, <2>1 DEF Life!LifecycleNext
<1>6. CASE a.stage = "offered" /\ b = [a EXCEPT !.stage = "agreed"]
  <2>1. Life!Agree(o)
    BY <1>3, <1>6 DEF Life!Agree, a
  <2> QED
    BY <1>1, <1>2, <2>1 DEF Life!LifecycleNext
<1>7. ASSUME a.stage = "offered", NEW t \in Time,
             b = [a EXCEPT !.stage = "negotiating", !.ask = t]
      PROVE  Life!LifecycleNext
  <2>1. Life!AskForAnotherTime(o, t)
    BY <1>3, <1>7 DEF Life!AskForAnotherTime, a
  <2> QED
    BY <1>1, <1>2, <2>1 DEF Life!LifecycleNext
<1>8. CASE a.stage = "negotiating" /\ b = [a EXCEPT !.stage = "agreed", !.at = a.ask, !.ask = NoTime]
  <2>1. Life!AgreeToTheOtherTime(o)
    BY <1>3, <1>8 DEF Life!AgreeToTheOtherTime, a
  <2> QED
    BY <1>1, <1>2, <2>1 DEF Life!LifecycleNext
<1>9. CASE a.stage = "agreed" /\ b = [a EXCEPT !.stage = "riding"]
  <2>1. Life!Depart(o)
    BY <1>3, <1>9 DEF Life!Depart, a
  <2> QED
    BY <1>1, <1>2, <2>1 DEF Life!LifecycleNext
<1>10. CASE a.stage = "riding" /\ b = [a EXCEPT !.stage = "done"]
  <2>1. Life!Finish(o)
    BY <1>3, <1>10 DEF Life!Finish, a
  <2> QED
    BY <1>1, <1>2, <2>1 DEF Life!LifecycleNext
<1>11. CASE /\ a.stage \in {"offered", "negotiating", "agreed", "riding"}
            /\ b = [a EXCEPT !.stage = "called_off", !.ask = NoTime]
  <2>1. Life!CallOff(o)
    BY <1>3, <1>11 DEF Life!CallOff, Life!OpenStages, a
  <2> QED
    BY <1>1, <1>2, <2>1 DEF Life!LifecycleNext
<1> QED
  BY <1>2, <1>4, <1>5, <1>6, <1>7, <1>8, <1>9, <1>10, <1>11 DEF Lives

\* An UPDATE of the columns changed makes of the copy what the handler made of it.
LEMMA UpdatedCopy ==
  ASSUME NEW copy \in Row, NEW obj \in Row,
         obj.user = copy.user, obj.key = copy.key, obj.mins = copy.mins
  PROVE  Updated(copy, Changes(copy, obj)) = obj
<1> DEFINE set == Changes(copy, obj)
<1>1. /\ Column(copy.driver, set.driver) = obj.driver
      /\ Column(copy.status, set.status) = obj.status
      /\ Column(copy.at, set.at) = obj.at
      /\ Column(copy.proposed, set.proposed) = obj.proposed
      /\ Column(copy.cancelledBy, set.cancelledBy) = obj.cancelledBy
      /\ Column(copy.passengers, set.passengers) = obj.passengers
  BY NullsAssumption DEF Changes, Diff, Column, Row
<1> HIDE DEF set
<1>2. Updated(copy, set) = [copy EXCEPT !.driver = obj.driver, !.status = obj.status,
                                        !.at = obj.at, !.proposed = obj.proposed,
                                        !.cancelledBy = obj.cancelledBy,
                                        !.passengers = obj.passengers]
  BY <1>1 DEF Updated
<1> QED
  BY <1>2 DEF Row, set

\* What a row says of its trip, column by column.
LEMMA TripColumns ==
  ASSUME NEW row \in Row
  PROVE  /\ TripOf(row) \in Life!Trip
         /\ TripOf(row).stage = StageOf(row.status)
         /\ TripOf(row).at = row.at
         /\ TripOf(row).details = row.passengers
         /\ row.status = "driver_countered" => TripOf(row).ask = row.proposed
         /\ row.status # "driver_countered" => TripOf(row).ask = NoTime
<1>1. StageOf(row.status) \in Life!OpenStages \cup {"riding", "done", "called_off"}
  BY DEF StageOf, Life!OpenStages
<1> QED
  BY <1>1 DEF TripOf, Life!Trip, Row

\* An order that is cancelled, whoever cancels it, is a trip called off.
LEMMA CallsOff ==
  ASSUME NEW row \in Row, NEW new \in Row, row.status \in NON_TERMINAL_STATUSES,
         new.status \in {"cancelled_by_user", "cancelled_by_driver", "cancelled_by_admin"},
         new.at = row.at, new.passengers = row.passengers
  PROVE  Lives(TripOf(row), TripOf(new))
<1> DEFINE a == TripOf(row)
           b == TripOf(new)
<1>1. StageOf(new.status) = "called_off" /\ new.status # "driver_countered"
  BY DEF StageOf
<1>2. StageOf(row.status) \in {"offered", "negotiating", "agreed", "riding"}
  BY DEF StageOf, NON_TERMINAL_STATUSES
<1>3. /\ a \in Life!Trip /\ b \in Life!Trip
      /\ a.stage \in {"offered", "negotiating", "agreed", "riding"}
      /\ b.stage = "called_off" /\ b.at = a.at /\ b.ask = NoTime /\ b.details = a.details
  BY <1>1, <1>2, TripColumns
<1> HIDE DEF a, b
<1>4. b = [a EXCEPT !.stage = "called_off", !.ask = NoTime]
  BY <1>3 DEF Life!Trip
<1> QED
  BY <1>3, <1>4 DEF Lives, a, b

\* A proposed time is the other time that is asked for.
LEMMA Asks ==
  ASSUME NEW row \in Row, NEW new \in Row, NEW t \in Time, row.status = "pending_driver",
         new.status = "driver_countered", new.proposed = t,
         new.at = row.at, new.passengers = row.passengers
  PROVE  Lives(TripOf(row), TripOf(new))
<1> DEFINE a == TripOf(row)
           b == TripOf(new)
<1>1. StageOf(row.status) = "offered" /\ StageOf(new.status) = "negotiating"
  BY DEF StageOf
<1>2. /\ a \in Life!Trip /\ b \in Life!Trip /\ a.stage = "offered"
      /\ b.stage = "negotiating" /\ b.at = a.at /\ b.ask = t /\ b.details = a.details
  BY <1>1, TripColumns
<1> HIDE DEF a, b
<1>3. b = [a EXCEPT !.stage = "negotiating", !.ask = t]
  BY <1>2 DEF Life!Trip
<1> QED
  BY <1>2, <1>3 DEF Lives, a, b

\* An accepted proposal is the agreement to the other time.
LEMMA AgreesToOther ==
  ASSUME NEW row \in Row, NEW new \in Row, row.status = "driver_countered",
         new.status = "confirmed", new.at = row.proposed, new.passengers = row.passengers
  PROVE  Lives(TripOf(row), TripOf(new))
<1> DEFINE a == TripOf(row)
           b == TripOf(new)
<1>1. StageOf(row.status) = "negotiating" /\ StageOf(new.status) = "agreed"
  BY DEF StageOf
<1>2. /\ a \in Life!Trip /\ b \in Life!Trip /\ a.stage = "negotiating"
      /\ b.stage = "agreed" /\ b.at = a.ask /\ b.ask = NoTime /\ b.details = a.details
  BY <1>1, TripColumns
<1> HIDE DEF a, b
<1>3. b = [a EXCEPT !.stage = "agreed", !.at = a.ask, !.ask = NoTime]
  BY <1>2 DEF Life!Trip
<1> QED
  BY <1>2, <1>3 DEF Lives, a, b

\* A copy that a trip may live through is fresh when it is staged.
LEMMA StageFresh ==
  ASSUME OrdersInv, FreshCopy, NEW w \in Worker, NEW o \in DOMAIN orders,
         NEW obj \in Row, NEW log, Stage(w, o, obj, log),
         obj.user = orders[o].user, obj.key = orders[o].key, obj.mins = orders[o].mins,
         Lives(TripOf(orders[o]), TripOf(obj))
  PROVE  FreshCopy'
<1> DEFINE set == Changes(orders[o], obj)
           u   == [kind |-> "update", order |-> o, set |-> set, log |-> log]
<1>1. inflight' = [inflight EXCEPT ![w] = u] /\ UNCHANGED orders
  BY DEF Stage
<1>2. \A v \in Worker : inflight'[v] = inflight[v] \/ inflight'[v] = u
  BY <1>1 DEF OrdersInv, TypeOK
<1>3. Updated(orders[o], set) = obj
  BY UpdatedCopy DEF OrdersInv, TypeOK
<1>4. u.order = o /\ u.set = set
  OBVIOUS
<1> HIDE DEF u, set
<1> QED
  BY <1>1, <1>2, <1>3, <1>4 DEF FreshCopy

LEMMA EmployeeStepFresh == OrdersInv /\ FreshCopy /\ EmployeeStep => FreshCopy' /\ UNCHANGED orders
<1> SUFFICES ASSUME OrdersInv, FreshCopy, EmployeeStep PROVE FreshCopy' /\ UNCHANGED orders
  OBVIOUS
<1> PICK w \in Worker, u \in User :
      \/ \E k \in Key, d \in Driver \cup {NoDriver}, t \in Time, m \in Duration, n \in Passengers :
           CreateOrder(w, u, k, d, t, m, n)
      \/ \E o \in DOMAIN orders :
           \/ \E n \in Passengers : UpdateOrder(w, u, o, n)
           \/ CancelOrder(w, u, o)
           \/ RespondToCounter(w, u, o)
  BY DEF EmployeeStep
<1>1. ASSUME NEW k \in Key, NEW d \in Driver \cup {NoDriver}, NEW t \in Time,
             NEW m \in Duration, NEW n \in Passengers, CreateOrder(w, u, k, d, t, m, n)
      PROVE  FreshCopy' /\ UNCHANGED orders
  <2>1. UNCHANGED orders
    BY <1>1 DEF CreateOrder
  <2>2. \A v \in Worker : inflight'[v] \in Update => inflight'[v] = inflight[v]
    BY <1>1 DEF CreateOrder, OrdersInv, TypeOK, Update
  <2> QED
    BY <2>1, <2>2 DEF FreshCopy
<1>2. ASSUME NEW o \in DOMAIN orders, NEW n \in Passengers, UpdateOrder(w, u, o, n)
      PROVE  FreshCopy' /\ UNCHANGED orders
  <2> DEFINE obj == [orders[o] EXCEPT !.passengers = n]
  <2>1. orders[o] \in Row /\ orders[o].status \in EDITABLE_STATUSES
    BY <1>2 DEF OrdersInv, TypeOK, UpdateOrder
  <2>2. /\ obj \in Row
        /\ obj.user = orders[o].user /\ obj.key = orders[o].key /\ obj.mins = orders[o].mins
    BY <2>1 DEF Row
  <2>3. /\ TripOf(obj) = [TripOf(orders[o]) EXCEPT !.details = n]
        /\ TripOf(orders[o]).stage \in {"offered", "agreed"}
    BY <2>1 DEF TripOf, StageOf, Row, EDITABLE_STATUSES
  <2>4. Stage(w, o, obj, {})
    BY <1>2 DEF UpdateOrder
  <2> HIDE DEF obj
  <2>5. Lives(TripOf(orders[o]), TripOf(obj))
    BY <2>3 DEF Lives
  <2> QED
    BY <2>2, <2>4, <2>5, StageFresh DEF Stage
<1>3. ASSUME NEW o \in DOMAIN orders, CancelOrder(w, u, o)
      PROVE  FreshCopy' /\ UNCHANGED orders
  <2> DEFINE obj == [orders[o] EXCEPT !.status = "cancelled_by_user", !.cancelledBy = "user"]
  <2>1. orders[o] \in Row /\ orders[o].status \in CANCELLABLE_STATUSES
    BY <1>3 DEF OrdersInv, TypeOK, CancelOrder
  <2>2. /\ obj \in Row
        /\ obj.user = orders[o].user /\ obj.key = orders[o].key /\ obj.mins = orders[o].mins
    BY <2>1 DEF Row, Status, CancelledBy, TERMINAL_STATUSES
  <2>3. /\ orders[o].status \in NON_TERMINAL_STATUSES /\ obj.status = "cancelled_by_user"
        /\ obj.at = orders[o].at /\ obj.passengers = orders[o].passengers
    BY <2>1 DEF Row, CANCELLABLE_STATUSES, NON_TERMINAL_STATUSES
  <2>4. Stage(w, o, obj, {"cancelled_by_user"})
    BY <1>3 DEF CancelOrder
  <2> HIDE DEF obj
  <2>5. Lives(TripOf(orders[o]), TripOf(obj))
    BY <2>1, <2>2, <2>3, CallsOff
  <2> QED
    BY <2>2, <2>4, <2>5, StageFresh DEF Stage
<1>4. ASSUME NEW o \in DOMAIN orders, RespondToCounter(w, u, o)
      PROVE  FreshCopy' /\ UNCHANGED orders
  <2>1. /\ orders[o] \in Row
        /\ orders[o].status = "driver_countered"
        /\ orders[o].proposed \in Time
    BY <1>4 DEF RespondToCounter, OrdersInv, TypeOK, ProposalIffCountered, TERMINAL_STATUSES, Row
  <2> DEFINE yes == CounterAccepted(orders[o])
             no  == CounterDeclined(orders[o])
  <2>2. /\ yes \in Row /\ no \in Row
        /\ yes.user = orders[o].user /\ yes.key = orders[o].key /\ yes.mins = orders[o].mins
        /\ no.user = orders[o].user /\ no.key = orders[o].key /\ no.mins = orders[o].mins
    BY <2>1 DEF CounterAccepted, CounterDeclined, Row, Status, CancelledBy,
                NON_TERMINAL_STATUSES, TERMINAL_STATUSES
  <2>3. /\ yes.status = "confirmed" /\ no.status = "cancelled_by_user"
        /\ yes.at = orders[o].proposed /\ no.at = orders[o].at
        /\ yes.passengers = orders[o].passengers /\ no.passengers = orders[o].passengers
        /\ orders[o].status \in NON_TERMINAL_STATUSES
    BY <2>1 DEF CounterAccepted, CounterDeclined, Row, NON_TERMINAL_STATUSES
  <2>4. \/ Stage(w, o, yes, {"counter_accepted"})
        \/ Stage(w, o, no, {"counter_declined"})
    BY <1>4 DEF RespondToCounter
  <2> HIDE DEF yes, no
  <2>5. Lives(TripOf(orders[o]), TripOf(yes)) /\ Lives(TripOf(orders[o]), TripOf(no))
    BY <2>1, <2>2, <2>3, CallsOff, AgreesToOther
  <2> QED
    BY <2>2, <2>4, <2>5, StageFresh DEF Stage
<1> QED
  BY <1>1, <1>2, <1>3, <1>4

LEMMA AdminStepFresh == OrdersInv /\ FreshCopy /\ AdminStep => FreshCopy' /\ UNCHANGED orders
<1> SUFFICES ASSUME OrdersInv, FreshCopy, AdminStep PROVE FreshCopy' /\ UNCHANGED orders
  OBVIOUS
<1> PICK w \in Worker, o \in DOMAIN orders :
      \/ \E d \in Driver \cup {NoDriver} : AssignOrder(w, o, d)
      \/ AdminCancelOrder(w, o)
  BY DEF AdminStep
<1>0. orders[o] \in Row
  BY DEF OrdersInv, TypeOK
<1>1. ASSUME NEW d \in Driver \cup {NoDriver}, AssignOrder(w, o, d)
      PROVE  FreshCopy' /\ UNCHANGED orders
  <2> DEFINE obj == [orders[o] EXCEPT !.driver = d]
  <2>1. /\ obj \in Row
        /\ obj.user = orders[o].user /\ obj.key = orders[o].key /\ obj.mins = orders[o].mins
    BY <1>0 DEF Row
  <2>2. TripOf(obj) = TripOf(orders[o])
    BY <1>0 DEF TripOf, Row
  <2>3. Stage(w, o, obj, {"admin_reassigned"})
    BY <1>1 DEF AssignOrder
  <2> HIDE DEF obj
  <2>4. Lives(TripOf(orders[o]), TripOf(obj))
    BY <2>2 DEF Lives
  <2> QED
    BY <2>1, <2>3, <2>4, StageFresh DEF Stage
<1>2. ASSUME AdminCancelOrder(w, o)
      PROVE  FreshCopy' /\ UNCHANGED orders
  <2> DEFINE obj == [orders[o] EXCEPT !.status = "cancelled_by_admin", !.cancelledBy = "admin"]
  <2>1. /\ obj \in Row
        /\ obj.user = orders[o].user /\ obj.key = orders[o].key /\ obj.mins = orders[o].mins
    BY <1>0 DEF Row, Status, CancelledBy, TERMINAL_STATUSES
  <2>2. orders[o].status \in NON_TERMINAL_STATUSES
    BY <1>0, <1>2 DEF AdminCancelOrder, Row, Status
  <2>3. /\ obj.status = "cancelled_by_admin"
        /\ obj.at = orders[o].at /\ obj.passengers = orders[o].passengers
    BY <1>0 DEF Row
  <2>4. Stage(w, o, obj, {"cancelled_by_admin"})
    BY <1>2 DEF AdminCancelOrder
  <2> HIDE DEF obj
  <2>5. Lives(TripOf(orders[o]), TripOf(obj))
    BY <1>0, <2>1, <2>2, <2>3, CallsOff
  <2> QED
    BY <2>1, <2>4, <2>5, StageFresh DEF Stage
<1> QED
  BY <1>1, <1>2

\* A driver's transition, compared and swapped, is a step of the documented life.
LEMMA TransitionLives ==
  ASSUME OrdersInv, NEW d \in Driver, NEW o \in DOMAIN orders, NEW a \in DOMAIN Transition,
         NEW t \in Time \cup {NoTime}, TransitionOrder(d, o, a, t)
  PROVE  Lives(TripOf(orders[o]), TripOf(Swapped(orders[o], d, a, t)))
<1> DEFINE row == Swapped(orders[o], d, a, t)
           old == TripOf(orders[o])
           new == TripOf(row)
<1>1. orders[o] \in Row /\ orders[o].status = Transition[a].from
  BY DEF TransitionOrder, SwapMatches, OrdersInv, TypeOK
<1>2. a \in {"accept", "reject", "propose_time", "depart", "arrive", "start", "complete"}
  BY DEF Transition
<1>3. row.at = orders[o].at /\ row.passengers = orders[o].passengers
  BY <1>1 DEF Swapped, Row
<1>10. row \in Row
  BY <1>1, SwappedType
<1>4. CASE a = "accept"
  <2>1. old.stage = "offered" /\ new = [old EXCEPT !.stage = "agreed"]
    BY <1>1, <1>4 DEF Transition, Swapped, TripOf, StageOf, Row
  <2> QED
    BY <2>1 DEF Lives
<1>5. CASE a = "reject"
  <2>1. orders[o].status = "pending_driver" /\ row.status = "cancelled_by_driver"
    BY <1>1, <1>5 DEF Transition, Swapped, Row
  <2> QED
    BY <1>10, <1>1, <1>3, <2>1, CallsOff DEF NON_TERMINAL_STATUSES
<1>6. CASE a = "propose_time"
  <2>1. /\ orders[o].status = "pending_driver" /\ row.status = "driver_countered"
        /\ row.proposed = t
    BY <1>1, <1>6 DEF Transition, Swapped, Row
  <2>2. t \in Time
    BY <1>6 DEF TransitionOrder
  <2> HIDE DEF row
  <2> QED
    BY <1>10, <1>1, <1>3, <2>1, <2>2, Asks DEF row
<1>7. CASE a = "depart"
  <2>1. old.stage = "agreed" /\ new = [old EXCEPT !.stage = "riding"]
    BY <1>1, <1>7 DEF Transition, Swapped, TripOf, StageOf, Row
  <2> QED
    BY <2>1 DEF Lives
<1>8. CASE a \in {"arrive", "start"}
  <2>1. new = old
    BY <1>1, <1>8 DEF Transition, Swapped, TripOf, StageOf, Row
  <2> QED
    BY <2>1 DEF Lives
<1>9. CASE a = "complete"
  <2>1. old.stage = "riding" /\ new = [old EXCEPT !.stage = "done"]
    BY <1>1, <1>9 DEF Transition, Swapped, TripOf, StageOf, Row
  <2> QED
    BY <2>1 DEF Lives
<1> QED
  BY <1>2, <1>4, <1>5, <1>6, <1>7, <1>8, <1>9

\* The insertion of an order is the placing of a trip.
LEMMA InsertPlaces ==
  ASSUME OrdersInv, NEW w \in Worker, NEW o \in OrderId, CommitInsert(w, o)
  PROVE  Life!LifecycleNext
<1> DEFINE row == inflight[w].row
<1>1. /\ row \in Row /\ row.status = "pending_driver" /\ row.proposed = NoTime
      /\ o \notin DOMAIN orders /\ Write(o, row, {"created"})
  BY DEF CommitInsert, Insert, OrdersInv, StagedInserts
<1> HIDE DEF row
<1>2. TripOf(row) = [stage |-> "offered", at |-> row.at, ask |-> NoTime, details |-> row.passengers]
  BY <1>1 DEF TripOf, StageOf
<1>3. Trips' = [p \in DOMAIN Trips \cup {o} |-> IF p = o THEN TripOf(row) ELSE Trips[p]]
  BY <1>1 DEF Write, Trips, TripOf, StageOf
<1>4. o \notin DOMAIN Trips
  BY <1>1 DEF Trips
<1>5. Life!Place(o, row.at, row.passengers)
  BY <1>2, <1>3, <1>4 DEF Life!Place
<1> QED
  BY <1>1, <1>5 DEF Life!LifecycleNext, Row

\* A step after which no other write is in flight than before, or none at all, is a
\* step of the documented life.
LEMMA StepLives ==
  ASSUME OrdersInv, FreshCopy, [Next]_vars,
         UNCHANGED orders \/ \A w \in Worker : inflight'[w] = Idle
  PROVE  FreshCopy' /\ [Life!LifecycleNext]_Trips
<1>1. CASE EmployeeStep \/ AdminStep
  BY <1>1, EmployeeStepFresh, AdminStepFresh DEF Trips
<1>2. ASSUME \A w \in Worker : inflight'[w] = Idle PROVE FreshCopy'
  BY <1>2, NullsAssumption DEF FreshCopy
<1>3. CASE Tick \/ UNCHANGED vars
  BY <1>3 DEF Tick, vars, FreshCopy, Trips
<1>5. CASE DriverStep
  <2>1. ASSUME NEW d \in Driver, SetDuty(d) PROVE FreshCopy' /\ UNCHANGED Trips
    BY <2>1 DEF SetDuty, FreshCopy, Trips
  <2>2. ASSUME NEW d \in Driver, NEW o \in DOMAIN orders, NEW a \in DOMAIN Transition,
               NEW t \in Time \cup {NoTime}, TransitionOrder(d, o, a, t)
        PROVE  FreshCopy' /\ [Life!LifecycleNext]_Trips
    <3>1. Swapped(orders[o], d, a, t) \in Row
      BY SwappedType DEF OrdersInv, TypeOK
    <3>2. /\ Write(o, Swapped(orders[o], d, a, t), {Transition[a].log})
          /\ {Transition[a].log} \in SUBSET EventType /\ UNCHANGED inflight
      BY <2>2 DEF TransitionOrder, Transition, EventType
    <3>3. FreshCopy'
      BY <1>2, <3>2 DEF FreshCopy
    <3> QED
      BY <2>2, <3>1, <3>2, <3>3, TransitionLives, LivesStep
  <2> QED
    BY <1>5, <2>1, <2>2 DEF DriverStep
<1>6. CASE RequestEnd
  <2>1. PICK w \in Worker :
          (\E o \in OrderId : CommitInsert(w, o)) \/ CommitUpdate(w) \/ Rollback(w)
    BY <1>6 DEF RequestEnd
  <2>2. \A v \in Worker : inflight'[v] = inflight[v] \/ inflight'[v] = Idle
    BY <2>1 DEF CommitInsert, CommitUpdate, Rollback, OrdersInv, TypeOK
  <2>3. FreshCopy'
    BY <1>2, <2>2, NullsAssumption DEF FreshCopy
  <2>4. CASE \E o \in OrderId : CommitInsert(w, o)
    BY <2>3, <2>4, InsertPlaces
  <2>5. CASE CommitUpdate(w)
    <3> DEFINE u   == inflight[w]
               row == Updated(orders[u.order], u.set)
    <3>1. u \in Update /\ Write(u.order, row, u.log)
      BY <2>5 DEF CommitUpdate
    <3>2. /\ u.order \in DOMAIN orders /\ u.log \in SUBSET EventType
          /\ orders[u.order] \in Row /\ u.set \in Dirty
      BY <3>1 DEF OrdersInv, TypeOK, Update
    <3>3. row \in Row
      BY <3>2, UpdatedType
    <3>4. Lives(TripOf(orders[u.order]), TripOf(row))
      BY <3>1 DEF FreshCopy
    <3> HIDE DEF row, u
    <3> QED
      BY <2>3, <3>1, <3>2, <3>3, <3>4, LivesStep
  <2>6. CASE Rollback(w)
    BY <2>3, <2>6 DEF Rollback, Trips
  <2> QED
    BY <2>1, <2>4, <2>5, <2>6
<1> QED
  BY <1>1, <1>3, <1>5, <1>6 DEF Next

\* While requests are served one after the other an order lives as docs/tz.md (4.2)
\* describes: no handler, by itself, goes beyond it.
THEOREM LivesAsDocumented ==
  ASSUME NEW only, Worker = {only}
  PROVE  Spec => Life!LifecycleSpec
<1>1. Init => Life!LifecycleInit /\ FreshCopy
  BY NullsAssumption DEF Init, Life!LifecycleInit, Trips, FreshCopy
<1>2. OrdersInv /\ FreshCopy /\ [Next]_vars => FreshCopy' /\ [Life!LifecycleNext]_Trips
  <2> SUFFICES ASSUME OrdersInv, FreshCopy, [Next]_vars
               PROVE  UNCHANGED orders \/ inflight'[only] = Idle
    BY StepLives
  <2>1. CASE EmployeeStep \/ AdminStep
    BY <2>1, EmployeeStepFresh, AdminStepFresh
  <2>2. CASE DriverStep
    BY <2>2 DEF DriverStep, SetDuty, TransitionOrder
  <2>3. CASE RequestEnd
    BY <2>3 DEF RequestEnd, CommitInsert, CommitUpdate, Rollback, OrdersInv, TypeOK
  <2>4. CASE Tick \/ UNCHANGED vars
    BY <2>4 DEF Tick, vars
  <2> QED
    BY <2>1, <2>2, <2>3, <2>4 DEF Next
<1> QED
  BY <1>1, <1>2, InvariantHolds, PTL DEF Spec, Life!LifecycleSpec

-----------------------------------------------------------------------------
(* One request at a time, among any number of request contexts *)

\* A server that lets no request begin while another is under way, or any other.
Serial ==
  inTurn => \A v, w \in Worker : inflight[v] # Idle /\ inflight[w] # Idle => v = w

\* A reassignment under way is about an order that may still be reassigned.
AssignsEarly ==
  inTurn => \A w \in Worker :
    inflight[w] \in Update /\ inflight[w].set.driver # Keep =>
      orders[inflight[w].order].status \in ADMIN_REASSIGNABLE_STATUSES

\* Whoever has met the passenger, or drives, is known.
RideIsManned ==
  inTurn => \A o \in DOMAIN orders :
    orders[o].status \in {"driver_arrived", "in_progress"} => orders[o].driver \in Driver

InTurnInv == Serial /\ (inTurn => FreshCopy) /\ AssignsEarly /\ RideIsManned

LEMMA InTurnIsAStep == [MCNext]_MCVars => [Next]_vars /\ UNCHANGED inTurn
BY DEF MCNext, MCVars, Undisturbed, Next, DriverStep, RequestEnd, vars

LEMMA ServesAsSpecified == MCSpec => Spec
<1>1. MCInit => Init
  BY DEF MCInit
<1> QED
  BY <1>1, InTurnIsAStep, PTL DEF MCSpec, Spec

\* In turn, whoever writes the table was the only one under way.
LEMMA WritesAlone ==
  ASSUME OrdersInv, Serial, [MCNext]_MCVars
  PROVE  /\ Serial'
         /\ inTurn => UNCHANGED orders \/ \A w \in Worker : inflight'[w] = Idle
<1>1. UNCHANGED inTurn
  BY InTurnIsAStep
<1>2. ASSUME NEW w \in Worker, \A v \in Worker : v # w => inflight'[v] = inflight[v],
             UNCHANGED orders, inTurn => \A v \in Worker : inflight[v] = Idle
      PROVE  Serial' /\ UNCHANGED orders
  BY <1>1, <1>2 DEF Serial
<1>3. ASSUME NEW w \in Worker, NEW o \in DOMAIN orders, NEW obj, NEW log,
             Stage(w, o, obj, log)
      PROVE  UNCHANGED orders /\ \A v \in Worker : v # w => inflight'[v] = inflight[v]
  BY <1>3 DEF Stage, OrdersInv, TypeOK
<1>4. CASE Undisturbed /\ EmployeeStep
  <2>1. PICK w \in Worker, u \in User :
          \/ \E k \in Key, d \in Driver \cup {NoDriver}, t \in Time, m \in Duration, n \in Passengers :
               CreateOrder(w, u, k, d, t, m, n)
          \/ \E o \in DOMAIN orders :
               \/ \E n \in Passengers : UpdateOrder(w, u, o, n)
               \/ CancelOrder(w, u, o)
               \/ RespondToCounter(w, u, o)
    BY <1>4 DEF EmployeeStep
  <2>2. UNCHANGED orders /\ \A v \in Worker : v # w => inflight'[v] = inflight[v]
    BY <1>3, <2>1
    DEF CreateOrder, UpdateOrder, CancelOrder, RespondToCounter, OrdersInv, TypeOK
  <2> QED
    BY <1>2, <1>4, <2>2 DEF Undisturbed, MayBegin
<1>5. CASE Undisturbed /\ AdminStep
  <2>1. PICK w \in Worker, o \in DOMAIN orders :
          \/ \E d \in Driver \cup {NoDriver} : AssignOrder(w, o, d)
          \/ AdminCancelOrder(w, o)
    BY <1>5 DEF AdminStep
  <2>2. UNCHANGED orders /\ \A v \in Worker : v # w => inflight'[v] = inflight[v]
    BY <1>3, <2>1 DEF AssignOrder, AdminCancelOrder
  <2> QED
    BY <1>2, <1>5, <2>2 DEF Undisturbed, MayBegin
<1>6. ASSUME Undisturbed, UNCHANGED inflight
      PROVE  Serial' /\ (inTurn => \A w \in Worker : inflight'[w] = Idle)
  BY <1>6 DEF Undisturbed, MayBegin, Serial
<1>7. CASE \E d \in Driver, o \in OrderId, a \in DOMAIN Transition :
             /\ Undisturbed
             /\ o \in DOMAIN orders /\ \E t \in Time \cup {NoTime} : TransitionOrder(d, o, a, t)
  BY <1>6, <1>7 DEF TransitionOrder
<1>8. CASE \E d \in Driver : Undisturbed /\ SetDuty(d)
  BY <1>6, <1>8 DEF SetDuty
<1>9. CASE RequestEnd /\ UNCHANGED inTurn
  <2>1. PICK w \in Worker : inflight[w] # Idle /\ inflight' = [inflight EXCEPT ![w] = Idle]
    BY <1>9, NullsAssumption DEF RequestEnd, CommitInsert, CommitUpdate, Rollback
  <2>2. inflight'[w] = Idle /\ \A v \in Worker : v # w => inflight'[v] = inflight[v]
    BY <2>1 DEF OrdersInv, TypeOK
  <2> QED
    BY <1>1, <2>1, <2>2 DEF Serial
<1>10. CASE UNCHANGED <<orders, inflight>>
  BY <1>1, <1>10 DEF Serial
<1> QED
  BY <1>4, <1>5, <1>7, <1>8, <1>9, <1>10 DEF MCNext, MCVars, vars, RequestEnd, Tick

LEMMA HandlersOnlyStage == EmployeeStep \/ AdminStep => UNCHANGED orders
<1>1. ASSUME NEW w, NEW o, NEW obj, NEW log, Stage(w, o, obj, log) PROVE UNCHANGED orders
  BY <1>1 DEF Stage
<1>2. EmployeeStep => UNCHANGED orders
  <2>1. ASSUME NEW w, NEW u, NEW k, NEW d, NEW t, NEW m, NEW n, CreateOrder(w, u, k, d, t, m, n)
        PROVE  UNCHANGED orders
    BY <2>1 DEF CreateOrder
  <2>2. ASSUME NEW w, NEW u, NEW o, NEW n, UpdateOrder(w, u, o, n) PROVE UNCHANGED orders
    BY <1>1, <2>2 DEF UpdateOrder
  <2>3. ASSUME NEW w, NEW u, NEW o, CancelOrder(w, u, o) PROVE UNCHANGED orders
    BY <1>1, <2>3 DEF CancelOrder
  <2>4. ASSUME NEW w, NEW u, NEW o, RespondToCounter(w, u, o) PROVE UNCHANGED orders
    BY <1>1, <2>4 DEF RespondToCounter
  <2> QED
    BY <2>1, <2>2, <2>3, <2>4 DEF EmployeeStep
<1>3. AdminStep => UNCHANGED orders
  BY <1>1 DEF AdminStep, AssignOrder, AdminCancelOrder
<1> QED
  BY <1>2, <1>3

\* Among the handlers only that of a reassignment stages another driver, with
\* nothing else, for an order it found early enough.
LEMMA StagedDrivers ==
  ASSUME OrdersInv, EmployeeStep \/ AdminStep, NEW w \in Worker,
         inflight'[w] \in Update, inflight'[w] # inflight[w],
         inflight'[w].set.driver # Keep
  PROVE  orders[inflight'[w].order].status \in ADMIN_REASSIGNABLE_STATUSES
<1>1. ASSUME NEW v \in Worker, NEW o \in DOMAIN orders, NEW obj, NEW log,
             Stage(v, o, obj, log)
      PROVE  inflight'[w].order = o /\ obj.driver # orders[o].driver
  BY <1>1, NullsAssumption DEF Stage, Changes, Diff, OrdersInv, TypeOK
<1>2. CASE EmployeeStep
  <2>1. PICK v \in Worker, u \in User :
          \/ \E k \in Key, d \in Driver \cup {NoDriver}, t \in Time, m \in Duration, n \in Passengers :
               CreateOrder(v, u, k, d, t, m, n)
          \/ \E o \in DOMAIN orders :
               \/ \E n \in Passengers : UpdateOrder(v, u, o, n)
               \/ CancelOrder(v, u, o)
               \/ RespondToCounter(v, u, o)
    BY <1>2 DEF EmployeeStep
  <2>2. ASSUME NEW k, NEW d, NEW t, NEW m, NEW n, CreateOrder(v, u, k, d, t, m, n)
        PROVE  FALSE
    BY <2>2 DEF CreateOrder, Update, OrdersInv, TypeOK
  <2>3. ASSUME NEW o \in DOMAIN orders,
               \/ \E n \in Passengers : UpdateOrder(v, u, o, n)
               \/ CancelOrder(v, u, o)
               \/ RespondToCounter(v, u, o)
        PROVE  FALSE
    <3> DEFINE off == [orders[o] EXCEPT !.status = "cancelled_by_user", !.cancelledBy = "user"]
    <3>1. orders[o] \in Row
      BY DEF OrdersInv, TypeOK
    <3>2. /\ \A n : [orders[o] EXCEPT !.passengers = n].driver = orders[o].driver
          /\ off.driver = orders[o].driver
          /\ CounterAccepted(orders[o]).driver = orders[o].driver
          /\ CounterDeclined(orders[o]).driver = orders[o].driver
      BY <3>1 DEF CounterAccepted, CounterDeclined, Row
    <3>3. ASSUME NEW n, UpdateOrder(v, u, o, n) PROVE FALSE
      BY <1>1, <3>2, <3>3 DEF UpdateOrder
    <3>4. CASE CancelOrder(v, u, o)
      <4>1. Stage(v, o, off, {"cancelled_by_user"})
        BY <3>4 DEF CancelOrder
      <4> HIDE DEF off
      <4> QED
        BY <1>1, <3>2, <4>1
    <3>5. CASE RespondToCounter(v, u, o)
      <4>1. ASSUME Stage(v, o, CounterAccepted(orders[o]), {"counter_accepted"}) PROVE FALSE
        BY <1>1, <3>2, <4>1
      <4>2. ASSUME Stage(v, o, CounterDeclined(orders[o]), {"counter_declined"}) PROVE FALSE
        BY <1>1, <3>2, <4>2
      <4> QED
        BY <3>5, <4>1, <4>2 DEF RespondToCounter
    <3> QED
      BY <2>3, <3>3, <3>4, <3>5
  <2> QED
    BY <2>1, <2>2, <2>3
<1>3. CASE AdminStep
  <2>1. PICK v \in Worker, o \in DOMAIN orders :
          \/ \E d \in Driver \cup {NoDriver} : AssignOrder(v, o, d)
          \/ AdminCancelOrder(v, o)
    BY <1>3 DEF AdminStep
  <2>2. orders[o] \in Row
    BY DEF OrdersInv, TypeOK
  <2>3. CASE \E d \in Driver \cup {NoDriver} : AssignOrder(v, o, d)
    BY <1>1, <2>3 DEF AssignOrder
  <2>4. CASE AdminCancelOrder(v, o)
    <3>1. [orders[o] EXCEPT !.status = "cancelled_by_admin",
                            !.cancelledBy = "admin"].driver = orders[o].driver
      BY <2>2 DEF Row
    <3> QED
      BY <1>1, <2>4, <3>1 DEF AdminCancelOrder
  <2> QED
    BY <2>1, <2>3, <2>4
<1> QED
  BY <1>2, <1>3

\* The two facts about drivers are kept.
LEMMA StepKeepsManned ==
  ASSUME OrdersInv, Serial, AssignsEarly, RideIsManned, [MCNext]_MCVars
  PROVE  AssignsEarly' /\ RideIsManned'
<1> SUFFICES ASSUME inTurn PROVE AssignsEarly' /\ RideIsManned'
  BY InTurnIsAStep DEF AssignsEarly, RideIsManned
<1>1. UNCHANGED orders \/ \A w \in Worker : inflight'[w] = Idle
  BY WritesAlone
<1>2. ASSUME NEW w \in Worker, inflight'[w] \in Update, inflight'[w] # inflight[w]
      PROVE  EmployeeStep \/ AdminStep
  BY <1>2, NullsAssumption
  DEF MCNext, MCVars, vars, OrdersInv, TypeOK, TransitionOrder, SetDuty, CommitInsert,
      CommitUpdate, Rollback, Tick
<1>3. AssignsEarly'
  BY <1>1, <1>2, StagedDrivers, NullsAssumption DEF AssignsEarly
<1>4. ASSUME NEW o \in OrderId, NEW row \in Row, NEW log \in SUBSET EventType,
             Write(o, row, log),
             row.status \in {"driver_arrived", "in_progress"} => row.driver \in Driver
      PROVE  RideIsManned'
  BY <1>4, WriteType DEF RideIsManned, OrdersInv
<1>5. CASE UNCHANGED orders
  BY <1>3, <1>5 DEF RideIsManned
<1>6. ASSUME NEW d \in Driver, NEW o \in DOMAIN orders, NEW a \in DOMAIN Transition,
             NEW t \in Time \cup {NoTime}, TransitionOrder(d, o, a, t)
      PROVE  RideIsManned'
  <2> DEFINE row == Swapped(orders[o], d, a, t)
  <2>1. orders[o] \in Row /\ o \in OrderId
    BY DEF OrdersInv, TypeOK
  <2>2. row \in Row
    BY <2>1, SwappedType
  <2>3. Write(o, row, {Transition[a].log}) /\ {Transition[a].log} \in SUBSET EventType
    BY <1>6 DEF TransitionOrder, Transition, EventType
  <2>4. row.status \in {"driver_arrived", "in_progress"} => row.driver \in Driver
    BY <1>6, <2>1 DEF TransitionOrder, SwapMatches, Swapped, Transition, Row
  <2> HIDE DEF row
  <2> QED
    BY <1>4, <2>1, <2>2, <2>3, <2>4
<1>7. ASSUME NEW w \in Worker, NEW o \in OrderId, CommitInsert(w, o) PROVE RideIsManned'
  <2> DEFINE row == inflight[w].row
  <2>1. /\ row \in Row /\ row.status = "pending_driver"
        /\ Write(o, row, {"created"}) /\ {"created"} \in SUBSET EventType
    BY <1>7 DEF CommitInsert, Insert, OrdersInv, StagedInserts, EventType
  <2> HIDE DEF row
  <2> QED
    BY <1>4, <2>1
<1>8. ASSUME NEW w \in Worker, CommitUpdate(w) PROVE RideIsManned'
  <2> DEFINE u   == inflight[w]
             old == orders[u.order]
             row == Updated(old, u.set)
  <2>1. u \in Update /\ Write(u.order, row, u.log)
    BY <1>8 DEF CommitUpdate
  <2>2. /\ u.order \in DOMAIN orders /\ u.order \in OrderId /\ u.log \in SUBSET EventType
        /\ old \in Row /\ u.set \in Dirty
    BY <2>1 DEF OrdersInv, TypeOK, Update
  <2>3. row \in Row
    BY <2>2, UpdatedType
  <2>4. /\ row.status = Column(old.status, u.set.status)
        /\ row.driver = Column(old.driver, u.set.driver)
    BY <2>2 DEF Updated, Row
  <2>5. u.set.status # Keep => u.set.status \in TERMINAL_STATUSES \cup {"confirmed"}
    BY <2>1 DEF OrdersInv, StagedWrites
  <2>6. u.set.driver # Keep => old.status \in ADMIN_REASSIGNABLE_STATUSES
    BY <2>1 DEF AssignsEarly
  <2>7. old.status \in {"driver_arrived", "in_progress"} => old.driver \in Driver
    BY <2>2 DEF RideIsManned
  <2>8. row.status \in {"driver_arrived", "in_progress"} => row.driver \in Driver
    BY <2>4, <2>5, <2>6, <2>7 DEF Column, TERMINAL_STATUSES, ADMIN_REASSIGNABLE_STATUSES
  <2> HIDE DEF u, old, row
  <2> QED
    BY <1>4, <2>1, <2>2, <2>3, <2>8
<1>9. CASE UNCHANGED orders \/ \E w \in Worker : \/ \E o \in OrderId : CommitInsert(w, o)
                                                 \/ CommitUpdate(w)
  BY <1>3, <1>5, <1>7, <1>8, <1>9
<1>10. CASE \E d \in Driver, o \in OrderId, a \in DOMAIN Transition :
              /\ Undisturbed
              /\ o \in DOMAIN orders /\ \E t \in Time \cup {NoTime} : TransitionOrder(d, o, a, t)
  BY <1>3, <1>6, <1>10
<1> QED
  BY <1>9, <1>10, HandlersOnlyStage DEF MCNext, MCVars, vars, SetDuty, Rollback, Tick

\* The inductive invariant of a server that serves its requests one after the other.
THEOREM InTurnInvHolds == MCSpec => []InTurnInv
<1>1. MCInit => InTurnInv
  BY NullsAssumption
  DEF MCInit, Init, InTurnInv, Serial, FreshCopy, AssignsEarly, RideIsManned
<1>2. OrdersInv /\ InTurnInv /\ [MCNext]_MCVars => InTurnInv'
  <2> SUFFICES ASSUME OrdersInv, InTurnInv, [MCNext]_MCVars PROVE InTurnInv'
    OBVIOUS
  <2>1. Serial' /\ AssignsEarly' /\ RideIsManned'
    BY WritesAlone, StepKeepsManned DEF InTurnInv
  <2>2. (inTurn => FreshCopy)'
    BY WritesAlone, StepLives, InTurnIsAStep DEF InTurnInv
  <2> QED
    BY <2>1, <2>2 DEF InTurnInv
<1> QED
  BY <1>1, <1>2, ServesAsSpecified, InvariantHolds, PTL DEF MCSpec

\* However many request contexts there are: while one request is served after the
\* other, every write is a step of the documented life of one order, or none.
THEOREM EachLivesAsDocumented == MCSpec => LivesAsDocumentedInTurn
<1>1. MCInit => (inTurn => Life!LifecycleInit)
  BY DEF MCInit, Init, Life!LifecycleInit, Trips
<1>2. OrdersInv /\ InTurnInv /\ [MCNext]_MCVars => [inTurn => Life!LifecycleNext]_Trips
  BY WritesAlone, StepLives, InTurnIsAStep DEF InTurnInv
<1> QED
  BY <1>1, <1>2, ServesAsSpecified, InvariantHolds, InTurnInvHolds, PTL
  DEF MCSpec, LivesAsDocumentedInTurn

\* While one request is served after the other a live order always offers a way on to
\* its owner or to a driver.
THEOREM NoneIsStranded == MCSpec => []NeverStrandedInTurn
<1>1. OrdersInv /\ InTurnInv => NeverStrandedInTurn
  <2> SUFFICES ASSUME OrdersInv, RideIsManned, inTurn, NEW o \in DOMAIN orders,
                      orders[o].status \notin TERMINAL_STATUSES
               PROVE  /\ \/ OwnerButtons(orders[o]) # {}
                         \/ \E d \in Driver : o \in Queue(d) /\ DriverButtons(orders[o]) # {}
                      /\ "cancel" \in AdminButtons(orders[o])
    BY DEF NeverStrandedInTurn, NotStranded, InTurnInv
  <2> DEFINE row == orders[o]
  <2>1. row \in Row /\ row.status \in NON_TERMINAL_STATUSES
    BY DEF OrdersInv, TypeOK, Row, Status
  <2>2. "cancel" \in AdminButtons(row)
    BY DEF AdminButtons
  <2>3. CASE CanModify(row)
    <3>1. "edit" \in OwnerButtons(row)
      BY <2>3 DEF OwnerButtons
    <3> QED
      BY <2>2, <3>1
  <2>4. CASE row.status = "driver_countered"
    <3>1. row.proposed # NoTime
      BY <2>4 DEF OrdersInv, ProposalIffCountered
    <3>2. "accept" \in OwnerButtons(row)
      BY <2>4, <3>1 DEF OwnerButtons, IsCountered
    <3> QED
      BY <2>2, <3>2
  <2>5. CASE row.status = "driver_en_route"
    <3>1. "cancel" \in OwnerButtons(row)
      BY <2>5 DEF OwnerButtons, CanCancel, IsCountered
    <3> QED
      BY <2>2, <3>1
  <2>6. CASE row.status \in {"driver_arrived", "in_progress"}
    <3>1. row.driver \in Driver
      BY <2>6 DEF RideIsManned
    <3>2. o \in Queue(row.driver)
      BY <2>1 DEF Queue
    <3>3. nextAction[row.status] \in DriverButtons(row)
      BY <2>6 DEF DriverButtons, nextAction
    <3> QED
      BY <2>2, <3>1, <3>2, <3>3
  <2> QED
    BY <2>1, <2>3, <2>4, <2>5, <2>6 DEF NON_TERMINAL_STATUSES, CanModify
<1> QED
  BY <1>1, ServesAsSpecified, InvariantHolds, InTurnInvHolds, PTL

-----------------------------------------------------------------------------
(* The time of an order *)

\* Statuses of an order whose time somebody agreed to.
Settled == {"confirmed", "driver_en_route", "driver_arrived", "in_progress"}

\* What w will commit is the acceptance of a proposed time.
Confirms(w) == inflight[w] \in Update /\ inflight[w].set.status = "confirmed"

OnlyConfirmationsMove ==
  \A w \in Worker : inflight[w] \in Update /\ inflight[w].set.at # Keep => Confirms(w)

OneOtherTime ==
  \A v, w \in Worker :
    Confirms(v) /\ Confirms(w) /\ inflight[v].order = inflight[w].order =>
      inflight[v].set.at = inflight[w].set.at

ConfirmsWhatWasAsked ==
  \A w \in Worker :
    Confirms(w) =>
      LET row == orders[inflight[w].order]
          at  == inflight[w].set.at
      IN  /\ row.status # "pending_driver"
          /\ row.status = "driver_countered" => at = Diff(row.at, row.proposed)
          /\ row.status \in Settled => at \in {Keep, row.at}

\* However many acceptances of a proposal are in flight, and however late they are
\* committed, they give the order one and the same time.
TimesInv == OnlyConfirmationsMove /\ OneOtherTime /\ ConfirmsWhatWasAsked

\* What a handler stages for a row: the time as it is, or the time that is proposed.
KeepsOrConfirms(u, row) ==
  \/ u.set.at = Keep /\ u.set.status # "confirmed"
  \/ /\ row.status = "driver_countered"
     /\ u.set.status = "confirmed" /\ u.set.at = Diff(row.at, row.proposed)

\* What a write makes of a row, other than the acceptance of a proposal.
KeepsTime(old, new) ==
  /\ new.mins = old.mins /\ new.at = old.at
  /\ \/ new.status = old.status /\ new.proposed = old.proposed
     \/ new.status \in TERMINAL_STATUSES
     \/ old.status = "pending_driver" /\ new.status \in {"confirmed", "driver_countered"}
     \/ old.status \in Settled /\ new.status \in Settled

LEMMA StageTimes ==
  ASSUME OrdersInv, NEW w \in Worker, NEW o \in DOMAIN orders,
         NEW obj \in Row, NEW log, Stage(w, o, obj, log),
         \/ obj.at = orders[o].at
              /\ (obj.status = orders[o].status \/ obj.status \in TERMINAL_STATUSES)
         \/ /\ orders[o].status = "driver_countered"
            /\ obj.status = "confirmed" /\ obj.at = orders[o].proposed
  PROVE  /\ UNCHANGED orders
         /\ \A v \in Worker : inflight'[v] \in Update =>
              \/ inflight'[v] = inflight[v]
              \/ /\ inflight'[v].order \in DOMAIN orders
                 /\ KeepsOrConfirms(inflight'[v], orders[inflight'[v].order])
<1> DEFINE set == Changes(orders[o], obj)
           u   == [kind |-> "update", order |-> o, set |-> set, log |-> log]
<1>1. inflight' = [inflight EXCEPT ![w] = u] /\ UNCHANGED orders
  BY DEF Stage
<1>2. \A v \in Worker : inflight'[v] = inflight[v] \/ inflight'[v] = u
  BY <1>1 DEF OrdersInv, TypeOK
<1>3. set.at = Diff(orders[o].at, obj.at) /\ set.status = Diff(orders[o].status, obj.status)
  BY DEF Changes
<1>4. u.order = o /\ u.set = set
  OBVIOUS
<1>5. KeepsOrConfirms(u, orders[o])
  <2>1. Keep # "confirmed" /\ "confirmed" \notin TERMINAL_STATUSES
    BY NullsAssumption DEF Status, NON_TERMINAL_STATUSES, TERMINAL_STATUSES
  <2> HIDE DEF set, u
  <2> QED
    BY <1>3, <1>4, <2>1 DEF KeepsOrConfirms, Diff
<1> HIDE DEF u, set
<1> QED
  BY <1>1, <1>2, <1>4, <1>5

\* Nothing but a commit or a driver's transition writes to the table.
StagesOnly ==
  /\ UNCHANGED orders
  /\ \A v \in Worker : inflight'[v] \in Update =>
       \/ inflight'[v] = inflight[v]
       \/ /\ inflight'[v].order \in DOMAIN orders
          /\ KeepsOrConfirms(inflight'[v], orders[inflight'[v].order])

LEMMA EmployeeStages == OrdersInv /\ EmployeeStep => StagesOnly
<1> SUFFICES ASSUME OrdersInv, EmployeeStep PROVE StagesOnly
  OBVIOUS
<1> PICK w \in Worker, u \in User :
      \/ \E k \in Key, d \in Driver \cup {NoDriver}, t \in Time, m \in Duration, n \in Passengers :
           CreateOrder(w, u, k, d, t, m, n)
      \/ \E o \in DOMAIN orders :
           \/ \E n \in Passengers : UpdateOrder(w, u, o, n)
           \/ CancelOrder(w, u, o)
           \/ RespondToCounter(w, u, o)
  BY DEF EmployeeStep
<1>1. ASSUME NEW k \in Key, NEW d \in Driver \cup {NoDriver}, NEW t \in Time,
             NEW m \in Duration, NEW n \in Passengers, CreateOrder(w, u, k, d, t, m, n)
      PROVE  StagesOnly
  BY <1>1 DEF CreateOrder, OrdersInv, TypeOK, Update, StagesOnly
<1>2. ASSUME NEW o \in DOMAIN orders, NEW n \in Passengers, UpdateOrder(w, u, o, n)
      PROVE  StagesOnly
  <2> DEFINE obj == [orders[o] EXCEPT !.passengers = n]
  <2>1. orders[o] \in Row
    BY DEF OrdersInv, TypeOK
  <2>2. obj \in Row /\ obj.at = orders[o].at /\ obj.status = orders[o].status
    BY <2>1 DEF Row
  <2>3. Stage(w, o, obj, {})
    BY <1>2 DEF UpdateOrder
  <2> HIDE DEF obj
  <2> QED
    BY <2>2, <2>3, StageTimes DEF StagesOnly
<1>3. ASSUME NEW o \in DOMAIN orders, CancelOrder(w, u, o)
      PROVE  StagesOnly
  <2> DEFINE obj == [orders[o] EXCEPT !.status = "cancelled_by_user", !.cancelledBy = "user"]
  <2>1. orders[o] \in Row
    BY DEF OrdersInv, TypeOK
  <2>2. obj \in Row /\ obj.at = orders[o].at /\ obj.status \in TERMINAL_STATUSES
    BY <2>1 DEF Row, Status, CancelledBy, TERMINAL_STATUSES
  <2>3. Stage(w, o, obj, {"cancelled_by_user"})
    BY <1>3 DEF CancelOrder
  <2> HIDE DEF obj
  <2> QED
    BY <2>2, <2>3, StageTimes DEF StagesOnly
<1>4. ASSUME NEW o \in DOMAIN orders, RespondToCounter(w, u, o)
      PROVE  StagesOnly
  <2>1. /\ orders[o] \in Row
        /\ orders[o].status = "driver_countered"
        /\ orders[o].proposed \in Time
    BY <1>4 DEF RespondToCounter, OrdersInv, TypeOK, ProposalIffCountered, TERMINAL_STATUSES, Row
  <2> DEFINE yes == CounterAccepted(orders[o])
             no  == CounterDeclined(orders[o])
  <2>2. /\ yes \in Row /\ yes.status = "confirmed" /\ yes.at = orders[o].proposed
        /\ no \in Row /\ no.status \in TERMINAL_STATUSES /\ no.at = orders[o].at
    BY <2>1 DEF CounterAccepted, CounterDeclined, Row, Status, CancelledBy,
                NON_TERMINAL_STATUSES, TERMINAL_STATUSES
  <2>3. \/ Stage(w, o, yes, {"counter_accepted"})
        \/ Stage(w, o, no, {"counter_declined"})
    BY <1>4 DEF RespondToCounter
  <2> HIDE DEF yes, no
  <2> QED
    BY <2>1, <2>2, <2>3, StageTimes DEF StagesOnly
<1> QED
  BY <1>1, <1>2, <1>3, <1>4

LEMMA AdminStages == OrdersInv /\ AdminStep => StagesOnly
<1> SUFFICES ASSUME OrdersInv, AdminStep PROVE StagesOnly
  OBVIOUS
<1> PICK w \in Worker, o \in DOMAIN orders :
      \/ \E d \in Driver \cup {NoDriver} : AssignOrder(w, o, d)
      \/ AdminCancelOrder(w, o)
  BY DEF AdminStep
<1>0. orders[o] \in Row
  BY DEF OrdersInv, TypeOK
<1>1. ASSUME NEW d \in Driver \cup {NoDriver}, AssignOrder(w, o, d)
      PROVE  StagesOnly
  <2> DEFINE obj == [orders[o] EXCEPT !.driver = d]
  <2>1. obj \in Row /\ obj.at = orders[o].at /\ obj.status = orders[o].status
    BY <1>0 DEF Row
  <2>2. Stage(w, o, obj, {"admin_reassigned"})
    BY <1>1 DEF AssignOrder
  <2> HIDE DEF obj
  <2> QED
    BY <2>1, <2>2, StageTimes DEF StagesOnly
<1>2. ASSUME AdminCancelOrder(w, o)
      PROVE  StagesOnly
  <2> DEFINE obj == [orders[o] EXCEPT !.status = "cancelled_by_admin", !.cancelledBy = "admin"]
  <2>1. obj \in Row /\ obj.at = orders[o].at /\ obj.status \in TERMINAL_STATUSES
    BY <1>0 DEF Row, Status, CancelledBy, TERMINAL_STATUSES
  <2>2. Stage(w, o, obj, {"cancelled_by_admin"})
    BY <1>2 DEF AdminCancelOrder
  <2> HIDE DEF obj
  <2> QED
    BY <2>1, <2>2, StageTimes DEF StagesOnly
<1> QED
  BY <1>1, <1>2

\* One order is placed, or its row written: a new order awaits its driver, the write
\* keeps the time, or it is an acceptance that was in flight.
WritesTime(o) ==
  /\ DOMAIN orders' = DOMAIN orders \cup {o}
  /\ \A p \in DOMAIN orders : p # o => orders'[p] = orders[p]
  /\ \A v \in Worker : inflight'[v] = inflight[v] \/ inflight'[v] = Idle
  /\ \/ o \notin DOMAIN orders /\ orders'[o].status = "pending_driver"
     \/ o \in DOMAIN orders /\ KeepsTime(orders[o], orders'[o])
     \/ \E w \in Worker :
          /\ Confirms(w) /\ inflight[w].order = o /\ o \in DOMAIN orders
          /\ orders'[o].status = "confirmed" /\ orders'[o].mins = orders[o].mins
          /\ orders'[o].at = Column(orders[o].at, inflight[w].set.at)

LEMMA TransitionWrites ==
  ASSUME OrdersInv, NEW d \in Driver, NEW o \in DOMAIN orders, NEW a \in DOMAIN Transition,
         NEW t \in Time \cup {NoTime}, TransitionOrder(d, o, a, t)
  PROVE  WritesTime(o)
<1> DEFINE row == Swapped(orders[o], d, a, t)
<1>1. /\ orders[o] \in Row /\ orders[o].status = Transition[a].from
      /\ o \in OrderId /\ UNCHANGED inflight
  BY DEF TransitionOrder, SwapMatches, OrdersInv, TypeOK
<1>2. row \in Row
  BY <1>1, SwappedType
<1>3. row.mins = orders[o].mins /\ row.at = orders[o].at /\ row.status = Transition[a].to
  BY <1>1 DEF Swapped, Row
<1>4. Write(o, row, {Transition[a].log}) /\ {Transition[a].log} \in SUBSET EventType
  BY DEF TransitionOrder, Transition, EventType
<1>5. \/ Transition[a].to \in TERMINAL_STATUSES
      \/ /\ Transition[a].from = "pending_driver"
         /\ Transition[a].to \in {"confirmed", "driver_countered"}
      \/ Transition[a].from \in Settled /\ Transition[a].to \in Settled
  BY DEF Transition, TERMINAL_STATUSES, Settled
<1> HIDE DEF row
<1>6. KeepsTime(orders[o], row)
  BY <1>1, <1>3, <1>5 DEF KeepsTime
<1>7. /\ DOMAIN orders' = DOMAIN orders \cup {o} /\ orders'[o] = row
      /\ \A p \in DOMAIN orders : p # o => orders'[p] = orders[p]
  BY <1>1, <1>2, <1>4, WriteType DEF OrdersInv
<1> QED
  BY <1>1, <1>6, <1>7 DEF WritesTime

LEMMA CommitWrites ==
  ASSUME OrdersInv, TimesInv, NEW w \in Worker, CommitUpdate(w)
  PROVE  \E o \in OrderId : WritesTime(o)
<1> DEFINE u   == inflight[w]
           o   == u.order
           row == Updated(orders[o], u.set)
<1>1. u \in Update /\ Write(o, row, u.log)
  BY DEF CommitUpdate
<1>2. /\ o \in DOMAIN orders /\ o \in OrderId /\ orders[o] \in Row
      /\ u.set \in Dirty /\ u.log \in SUBSET EventType
  BY <1>1 DEF OrdersInv, TypeOK, Update
<1>3. row \in Row
  BY <1>2, UpdatedType
<1>4. /\ row.mins = orders[o].mins
      /\ row.at = Column(orders[o].at, u.set.at)
      /\ row.status = Column(orders[o].status, u.set.status)
      /\ row.proposed = Column(orders[o].proposed, u.set.proposed)
  BY <1>2 DEF Updated, Row
<1>5. \A v \in Worker : inflight'[v] = inflight[v] \/ inflight'[v] = Idle
  BY DEF CommitUpdate, OrdersInv, TypeOK
<1>6. TypeOK
  BY DEF OrdersInv
<1> HIDE DEF row, u
<1>7. /\ DOMAIN orders' = DOMAIN orders \cup {o} /\ orders'[o] = row
      /\ \A p \in DOMAIN orders : p # o => orders'[p] = orders[p]
  BY <1>1, <1>2, <1>3, <1>6, WriteType
<1> USE DEF u
<1>8. \/ u.set.status = Keep /\ u.set.proposed = Keep
      \/ u.set.status \in TERMINAL_STATUSES
      \/ u.set.status = "confirmed"
  BY <1>1 DEF OrdersInv, StagedWrites
<1>9. u.set.at # Keep => u.set.status = "confirmed"
  BY <1>1 DEF TimesInv, OnlyConfirmationsMove, Confirms
<1>10. Keep # "confirmed" /\ Keep \notin TERMINAL_STATUSES
  BY NullsAssumption DEF Status, NON_TERMINAL_STATUSES, TERMINAL_STATUSES
<1>11. CASE u.set.status = "confirmed"
  <2>1. Confirms(w) /\ row.status = "confirmed"
    BY <1>1, <1>4, <1>10, <1>11 DEF Confirms, Column
  <2> QED
    BY <1>2, <1>4, <1>5, <1>7, <2>1 DEF WritesTime
<1>12. CASE u.set.status # "confirmed"
  <2>1. KeepsTime(orders[o], row)
    BY <1>4, <1>8, <1>9, <1>10, <1>12 DEF KeepsTime, Column
  <2> QED
    BY <1>2, <1>5, <1>7, <2>1 DEF WritesTime
<1> QED
  BY <1>11, <1>12

LEMMA StepTimes ==
  ASSUME OrdersInv, TimesInv, [Next]_vars
  PROVE  StagesOnly \/ \E o \in OrderId : WritesTime(o)
<1>1. CASE EmployeeStep \/ AdminStep
  BY <1>1, EmployeeStages, AdminStages
<1>2. CASE Tick \/ UNCHANGED vars
  BY <1>2 DEF Tick, vars, StagesOnly
<1>3. CASE DriverStep
  <2>1. ASSUME NEW d \in Driver, SetDuty(d) PROVE StagesOnly
    BY <2>1 DEF SetDuty, StagesOnly
  <2>2. DOMAIN orders \subseteq OrderId
    BY DEF OrdersInv, TypeOK
  <2> QED
    BY <1>3, <2>1, <2>2, TransitionWrites DEF DriverStep
<1>4. ASSUME NEW w \in Worker, NEW o \in OrderId, CommitInsert(w, o) PROVE WritesTime(o)
  <2> DEFINE row == inflight[w].row
  <2>1. /\ row \in Row /\ row.status = "pending_driver" /\ o \notin DOMAIN orders
        /\ Write(o, row, {"created"}) /\ {"created"} \in SUBSET EventType
    BY <1>4 DEF CommitInsert, Insert, OrdersInv, StagedInserts, EventType
  <2>2. \A v \in Worker : inflight'[v] = inflight[v] \/ inflight'[v] = Idle
    BY <1>4 DEF CommitInsert, OrdersInv, TypeOK
  <2> HIDE DEF row
  <2>3. /\ DOMAIN orders' = DOMAIN orders \cup {o} /\ orders'[o] = row
        /\ \A p \in DOMAIN orders : p # o => orders'[p] = orders[p]
    BY <2>1, WriteType DEF OrdersInv
  <2> QED
    BY <2>1, <2>2, <2>3 DEF WritesTime
<1>5. ASSUME NEW w \in Worker, Rollback(w) PROVE StagesOnly
  BY <1>5, NullsAssumption DEF Rollback, OrdersInv, TypeOK, StagesOnly
<1> QED
  BY <1>1, <1>2, <1>3, <1>4, <1>5, CommitWrites DEF Next, RequestEnd

LEMMA TimesKept == OrdersInv /\ TimesInv /\ [Next]_vars => TimesInv'
<1> SUFFICES ASSUME OrdersInv, TimesInv, [Next]_vars PROVE TimesInv'
  OBVIOUS
<1>0. /\ Idle \notin Update /\ Keep # "confirmed"
      /\ \A w \in Worker : inflight[w] \in Update => inflight[w].order \in DOMAIN orders
  BY NullsAssumption DEF OrdersInv, TypeOK, Status, NON_TERMINAL_STATUSES
<1>1. CASE StagesOnly
  <2>1. OnlyConfirmationsMove'
    BY <1>1 DEF StagesOnly, TimesInv, OnlyConfirmationsMove, Confirms, KeepsOrConfirms
  <2>2. ASSUME NEW w \in Worker, Confirms(w)'
        PROVE  \/ inflight'[w] = inflight[w] /\ Confirms(w)
               \/ LET row == orders[inflight'[w].order]
                  IN  /\ row.status = "driver_countered"
                      /\ inflight'[w].set.at = Diff(row.at, row.proposed)
    BY <1>1, <2>2 DEF StagesOnly, Confirms, KeepsOrConfirms
  <2>3. OneOtherTime'
    BY <2>2 DEF TimesInv, OneOtherTime, ConfirmsWhatWasAsked
  <2>4. ConfirmsWhatWasAsked'
    BY <1>1, <2>2 DEF StagesOnly, TimesInv, ConfirmsWhatWasAsked, Settled
  <2> QED
    BY <2>1, <2>3, <2>4 DEF TimesInv
<1>2. ASSUME NEW o \in OrderId, WritesTime(o) PROVE TimesInv'
  <2>1. \A w \in Worker : inflight'[w] \in Update => inflight'[w] = inflight[w]
    BY <1>0, <1>2 DEF WritesTime
  <2>2. \A w \in Worker : Confirms(w)' => Confirms(w) /\ inflight'[w] = inflight[w]
    BY <2>1 DEF Confirms
  <2>3. OnlyConfirmationsMove' /\ OneOtherTime'
    BY <2>1, <2>2 DEF TimesInv, OnlyConfirmationsMove, OneOtherTime, Confirms
  <2>4. ASSUME NEW w \in Worker, Confirms(w)'
        PROVE  LET row == orders'[inflight'[w].order]
                   at  == inflight'[w].set.at
               IN  /\ row.status # "pending_driver"
                   /\ row.status = "driver_countered" => at = Diff(row.at, row.proposed)
                   /\ row.status \in Settled => at \in {Keep, row.at}
    <3> DEFINE p  == inflight[w].order
               at == inflight[w].set.at
    <3>1. /\ Confirms(w) /\ inflight'[w] = inflight[w] /\ p \in DOMAIN orders
      BY <1>0, <2>2, <2>4 DEF Confirms
    <3>2. /\ orders[p].status # "pending_driver"
          /\ orders[p].status = "driver_countered" => at = Diff(orders[p].at, orders[p].proposed)
          /\ orders[p].status \in Settled => at \in {Keep, orders[p].at}
      BY <3>1 DEF TimesInv, ConfirmsWhatWasAsked
    <3> SUFFICES /\ orders'[p].status # "pending_driver"
                 /\ orders'[p].status = "driver_countered" =>
                      at = Diff(orders'[p].at, orders'[p].proposed)
                 /\ orders'[p].status \in Settled => at \in {Keep, orders'[p].at}
      BY <3>1
    <3>3. CASE p # o
      BY <1>2, <3>1, <3>2, <3>3 DEF WritesTime
    <3>4. CASE p = o /\ KeepsTime(orders[o], orders'[o])
      BY <3>1, <3>2, <3>4 DEF KeepsTime, TERMINAL_STATUSES, Settled
    <3>5. ASSUME NEW v \in Worker, Confirms(v), inflight[v].order = o, p = o,
                 orders'[o].status = "confirmed",
                 orders'[o].at = Column(orders[o].at, inflight[v].set.at)
          PROVE  at \in {Keep, orders'[o].at}
      <4>1. inflight[v].set.at = at
        BY <3>1, <3>5 DEF TimesInv, OneOtherTime
      <4> QED
        BY <3>5, <4>1 DEF Column
    <3> QED
      BY <1>2, <3>1, <3>3, <3>4, <3>5 DEF WritesTime
  <2>5. ConfirmsWhatWasAsked'
    BY <2>4 DEF ConfirmsWhatWasAsked
  <2> QED
    BY <2>3, <2>5 DEF TimesInv
<1> QED
  BY <1>1, <1>2, StepTimes

\* Every acceptance of a proposal that is in flight gives an order the time it was asked
\* about, and once somebody has agreed to a time no write in flight changes it.
THEOREM TimesInvHolds == Spec => []TimesInv
<1>1. Init => TimesInv
  BY NullsAssumption
  DEF Init, TimesInv, OnlyConfirmationsMove, OneOtherTime, ConfirmsWhatWasAsked, Confirms
<1>2. OrdersInv /\ TimesInv /\ [Next]_vars => TimesInv'
  BY TimesKept
<1> QED
  BY <1>1, <1>2, InvariantHolds, PTL DEF Spec

-----------------------------------------------------------------------------
(* The screens of the driver and the owner *)

\* The order o may be what it is now, with the writes in flight for it, if a screen has
\* shown it as old.
MayHaveBecome(old, o) ==
  LET row == orders[o]
  IN  /\ o \in DOMAIN orders
      /\ old.status \notin TERMINAL_STATUSES =>
           (old.proposed # NoTime <=> old.status = "driver_countered")
      /\ row.mins = old.mins
      /\ row.status = "pending_driver" => old.status = "pending_driver" /\ row.at = old.at
      /\ row.status = "driver_countered" =>
           \/ old.status = "pending_driver"
           \/ /\ old.status = "driver_countered"
              /\ row.at = old.at /\ row.proposed = old.proposed
      /\ old.status \in Settled =>
           /\ row.at = old.at
           /\ \A w \in Worker :
                inflight[w] \in Update /\ inflight[w].order = o =>
                  inflight[w].set.at \in {Keep, old.at}

LEMMA NowMayBe ==
  ASSUME OrdersInv, TimesInv, NEW o \in DOMAIN orders
  PROVE  MayHaveBecome(orders[o], o)
<1>1. /\ orders[o].status \notin TERMINAL_STATUSES =>
           (orders[o].proposed # NoTime <=> orders[o].status = "driver_countered")
  BY DEF OrdersInv, ProposalIffCountered
<1>2. ASSUME NEW w \in Worker, inflight[w] \in Update, inflight[w].order = o,
             orders[o].status \in Settled
      PROVE  inflight[w].set.at \in {Keep, orders[o].at}
  BY <1>2 DEF TimesInv, OnlyConfirmationsMove, ConfirmsWhatWasAsked
<1> QED
  BY <1>1, <1>2 DEF MayHaveBecome

\* It may become what the next step makes of it.
LEMMA MayBecome ==
  ASSUME OrdersInv, TimesInv, [Next]_vars, NEW old, NEW o, MayHaveBecome(old, o)
  PROVE  MayHaveBecome(old, o)'
<1>0. o \in DOMAIN orders /\ Idle \notin Update
  BY NullsAssumption DEF MayHaveBecome
<1>1. CASE StagesOnly
  <2>1. UNCHANGED orders
    BY <1>1 DEF StagesOnly
  <2>2. ASSUME old.status \in Settled, NEW w \in Worker,
               inflight'[w] \in Update, inflight'[w].order = o
        PROVE  inflight'[w].set.at \in {Keep, old.at}
    <3>1. orders[o].status # "driver_countered"
      BY <2>2 DEF MayHaveBecome, Settled
    <3>2. inflight'[w] = inflight[w] \/ inflight'[w].set.at = Keep
      BY <1>1, <2>2, <3>1 DEF StagesOnly, KeepsOrConfirms
    <3> QED
      BY <2>2, <3>2 DEF MayHaveBecome
  <2> QED
    BY <2>1, <2>2 DEF MayHaveBecome
<1>2. ASSUME NEW p \in OrderId, WritesTime(p) PROVE MayHaveBecome(old, o)'
  <2>1. \A w \in Worker : inflight'[w] \in Update => inflight'[w] = inflight[w]
    BY <1>0, <1>2 DEF WritesTime
  <2>2. o \in DOMAIN orders'
    BY <1>0, <1>2 DEF WritesTime
  <2>3. CASE p # o
    BY <1>0, <1>2, <2>1, <2>2, <2>3 DEF WritesTime, MayHaveBecome
  <2>4. CASE KeepsTime(orders[o], orders'[o])
    BY <1>0, <2>1, <2>2, <2>4 DEF MayHaveBecome, KeepsTime, Settled, TERMINAL_STATUSES
  <2>5. ASSUME NEW v \in Worker, Confirms(v), inflight[v].order = o,
               orders'[o].status = "confirmed", orders'[o].mins = orders[o].mins,
               orders'[o].at = Column(orders[o].at, inflight[v].set.at)
        PROVE  MayHaveBecome(old, o)'
    <3>1. old.status \in Settled => orders'[o].at = old.at
      BY <1>0, <2>5 DEF MayHaveBecome, Confirms, Column
    <3> QED
      BY <1>0, <2>1, <2>2, <2>5, <3>1 DEF MayHaveBecome
  <2> QED
    BY <1>0, <1>2, <2>3, <2>4, <2>5 DEF WritesTime
<1> QED
  BY <1>1, <1>2, StepTimes

\* Orders with a row a screen shows, is about to show, or has sent a request about.
ShownRows(rows) == {<<o, rows[o]>> : o \in DOMAIN rows}

SentRows == {<<t.order, t.shown>> : t \in {u \in taps : u.stage = "sent"}}

OnScreens ==
  ShownRows(queue) \cup ShownRows(details)
    \cup (IF arriving = Blank THEN {} ELSE ShownRows(arriving)) \cup SentRows

Current == {<<o, orders[o]>> : o \in DOMAIN orders}

\* A request was offered for the status that was shown, but for those of a form that
\* stays open whatever the screen shows.
Fits(t) ==
  t.stage = "sent" =>
    /\ t.what \in Replies => t.shown.status = "driver_countered"
    /\ t.what \in DOMAIN Transition \ {"reject", "propose_time"} =>
         t.shown.status = Transition[t.what].from

\* Whatever is on a screen, or was when a tap was sent, may have become what the table
\* has now.
ScreensInv ==
  /\ DeskTypeOK
  /\ open # Blank => open \in DOMAIN orders
  /\ \A s \in OnScreens : MayHaveBecome(s[2], s[1])
  /\ \A t \in taps : Fits(t)

DeskInv == OrdersInv /\ TimesInv /\ ScreensInv

\* What a step may do to the screens: show what was on a screen, or what is in the table.
ShowsOnlyRows ==
  /\ DeskTypeOK'
  /\ open' # Blank => open' \in DOMAIN orders
  /\ OnScreens' \subseteq OnScreens \cup Current
  /\ \A t \in taps' : Fits(t)

\* A tap is sent, or its request gets on.
TapsGoOn ==
  /\ taps' \subseteq Tap
  /\ SentRows' \subseteq SentRows \cup ShownRows(queue) \cup ShownRows(details)
  /\ \A t \in taps' : Fits(t)

LEMMA SendGoesOn ==
  ASSUME ScreensInv, NEW o \in OrderId, NEW row \in Row, NEW t \in Time \cup {NoTime},
         NEW what \in DOMAIN Transition \cup Replies \cup {"edit", "cancel"},
         Send(o, what, row, t), <<o, row>> \in ShownRows(queue) \cup ShownRows(details),
         what \in Replies => row.status = "driver_countered",
         what \in DOMAIN Transition \ {"reject", "propose_time"} =>
           row.status = Transition[what].from
  PROVE  TapsGoOn
<1> DEFINE tap == [order |-> o, what |-> what, shown |-> row, at |-> t, stage |-> "sent"]
<1>1. /\ tap \in Tap /\ tap.stage = "sent" /\ tap.what = what /\ tap.shown = row
      /\ tap.order = o
  BY DEF Tap
<1>2. taps' = taps \cup {tap}
  BY DEF Send
<1> HIDE DEF tap
<1>3. Fits(tap)
  BY <1>1 DEF Fits
<1>4. SentRows' \subseteq SentRows \cup {<<o, row>>}
  BY <1>1, <1>2 DEF SentRows
<1> QED
  BY <1>1, <1>2, <1>3, <1>4 DEF ScreensInv, DeskTypeOK, TapsGoOn

LEMMA MovesOn ==
  ASSUME ScreensInv, NEW t \in taps, NEW stage \in {"done", "heard"} \cup Worker,
         Moves(t, stage)
  PROVE  TapsGoOn
<1> DEFINE u == [t EXCEPT !.stage = stage]
<1>1. u \in Tap /\ u.stage # "sent"
  BY DeskAssumption DEF ScreensInv, DeskTypeOK, Tap
<1>2. taps' = (taps \ {t}) \cup {u}
  BY DEF Moves
<1> HIDE DEF u
<1>3. SentRows' \subseteq SentRows
  BY <1>1, <1>2 DEF SentRows
<1>4. Fits(u)
  BY <1>1 DEF Fits
<1> QED
  BY <1>1, <1>2, <1>3, <1>4 DEF ScreensInv, DeskTypeOK, TapsGoOn

LEMMA FewerGoOn ==
  ASSUME ScreensInv, taps' \subseteq taps
  PROVE  TapsGoOn
BY DEF ScreensInv, DeskTypeOK, TapsGoOn, SentRows

\* The rows shown stay as they are, and requests get on.
LEMMA NothingNewShown ==
  ASSUME ScreensInv, TapsGoOn, UNCHANGED <<driverDesk, ownerDesk>>
  PROVE  ShowsOnlyRows
<1>1. DeskTypeOK'
  BY DEF ScreensInv, DeskTypeOK, TapsGoOn, driverDesk, ownerDesk
<1>2. OnScreens' \subseteq OnScreens
  BY DEF TapsGoOn, OnScreens, ShownRows, driverDesk, ownerDesk
<1> QED
  BY <1>1, <1>2 DEF ShowsOnlyRows, ScreensInv, TapsGoOn, ownerDesk

LEMMA ShownType ==
  ASSUME NEW rows \in Shown
  PROVE  /\ DOMAIN rows \subseteq OrderId
         /\ \A o \in DOMAIN rows : rows[o] \in Row
BY DEF Shown

LEMMA DriverTaps ==
  ASSUME OrdersInv, ScreensInv, NEW o \in OrderId,
         \/ \E a \in DOMAIN Transition : TapButton(o, a)
         \/ SendReject(o)
         \/ \E t \in Time : SendPropose(o, t)
  PROVE  ShowsOnlyRows /\ UNCHANGED vars
<1> USE DEF ScreensInv
<1>1. o \in DOMAIN queue /\ queue[o] \in Row /\ <<o, queue[o]>> \in ShownRows(queue)
  BY ShownType DEF TapButton, ShowsButtons, SendReject, SendPropose, DeskTypeOK, ShownRows
<1>2. UNCHANGED <<driverDesk, ownerDesk>> /\ UNCHANGED vars
  BY DEF TapButton, SendReject, SendPropose
<1>3. DOMAIN Transition \cap Replies = {} /\ {"reject", "propose_time"} \subseteq DOMAIN Transition
  BY DEF Transition, Replies
<1>4. ASSUME NEW a \in DOMAIN Transition, TapButton(o, a) PROVE TapsGoOn
  <2>1. queue[o].status = Transition[a].from
    BY <1>4 DEF TapButton, DriverButtons, nextAction, Transition
  <2>2. Send(o, a, queue[o], NoTime)
    BY <1>4 DEF TapButton
  <2> QED
    BY <1>1, <1>3, <2>1, <2>2, SendGoesOn
<1>5. ASSUME SendReject(o) PROVE TapsGoOn
  <2>1. Send(o, "reject", queue[o], NoTime)
    BY <1>5 DEF SendReject
  <2> QED
    BY <1>1, <1>3, <2>1, SendGoesOn
<1>6. ASSUME NEW t \in Time, SendPropose(o, t) PROVE TapsGoOn
  <2>1. Send(o, "propose_time", queue[o], t)
    BY <1>6 DEF SendPropose
  <2> QED
    BY <1>1, <1>3, <2>1, SendGoesOn
<1> QED
  BY <1>2, <1>4, <1>5, <1>6, NothingNewShown

LEMMA DriverLooks ==
  ASSUME OrdersInv, ScreensInv,
         \/ Fetch \/ ShowQueue
         \/ \E o \in OrderId : OpenReject(o) \/ OpenPropose(o) \/ CloseForm(o)
  PROVE  ShowsOnlyRows /\ UNCHANGED vars
<1> USE DEF ScreensInv
<1>1. UNCHANGED <<vars, ownerDesk, taps>> /\ UNCHANGED SentRows
  BY DEF Fetch, ShowQueue, OpenReject, OpenPropose, CloseForm, SentRows
<1>2. CASE Fetch
  <2>1. QueueNow \in Shown /\ ShownRows(QueueNow) \subseteq Current
    <3>1. Queue(Me) \subseteq DOMAIN orders /\ Queue(Me) \subseteq OrderId
          /\ \A o \in Queue(Me) : orders[o] \in Row
      BY DEF Queue, OrdersInv, TypeOK
    <3> QED
      BY <3>1 DEF QueueNow, Shown, ShownRows, Current
  <2>2. arriving' = QueueNow /\ UNCHANGED <<queue, rejecting, proposing>>
    BY <1>2 DEF Fetch
  <2>3. DeskTypeOK'
    BY <1>1, <2>1, <2>2 DEF DeskTypeOK, ownerDesk
  <2>4. OnScreens' \subseteq OnScreens \cup Current
    BY <1>1, <2>1, <2>2 DEF OnScreens, ShownRows, ownerDesk
  <2> QED
    BY <1>1, <2>3, <2>4 DEF ShowsOnlyRows, ownerDesk
<1>3. CASE ShowQueue
  <2>1. DeskTypeOK'
    BY <1>1, <1>3 DEF ShowQueue, DeskTypeOK, ownerDesk
  <2>2. OnScreens' \subseteq OnScreens
    BY <1>1, <1>3 DEF ShowQueue, OnScreens, ShownRows, ownerDesk
  <2> QED
    BY <1>1, <2>1, <2>2 DEF ShowsOnlyRows, ownerDesk
<1>4. CASE \E o \in OrderId : OpenReject(o) \/ OpenPropose(o) \/ CloseForm(o)
  <2>1. /\ UNCHANGED <<queue, arriving>>
        /\ rejecting' \in OrderId \cup {Blank} /\ proposing' \in OrderId \cup {Blank}
    BY <1>4 DEF OpenReject, OpenPropose, CloseForm, DeskTypeOK
  <2>2. DeskTypeOK'
    BY <1>1, <2>1 DEF DeskTypeOK, ownerDesk
  <2>3. OnScreens' \subseteq OnScreens
    BY <1>1, <2>1 DEF OnScreens, ShownRows, ownerDesk
  <2> QED
    BY <1>1, <2>2, <2>3 DEF ShowsOnlyRows, ownerDesk
<1> QED
  BY <1>1, <1>2, <1>3, <1>4

LEMMA OwnerTaps ==
  ASSUME OrdersInv, ScreensInv, NEW o \in OrderId,
         SendForm(o) \/ \E b \in {"accept", "decline"} : Reply(o, b)
  PROVE  ShowsOnlyRows /\ UNCHANGED vars
<1> USE DEF ScreensInv
<1>1. details[o] \in Row /\ <<o, details[o]>> \in ShownRows(details)
  BY ShownType DEF SendForm, Reply, ShowsPage, DeskTypeOK, ShownRows
<1>2. UNCHANGED <<driverDesk, ownerDesk>> /\ UNCHANGED vars
  BY DEF SendForm, Reply
<1>3. ASSUME SendForm(o) PROVE TapsGoOn
  <2>1. Send(o, mode, details[o], NoTime) /\ mode \in {"edit", "cancel"}
    BY <1>3 DEF SendForm, DeskTypeOK
  <2>2. {"edit", "cancel"} \cap (Replies \cup DOMAIN Transition) = {}
    BY DEF Replies, Transition
  <2> QED
    BY <1>1, <2>1, <2>2, SendGoesOn
<1>4. ASSUME NEW b \in {"accept", "decline"}, Reply(o, b) PROVE TapsGoOn
  <2> DEFINE what == IF b = "accept" THEN "accept_proposal" ELSE "decline_proposal"
  <2>1. details[o].status = "driver_countered"
    BY <1>4 DEF Reply, OwnerButtons, IsCountered
  <2>2. Send(o, what, details[o], NoTime)
    BY <1>4 DEF Reply
  <2>3. what \in Replies /\ what \notin DOMAIN Transition
    BY DEF Replies, Transition
  <2> HIDE DEF what
  <2> QED
    BY <1>1, <2>1, <2>2, <2>3, SendGoesOn
<1> QED
  BY <1>2, <1>3, <1>4, NothingNewShown

LEMMA OwnerLooks ==
  ASSUME OrdersInv, ScreensInv,
         \/ \E o \in OrderId : \/ OpenOrder(o) \/ FetchOrder(o)
                               \/ \E b \in {"edit", "cancel"} : OpenForm(o, b)
         \/ CloseOrder \/ LeaveForm
  PROVE  ShowsOnlyRows /\ UNCHANGED vars
<1> USE DEF ScreensInv
<1>1. UNCHANGED <<vars, driverDesk, taps>> /\ UNCHANGED SentRows
  BY DEF OpenOrder, FetchOrder, OpenForm, CloseOrder, LeaveForm, SentRows
<1>2. ASSUME NEW o \in OrderId, FetchOrder(o) PROVE ShowsOnlyRows
  <2>1. o \in DOMAIN orders /\ orders[o] \in Row
    BY <1>2, DeskAssumption DEF FetchOrder, OrdersInv, TypeOK
  <2>2. /\ DOMAIN details' = DOMAIN details \cup {o} /\ details'[o] = orders[o]
        /\ \A p \in DOMAIN details : p # o => details'[p] = details[p]
        /\ details' = [p \in DOMAIN details \cup {o} |-> details'[p]]
        /\ UNCHANGED <<open, mode>>
    BY <1>2 DEF FetchOrder
  <2>3. details' \in Shown
    <3>1. \A p \in DOMAIN details \cup {o} : p \in OrderId /\ details'[p] \in Row
      BY <2>1, <2>2, ShownType DEF DeskTypeOK
    <3> QED
      BY <2>2, <3>1 DEF Shown
  <2>4. DeskTypeOK'
    BY <1>1, <2>2, <2>3 DEF DeskTypeOK, driverDesk
  <2>5. ShownRows(details)' \subseteq ShownRows(details) \cup Current
    BY <2>1, <2>2 DEF ShownRows, Current
  <2>6. OnScreens' \subseteq OnScreens \cup Current
    BY <1>1, <2>5 DEF OnScreens, ShownRows, driverDesk
  <2> QED
    BY <1>1, <2>2, <2>4, <2>6 DEF ShowsOnlyRows
<1>3. ASSUME CloseOrder \/ LeaveForm
               \/ \E o \in OrderId : OpenOrder(o) \/ \E b \in {"edit", "cancel"} : OpenForm(o, b)
      PROVE  ShowsOnlyRows
  <2>1. /\ UNCHANGED details /\ open' \in OrderId \cup {Blank}
        /\ open' # Blank => open' \in DOMAIN orders
        /\ mode' \in {"view", "edit", "cancel"} /\ (open' = Blank => mode' = "view")
    BY <1>3, DeskAssumption
    DEF CloseOrder, LeaveForm, OpenOrder, OpenForm, ShowsPage, DeskTypeOK
  <2>2. DeskTypeOK'
    BY <1>1, <2>1 DEF DeskTypeOK, driverDesk
  <2>3. OnScreens' \subseteq OnScreens
    BY <1>1, <2>1 DEF OnScreens, ShownRows, driverDesk
  <2> QED
    BY <1>1, <2>1, <2>2, <2>3 DEF ShowsOnlyRows
<1> QED
  BY <1>1, <1>2, <1>3

\* The order of a request that is still to be handled is in the table.
LEMMA SentAreThere ==
  ASSUME ScreensInv, NEW t \in taps, t.stage = "sent"
  PROVE  t.order \in DOMAIN orders /\ MayHaveBecome(t.shown, t.order) /\ Fits(t)
<1>1. <<t.order, t.shown>> \in OnScreens
  BY DEF OnScreens, SentRows
<1>2. MayHaveBecome(t.shown, t.order)
  BY <1>1 DEF ScreensInv
<1> QED
  BY <1>2 DEF ScreensInv, MayHaveBecome

LEMMA RequestsGoOn ==
  ASSUME OrdersInv, ScreensInv, NEW t \in taps,
         HandleDriver(t) \/ (\E w \in Worker : HandleOwner(t, w)) \/ Fail(t)
  PROVE  ShowsOnlyRows /\ [Next]_vars
<1>1. CASE HandleDriver(t)
  <2>1. TapsGoOn /\ UNCHANGED <<driverDesk, ownerDesk>>
    BY <1>1, MovesOn DEF HandleDriver
  <2>2. DriverStep
    BY <1>1, SentAreThere, DeskAssumption DEF HandleDriver, TransitionOrder, DriverStep
  <2> QED
    BY <2>1, <2>2, NothingNewShown DEF Next
<1>2. ASSUME NEW w \in Worker, HandleOwner(t, w) PROVE ShowsOnlyRows /\ [Next]_vars
  <2>1. TapsGoOn /\ UNCHANGED <<driverDesk, ownerDesk>>
    BY <1>2, MovesOn DEF HandleOwner
  <2>2. t.order \in DOMAIN orders /\ orders[t.order].user \in User
    BY <1>2, SentAreThere DEF HandleOwner, OrdersInv, TypeOK, Row
  <2>3. EmployeeStep
    BY <1>2, <2>2 DEF HandleOwner, EmployeeStep
  <2> QED
    BY <2>1, <2>3, NothingNewShown DEF Next
<1>3. CASE Fail(t)
  BY <1>3, FewerGoOn, NothingNewShown DEF Fail
<1> QED
  BY <1>1, <1>2, <1>3

LEMMA AnswersGoOn ==
  ASSUME OrdersInv, ScreensInv, NEW t \in taps,
         HearDriver(t) \/ CloseForms(t) \/ HearOwner(t)
  PROVE  ShowsOnlyRows /\ UNCHANGED vars
<1> USE DEF ScreensInv
<1>1. UNCHANGED vars /\ UNCHANGED <<queue, details>>
  BY DEF HearDriver, CloseForms, HearOwner, driverDesk, ownerDesk
<1>2. TapsGoOn
  <2>1. CASE HearDriver(t)
    BY <2>1, MovesOn DEF HearDriver
  <2>2. CASE CloseForms(t) \/ HearOwner(t)
    BY <2>2, FewerGoOn DEF CloseForms, HearOwner
  <2> QED
    BY <2>1, <2>2
<1>3. /\ arriving' = Blank \/ UNCHANGED arriving
      /\ rejecting' \in OrderId \cup {Blank} /\ proposing' \in OrderId \cup {Blank}
      /\ open' = Blank \/ UNCHANGED open
      /\ mode' \in {"view", "edit", "cancel"} /\ (open' = Blank => mode' = "view")
  BY DEF HearDriver, CloseForms, HearOwner, DeskTypeOK, driverDesk, ownerDesk
<1>4. DeskTypeOK'
  BY <1>1, <1>2, <1>3 DEF DeskTypeOK, TapsGoOn
<1>5. OnScreens' \subseteq OnScreens
  BY <1>1, <1>2, <1>3 DEF OnScreens, TapsGoOn, ShownRows
<1> QED
  BY <1>1, <1>2, <1>3, <1>4, <1>5 DEF ShowsOnlyRows, TapsGoOn

LEMMA EndsGoOn ==
  ASSUME OrdersInv, ScreensInv, NEW w \in Worker, End(w)
  PROVE  ShowsOnlyRows /\ [Next]_vars
<1>1. RequestEnd /\ UNCHANGED <<driverDesk, ownerDesk>>
  BY DEF End, RequestEnd
<1>2. TapsGoOn
  <2> DEFINE after(t) == IF t.stage = w THEN [t EXCEPT !.stage = "done"] ELSE t
  <2>1. CASE taps' = {after(t) : t \in taps}
    <3>1. ASSUME NEW t \in taps
          PROVE  after(t) \in Tap /\ Fits(after(t)) /\ (after(t).stage = "sent" => after(t) = t)
      <4>1. t \in Tap /\ Fits(t)
        BY DEF ScreensInv, DeskTypeOK
      <4>2. [t EXCEPT !.stage = "done"] \in Tap /\ [t EXCEPT !.stage = "done"].stage = "done"
        BY <4>1 DEF Tap
      <4> QED
        BY <4>1, <4>2 DEF Fits
    <3> HIDE DEF after
    <3>2. SentRows' \subseteq SentRows
      BY <2>1, <3>1 DEF SentRows
    <3> QED
      BY <2>1, <3>1, <3>2 DEF TapsGoOn
  <2>2. CASE taps' = {t \in taps : t.stage # w}
    BY <2>2, FewerGoOn
  <2> QED
    BY <2>1, <2>2 DEF End
<1> QED
  BY <1>1, <1>2, NothingNewShown DEF Next

LEMMA DeskStep ==
  ASSUME OrdersInv, ScreensInv, [DeskNext]_deskVars
  PROVE  ShowsOnlyRows /\ [Next]_vars
<1>1. CASE UNCHANGED screens /\ [Next]_vars
  BY <1>1, FewerGoOn, NothingNewShown DEF screens
<1>2. CASE Elsewhere
  BY <1>1, <1>2 DEF Elsewhere, Next
<1>3. CASE UNCHANGED deskVars
  BY <1>1, <1>3 DEF deskVars
<1> QED
  BY <1>2, <1>3, DriverTaps, DriverLooks, OwnerTaps, OwnerLooks, RequestsGoOn, AnswersGoOn,
     EndsGoOn
  DEF DeskNext

LEMMA DeskInvKept == DeskInv /\ [DeskNext]_deskVars => DeskInv'
<1> SUFFICES ASSUME DeskInv, [DeskNext]_deskVars PROVE DeskInv'
  OBVIOUS
<1>1. OrdersInv /\ TimesInv /\ ScreensInv /\ ShowsOnlyRows /\ [Next]_vars
  BY DeskStep DEF DeskInv
<1>2. OrdersInv' /\ TimesInv'
  BY <1>1, NextInv, TimesKept
<1>3. DOMAIN orders \subseteq DOMAIN orders'
  BY <1>1, StepTimes DEF StagesOnly, WritesTime
<1>4. ASSUME NEW s \in OnScreens' PROVE MayHaveBecome(s[2], s[1])'
  <2>1. MayHaveBecome(s[2], s[1])
    BY <1>1, NowMayBe DEF ShowsOnlyRows, ScreensInv, Current
  <2> QED
    BY <1>1, <2>1, MayBecome
<1>5. ScreensInv'
  BY <1>1, <1>3, <1>4 DEF ScreensInv, ShowsOnlyRows
<1> QED
  BY <1>2, <1>5 DEF DeskInv

\* DriverTodayScreen.tsx and OrderDetailScreen.tsx, however long ago a screen was fetched:
\* what it shows may have become what the table has now, and a time that somebody has
\* agreed to is still the time of the order.
THEOREM DeskInvHolds == DeskSpec => []DeskInv
<1>1. DeskInit => DeskInv
  <2> SUFFICES ASSUME DeskInit PROVE DeskInv
    OBVIOUS
  <2>1. Nothing \in Shown /\ DOMAIN Nothing = {}
    BY DEF Nothing, Shown
  <2>2. DeskTypeOK
    BY <2>1 DEF DeskInit, DeskTypeOK
  <2>3. OnScreens = {}
    BY <2>1 DEF DeskInit, OnScreens, ShownRows, SentRows
  <2>4. ScreensInv
    BY <2>2, <2>3 DEF ScreensInv, DeskInit
  <2>5. TimesInv
    BY NullsAssumption
    DEF DeskInit, Init, TimesInv, OnlyConfirmationsMove, OneOtherTime, ConfirmsWhatWasAsked,
        Confirms
  <2> QED
    BY <2>4, <2>5, InitInv DEF DeskInit, DeskInv
<1> QED
  BY <1>1, DeskInvKept, PTL DEF DeskSpec

\* A tap on a screen that is out of date does what the screen said or nothing: the WHERE
\* clause of transition_order and the guard of respond_to_counter compare the status only,
\* and that is enough for the times too.
THEOREM TapsDoWhatWasSaid == DeskSpec => TapsDoWhatTheScreenSaid
<1>1. ASSUME DeskInv, DeskNext, NEW t \in taps \ taps', t.stage = "sent",
             t.what \in DOMAIN Transition \cup Replies,
             <<orders, inflight>>' # <<orders, inflight>>
      PROVE  /\ orders[t.order].status = t.shown.status
             /\ orders[t.order].at = t.shown.at /\ orders[t.order].mins = t.shown.mins
             /\ orders[t.order].proposed = t.shown.proposed
  <2> DEFINE row == orders[t.order]
  <2>1. /\ t.order \in DOMAIN orders /\ MayHaveBecome(t.shown, t.order) /\ Fits(t)
        /\ ProposalIffCountered
    BY <1>1, SentAreThere DEF DeskInv, OrdersInv
  <2>2. HandleDriver(t) \/ \E w \in Worker : HandleOwner(t, w)
    <3>1. CASE Elsewhere
      BY <1>1, <3>1 DEF Elsewhere, screens
    <3>2. ASSUME NEW w \in Worker, End(w) PROVE FALSE
      BY <1>1, <3>2, DeskAssumption DEF End
    <3>3. ASSUME NEW u \in taps,
                 HandleDriver(u) \/ (\E w \in Worker : HandleOwner(u, w))
          PROVE  u = t
      BY <1>1, <3>3 DEF HandleDriver, HandleOwner, Moves
    <3>4. CASE UNCHANGED vars
      BY <1>1, <3>4 DEF vars
    <3>5. UNCHANGED vars \/ Elsewhere \/ (\E w \in Worker : End(w))
          \/ \E u \in taps : HandleDriver(u) \/ \E w \in Worker : HandleOwner(u, w)
      BY <1>1
      DEF DeskNext, Fetch, ShowQueue, TapButton, OpenReject, OpenPropose, SendReject,
          CloseForm, SendPropose, OpenOrder, FetchOrder, SendForm, OpenForm, Reply,
          CloseOrder, LeaveForm, Fail, HearDriver, CloseForms, HearOwner
    <3> QED
      BY <3>1, <3>2, <3>3, <3>4, <3>5
  <2>3. \/ t.what \in Replies /\ row.status = "driver_countered"
        \/ t.what \in DOMAIN Transition /\ row.status = Transition[t.what].from
    BY <1>1, <2>2
    DEF HandleDriver, HandleOwner, RespondToCounter, TransitionOrder, SwapMatches, Replies,
        Transition
  <2>4. row.status = t.shown.status
    <3>1. CASE t.what \in {"reject", "propose_time"}
      BY <2>1, <2>3, <3>1 DEF Transition, Replies, MayHaveBecome
    <3> QED
      BY <1>1, <2>1, <2>3, <3>1 DEF Fits
  <2>5. row.status \in Settled \cup {"pending_driver", "driver_countered"}
    BY <2>3 DEF Transition, Settled
  <2>6. row.status \notin TERMINAL_STATUSES /\ (row.status # "driver_countered" => row.proposed = NoTime)
    BY <2>1, <2>5 DEF ProposalIffCountered, TERMINAL_STATUSES, Settled
  <2> QED
    BY <2>1, <2>4, <2>5, <2>6 DEF MayHaveBecome
<1>2. DeskInv /\ [DeskNext]_deskVars =>
        [\A t \in taps \ taps' :
           t.stage = "sent" /\ t.what \in DOMAIN Transition \cup Replies
             /\ <<orders, inflight>>' # <<orders, inflight>> =>
           LET row == orders[t.order]
           IN  /\ row.status = t.shown.status
               /\ row.at = t.shown.at /\ row.mins = t.shown.mins
               /\ row.proposed = t.shown.proposed]_deskVars
  BY <1>1
<1> QED
  BY <1>2, DeskInvHolds, PTL DEF DeskSpec, TapsDoWhatTheScreenSaid

=============================================================================
