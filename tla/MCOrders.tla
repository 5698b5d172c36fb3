------------------------------ MODULE MCOrders ------------------------------
(***************************************************************************)
(* Orders on small instances.  A run explores two servers at once: one     *)
(* whose requests overlap, and one that serves them one after the other.   *)
(* The properties "in turn" are about the second: they tell what each      *)
(* handler achieves by itself.                                             *)
(*                                                                         *)
(* Ids, drivers, users, keys and workers are model values no definition    *)
(* tells apart, so TLC may permute them.                                   *)
(***************************************************************************)
EXTENDS OrdersRefined, Screens, TLC

VARIABLE inTurn   \* requests are served one after the other

MCVars == <<vars, inTurn>>

MCInit == Init /\ inTurn \in BOOLEAN

\* A request may begin.
MayBegin == inTurn => \A w \in Worker : inflight[w] = Idle

Undisturbed == MayBegin /\ UNCHANGED inTurn

\* Next of Orders, with a request beginning only when it may.
MCNext ==
  \/ Undisturbed /\ EmployeeStep
  \/ Undisturbed /\ AdminStep
  \/ \E d \in Driver, o \in OrderId, a \in DOMAIN Transition :
       /\ Undisturbed
       /\ o \in DOMAIN orders /\ \E t \in Time \cup {NoTime} : TransitionOrder(d, o, a, t)
  \/ \E d \in Driver : Undisturbed /\ SetDuty(d)
  \/ \E w \in Worker, o \in OrderId : CommitInsert(w, o) /\ UNCHANGED inTurn
  \/ \E w \in Worker : CommitUpdate(w) /\ UNCHANGED inTurn
  \/ \E w \in Worker : Rollback(w) /\ UNCHANGED inTurn
  \/ Tick /\ UNCHANGED inTurn

MCSpec == MCInit /\ [][MCNext]_MCVars

Symmetry ==
  Permutations(OrderId) \cup Permutations(Driver) \cup Permutations(User)
    \cup Permutations(Key) \cup Permutations(Worker)

\* The audit trail is write-only: no handler reads it, and the properties of
\* the runs that use this view do not mention it.
WithoutAudit == <<orders, onDuty, now, inflight, inTurn>>

\* Where requests overlap, a run may leave one instant out.
LeftOut == 2
Affordable ==
  inTurn \/ \A o \in DOMAIN orders : orders[o].at # LeftOut /\ orders[o].proposed # LeftOut

\* Assigning is the only handler that looks at the flag: with all drivers on duty
\* every request can do whatever it can do otherwise.
AllOnDuty == onDuty = Driver

-----------------------------------------------------------------------------
(* What each handler achieves by itself *)

\* A live order is never stranded: its owner or a driver can always move it on
\* (OrderDetailScreen.tsx, DriverTodayScreen.tsx, admin_api.py assign_order).
NeverStrandedInTurn == inTurn => NotStranded

\* An order lives the life the product documents (docs/tz.md, 4.2).
LivesAsDocumentedInTurn ==
  /\ inTurn => Life!LifecycleInit
  /\ [][inTurn => Life!LifecycleNext]_Trips

=============================================================================
