------------------------------ MODULE Screens ------------------------------
(***************************************************************************)
(* What the web app offers to do with an order: the owner's order page     *)
(* (OrderDetailScreen.tsx) and the driver's queue (DriverTodayScreen.tsx). *)
(* The screens keep no rules, they repeat in TypeScript those the handlers *)
(* of Orders enforce, and show a button or not according to the row they   *)
(* were last sent.                                                         *)
(***************************************************************************)
EXTENDS Orders

-----------------------------------------------------------------------------
(* The owner *)

\* The lists of the home page, from which an order is opened.
Upcoming(u) ==
  {o \in DOMAIN orders : orders[o].user = u /\ orders[o].status \in NON_TERMINAL_STATUSES}

CanModify(row) == row.status \in {"draft", "pending_driver", "confirmed"}

IsCountered(row) == row.status = "driver_countered"

\* Mistake: the page was not told of the counter-proposal.
CanCancel_NotUnderWay(row) == CanModify(row) \/ IsCountered(row)

CanCancel(row) ==
  CanModify(row) \/ row.status = "driver_en_route" \/ IsCountered(row)

\* The card of a counter-proposal stands in for the buttons below the page.
OwnerButtons(row) ==
  {b \in {"accept", "decline"} : IsCountered(row) /\ row.proposed # NoTime}
    \cup {b \in {"edit"} : CanModify(row)}
    \cup {b \in {"cancel"} : CanCancel(row) /\ ~IsCountered(row)}

-----------------------------------------------------------------------------
(* The driver *)

nextAction ==
  [pending_driver  |-> "accept",
   confirmed       |-> "depart",
   driver_en_route |-> "arrive",
   driver_arrived  |-> "start",
   in_progress     |-> "complete"]

\* Mistake: rejecting and proposing are offered for the whole pool.
DriverButtons_WholePool(row) ==
  {nextAction[s] : s \in {row.status} \cap DOMAIN nextAction}
    \cup {b \in {"reject", "propose_time"} : row.status = "pending_driver"}

\* An order is rejected, or another time proposed, by the driver it is meant for.
DriverButtons(row) ==
  {nextAction[s] : s \in {row.status} \cap DOMAIN nextAction}
    \cup {b \in {"reject", "propose_time"} :
            row.status = "pending_driver" /\ row.driver # NoDriver}

-----------------------------------------------------------------------------
(* The administrator *)

\* Both are offered for every live order; assign_order refuses some of them.
AdminButtons(row) == {b \in {"reassign", "cancel"} : row.status \notin TERMINAL_STATUSES}

-----------------------------------------------------------------------------
(* Properties *)

\* A driver who sees the order as it is finds exactly the buttons the server
\* will accept: nothing allowed is out of reach, nothing offered is refused.
DriverIsOfferedWhatIsAllowed ==
  \A d \in Driver, o \in DOMAIN orders, a \in DOMAIN Transition :
    SwapMatches(d, o, a) <=> o \in Queue(d) /\ a \in DriverButtons(orders[o])

\* The owner's page offers exactly what the handlers accept.  While a proposal
\* awaits its answer the page shows nothing but the proposed time, so a countered
\* order without one could neither be answered nor called off.
OwnerIsOfferedWhatIsAllowed ==
  \A o \in DOMAIN orders :
    LET row == orders[o]
        offered == OwnerButtons(row)
    IN  /\ offered # {} => o \in Upcoming(row.user)
        /\ "edit" \in offered <=> row.status \in EDITABLE_STATUSES
        /\ {"accept", "decline"} \subseteq offered <=> row.status = "driver_countered"
        /\ offered \cap {"cancel", "decline"} # {} <=> row.status \in CANCELLABLE_STATUSES

\* A live order is not stranded: its owner, or a driver, is offered a step that
\* changes it, without the help of an administrator, who can always call it off.
NotStranded ==
  \A o \in DOMAIN orders :
    orders[o].status \notin TERMINAL_STATUSES =>
      /\ \/ OwnerButtons(orders[o]) # {}
         \/ \E d \in Driver : o \in Queue(d) /\ DriverButtons(orders[o]) # {}
      /\ "cancel" \in AdminButtons(orders[o])

=============================================================================
