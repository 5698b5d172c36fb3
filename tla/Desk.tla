-------------------------------- MODULE Desk --------------------------------
(***************************************************************************)
(* Two people at their screens: the driver Me at the queue of the day      *)
(* (DriverTodayScreen.tsx), the owner of an order at its page              *)
(* (OrderDetailScreen.tsx).  A screen shows rows as they were when they    *)
(* were last fetched, offers what Screens says for them, and sends a       *)
(* request per tap, which the server handles later (Orders).               *)
(*                                                                         *)
(* The queue is fetched again and again, one fetch at a time; the page     *)
(* when it is opened, pulled down, or after a success.                     *)
(***************************************************************************)
EXTENDS Screens

CONSTANTS
  Me,      \* the driver at the screen
  Blank,   \* nothing is shown, open or on its way
  MaxTaps  \* bound on the requests of one screen under way

ASSUME DeskAssumption ==
  /\ Me \in Driver /\ Blank \notin OrderId /\ MaxTaps \in Nat
  /\ {"sent", "done", "heard"} \cap Worker = {}

VARIABLES
  queue,     \* what the driver's screen shows: order -> row
  arriving,  \* the answer of a fetch of the queue on its way, or Blank
  rejecting, \* the order whose form asks for a reason, or Blank
  proposing, \* the order whose form asks for another time, or Blank
  open,      \* the order whose page the owner has open, or Blank
  details,   \* what the owner's app knows of each order whose page was opened: order -> row
  mode,      \* the form open on the page
  taps       \* requests of the two screens that have not been answered

driverDesk == <<queue, arriving, rejecting, proposing>>
ownerDesk == <<open, details, mode>>
screens == <<driverDesk, ownerDesk, taps>>
deskVars == <<vars, screens>>

-----------------------------------------------------------------------------

Shown == UNION {[S -> Row] : S \in SUBSET OrderId}

Replies == {"accept_proposal", "decline_proposal"}

Tap ==
  [order: OrderId, shown: Row, what: DOMAIN Transition \cup Replies \cup {"edit", "cancel"},
   at: Time \cup {NoTime}, stage: {"sent", "done", "heard"} \cup Worker]

DeskTypeOK ==
  /\ queue \in Shown /\ details \in Shown
  /\ arriving \in Shown \cup {Blank}
  /\ rejecting \in OrderId \cup {Blank} /\ proposing \in OrderId \cup {Blank}
  /\ open \in OrderId \cup {Blank}
  /\ mode \in {"view", "edit", "cancel"} /\ (open = Blank => mode = "view")
  /\ taps \subseteq Tap

Nothing == <<>>

DeskInit ==
  /\ Init
  /\ queue = Nothing /\ arriving = Blank /\ rejecting = Blank /\ proposing = Blank
  /\ open = Blank /\ details = Nothing /\ mode = "view"
  /\ taps = {}

-----------------------------------------------------------------------------
(* The driver *)

\* Mistake: the server lists the driver's own orders only.
QueueNow_OwnOnly == [o \in {p \in Queue(Me) : orders[p].driver = Me} |-> orders[o]]

QueueNow == [o \in Queue(Me) |-> orders[o]]

\* The server answers a fetch of the queue.
Fetch ==
  /\ arriving = Blank
  /\ arriving' = QueueNow
  /\ UNCHANGED <<vars, queue, rejecting, proposing, ownerDesk, taps>>

ShowQueue ==
  /\ arriving # Blank
  /\ queue' = arriving /\ arriving' = Blank
  /\ UNCHANGED <<vars, rejecting, proposing, ownerDesk, taps>>

Send(o, what, row, t) ==
  /\ Cardinality(taps) < MaxTaps
  /\ taps' = taps \cup {[order |-> o, what |-> what, shown |-> row, at |-> t, stage |-> "sent"]}

\* A row shows its buttons unless a form of its own is open.
ShowsButtons(o) == o \in DOMAIN queue /\ o \notin {rejecting, proposing}

TapButton(o, a) ==
  /\ ShowsButtons(o)
  /\ a \in DriverButtons(queue[o]) \ {"reject", "propose_time"}
  /\ Send(o, a, queue[o], NoTime)
  /\ UNCHANGED <<vars, driverDesk, ownerDesk>>

OpenReject(o) ==
  /\ ShowsButtons(o) /\ "reject" \in DriverButtons(queue[o])
  /\ rejecting' = o
  /\ UNCHANGED <<vars, queue, arriving, proposing, ownerDesk, taps>>

OpenPropose(o) ==
  /\ ShowsButtons(o) /\ "propose_time" \in DriverButtons(queue[o])
  /\ proposing' = o
  /\ UNCHANGED <<vars, queue, arriving, rejecting, ownerDesk, taps>>

\* A form stays open, and may be sent, whatever becomes of its order; it is on
\* the screen while its order is.  The form of a rejection hides the other.
SendReject(o) ==
  /\ o \in DOMAIN queue /\ rejecting = o
  /\ Send(o, "reject", queue[o], NoTime)
  /\ UNCHANGED <<vars, driverDesk, ownerDesk>>

SendPropose(o, t) ==
  /\ o \in DOMAIN queue /\ proposing = o /\ rejecting # o
  /\ Send(o, "propose_time", queue[o], t)
  /\ UNCHANGED <<vars, driverDesk, ownerDesk>>

CloseForm(o) ==
  /\ o \in DOMAIN queue
  /\ \/ rejecting = o /\ rejecting' = Blank /\ UNCHANGED proposing
     \/ proposing = o /\ rejecting # o /\ proposing' = Blank /\ UNCHANGED rejecting
  /\ UNCHANGED <<vars, queue, arriving, ownerDesk, taps>>

-----------------------------------------------------------------------------
(* The owner *)

\* An order is opened from the lists of the home page, and shown as it was when
\* last fetched.
OpenOrder(o) ==
  /\ open = Blank /\ o \in DOMAIN orders
  /\ open' = o
  /\ UNCHANGED <<vars, driverDesk, details, mode, taps>>

CloseOrder ==
  /\ open # Blank
  /\ open' = Blank /\ mode' = "view"
  /\ UNCHANGED <<vars, driverDesk, details, taps>>

\* The page is fetched when it is opened, when it is pulled down, and after a success.
FetchOrder(o) ==
  /\ open = o
  /\ details' = [p \in DOMAIN details \cup {o} |-> IF p = o THEN orders[o] ELSE details[p]]
  /\ UNCHANGED <<vars, driverDesk, open, mode, taps>>

ShowsPage(o) == open = o /\ o \in DOMAIN details

OpenForm(o, b) ==
  /\ ShowsPage(o) /\ mode = "view"
  /\ b \in OwnerButtons(details[o]) \cap {"edit", "cancel"}
  /\ mode' = b
  /\ UNCHANGED <<vars, driverDesk, open, details, taps>>

LeaveForm ==
  /\ mode # "view"
  /\ mode' = "view"
  /\ UNCHANGED <<vars, driverDesk, open, details, taps>>

\* A form stays open when the page is fetched again.  Its button waits for its
\* own request, unless the page was left meanwhile.
SendForm(o) ==
  /\ ShowsPage(o) /\ mode # "view"
  /\ Send(o, mode, details[o], NoTime)
  /\ UNCHANGED <<vars, driverDesk, ownerDesk>>

Reply(o, b) ==
  /\ ShowsPage(o) /\ b \in OwnerButtons(details[o]) \cap {"accept", "decline"}
  /\ Send(o, IF b = "accept" THEN "accept_proposal" ELSE "decline_proposal", details[o], NoTime)
  /\ UNCHANGED <<vars, driverDesk, ownerDesk>>

-----------------------------------------------------------------------------
(* The server handles a tap, and the screen hears of it *)

Moves(t, stage) == taps' = (taps \ {t}) \cup {[t EXCEPT !.stage = stage]}

HandleDriver(t) ==
  /\ t.stage = "sent" /\ t.what \in DOMAIN Transition
  /\ TransitionOrder(Me, t.order, t.what, t.at)
  /\ Moves(t, "done")
  /\ UNCHANGED <<driverDesk, ownerDesk>>

\* The handler reads the order; it commits later.
HandleOwner(t, w) ==
  /\ t.stage = "sent"
  /\ LET u == orders[t.order].user
     IN  \/ /\ t.what \in Replies
            /\ RespondToCounter(w, u, t.order)
            /\ inflight'[w].log = (IF t.what = "accept_proposal"
                                   THEN {"counter_accepted"} ELSE {"counter_declined"})
         \/ t.what = "cancel" /\ CancelOrder(w, u, t.order)
         \/ t.what = "edit" /\ \E n \in Passengers : UpdateOrder(w, u, t.order, n)
  /\ Moves(t, w)
  /\ UNCHANGED <<driverDesk, ownerDesk>>

\* A request ends, that of a tap or another's.
End(w) ==
  /\ \/ /\ CommitUpdate(w) \/ \E o \in OrderId : CommitInsert(w, o)
        /\ taps' = {IF t.stage = w THEN [t EXCEPT !.stage = "done"] ELSE t : t \in taps}
     \/ /\ Rollback(w)
        /\ taps' = {t \in taps : t.stage # w}
  /\ UNCHANGED <<driverDesk, ownerDesk>>

\* The request is refused, or lost, or its answer is: the screen stays as it is.
Fail(t) ==
  /\ t.stage \in {"sent", "done"}
  /\ taps' = taps \ {t}
  /\ UNCHANGED <<vars, driverDesk, ownerDesk>>

\* A success has the queue fetched anew; an answer on its way is dropped.
HearDriver(t) ==
  /\ t.stage = "done" /\ t.what \in DOMAIN Transition
  /\ arriving' = Blank
  /\ Moves(t, "heard")
  /\ UNCHANGED <<vars, queue, rejecting, proposing, ownerDesk>>

\* Only when that fetch is over, or has failed, both forms of the driver's screen
\* are closed, of whatever order.
CloseForms(t) ==
  /\ t.stage = "heard"
  /\ rejecting' = Blank /\ proposing' = Blank
  /\ taps' = taps \ {t}
  /\ UNCHANGED <<vars, queue, arriving, ownerDesk>>

\* The page, too, is first fetched again.  An edit then closes its form, if the
\* page was not left meanwhile; a cancellation or a declined proposal closes the
\* page, whichever is open.
HearOwner(t) ==
  /\ t.stage = "done" /\ t.what \notin DOMAIN Transition
  /\ taps' = taps \ {t}
  /\ CASE t.what = "edit" -> UNCHANGED <<open, details>> /\ mode' \in {mode, "view"}
       [] t.what = "accept_proposal" -> UNCHANGED ownerDesk
       [] OTHER -> open' = Blank /\ mode' = "view" /\ UNCHANGED details
  /\ UNCHANGED <<vars, driverDesk>>

\* Everybody else, and the same two people at another screen.
Elsewhere ==
  /\ EmployeeStep \/ AdminStep \/ DriverStep \/ Tick
  /\ UNCHANGED screens

DeskNext ==
  \/ Fetch \/ ShowQueue
  \/ \E o \in OrderId :
       \/ \E a \in DOMAIN Transition : TapButton(o, a)
       \/ OpenReject(o) \/ OpenPropose(o) \/ SendReject(o) \/ CloseForm(o)
       \/ \E t \in Time : SendPropose(o, t)
       \/ OpenOrder(o) \/ FetchOrder(o) \/ SendForm(o)
       \/ \E b \in {"edit", "cancel"} : OpenForm(o, b)
       \/ \E b \in {"accept", "decline"} : Reply(o, b)
  \/ CloseOrder \/ LeaveForm
  \/ \E t \in taps :
       \/ HandleDriver(t) \/ Fail(t) \/ HearDriver(t) \/ CloseForms(t) \/ HearOwner(t)
       \/ \E w \in Worker : HandleOwner(t, w)
  \/ \E w \in Worker : End(w)
  \/ Elsewhere

\* The screen of a driver at work fetches the queue every twenty seconds
\* (refetchInterval).
Fairness == WF_deskVars(Fetch) /\ WF_deskVars(ShowQueue)

DeskSpec == DeskInit /\ [][DeskNext]_deskVars /\ Fairness

-----------------------------------------------------------------------------
(* Properties *)

\* A tap on a screen that is out of date does what the screen said or nothing:
\* if a driver's action or an owner's reply takes effect, the order has the
\* status, the time and the proposed time that were on the screen.
TapsDoWhatTheScreenSaid ==
  [][\A t \in taps \ taps' :
       t.stage = "sent" /\ t.what \in DOMAIN Transition \cup Replies /\ <<orders, inflight>>' # <<orders, inflight>> =>
         LET row == orders[t.order]
         IN  /\ row.status = t.shown.status
             /\ row.at = t.shown.at /\ row.mins = t.shown.mins
             /\ row.proposed = t.shown.proposed]_deskVars

\* Once nothing changes on the server any more, the driver's screen comes to
\* show, and goes on showing, exactly what the driver is to do.
ScreenCatchesUp ==
  <>[][FALSE]_<<orders, now>> => <>[](queue = [o \in Queue(Me) |-> orders[o]])

=============================================================================
