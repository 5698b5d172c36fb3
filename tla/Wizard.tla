------------------------------- MODULE Wizard -------------------------------
(***************************************************************************)
(* The booking wizard of the web app (OrderWizardScreen.tsx) and the       *)
(* server behind its last button (create_order of api/app/orders_api.py):  *)
(* a draft filled in over four steps, submitted under one idempotency key  *)
(* per wizard, and submitted again when an answer does not arrive.         *)
(*                                                                         *)
(* The server handles a request in two steps, for it looks the key up      *)
(* before it inserts; a request whose answer was lost may still be under   *)
(* way when the next one arrives.                                          *)
(***************************************************************************)
EXTENDS Integers, Sequences

CONSTANTS
  Trip,      \* what steps 0 and 1 settle: the addresses, the way back
  Slot,      \* start times; two rides of one driver overlap if they share one
  Driver,
  AnyDriver, \* "the first driver who accepts"
  Key,       \* idempotency keys: one per wizard opened
  Request,   \* requests under way at once
  None,
  MaxOrders, \* bound on the orders placed
  MaxResets  \* bound on the refusals being dealt with at once

ASSUME WizardAssumption ==
  /\ AnyDriver \notin Driver /\ None \notin Trip \cup Slot \cup Key \cup Request \cup Nat
  /\ MaxOrders \in Nat /\ MaxResets \in Nat

VARIABLES
  orders,     \* the user's orders, oldest first
  busy,       \* <<driver, slot>> taken by other users
  requests,   \* the create requests under way
  step,       \* the step the wizard is at
  draft,      \* what the user has entered
  key,        \* the wizard's idempotency key
  waiting,    \* the request the button waits for, or None
  failed,     \* submitError is set: the last page shows an error message
  resets,     \* refusals whose clean-up waits for the slots to be fetched again
  created,    \* the order on the success screen, or None
  confirmed   \* history: the draft last submitted

server == <<orders, busy>>
form == <<step, draft, key>>
outcome == <<failed, resets, created>>
vars == <<server, requests, form, waiting, outcome, confirmed>>

-----------------------------------------------------------------------------

Draft == [trip: Trip \cup {None}, slot: Slot \cup {None}, driver: Driver \cup {AnyDriver}]

Empty == [trip |-> None, slot |-> None, driver |-> AnyDriver]

Order == [key: Key, draft: Draft]

Stages == {"sent", "looked_up", "placed", "replayed", "taken", "refused"}

NoRequest == [at |-> "idle", key |-> None, draft |-> Empty]

TypeOK ==
  /\ orders \in Seq(Order)
  /\ busy \subseteq Driver \X Slot
  /\ requests \in [Request -> [at: Stages, key: Key, draft: Draft] \cup {NoRequest}]
  /\ step \in 0..3 /\ draft \in Draft /\ key \in Key
  /\ waiting \in Request \cup {None}
  /\ waiting # None => requests[waiting] # NoRequest
  /\ failed \in BOOLEAN /\ resets \in 0..MaxResets
  /\ created \in (1..Len(orders)) \cup {None}
  /\ confirmed \in Draft

Init ==
  /\ orders = <<>> /\ busy \in SUBSET (Driver \X Slot)
  /\ requests = [r \in Request |-> NoRequest]
  /\ step = 0 /\ draft = Empty /\ key \in Key
  /\ waiting = None
  /\ failed = FALSE /\ resets = 0 /\ created = None
  /\ confirmed = Empty

-----------------------------------------------------------------------------
(* Filling in the draft.  Nothing is locked while a request is under way but  *)
(* the button itself.                                                         *)

Editing == created = None /\ UNCHANGED <<server, requests, waiting, outcome, confirmed>>

\* Addresses, round trip and waiting time; the slot chosen for another trip
\* stays chosen.
ChooseTrip(t) ==
  /\ Editing
  /\ step \in {0, 1}
  /\ draft' = [draft EXCEPT !.trip = t]
  /\ UNCHANGED <<step, key>>

\* Choosing a date forgets the slot.
ChooseDate ==
  /\ Editing
  /\ step = 2
  /\ draft' = [draft EXCEPT !.slot = None]
  /\ UNCHANGED <<step, key>>

\* A slot is offered when some driver is free.
ChooseSlot(s) ==
  /\ Editing
  /\ step = 2
  /\ \E d \in Driver : <<d, s>> \notin busy
  /\ draft' = [draft EXCEPT !.slot = s]
  /\ UNCHANGED <<step, key>>

ChooseDriver(d) ==
  /\ Editing
  /\ step = 3
  /\ draft' = [draft EXCEPT !.driver = d]
  /\ UNCHANGED <<step, key>>

CanContinue ==
  /\ step = 0 => draft.trip # None
  /\ step = 2 => draft.slot # None

Continue ==
  /\ Editing
  /\ step < 3 /\ waiting = None /\ CanContinue
  /\ step' = step + 1
  /\ UNCHANGED <<draft, key>>

Back ==
  /\ Editing
  /\ step > 0
  /\ step' = step - 1
  /\ UNCHANGED <<draft, key>>

\* Mistake: the key is made once, not once per wizard.
Reopen_SameKey(k) ==
  /\ step = 0 \/ created # None
  /\ step' = 0 /\ draft' = Empty
  /\ waiting' = None /\ failed' = FALSE /\ resets' = 0 /\ created' = None
  /\ confirmed' = Empty
  /\ UNCHANGED <<server, requests, key>>

\* The user leaves, from the first step or from the success screen, and opens
\* the wizard anew: another key, another draft.  An answer still to come finds
\* nobody.
Reopen(k) ==
  /\ step = 0 \/ created # None
  /\ \A i \in DOMAIN orders : orders[i].key # k
  /\ \A r \in Request : requests[r].key # k
  /\ k # key
  /\ key' = k /\ step' = 0 /\ draft' = Empty
  /\ waiting' = None /\ failed' = FALSE /\ resets' = 0 /\ created' = None
  /\ confirmed' = Empty
  /\ UNCHANGED <<server, requests>>

-----------------------------------------------------------------------------
(* Submitting *)

\* The last button sends the draft and takes away the message of the last try.
Submit(r) ==
  /\ created = None /\ step = 3 /\ waiting = None
  /\ draft.trip # None /\ draft.slot # None
  /\ requests[r] = NoRequest
  /\ requests' = [requests EXCEPT ![r] = [at |-> "sent", key |-> key, draft |-> draft]]
  /\ waiting' = r
  /\ failed' = FALSE
  /\ confirmed' = draft
  /\ UNCHANGED <<server, form, resets, created>>

Stored(k) == \E i \in DOMAIN orders : orders[i].key = k

Answer(r, at) == requests' = [requests EXCEPT ![r].at = at]

\* create_order looks for the key: an order stored under it is the answer,
\* whatever the request asks for now.  Otherwise the request may be refused.
LookUp(r) ==
  /\ requests[r].at = "sent"
  /\ IF Stored(requests[r].key)
     THEN Answer(r, "replayed")
     ELSE Answer(r, "looked_up") \/ Answer(r, "refused")
  /\ UNCHANGED <<server, form, waiting, outcome, confirmed>>

\* The EXCLUDE constraint refuses the ride of a chosen driver.
SlotTaken(d, s) ==
  d # AnyDriver /\ (\/ <<d, s>> \in busy
              \/ \E i \in DOMAIN orders : orders[i].draft.driver = d /\ orders[i].draft.slot = s)

\* Mistake: the lookup is trusted to have found every order of the key.
Refuses_SlotOnly(q) == SlotTaken(q.draft.driver, q.draft.slot)

\* The constraints of the orders table refuse the insert.
Refuses(q) == SlotTaken(q.draft.driver, q.draft.slot) \/ Stored(q.key)

\* Mistake: a notification that fails after the commit fails the request.
Insert_FailsLate(r) ==
  /\ requests[r].at = "looked_up"
  /\ \/ /\ ~Refuses(requests[r])
        /\ Len(orders) < MaxOrders
        /\ orders' = Append(orders, [key |-> requests[r].key, draft |-> requests[r].draft])
        /\ Answer(r, "refused")
     \/ /\ Refuses(requests[r])
        /\ Answer(r, "taken")
        /\ UNCHANGED orders
  /\ UNCHANGED <<busy, form, waiting, outcome, confirmed>>

\* Any violated constraint is answered SLOT_CONFLICT; the transaction may also
\* fail for another reason.
Insert(r) ==
  /\ requests[r].at = "looked_up"
  /\ \/ /\ ~Refuses(requests[r])
        /\ Len(orders) < MaxOrders
        /\ orders' = Append(orders, [key |-> requests[r].key, draft |-> requests[r].draft])
        /\ Answer(r, "placed")
     \/ /\ Refuses(requests[r])
        /\ Answer(r, "taken")
        /\ UNCHANGED orders
     \/ Answer(r, "refused") /\ UNCHANGED orders
  /\ UNCHANGED <<busy, form, waiting, outcome, confirmed>>

-----------------------------------------------------------------------------
(* Hearing the answer *)

Done(r) == requests' = [requests EXCEPT ![r] = NoRequest]

Heard(r) ==
  /\ waiting = r
  /\ waiting' = None
  /\ Done(r)
  /\ UNCHANGED <<server, key, confirmed>>

OrderOf(k) == CHOOSE i \in DOMAIN orders : orders[i].key = k

HearCreated(r) ==
  /\ requests[r].at \in {"placed", "replayed"}
  /\ Heard(r)
  /\ created' = OrderOf(requests[r].key)
  /\ UNCHANGED <<step, draft, failed, resets>>

\* SLOT_CONFLICT: the message at once, the clean-up when the slots are back.
HearConflict(r) ==
  /\ requests[r].at = "taken"
  /\ Heard(r)
  /\ failed' = TRUE
  /\ resets < MaxResets /\ resets' = resets + 1
  /\ UNCHANGED <<step, draft, created>>

\* Mistake: the slot is forgotten but the wizard stays where it is.
ForgetSlot_InPlace ==
  /\ resets > 0
  /\ resets' = resets - 1
  /\ draft' = [draft EXCEPT !.slot = None]
  /\ UNCHANGED <<server, requests, step, key, waiting, failed, created, confirmed>>

ForgetSlot ==
  /\ resets > 0
  /\ resets' = resets - 1
  /\ draft' = [draft EXCEPT !.slot = None] /\ step' = 2
  /\ UNCHANGED <<server, requests, key, waiting, failed, created, confirmed>>

HearRefusal(r) ==
  /\ requests[r].at = "refused"
  /\ Heard(r)
  /\ failed' = TRUE
  /\ UNCHANGED <<step, draft, resets, created>>

\* The connection breaks: the wizard is told of a failure, the server is not.
LoseAnswer(r) ==
  /\ waiting = r
  /\ waiting' = None
  /\ failed' = TRUE
  /\ UNCHANGED <<server, requests, form, resets, created, confirmed>>

\* An answer nobody waits for, or a request that never reached the server.
Vanish(r) ==
  /\ waiting # r
  /\ requests[r].at \in Stages \ {"looked_up"}
  /\ Done(r)
  /\ UNCHANGED <<server, form, waiting, outcome, confirmed>>

OthersBook(d, s) ==
  /\ \A i \in DOMAIN orders : ~(orders[i].draft.driver = d /\ orders[i].draft.slot = s)
  /\ busy' \in {busy \cup {<<d, s>>}, busy \ {<<d, s>>}}
  /\ UNCHANGED <<orders, requests, form, waiting, outcome, confirmed>>

Next ==
  \/ \E t \in Trip : ChooseTrip(t)
  \/ ChooseDate \/ \E s \in Slot : ChooseSlot(s)
  \/ \E d \in Driver \cup {AnyDriver} : ChooseDriver(d)
  \/ Continue \/ Back \/ \E k \in Key : Reopen(k)
  \/ \E r \in Request :
       \/ Submit(r) \/ LookUp(r) \/ Insert(r)
       \/ HearCreated(r) \/ HearConflict(r) \/ HearRefusal(r)
       \/ LoseAnswer(r) \/ Vanish(r)
  \/ ForgetSlot
  \/ \E d \in Driver, s \in Slot : OthersBook(d, s)

Spec == Init /\ [][Next]_vars

-----------------------------------------------------------------------------
(* Properties *)

\* However often a wizard is submitted, and however many of its requests the
\* server handles at once, it places one order (docs/tz.md: protection from
\* double taps).
OneOrderPerWizard ==
  \A i, j \in DOMAIN orders : orders[i].key = orders[j].key => i = j

\* The page with the last button is never without a trip or a slot, where a tap
\* would do nothing, though a late clean-up may take the slot away.
ConfirmationIsComplete == step = 3 => draft.trip # None /\ draft.slot # None

\* The success screen is about the order the user last confirmed.
SuccessShowsTheConfirmed == created # None => orders[created].draft = confirmed

\* While a failure is on display and nothing is under way, nothing was ordered.
FailureMeansNoOrder ==
  failed /\ waiting = None => \A i \in DOMAIN orders : orders[i].key # key

=============================================================================
