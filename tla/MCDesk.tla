------------------------------- MODULE MCDesk -------------------------------
(***************************************************************************)
(* Desk on small instances.  A behaviour looks at one of the two screens;  *)
(* what its user does not do there is done elsewhere.                      *)
(***************************************************************************)
EXTENDS Desk

VARIABLE lookingAt

MCVars == <<deskVars, lookingAt>>

MCInit == DeskInit /\ onDuty = Driver /\ lookingAt \in {"queue", "page"}

At(screen) == lookingAt = screen /\ UNCHANGED lookingAt

MCNext ==
  \/ At("queue") /\ Fetch
  \/ At("queue") /\ ShowQueue
  \/ \E o \in OrderId, a \in DOMAIN Transition : At("queue") /\ TapButton(o, a)
  \/ \E o \in OrderId : At("queue") /\ OpenReject(o)
  \/ \E o \in OrderId : At("queue") /\ OpenPropose(o)
  \/ \E o \in OrderId : At("queue") /\ SendReject(o)
  \/ \E o \in OrderId, t \in Time : At("queue") /\ SendPropose(o, t)
  \/ \E o \in OrderId : At("queue") /\ CloseForm(o)
  \/ \E o \in OrderId : At("page") /\ OpenOrder(o)
  \/ \E o \in OrderId : At("page") /\ FetchOrder(o)
  \/ \E o \in OrderId, b \in {"edit", "cancel"} : At("page") /\ OpenForm(o, b)
  \/ At("page") /\ LeaveForm
  \/ At("page") /\ CloseOrder
  \/ \E o \in OrderId : At("page") /\ SendForm(o)
  \/ \E o \in OrderId, b \in {"accept", "decline"} : At("page") /\ Reply(o, b)
  \/ \E t \in taps : HandleDriver(t) /\ UNCHANGED lookingAt
  \/ \E t \in taps, w \in Worker : HandleOwner(t, w) /\ UNCHANGED lookingAt
  \/ \E t \in taps : HearDriver(t) /\ UNCHANGED lookingAt
  \/ \E t \in taps : CloseForms(t) /\ UNCHANGED lookingAt
  \/ \E t \in taps : HearOwner(t) /\ UNCHANGED lookingAt
  \/ \E t \in taps : Fail(t) /\ UNCHANGED lookingAt
  \/ \E w \in Worker : End(w) /\ UNCHANGED lookingAt
  \/ Elsewhere /\ onDuty' = onDuty /\ UNCHANGED lookingAt

MCFairness == WF_MCVars(At("queue") /\ Fetch) /\ WF_MCVars(At("queue") /\ ShowQueue)

MCSpec == MCInit /\ [][MCNext]_MCVars /\ MCFairness

\* Whoever looks at the queue sees it catch up.
QueueCatchesUp == lookingAt = "queue" => ScreenCatchesUp

\* The audit trail is read by nothing.
WithoutAudit == <<orders, now, inflight, screens, lookingAt, events = {}>>

=============================================================================
