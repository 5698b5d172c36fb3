---------------------------- MODULE WizardProofs ----------------------------
(***************************************************************************)
(* Theorems about Wizard, for any number of trips, slots, drivers, wizards *)
(* and requests under way at once; and about the calm user of MCWizard,    *)
(* who waits for every answer and hears it.                                *)
(***************************************************************************)
EXTENDS MCWizard, TLAPS

-----------------------------------------------------------------------------
(* The inductive invariant *)

\* An answer "created" speaks of an order that is there.
AnswersAreTrue ==
  \A r \in Request :
    requests[r].at \in {"placed", "replayed"} => Stored(requests[r].key)

\* Behind the first step, and while a submission or its clean-up is under way,
\* the draft has a trip: a clean-up may take the user to step 2 from anywhere.
TripChosen == step > 0 \/ resets > 0 \/ waiting # None => draft.trip # None

WizardInv ==
  TypeOK /\ AnswersAreTrue /\ TripChosen /\ ConfirmationIsComplete /\ OneOrderPerWizard

USE DEF Editing, server, outcome

LEMMA EmptyIsADraft == Empty \in Draft
  BY DEF Empty, Draft

LEMMA StartsRight == Init => WizardInv
<1> SUFFICES ASSUME Init PROVE WizardInv
  OBVIOUS
<1>1. orders \in Seq(Order) /\ created = None /\ waiting = None
  BY DEF Init
<1>2. TypeOK
  <2>1. requests \in [Request -> [at: Stages, key: Key, draft: Draft] \cup {NoRequest}]
    BY DEF Init
  <2>2. resets \in 0..MaxResets /\ step \in 0..3
    BY WizardAssumption DEF Init
  <2>3. draft \in Draft /\ confirmed \in Draft /\ key \in Key /\ failed \in BOOLEAN
    BY EmptyIsADraft DEF Init
  <2>4. busy \subseteq Driver \X Slot
    BY DEF Init
  <2> QED
    BY <1>1, <2>1, <2>2, <2>3, <2>4 DEF TypeOK
<1>3. AnswersAreTrue
  BY DEF Init, AnswersAreTrue, NoRequest
<1>4. TripChosen /\ ConfirmationIsComplete /\ OneOrderPerWizard
  BY DEF Init, TripChosen, ConfirmationIsComplete, OneOrderPerWizard
<1> QED
  BY <1>2, <1>3, <1>4 DEF WizardInv

\* The steps that only fill in the form.
LEMMA FormKept ==
  ASSUME WizardInv,
         UNCHANGED <<orders, busy, requests, waiting, failed, resets, created, confirmed, key>>,
         step' \in 0..3, draft' \in Draft, TripChosen', ConfirmationIsComplete'
  PROVE  WizardInv'
  BY DEF WizardInv, TypeOK, AnswersAreTrue, Stored, OneOrderPerWizard

LEMMA ChooseTripKept ==
  ASSUME WizardInv, NEW t \in Trip, ChooseTrip(t) PROVE WizardInv'
<1>1. draft' \in Draft /\ TripChosen' /\ ConfirmationIsComplete' /\ step' \in 0..3
  BY WizardAssumption
  DEF ChooseTrip, WizardInv, TypeOK, Draft, TripChosen, ConfirmationIsComplete
<1> QED
  BY <1>1, FormKept DEF ChooseTrip

LEMMA ChooseDateKept ==
  ASSUME WizardInv, ChooseDate PROVE WizardInv'
<1>1. draft' \in Draft /\ TripChosen' /\ ConfirmationIsComplete' /\ step' \in 0..3
  BY DEF ChooseDate, WizardInv, TypeOK, Draft, TripChosen, ConfirmationIsComplete
<1> QED
  BY <1>1, FormKept DEF ChooseDate

LEMMA ChooseSlotKept ==
  ASSUME WizardInv, NEW s \in Slot, ChooseSlot(s) PROVE WizardInv'
<1>1. draft' \in Draft /\ TripChosen' /\ ConfirmationIsComplete' /\ step' \in 0..3
  BY DEF ChooseSlot, WizardInv, TypeOK, Draft, TripChosen, ConfirmationIsComplete
<1> QED
  BY <1>1, FormKept DEF ChooseSlot

LEMMA ChooseDriverKept ==
  ASSUME WizardInv, NEW d \in Driver \cup {AnyDriver}, ChooseDriver(d) PROVE WizardInv'
<1>1. draft' \in Draft /\ TripChosen' /\ ConfirmationIsComplete' /\ step' \in 0..3
  BY DEF ChooseDriver, WizardInv, TypeOK, Draft, TripChosen, ConfirmationIsComplete
<1> QED
  BY <1>1, FormKept DEF ChooseDriver

LEMMA ContinueKept ==
  ASSUME WizardInv, Continue PROVE WizardInv'
<1>1. draft' \in Draft /\ TripChosen' /\ ConfirmationIsComplete' /\ step' \in 0..3
  BY DEF Continue, CanContinue, WizardInv, TypeOK, Draft, TripChosen, ConfirmationIsComplete
<1> QED
  BY <1>1, FormKept DEF Continue

LEMMA BackKept ==
  ASSUME WizardInv, Back PROVE WizardInv'
<1>1. draft' \in Draft /\ TripChosen' /\ ConfirmationIsComplete' /\ step' \in 0..3
  BY DEF Back, WizardInv, TypeOK, Draft, TripChosen, ConfirmationIsComplete
<1> QED
  BY <1>1, FormKept DEF Back

LEMMA ReopenKept ==
  ASSUME WizardInv, NEW k \in Key, Reopen(k) PROVE WizardInv'
<1>1. TypeOK'
  <2>1. resets' \in 0..MaxResets /\ step' \in 0..3
    BY WizardAssumption DEF Reopen
  <2>2. draft' \in Draft /\ confirmed' \in Draft /\ key' \in Key /\ failed' \in BOOLEAN
    BY EmptyIsADraft DEF Reopen
  <2>3. waiting' = None /\ created' = None
    BY DEF Reopen
  <2> QED
    BY <2>1, <2>2, <2>3 DEF Reopen, WizardInv, TypeOK
<1>2. AnswersAreTrue' /\ OneOrderPerWizard'
  BY DEF Reopen, WizardInv, AnswersAreTrue, Stored, OneOrderPerWizard
<1>3. TripChosen' /\ ConfirmationIsComplete'
  BY DEF Reopen, TripChosen, ConfirmationIsComplete
<1> QED
  BY <1>1, <1>2, <1>3 DEF WizardInv

-----------------------------------------------------------------------------
(* Submitting *)

\* The steps that change one request and leave the orders as they are.
LEMMA OneRequestChanges ==
  ASSUME WizardInv, NEW r \in Request, NEW q,
         requests' = [requests EXCEPT ![r] = q],
         q \in [at: Stages, key: Key, draft: Draft] \cup {NoRequest},
         q.at \in {"placed", "replayed"} => Stored(q.key),
         UNCHANGED orders
  PROVE  /\ requests' \in [Request -> [at: Stages, key: Key, draft: Draft] \cup {NoRequest}]
         /\ AnswersAreTrue' /\ OneOrderPerWizard'
  BY DEF WizardInv, TypeOK, AnswersAreTrue, Stored, OneOrderPerWizard

\* A request is over.
LEMMA RequestEnds ==
  ASSUME WizardInv, NEW r \in Request, Done(r), UNCHANGED orders
  PROVE  /\ requests' \in [Request -> [at: Stages, key: Key, draft: Draft] \cup {NoRequest}]
         /\ AnswersAreTrue' /\ OneOrderPerWizard'
<1>1. NoRequest.at \notin {"placed", "replayed"}
  BY DEF NoRequest
<1> QED
  BY <1>1, OneRequestChanges DEF Done

LEMMA SubmitKept ==
  ASSUME WizardInv, NEW r \in Request, Submit(r) PROVE WizardInv'
<1> DEFINE q == [at |-> "sent", key |-> key, draft |-> draft]
<1>1. q \in [at: Stages, key: Key, draft: Draft] /\ q # NoRequest
  BY DEF WizardInv, TypeOK, Stages, NoRequest
<1>2. /\ requests' \in [Request -> [at: Stages, key: Key, draft: Draft] \cup {NoRequest}]
      /\ AnswersAreTrue' /\ OneOrderPerWizard'
  BY <1>1, OneRequestChanges DEF Submit
<1>3. TypeOK'
  BY <1>1, <1>2 DEF Submit, form, WizardInv, TypeOK
<1>4. TripChosen' /\ ConfirmationIsComplete'
  BY DEF Submit, form, WizardInv, TripChosen, ConfirmationIsComplete
<1> QED
  BY <1>2, <1>3, <1>4 DEF WizardInv

LEMMA LookUpKept ==
  ASSUME WizardInv, NEW r \in Request, LookUp(r) PROVE WizardInv'
<1>1. PICK at \in {"replayed", "looked_up", "refused"} :
        /\ requests' = [requests EXCEPT ![r].at = at]
        /\ at = "replayed" => Stored(requests[r].key)
  BY DEF LookUp, Answer
<1>2. requests[r] \in [at: Stages, key: Key, draft: Draft]
  BY DEF LookUp, WizardInv, TypeOK, NoRequest
<1> DEFINE q == [requests[r] EXCEPT !.at = at]
<1>3. q \in [at: Stages, key: Key, draft: Draft] /\ q # NoRequest /\ q.at = at
      /\ q.key = requests[r].key
  BY <1>1, <1>2 DEF Stages, NoRequest
<1>4. requests' = [requests EXCEPT ![r] = q]
  BY <1>1
<1>5. /\ requests' \in [Request -> [at: Stages, key: Key, draft: Draft] \cup {NoRequest}]
      /\ AnswersAreTrue' /\ OneOrderPerWizard'
  BY <1>1, <1>3, <1>4, OneRequestChanges DEF LookUp
<1>6. TypeOK'
  BY <1>3, <1>4, <1>5 DEF LookUp, form, WizardInv, TypeOK
<1>7. TripChosen' /\ ConfirmationIsComplete'
  BY DEF LookUp, form, WizardInv, TripChosen, ConfirmationIsComplete
<1> QED
  BY <1>5, <1>6, <1>7 DEF WizardInv

\* The only step that adds an order: its key is new, as the unique index demands.
LEMMA InsertKept ==
  ASSUME WizardInv, NEW r \in Request, Insert(r) PROVE WizardInv'
<1>1. requests[r] \in [at: Stages, key: Key, draft: Draft]
  BY DEF Insert, WizardInv, TypeOK, NoRequest
<1>2. TripChosen' /\ ConfirmationIsComplete'
  BY DEF Insert, form, WizardInv, TripChosen, ConfirmationIsComplete
<1>3. CASE UNCHANGED orders
  <2>1. PICK at \in {"taken", "refused"} : requests' = [requests EXCEPT ![r].at = at]
    <3>1. CASE Answer(r, "taken")
      BY <3>1 DEF Answer
    <3>2. CASE Answer(r, "refused")
      BY <3>2 DEF Answer
    <3>3. ~ (orders' = Append(orders, [key |-> requests[r].key, draft |-> requests[r].draft]))
      <4>1. orders \in Seq(Order) /\ [key |-> requests[r].key, draft |-> requests[r].draft] \in Order
        BY <1>1 DEF WizardInv, TypeOK, Order
      <4>2. Len(Append(orders, [key |-> requests[r].key, draft |-> requests[r].draft])) # Len(orders)
        BY <4>1
      <4> QED
        BY <1>3, <4>2
    <3> QED
      BY <3>1, <3>2, <3>3 DEF Insert
  <2> DEFINE q == [requests[r] EXCEPT !.at = at]
  <2>2. q \in [at: Stages, key: Key, draft: Draft] /\ q # NoRequest /\ q.at = at
    BY <1>1, <2>1 DEF Stages, NoRequest
  <2>3. requests' = [requests EXCEPT ![r] = q]
    BY <2>1
  <2>4. /\ requests' \in [Request -> [at: Stages, key: Key, draft: Draft] \cup {NoRequest}]
        /\ AnswersAreTrue' /\ OneOrderPerWizard'
    BY <1>3, <2>1, <2>2, <2>3, OneRequestChanges
  <2>5. TypeOK'
    BY <1>3, <2>2, <2>3, <2>4 DEF Insert, form, WizardInv, TypeOK
  <2> QED
    BY <1>2, <2>4, <2>5 DEF WizardInv
<1>4. CASE orders' # orders
  <2> DEFINE o == [key |-> requests[r].key, draft |-> requests[r].draft]
             q == [requests[r] EXCEPT !.at = "placed"]
  <2>1. /\ ~Stored(requests[r].key)
        /\ orders' = Append(orders, o)
        /\ requests' = [requests EXCEPT ![r].at = "placed"]
    BY <1>4 DEF Insert, Refuses, Answer
  <2>2. orders \in Seq(Order) /\ o \in Order
    BY <1>1 DEF WizardInv, TypeOK, Order
  <2>3. /\ orders' \in Seq(Order) /\ Len(orders') = Len(orders) + 1
        /\ \A i \in 1..Len(orders) : orders'[i] = orders[i]
        /\ orders'[Len(orders) + 1] = o
        /\ DOMAIN orders = 1..Len(orders) /\ DOMAIN orders' = 1..Len(orders) + 1
        /\ Len(orders) \in Nat
    BY <2>1, <2>2
  <2>4. OneOrderPerWizard'
    BY <2>1, <2>3 DEF OneOrderPerWizard, WizardInv, Stored
  <2>5. \A k : Stored(k) => Stored(k)'
    BY <2>3 DEF Stored
  <2>6. Stored(requests[r].key)'
    <3>1. Len(orders) + 1 \in DOMAIN orders' /\ orders'[Len(orders) + 1].key = requests[r].key
      BY <2>3
    <3>2. requests'[r].key = requests[r].key
      BY <1>1, <2>1 DEF WizardInv, TypeOK
    <3> QED
      BY <3>1, <3>2 DEF Stored
  <2>7. q \in [at: Stages, key: Key, draft: Draft] /\ q # NoRequest
    BY <1>1 DEF Stages, NoRequest
  <2>8. requests' = [requests EXCEPT ![r] = q]
    BY <2>1
  <2>9. requests' \in [Request -> [at: Stages, key: Key, draft: Draft] \cup {NoRequest}]
    BY <2>7, <2>8 DEF WizardInv, TypeOK
  <2>10. AnswersAreTrue'
    <3> SUFFICES ASSUME NEW p \in Request, requests'[p].at \in {"placed", "replayed"}
                 PROVE  Stored(requests[p].key)'
      BY DEF AnswersAreTrue
    <3>1. CASE p = r
      BY <2>6, <3>1
    <3>2. CASE p # r
      BY <2>5, <2>8, <3>2 DEF WizardInv, TypeOK, AnswersAreTrue, Stored
    <3> QED
      BY <3>1, <3>2
  <2>11. TypeOK'
    BY <2>3, <2>7, <2>8, <2>9 DEF Insert, form, WizardInv, TypeOK
  <2> QED
    BY <1>2, <2>4, <2>10, <2>11 DEF WizardInv
<1> QED
  BY <1>3, <1>4

-----------------------------------------------------------------------------
(* Hearing the answer *)

LEMMA HearCreatedKept ==
  ASSUME WizardInv, NEW r \in Request, HearCreated(r) PROVE WizardInv'
<1>1. /\ requests' \in [Request -> [at: Stages, key: Key, draft: Draft] \cup {NoRequest}]
      /\ AnswersAreTrue' /\ OneOrderPerWizard'
  BY RequestEnds DEF HearCreated, Heard
<1>2. created' \in DOMAIN orders
  BY DEF HearCreated, OrderOf, Stored, WizardInv, AnswersAreTrue
<1>3. DOMAIN orders = 1..Len(orders)
  BY DEF WizardInv, TypeOK
<1>4. TypeOK'
  BY <1>1, <1>2, <1>3 DEF HearCreated, Heard, WizardInv, TypeOK
<1>5. TripChosen' /\ ConfirmationIsComplete'
  BY DEF HearCreated, Heard, WizardInv, TripChosen, ConfirmationIsComplete
<1> QED
  BY <1>1, <1>4, <1>5 DEF WizardInv

LEMMA HearConflictKept ==
  ASSUME WizardInv, NEW r \in Request, HearConflict(r) PROVE WizardInv'
<1>1. /\ requests' \in [Request -> [at: Stages, key: Key, draft: Draft] \cup {NoRequest}]
      /\ AnswersAreTrue' /\ OneOrderPerWizard'
  BY RequestEnds DEF HearConflict, Heard
<1>2. resets' \in 0..MaxResets
  BY WizardAssumption DEF HearConflict, WizardInv, TypeOK
<1>3. TypeOK'
  BY <1>1, <1>2 DEF HearConflict, Heard, WizardInv, TypeOK
<1>4. TripChosen' /\ ConfirmationIsComplete'
  BY WizardAssumption DEF HearConflict, Heard, WizardInv, TripChosen, ConfirmationIsComplete
<1> QED
  BY <1>1, <1>3, <1>4 DEF WizardInv

LEMMA HearRefusalKept ==
  ASSUME WizardInv, NEW r \in Request, HearRefusal(r) PROVE WizardInv'
<1>1. /\ requests' \in [Request -> [at: Stages, key: Key, draft: Draft] \cup {NoRequest}]
      /\ AnswersAreTrue' /\ OneOrderPerWizard'
  BY RequestEnds DEF HearRefusal, Heard
<1>2. TypeOK'
  BY <1>1 DEF HearRefusal, Heard, WizardInv, TypeOK
<1>3. TripChosen' /\ ConfirmationIsComplete'
  BY DEF HearRefusal, Heard, WizardInv, TripChosen, ConfirmationIsComplete
<1> QED
  BY <1>1, <1>2, <1>3 DEF WizardInv

LEMMA LoseAnswerKept ==
  ASSUME WizardInv, NEW r \in Request, LoseAnswer(r) PROVE WizardInv'
<1>1. TypeOK'
  BY DEF LoseAnswer, form, WizardInv, TypeOK
<1>2. AnswersAreTrue' /\ OneOrderPerWizard'
  BY DEF LoseAnswer, form, WizardInv, AnswersAreTrue, Stored, OneOrderPerWizard
<1>3. TripChosen' /\ ConfirmationIsComplete'
  BY DEF LoseAnswer, form, WizardInv, TripChosen, ConfirmationIsComplete
<1> QED
  BY <1>1, <1>2, <1>3 DEF WizardInv

LEMMA VanishKept ==
  ASSUME WizardInv, NEW r \in Request, Vanish(r) PROVE WizardInv'
<1>1. /\ requests' \in [Request -> [at: Stages, key: Key, draft: Draft] \cup {NoRequest}]
      /\ AnswersAreTrue' /\ OneOrderPerWizard'
  BY RequestEnds DEF Vanish
<1>2. waiting # None => requests'[waiting] = requests[waiting]
  BY DEF Vanish, Done, WizardInv, TypeOK
<1>3. TypeOK'
  BY <1>1, <1>2 DEF Vanish, form, WizardInv, TypeOK
<1>4. TripChosen' /\ ConfirmationIsComplete'
  BY DEF Vanish, form, WizardInv, TripChosen, ConfirmationIsComplete
<1> QED
  BY <1>1, <1>3, <1>4 DEF WizardInv

\* The late clean-up takes the slot away, and the user to the slots with it: the
\* trip is there, for the clean-up belongs to a submission.
LEMMA ForgetSlotKept ==
  ASSUME WizardInv, ForgetSlot PROVE WizardInv'
<1>1. draft' \in Draft /\ step' = 2 /\ draft'.trip # None
  BY DEF ForgetSlot, WizardInv, TypeOK, Draft, TripChosen
<1>2. resets' \in 0..MaxResets
  BY WizardAssumption DEF ForgetSlot, WizardInv, TypeOK
<1>3. TypeOK'
  BY <1>1, <1>2 DEF ForgetSlot, WizardInv, TypeOK
<1>4. AnswersAreTrue' /\ OneOrderPerWizard'
  BY DEF ForgetSlot, WizardInv, AnswersAreTrue, Stored, OneOrderPerWizard
<1>5. TripChosen' /\ ConfirmationIsComplete'
  BY <1>1 DEF TripChosen, ConfirmationIsComplete
<1> QED
  BY <1>3, <1>4, <1>5 DEF WizardInv

LEMMA OthersBookKept ==
  ASSUME WizardInv, NEW d \in Driver, NEW s \in Slot, OthersBook(d, s) PROVE WizardInv'
<1>1. busy' \subseteq Driver \X Slot
  BY DEF OthersBook, WizardInv, TypeOK
<1>2. TypeOK'
  BY <1>1 DEF OthersBook, form, WizardInv, TypeOK
<1>3. AnswersAreTrue' /\ OneOrderPerWizard' /\ TripChosen' /\ ConfirmationIsComplete'
  BY DEF OthersBook, form, WizardInv, AnswersAreTrue, Stored, OneOrderPerWizard,
         TripChosen, ConfirmationIsComplete
<1> QED
  BY <1>2, <1>3 DEF WizardInv

LEMMA StutterKept ==
  ASSUME WizardInv, UNCHANGED vars PROVE WizardInv'
  BY DEF vars, form, WizardInv, TypeOK, AnswersAreTrue, Stored, TripChosen,
         ConfirmationIsComplete, OneOrderPerWizard

LEMMA StepsKept == WizardInv /\ [Next]_vars => WizardInv'
<1> SUFFICES ASSUME WizardInv, [Next]_vars PROVE WizardInv'
  OBVIOUS
<1>1. CASE UNCHANGED vars
  BY <1>1, StutterKept
<1>2. CASE \E t \in Trip : ChooseTrip(t)
  BY <1>2, ChooseTripKept
<1>3. CASE ChooseDate \/ (\E s \in Slot : ChooseSlot(s))
  BY <1>3, ChooseDateKept, ChooseSlotKept
<1>4. CASE \E d \in Driver \cup {AnyDriver} : ChooseDriver(d)
  BY <1>4, ChooseDriverKept
<1>5. CASE Continue \/ Back \/ (\E k \in Key : Reopen(k))
  BY <1>5, ContinueKept, BackKept, ReopenKept
<1>6. CASE \E r \in Request : Submit(r) \/ LookUp(r) \/ Insert(r)
  BY <1>6, SubmitKept, LookUpKept, InsertKept
<1>7. CASE \E r \in Request : HearCreated(r) \/ HearConflict(r) \/ HearRefusal(r)
  BY <1>7, HearCreatedKept, HearConflictKept, HearRefusalKept
<1>8. CASE \E r \in Request : LoseAnswer(r) \/ Vanish(r)
  BY <1>8, LoseAnswerKept, VanishKept
<1>9. CASE ForgetSlot
  BY <1>9, ForgetSlotKept
<1>10. CASE \E d \in Driver, s \in Slot : OthersBook(d, s)
  BY <1>10, OthersBookKept
<1> QED
  BY <1>1, <1>2, <1>3, <1>4, <1>5, <1>6, <1>7, <1>8, <1>9, <1>10 DEF Next

\* The inductive invariant of the wizard and its server (OrderWizardScreen.tsx,
\* create_order).
THEOREM WizardInvHolds == Spec => []WizardInv
  BY StartsRight, StepsKept, PTL DEF Spec

\* The wizard and the requests under way keep their types; in particular the
\* success screen has an order to show (OrderWizardScreen.tsx).
THEOREM TypeCorrect == Spec => []TypeOK
<1>1. WizardInv => TypeOK
  BY DEF WizardInv
<1> QED
  BY <1>1, WizardInvHolds, PTL

\* One wizard places one order, however many of its requests are lost, repeated
\* and handled at once (create_order).
THEOREM OneOrderEach == Spec => []OneOrderPerWizard
<1>1. WizardInv => OneOrderPerWizard
  BY DEF WizardInv
<1> QED
  BY <1>1, WizardInvHolds, PTL

\* The page with the last button always has something to submit, whenever the
\* clean-up of a refusal comes (handleSubmit).
THEOREM ConfirmationComplete == Spec => []ConfirmationIsComplete
<1>1. WizardInv => ConfirmationIsComplete
  BY DEF WizardInv
<1> QED
  BY <1>1, WizardInvHolds, PTL

-----------------------------------------------------------------------------
(* A calm user *)

Ordered(k, d) == \E i \in DOMAIN orders : orders[i].key = k /\ orders[i].draft = d

\* The request the button waits for is the only one; it carries what the user last
\* confirmed, under a key nothing is stored under until it places the order itself.
CalmInv ==
  /\ \A r \in Request : requests[r] # NoRequest => r = waiting
  /\ waiting # None =>
       /\ created = None /\ ~failed
       /\ requests[waiting].key = key /\ requests[waiting].draft = confirmed
       /\ requests[waiting].at # "replayed"
       /\ IF requests[waiting].at = "placed" THEN Ordered(key, confirmed) ELSE ~Stored(key)
  /\ waiting = None /\ created = None => ~Stored(key)
  /\ created # None => ~failed /\ orders[created].draft = confirmed

LEMMA CalmIsAStep == [MCNext]_MCVars => [Next]_vars /\ UNCHANGED calm
BY DEF MCNext, MCVars, Touches, Next, vars

LEMMA CalmRefines == MCSpec => Spec
<1>1. MCInit => Init
  BY DEF MCInit
<1> QED
  BY <1>1, CalmIsAStep, PTL DEF MCSpec, Spec

\* Filling in the form, and what others do, is none of the invariant's business.
LEMMA BystandersCalm ==
  ASSUME CalmInv, UNCHANGED <<orders, requests, key, waiting, failed, created, confirmed>>
  PROVE  CalmInv'
BY DEF CalmInv, Ordered, Stored

\* A wizard opened anew has a key of its own.
LEMMA ReopenCalm ==
  ASSUME CalmInv, waiting = None, NEW k \in Key, Reopen(k) PROVE CalmInv'
<1>1. \A r \in Request : requests'[r] = NoRequest
  BY WizardAssumption DEF CalmInv, Reopen
<1>2. ~Stored(key)'
  BY DEF Stored, Reopen
<1> QED
  BY <1>1, <1>2 DEF CalmInv, Reopen

LEMMA SubmitCalm ==
  ASSUME WizardInv, CalmInv, NEW r \in Request, Submit(r) PROVE CalmInv'
<1> DEFINE q == [at |-> "sent", key |-> key, draft |-> draft]
<1>1. /\ requests' = [requests EXCEPT ![r] = q] /\ waiting' = r /\ confirmed' = draft
      /\ failed' = FALSE /\ UNCHANGED <<orders, key, created>> /\ created = None
      /\ waiting = None
  BY DEF Submit, form
<1>2. requests'[r] = q /\ \A p \in Request : p # r => requests'[p] = requests[p]
  BY <1>1 DEF WizardInv, TypeOK
<1>3. ~Stored(key)'
  BY <1>1 DEF CalmInv, Stored
<1>4. \A p \in Request : requests'[p] # NoRequest => p = r
  BY <1>1, <1>2, WizardAssumption DEF CalmInv
<1> QED
  BY <1>1, <1>2, <1>3, <1>4 DEF CalmInv

\* A request the server works on is the one the button waits for.
LEMMA Awaited ==
  ASSUME TypeOK, CalmInv, NEW r \in Request, requests[r].at \in Stages
  PROVE  r = waiting /\ waiting # None /\ requests[r] \in [at: Stages, key: Key, draft: Draft]
<1>1. requests[r] # NoRequest
  BY DEF NoRequest, Stages
<1> QED
  BY <1>1, WizardAssumption DEF CalmInv, TypeOK

\* The server changes the stage of the awaited request.
LEMMA AnswerCalm ==
  ASSUME TypeOK, CalmInv, NEW r \in Request, requests[r].at \in Stages,
         NEW at \in Stages \ {"replayed"}, Answer(r, at),
         UNCHANGED <<key, waiting, failed, created, confirmed>>,
         IF at = "placed" THEN Ordered(key, confirmed)' ELSE ~Stored(key)'
  PROVE  CalmInv'
<1>1. r = waiting /\ waiting # None /\ requests[r] \in [at: Stages, key: Key, draft: Draft]
  BY Awaited
<1>2. /\ requests'[r].at = at /\ requests'[r].key = requests[r].key
      /\ requests'[r].draft = requests[r].draft
      /\ \A p \in Request : p # r => requests'[p] = requests[p]
  BY <1>1 DEF Answer, TypeOK
<1> QED
  BY <1>1, <1>2 DEF CalmInv

\* The key of a calm user's wizard is never found stored.
LEMMA LookUpCalm ==
  ASSUME TypeOK, CalmInv, NEW r \in Request, LookUp(r) PROVE CalmInv'
<1>1. requests[r].at = "sent" /\ requests[r].at \in Stages
      /\ UNCHANGED <<orders, key, waiting, failed, created, confirmed>>
  BY DEF LookUp, form, Stages
<1>2. ~Stored(requests[r].key) /\ requests[r].key = key
  BY <1>1, Awaited DEF CalmInv
<1>3. ~Stored(key)'
  BY <1>1, <1>2 DEF Stored
<1>4. Answer(r, "looked_up") \/ Answer(r, "refused")
  BY <1>2 DEF LookUp
<1> QED
  BY <1>1, <1>3, <1>4, AnswerCalm DEF Stages

LEMMA InsertCalm ==
  ASSUME TypeOK, CalmInv, NEW r \in Request, Insert(r) PROVE CalmInv'
<1>1. requests[r].at = "looked_up" /\ requests[r].at \in Stages
      /\ UNCHANGED <<key, waiting, failed, created, confirmed>>
  BY DEF Insert, form, Stages
<1>2. /\ ~Stored(key) /\ requests[r].key = key /\ requests[r].draft = confirmed
      /\ requests[r] \in [at: Stages, key: Key, draft: Draft]
  BY <1>1, Awaited DEF CalmInv
<1>3. CASE UNCHANGED orders /\ (Answer(r, "taken") \/ Answer(r, "refused"))
  <2>1. ~Stored(key)'
    BY <1>1, <1>2, <1>3 DEF Stored
  <2> QED
    BY <1>1, <1>3, <2>1, AnswerCalm DEF Stages
<1>4. CASE /\ orders' = Append(orders, [key |-> requests[r].key, draft |-> requests[r].draft])
           /\ Answer(r, "placed")
  <2> DEFINE o == [key |-> requests[r].key, draft |-> requests[r].draft]
  <2>1. orders \in Seq(Order) /\ o \in Order
    BY <1>2 DEF TypeOK, Order
  <2>2. Len(orders) + 1 \in DOMAIN orders' /\ orders'[Len(orders) + 1] = o
    BY <1>4, <2>1
  <2>3. Ordered(key, confirmed)'
    BY <1>1, <1>2, <2>2 DEF Ordered
  <2> QED
    BY <1>1, <1>4, <2>3, AnswerCalm DEF Stages
<1> QED
  BY <1>3, <1>4 DEF Insert

\* The answer arrives: the success screen shows the order it speaks of, the only one
\* under its key; a refusal has left nothing behind.
LEMMA HearCalm ==
  ASSUME WizardInv, CalmInv, NEW r \in Request,
         HearCreated(r) \/ HearConflict(r) \/ HearRefusal(r)
  PROVE  CalmInv'
<1>1. /\ waiting = r /\ waiting' = None /\ requests' = [requests EXCEPT ![r] = NoRequest]
      /\ UNCHANGED <<orders, key, confirmed>>
  BY DEF HearCreated, HearConflict, HearRefusal, Heard, Done
<1>2. \A p \in Request : requests'[p] = NoRequest
  BY <1>1 DEF CalmInv, WizardInv, TypeOK
<1>3. r # None /\ created = None /\ ~failed /\ requests[r].key = key
  BY <1>1, WizardAssumption DEF CalmInv
<1>4. CASE HearCreated(r)
  <2>1. Ordered(key, confirmed)
    BY <1>1, <1>3, <1>4 DEF HearCreated, CalmInv
  <2>2. PICK i \in DOMAIN orders : orders[i].key = key /\ orders[i].draft = confirmed
    BY <2>1 DEF Ordered
  <2>3. created' \in DOMAIN orders /\ orders[created'].key = key
    BY <1>3, <1>4, <2>2 DEF HearCreated, OrderOf
  <2>4. created' = i
    BY <2>2, <2>3 DEF WizardInv, OneOrderPerWizard
  <2>5. created' # None
    BY <2>3, WizardAssumption DEF WizardInv, TypeOK
  <2> QED
    BY <1>1, <1>2, <1>3, <1>4, <2>2, <2>4, <2>5 DEF CalmInv, HearCreated
<1>5. CASE HearConflict(r) \/ HearRefusal(r)
  <2>1. ~Stored(key)'
    BY <1>1, <1>3, <1>5 DEF CalmInv, HearConflict, HearRefusal, Stored
  <2> QED
    BY <1>1, <1>2, <1>3, <1>5, <2>1 DEF CalmInv, HearConflict, HearRefusal
<1> QED
  BY <1>4, <1>5

\* A calm user's wizard: a request is answered before the next is sent, so the orders
\* it places are the ones it is told of.
THEOREM CalmInvHolds == MCSpec => [](calm => CalmInv)
<1>1. MCInit => CalmInv
  BY DEF MCInit, Init, CalmInv, Stored
<1>2. WizardInv /\ (calm => CalmInv) /\ [MCNext]_MCVars => (calm => CalmInv)'
  <2> SUFFICES ASSUME WizardInv, calm, CalmInv, [MCNext]_MCVars PROVE CalmInv'
    BY CalmIsAStep
  <2>1. TypeOK
    BY DEF WizardInv
  <2>2. ASSUME NEW t, ChooseTrip(t) \/ ChooseSlot(t) \/ ChooseDriver(t) PROVE CalmInv'
    BY <2>2, BystandersCalm DEF ChooseTrip, ChooseSlot, ChooseDriver
  <2>3. CASE ChooseDate \/ Continue \/ Back \/ ForgetSlot \/ UNCHANGED vars
    BY <2>3, BystandersCalm DEF ChooseDate, Continue, Back, ForgetSlot, vars, form
  <2>4. CASE \E d \in Driver, s \in Slot : OthersBook(d, s)
    BY <2>4, BystandersCalm DEF OthersBook, form
  <2>5. CASE \E k \in Key : Touches /\ Reopen(k)
    BY <2>5, ReopenCalm DEF Touches
  <2>6. CASE \E r \in Request : Submit(r) \/ LookUp(r) \/ Insert(r)
    BY <2>1, <2>6, SubmitCalm, LookUpCalm, InsertCalm
  <2>7. CASE \E r \in Request : HearCreated(r) \/ HearConflict(r) \/ HearRefusal(r)
    BY <2>7, HearCalm
  <2>8. ASSUME NEW r \in Request, Vanish(r) PROVE FALSE
    BY <2>1, <2>8, Awaited DEF Vanish
  <2> QED
    BY <2>2, <2>3, <2>4, <2>5, <2>6, <2>7, <2>8 DEF MCNext, MCVars
<1> QED
  BY <1>1, <1>2, CalmRefines, WizardInvHolds, PTL DEF MCSpec

\* A calm user's success screen is about the order he confirmed (handleSubmit).
THEOREM CalmSuccess == MCSpec => []SuccessShowsTheConfirmedWhenCalm
<1>1. (calm => CalmInv) => SuccessShowsTheConfirmedWhenCalm
  BY DEF CalmInv, SuccessShowsTheConfirmedWhenCalm, SuccessShowsTheConfirmed
<1> QED
  BY <1>1, CalmInvHolds, PTL

\* When a calm user reads that the order failed, none was placed (handleSubmit).
THEOREM CalmFailure == MCSpec => []FailureMeansNoOrderWhenCalm
<1>1. (calm => CalmInv) => FailureMeansNoOrderWhenCalm
  BY DEF CalmInv, FailureMeansNoOrderWhenCalm, FailureMeansNoOrder, Stored
<1> QED
  BY <1>1, CalmInvHolds, PTL

=============================================================================
