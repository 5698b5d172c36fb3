------------------------------ MODULE MCWizard ------------------------------
(***************************************************************************)
(* Wizard on small instances.  The run explores two users: one who touches *)
(* the wizard while it waits and whose answers get lost, and a calm one    *)
(* who waits for every answer and hears it.  The properties "when calm"    *)
(* are about the second.                                                   *)
(***************************************************************************)
EXTENDS Wizard, TLC

VARIABLE calm

MCVars == <<vars, calm>>

MCInit == Init /\ calm \in BOOLEAN

\* The user touches the wizard.
Touches == (calm => waiting = None /\ resets = 0) /\ UNCHANGED calm

MCNext ==
  \/ \E t \in Trip : Touches /\ ChooseTrip(t)
  \/ Touches /\ ChooseDate
  \/ \E s \in Slot : Touches /\ ChooseSlot(s)
  \/ \E d \in Driver \cup {AnyDriver} : Touches /\ ChooseDriver(d)
  \/ Touches /\ Continue
  \/ Touches /\ Back
  \/ \E k \in Key : Touches /\ Reopen(k)
  \/ \E r \in Request : Touches /\ Submit(r)
  \/ \E r \in Request : LookUp(r) /\ UNCHANGED calm
  \/ \E r \in Request : Insert(r) /\ UNCHANGED calm
  \/ \E r \in Request : HearCreated(r) /\ UNCHANGED calm
  \/ \E r \in Request : HearConflict(r) /\ UNCHANGED calm
  \/ \E r \in Request : HearRefusal(r) /\ UNCHANGED calm
  \/ \E r \in Request : ~calm /\ LoseAnswer(r) /\ UNCHANGED calm
  \/ \E r \in Request : Vanish(r) /\ UNCHANGED calm
  \/ ForgetSlot /\ UNCHANGED calm
  \/ \E d \in Driver, s \in Slot : OthersBook(d, s) /\ UNCHANGED calm

MCSpec == MCInit /\ [][MCNext]_MCVars

Interchangeable ==
  Permutations(Trip) \cup Permutations(Slot) \cup Permutations(Key) \cup Permutations(Request)

-----------------------------------------------------------------------------
(* What a calm user may expect *)

\* The success screen is about the order the user last confirmed
\* (OrderWizardScreen.tsx, handleSubmit).
SuccessShowsTheConfirmedWhenCalm == calm => SuccessShowsTheConfirmed

\* While a failure is on display and nothing is under way, nothing was ordered
\* (OrderWizardScreen.tsx, handleSubmit).
FailureMeansNoOrderWhenCalm == calm => FailureMeansNoOrder

=============================================================================
