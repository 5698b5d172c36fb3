------------------------------ MODULE MCStaff ------------------------------
(***************************************************************************)
(* The drivers' side of the server on small instances, each part by        *)
(* itself: what the slot picker offers (MCSlots), the accounts and the     *)
(* driver rows they own (MCAccounts), the weekly hours and the page they   *)
(* are set on (MCSchedule).  The parts have no variable in common: the     *)
(* states explored are those of the one, of the other and of the third.    *)
(***************************************************************************)
EXTENDS MCSlots, FiniteSets

CONSTANTS
  Newcomer, Founder, Nobody, Request,
  Me, Mine, DayOfWeek, Hour, MaxRows, Unknown

VARIABLES
  part,   \* the part the behaviour is about
  oneByOne,
  known, role, status, driverRows, decisions, lastRole, accountRequests,
  rows, hoursRequests, atPage, open, dayRows, touched, cached, stale, replaced,
  fetch, save, saved, error

accountVars == <<known, role, status, driverRows, decisions, lastRole, accountRequests>>

hoursVars ==
  <<rows, hoursRequests, atPage, open, dayRows, touched, cached, stale, replaced,
    fetch, save, saved, error>>

MCVars == <<vars, part, oneByOne, accountVars, hoursVars>>

Accounts == INSTANCE MCAccounts WITH requests <- accountRequests, inTurn <- oneByOne

Hours ==
  INSTANCE MCSchedule WITH
    Driver <- {Me}, requests <- hoursRequests, inTurn <- oneByOne

\* Weekdays and times of day are finitely many; no answer yet is no answer.
ASSUME HoursAssumption ==
  /\ MaxRows \in Nat /\ IsFiniteSet(DayOfWeek) /\ IsFiniteSet(Hour)
  /\ \A hours \in SUBSET Hours!Window : hours # Unknown

MCInit ==
  /\ Init /\ Accounts!MCInit
  /\ \/ part = "slots" /\ oneByOne = TRUE /\ Hours!Untouched
     \/ part = "accounts" /\ Hours!Untouched
     \/ part = "hours" /\ Hours!MCInit

MCNext ==
  /\ UNCHANGED <<part, oneByOne>>
  /\ \/ part = "slots" /\ Next /\ UNCHANGED <<accountVars, hoursVars>>
     \/ part = "accounts" /\ Accounts!ServerNext /\ UNCHANGED <<vars, hoursVars>>
     \/ part = "hours" /\ Hours!MCNext /\ UNCHANGED <<vars, accountVars>>

MCSpec == MCInit /\ [][MCNext]_MCVars

Interchangeable == Symmetry \cup Permutations(Request)

-----------------------------------------------------------------------------
(* Accounts *)

\* Every account with the role driver owns a driver row (admin_api.py, set_user_role).
DriverAccountsHaveRow == Accounts!DriverAccountsHaveRow

\* The status of an account is the outcome of a decision on record, and no decision is
\* made by a request that began after one (admin_api.py, approve and reject).
DecisionsStand == Accounts!DecisionsStand

\* Decisions are made once and changes of role leave their trail (admin_api.py).
TrailIsKeptInTurn == Accounts!TrailIsKeptInTurn

\* Changing roles never leaves the company without an administrator (admin_api.py).
SomeAdminRemainsInTurn == Accounts!SomeAdminRemainsInTurn

-----------------------------------------------------------------------------
(* Hours *)

\* Replacing the week leaves nothing of what was stored before the request began, however
\* requests overlap (drivers_api.py, set_my_schedule).
OldHoursAreGone == Hours!OldHoursAreGone

\* The sort and scan of one request keeps stored hours apart (drivers_api.py).
NoOverlappingWindowsInTurn == Hours!NoOverlappingWindowsInTurn

\* "The hours are saved" is true (DriverScheduleScreen.tsx).
SavedIsStoredWhenCalm == Hours!SavedIsStoredWhenCalm

\* A save changes the days the driver has changed (DriverScheduleScreen.tsx).
UntouchedDaysKeptWhenCalm == Hours!UntouchedDaysKeptWhenCalm

=============================================================================
