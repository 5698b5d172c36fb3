----------------------------- MODULE MCSchedule -----------------------------
(***************************************************************************)
(* Schedule for TLC.  The run explores a server whose requests overlap and *)
(* one that serves them one after the other; the properties "in turn" are  *)
(* about the second.                                                       *)
(*                                                                         *)
(* It explores besides the page of a driver (SchedulePage) who alone sets  *)
(* the hours, touches the page when nothing is on its way, and hears every *)
(* answer to a save.                                                       *)
(***************************************************************************)
EXTENDS Schedule

CONSTANTS Mine, Unknown

VARIABLES
  atPage,   \* the behaviour is one of the page
  inTurn,   \* requests are served one after the other
  open, dayRows, touched, cached, stale, replaced, fetch, save, saved, error

Page ==
  INSTANCE SchedulePage WITH
    Request <- {Mine}, Me <- CHOOSE d \in Driver : TRUE,
    Morning <- CHOOSE h \in Hour : \A g \in Hour : h <= g,
    Evening <- CHOOSE h \in Hour : \A g \in Hour : h >= g

screen == <<open, dayRows, touched, cached, stale, replaced, fetch, save, saved, error>>
MCVars == <<vars, screen, atPage, inTurn>>

\* Nothing happens to the hours.
Untouched == atPage = FALSE /\ Init /\ Page!Closed

MCInit ==
  \/ atPage = TRUE /\ inTurn = TRUE /\ Page!PageInit
  \/ atPage = FALSE /\ inTurn \in BOOLEAN /\ Init /\ Page!Closed

\* Windows of one request, where requests overlap.
OverlappingRows == 2

\* The windows of one day, by time.  Those of different days never meet.
OfOneDay(body) ==
  \A i, j \in DOMAIN body :
    i < j => body[i].weekday = body[j].weekday /\ body[i].from < body[j].from

\* A request with this body may begin.  Any order is for the server that serves one
\* after the other: only the check looks at it.
MayBegin(body) ==
  IF inTurn THEN \A r \in Request : requests[r] = Free
            ELSE Len(body) <= OverlappingRows /\ OfOneDay(body)

ServerNext ==
  \/ \E r \in {q \in Request : requests[q] = Free}, d \in Driver, body \in Bodies :
       MayBegin(body) /\ Delete(r, d, body)
  \/ \E r \in Request : Deleted(r)
  \/ \E r \in Request : Commit(r)
  \/ \E r \in Request : Rollback(r)

CalmNext ==
  \/ Page!Open /\ fetch = Page!NoFetch /\ save = Page!NoSave
  \/ Page!Settled /\ Page!Touch
  \/ Page!Answers
  \/ Page!HearFailure /\ save.at = "failed"

MCNext ==
  \/ ~atPage /\ ServerNext /\ UNCHANGED <<screen, atPage, inTurn>>
  \/ atPage /\ CalmNext /\ UNCHANGED <<atPage, inTurn>>

MCSpec == MCInit /\ [][MCNext]_MCVars

\* Replacing the week leaves nothing of what was stored before the request began,
\* however requests overlap (drivers_api.py, set_my_schedule).
OldHoursAreGone == [][~atPage => OldHoursGo]_MCVars

-----------------------------------------------------------------------------
(* What the handler achieves by itself *)

\* A driver's stored hours do not overlap: the endpoint sorts and scans the windows
\* of a request (shared/db/models.py leaves it to the endpoint).
NoOverlappingWindowsInTurn == inTurn => NoOverlappingWindows

\* When the page says that the hours are saved, they are those on the page
\* (DriverScheduleScreen.tsx, updateRow and handleSave).
SavedIsStoredWhenCalm == atPage => Page!SavedIsStored

\* A save changes no hours but those of the days the driver has changed
\* (DriverScheduleScreen.tsx, handleSave).
UntouchedDaysKeptWhenCalm == [][atPage => Page!KeepsUntouchedDays]_MCVars

=============================================================================
