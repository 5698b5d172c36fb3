---------------------------- MODULE SchedulePage ----------------------------
(***************************************************************************)
(* The page on which a driver sets the weekly hours                        *)
(* (DriverScheduleScreen.tsx with useMySchedule and useSetMySchedule): one *)
(* row per weekday, filled from the hours the server answers and sent back *)
(* as a whole week (Schedule).  The hours are kept in the query cache,     *)
(* which outlives the page, and are asked for again after a save.          *)
(***************************************************************************)
EXTENDS Schedule, SequencesExt

CONSTANTS
  Me,                \* the driver
  Mine,              \* the request by which the page saves
  Morning, Evening,  \* the hours of a row the driver has not set
  Unknown            \* no answer yet

VARIABLES
  open,      \* the page is shown
  dayRows,   \* its rows
  touched,   \* history: the weekdays changed since the rows were filled
  cached,    \* the hours in the query cache
  stale,     \* they have to be asked for again
  replaced,  \* rows the cache has not seen are stored: every save gives new ids
  fetch,     \* the question after the hours: where it is, the answer, if it is a new one
  save,      \* the save: where it is, if the page that began it waits
  saved, error

page == <<open, dayRows, touched, saved, error>>
query == <<cached, stale, fetch>>
pageVars == <<vars, page, query, replaced, save>>

DayRow == [enabled: BOOLEAN, from: Hour, to: Hour]

NoFetch == [at |-> "idle", got |-> Unknown, new |-> FALSE]

NoSave == [at |-> "idle", waits |-> FALSE]

PageTypeOK ==
  /\ TypeOK
  /\ open \in BOOLEAN /\ saved \in BOOLEAN /\ error \in BOOLEAN
  /\ dayRows \in [DayOfWeek -> DayRow] /\ touched \subseteq DayOfWeek
  /\ cached \in SUBSET Window \cup {Unknown} /\ stale \in BOOLEAN /\ replaced \in BOOLEAN
  /\ fetch \in [at: {"idle", "asked", "answered"}, got: SUBSET Window \cup {Unknown},
                new: BOOLEAN]
  /\ save \in [at: {"idle", "sent", "stored", "failed"}, waits: BOOLEAN]

-----------------------------------------------------------------------------
(* Rows and windows *)

defaultRows == [d \in DayOfWeek |-> [enabled |-> FALSE, from |-> Morning, to |-> Evening]]

Latest(windows) == CHOOSE w \in windows : \A v \in windows : v.from <= w.from

\* A row shows the last window of its weekday: they are answered by weekday and start.
Filled(hours) ==
  [d \in DayOfWeek |->
     LET windows == {w \in hours : w.weekday = d}
     IN  IF windows = {} THEN defaultRows[d]
         ELSE [enabled |-> TRUE, from |-> Latest(windows).from, to |-> Latest(windows).to]]

\* Mistake: rows are numbered after the days off are left out.
Entered_Shifted ==
  {[weekday |-> Cardinality({c \in DayOfWeek : c < d /\ dayRows[c].enabled}),
    from |-> dayRows[d].from, to |-> dayRows[d].to] :
     d \in {d \in DayOfWeek : dayRows[d].enabled}}

\* What handleSave sends.
Entered ==
  {[weekday |-> d, from |-> dayRows[d].from, to |-> dayRows[d].to] :
     d \in {d \in DayOfWeek : dayRows[d].enabled}}

-----------------------------------------------------------------------------

Closed ==
  /\ open = FALSE /\ dayRows = defaultRows /\ touched = {} /\ saved = FALSE /\ error = FALSE
  /\ cached = Unknown /\ stale = FALSE /\ replaced = FALSE
  /\ fetch = NoFetch /\ save = NoSave

\* Any hours may be stored before the page is opened first.
PageInit ==
  /\ rows \in [Driver -> {hours \in SUBSET Window : \A v, w \in hours : Overlap(v, w) => v = w}]
  /\ requests = [r \in Request |-> Free]
  /\ Closed

\* The effect of new hours: whatever was entered is overwritten.
Fills(hours) == dayRows' = Filled(hours) /\ touched' = {}

Open ==
  /\ ~open /\ open' = TRUE
  /\ IF cached = Unknown THEN UNCHANGED <<dayRows, touched>> ELSE Fills(cached)
  /\ UNCHANGED <<vars, saved, error, query, replaced, save>>

\* Leaving forgets the rows; nobody waits for the save any longer.
Leave ==
  /\ open /\ open' = FALSE
  /\ dayRows' = defaultRows /\ touched' = {} /\ saved' = FALSE /\ error' = FALSE
  /\ save' = [save EXCEPT !.waits = FALSE]
  /\ UNCHANGED <<vars, query, replaced>>

-----------------------------------------------------------------------------
(* The hours asked for *)

\* On opening, after a save, when the window gets the focus.
Ask ==
  /\ open /\ fetch = NoFetch
  /\ fetch' = [NoFetch EXCEPT !.at = "asked"]
  /\ UNCHANGED <<vars, page, cached, stale, replaced, save>>

AnswerHours ==
  /\ fetch.at = "asked"
  /\ fetch' = [at |-> "answered", got |-> rows[Me], new |-> replaced]
  /\ replaced' = FALSE
  /\ UNCHANGED <<vars, page, cached, stale, save>>

ShowHours ==
  /\ fetch.at = "answered"
  /\ cached' = fetch.got /\ stale' = FALSE
  /\ fetch' = NoFetch
  /\ IF open /\ (fetch.new \/ cached = Unknown) THEN Fills(fetch.got)
                                                ELSE UNCHANGED <<dayRows, touched>>
  /\ UNCHANGED <<vars, open, saved, error, replaced, save>>

LoseHours ==
  /\ fetch # NoFetch
  /\ fetch' = NoFetch
  /\ replaced' = (replaced \/ fetch.new)
  /\ UNCHANGED <<vars, page, cached, stale, save>>

-----------------------------------------------------------------------------
(* What the driver does *)

\* The rows are there, unless the first answer is awaited.
RowsAreShown == open /\ (cached # Unknown \/ fetch = NoFetch)

updateRow(d, row) ==
  /\ RowsAreShown
  /\ dayRows' = [dayRows EXCEPT ![d] = row]
  /\ touched' = touched \cup {d}
  /\ saved' = FALSE
  /\ UNCHANGED <<vars, open, error, query, replaced, save>>

ToggleDay(d) == updateRow(d, [dayRows[d] EXCEPT !.enabled = ~@])

SetTime(d, time) ==
  /\ dayRows[d].enabled
  /\ \/ updateRow(d, [dayRows[d] EXCEPT !.from = time])
     \/ updateRow(d, [dayRows[d] EXCEPT !.to = time])

\* The button waits for the answer of a save, not for the hours.
MaySave == open /\ ~save.waits

\* Mistake: the answer is not awaited.
handleSave_NotAwaited ==
  /\ MaySave /\ save = NoSave
  /\ Entered \subseteq Window
  /\ Delete(Mine, Me, SetToSeq(Entered))
  /\ save' = [at |-> "sent", waits |-> TRUE]
  /\ error' = FALSE /\ saved' = TRUE
  /\ UNCHANGED <<open, dayRows, touched, query, replaced>>

handleSave ==
  /\ MaySave /\ save = NoSave
  /\ Entered \subseteq Window
  /\ Delete(Mine, Me, SetToSeq(Entered))
  /\ save' = [at |-> "sent", waits |-> TRUE]
  /\ error' = FALSE
  /\ UNCHANGED <<open, dayRows, touched, saved, query, replaced>>

\* "The start must be before the end."
RefuseToSave ==
  /\ MaySave /\ ~(Entered \subseteq Window)
  /\ error' = TRUE
  /\ UNCHANGED <<vars, open, dayRows, touched, saved, query, replaced, save>>

-----------------------------------------------------------------------------
(* The save at the server, and its answer *)

Reaches(r) ==
  /\ Deleted(r)
  /\ UNCHANGED <<page, query, replaced, save>>

Stores(r) ==
  /\ Commit(r)
  /\ replaced' = (replaced \/ requests[r].driver = Me)
  /\ save' = IF r = Mine THEN [save EXCEPT !.at = "stored"] ELSE save
  /\ UNCHANGED <<page, query>>

Fails(r) ==
  /\ Rollback(r)
  /\ save' = IF r = Mine THEN [save EXCEPT !.at = "failed"] ELSE save
  /\ UNCHANGED <<page, query, replaced>>

\* The hours in the cache are no longer good: an open page asks again, and drops the
\* question under way unless it is its first.
HearSaved ==
  /\ save.at = "stored"
  /\ save' = NoSave
  /\ saved' = (saved \/ save.waits)
  /\ stale' = TRUE
  /\ IF open /\ (fetch = NoFetch \/ cached # Unknown)
     THEN /\ fetch' = [NoFetch EXCEPT !.at = "asked"]
          /\ replaced' = (replaced \/ fetch.new)
     ELSE UNCHANGED <<fetch, replaced>>
  /\ UNCHANGED <<vars, open, dayRows, touched, error, cached>>

\* A refusal, or no answer to a save that may have been stored.
HearFailure ==
  /\ save.at \in {"stored", "failed"}
  /\ save' = NoSave
  /\ error' = (error \/ save.waits)
  /\ UNCHANGED <<vars, open, dayRows, touched, saved, query, replaced>>

-----------------------------------------------------------------------------

Touch ==
  \/ Leave
  \/ \E d \in DayOfWeek : ToggleDay(d)
  \/ \E d \in DayOfWeek, time \in Hour : SetTime(d, time)
  \/ handleSave \/ RefuseToSave

Answers ==
  \/ Ask \/ AnswerHours \/ ShowHours \/ LoseHours
  \/ Reaches(Mine) \/ Stores(Mine) \/ Fails(Mine)
  \/ HearSaved

\* Other clients of the driver.
Elsewhere ==
  \E r \in Request \ {Mine} :
    \/ \E body \in Bodies : Delete(r, Me, body) /\ UNCHANGED <<page, query, replaced, save>>
    \/ Reaches(r) \/ Stores(r) \/ Fails(r)

PageNext == Open \/ Touch \/ Answers \/ HearFailure \/ Elsewhere

PageSpec == PageInit /\ [][PageNext]_pageVars

-----------------------------------------------------------------------------
(* Properties *)

\* What the page shows is what it has been answered, or what the driver has entered
\* on top of it, and nothing is on its way.
Settled == cached # Unknown /\ ~stale /\ fetch = NoFetch /\ save = NoSave

\* "The hours are saved": the rows on the page are the hours stored.
SavedIsStored == saved /\ ~error => Entered = rows[Me]

On(hours, d) == {w \in hours : w.weekday = d}

\* A save changes the weekdays the driver has changed and no other, those apart
\* that had several windows: a row shows one.
KeepsUntouchedDays ==
  \A d \in DayOfWeek :
    On(rows'[Me], d) # On(rows[Me], d) => d \in touched \/ Cardinality(On(rows[Me], d)) > 1

=============================================================================
