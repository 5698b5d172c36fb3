------------------------------ MODULE Schedule ------------------------------
(***************************************************************************)
(* The weekly hours of the drivers (api/app/drivers_api.py, the schedule   *)
(* endpoint): a request brings the whole week, the handler looks for       *)
(* overlaps, deletes the rows of the driver and inserts the new ones in    *)
(* one transaction at READ COMMITTED.                                      *)
(*                                                                         *)
(* A DELETE sees the rows committed when it starts and waits for a         *)
(* transaction that is deleting one of them; rows that transaction inserts *)
(* it does not see.                                                        *)
(***************************************************************************)
EXTENDS Naturals, Sequences, FiniteSets

CONSTANTS
  Driver,
  DayOfWeek,   \* weekdays a request may name
  Hour,      \* times of day a request may name
  MaxRows,   \* bound on the windows of one request
  Request    \* requests being handled at once

\* ScheduleWindow: a form whose start is not before its end is refused.
Window == {w \in [weekday: DayOfWeek, from: Hour \cap Nat, to: Hour \cap Nat] : w.from < w.to}

Bodies == UNION {[1 .. n -> Window] : n \in 0 .. MaxRows}

VARIABLES
  rows,      \* driver -> the stored windows
  requests

vars == <<rows, requests>>

Stages == {"idle", "deleting", "deleted"}

\* sees: the rows the DELETE of the request saw, those not gone meanwhile.
\* meanwhile: what was stored for the driver since then, which no handler reads.
RequestState ==
  [at: Stages, driver: Driver, body: Bodies, sees: SUBSET Window, meanwhile: SUBSET Window]

TypeOK ==
  /\ rows \in [Driver -> SUBSET Window]
  /\ \A r \in Request :
       /\ requests[r] \in RequestState
       /\ requests[r].sees \subseteq rows[requests[r].driver]

Free == [at |-> "idle", driver |-> CHOOSE d \in Driver : TRUE, body |-> <<>>, sees |-> {},
         meanwhile |-> {}]

Init ==
  /\ rows = [d \in Driver |-> {}]
  /\ requests = [r \in Request |-> Free]

-----------------------------------------------------------------------------
(* The check for overlaps *)

\* Mistake: neighbours in the request, which need not be in order of time.
Follows_Unsorted(body, i, j) == j = i + 1 /\ body[i].weekday = body[j].weekday

\* Windows k and l are of one weekday and k is sorted before l: by start, ties in
\* the order of the request.
Before(body, k, l) ==
  /\ body[k].weekday = body[l].weekday
  /\ \/ body[k].from < body[l].from
     \/ body[k].from = body[l].from /\ k < l

\* Window j comes right after window i.
Follows(body, i, j) ==
  Before(body, i, j) /\ \A k \in DOMAIN body : ~(Before(body, i, k) /\ Before(body, k, j))

Accepted(body) ==
  \A i, j \in DOMAIN body : Follows(body, i, j) => body[j].from >= body[i].to

Week(body) == {body[i] : i \in DOMAIN body}

-----------------------------------------------------------------------------
(* The handler *)

\* Mistake: the rows of the weekdays named are replaced, not the whole week.
Delete_NamedDays(r, d, body) ==
  /\ requests[r] = Free
  /\ Accepted(body)
  /\ requests' = [requests EXCEPT ![r] =
                    [at |-> "deleting", driver |-> d, body |-> body, meanwhile |-> {},
                     sees |-> {w \in rows[d] : \E v \in Week(body) : v.weekday = w.weekday}]]
  /\ UNCHANGED rows

\* The request passes the check and its DELETE starts.
Delete(r, d, body) ==
  /\ requests[r] = Free
  /\ Accepted(body)
  /\ requests' = [requests EXCEPT ![r] =
                    [at |-> "deleting", driver |-> d, body |-> body, meanwhile |-> {},
                     sees |-> rows[d]]]
  /\ UNCHANGED rows

\* It has deleted what it saw once no other transaction holds one of those rows.
Deleted(r) ==
  /\ requests[r].at = "deleting"
  /\ \A q \in Request :
       /\ requests[q].at = "deleted" /\ requests[q].driver = requests[r].driver
       => requests[q].sees \cap requests[r].sees = {}
  /\ requests' = [requests EXCEPT ![r].at = "deleted"]
  /\ UNCHANGED rows

Kept(r) == rows[requests[r].driver] \ requests[r].sees

Stored(r) == Kept(r) \cup Week(requests[r].body)

\* UNIQUE (driver_id, weekday, start_time)
Collides(r) ==
  \E v \in Kept(r), w \in Week(requests[r].body) : v.weekday = w.weekday /\ v.from = w.from

\* Rows that are gone are no longer there for the DELETE of another request, and
\* those of the new week were not there when it started.
Overtake(q, gone, week, d) ==
  IF requests[q].at # "idle" /\ requests[q].driver = d
  THEN [requests[q] EXCEPT !.sees = @ \ gone, !.meanwhile = @ \cup week]
  ELSE requests[q]

Commit(r) ==
  LET d == requests[r].driver
  IN  /\ requests[r].at = "deleted"
      /\ ~Collides(r)
      /\ rows' = [rows EXCEPT ![d] = Stored(r)]
      /\ requests' = [q \in Request |->
                        IF q = r THEN Free
                        ELSE Overtake(q, requests[r].sees, Week(requests[r].body), d)]

\* The unique constraint or any other failure undoes the request.
Rollback(r) ==
  /\ requests[r].at # "idle"
  /\ requests' = [requests EXCEPT ![r] = Free]
  /\ UNCHANGED rows

Next ==
  \E r \in Request :
    \/ \E d \in Driver, body \in Bodies : Delete(r, d, body)
    \/ Deleted(r) \/ Commit(r) \/ Rollback(r)

Spec == Init /\ [][Next]_vars

-----------------------------------------------------------------------------
(* Properties *)

Overlap(v, w) == v.weekday = w.weekday /\ v.from < w.to /\ w.from < v.to

\* A driver's stored hours do not overlap.  The table does not exclude it: its
\* comment leaves it to the schedule endpoint, which sorts and scans one request.
NoOverlappingWindows ==
  \A d \in Driver : \A v, w \in rows[d] : Overlap(v, w) => v = w

\* Replacing the week removes what was there.  When a request has changed the hours,
\* every window is one it named or was stored while it was under way: requests that
\* overlap may leave the union of their weeks, but what was stored before is gone.
OldHoursGo ==
  \A r \in Request :
    LET q == requests[r]
    IN  /\ q.at = "deleted" /\ requests'[r].at = "idle"
        /\ rows'[q.driver] # rows[q.driver]
        => rows'[q.driver] \subseteq Week(q.body) \cup q.meanwhile

=============================================================================
