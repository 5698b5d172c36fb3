---------------------------- MODULE MCAddresses ----------------------------
(***************************************************************************)
(* Addresses on small instances.  The run explores two servers: one whose  *)
(* requests overlap and come from any client, and one that serves the      *)
(* requests of the web app one after the other.  The property "in turn" is *)
(* about the second.                                                       *)
(***************************************************************************)
EXTENDS Addresses

CONSTANT AnyClient   \* others than the web app call the API

VARIABLE inTurn      \* one request at a time

MCVars == <<vars, inTurn>>

MCInit == Init /\ inTurn \in BOOLEAN

MayBegin == inTurn => Active = {}

ServerNext ==
  \/ \E r \in Request, t \in Text : MayBegin /\ TouchAddress(r, t)
  \/ \E r \in Request, from, to \in Text : MayBegin /\ CreateOrder(r, from, to)
  \/ \E r \in Request, i \in Row, flag \in BOOLEAN :
       AnyClient /\ ~inTurn /\ SetFavorite(r, i, flag)
  \/ \E r \in Request, i \in Row : MayBegin /\ DeleteAddress(r, i)
  \/ \E t \in Text, flag \in BOOLEAN :
       MayBegin /\ (AddedOnPage(flag) \/ (AnyClient /\ ~inTurn)) /\ CreateAddress(t, flag)
  \/ \E r \in Request : LookUp(r)
  \/ \E r \in Request : FindSeveral(r)
  \/ \E r \in Request : Flush(r)
  \/ \E r \in Request : FindGone(r)
  \/ \E r \in Request : BreakDeadlock(r)
  \/ \E r \in Request : Commit(r)
  \/ \E r \in Request : Rollback(r)

MCNext == ServerNext /\ UNCHANGED inTurn

MCSpec == MCInit /\ [][MCNext]_MCVars /\ Fairness

-----------------------------------------------------------------------------

\* Served one after the other, the requests of the web app leave one recent row
\* per text (_touch_address of orders_api.py, touch_address of addresses_api.py).
OneRecentRowPerTextInTurn == inTurn => OneRecentRowPerText

=============================================================================
