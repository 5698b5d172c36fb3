--------------------------- MODULE OrderLifecycle ---------------------------
(***************************************************************************)
(* The life of an order as docs/tz.md (4.2) and the counter-proposal flow  *)
(* of migration 0005 describe it, seen by its owner: the stage it is in,   *)
(* when it takes place, the other time the driver asks for, and the        *)
(* details the owner may edit.  Orders implements it while requests are    *)
(* served one after the other.                                             *)
(***************************************************************************)
CONSTANTS Order, Time, NoTime, Details

VARIABLE trip   \* order -> its trip, for the orders placed so far

OpenStages == {"offered", "negotiating", "agreed"}
Trip ==
  [stage: OpenStages \cup {"riding", "done", "called_off"},
   at: Time, ask: Time \cup {NoTime}, details: Details]

LifecycleTypeOK == DOMAIN trip \subseteq Order /\ trip \in [DOMAIN trip -> Trip]

LifecycleInit == trip = [o \in {} |-> NoTime]

Place(o, t, x) ==
  /\ o \notin DOMAIN trip
  /\ trip' = [p \in DOMAIN trip \cup {o} |->
       IF p = o THEN [stage |-> "offered", at |-> t, ask |-> NoTime, details |-> x]
                ELSE trip[p]]

Edit(o, x) ==
  /\ trip[o].stage \in {"offered", "agreed"}
  /\ trip' = [trip EXCEPT ![o].details = x]

Agree(o) ==
  /\ trip[o].stage = "offered"
  /\ trip' = [trip EXCEPT ![o].stage = "agreed"]

AskForAnotherTime(o, t) ==
  /\ trip[o].stage = "offered"
  /\ trip' = [trip EXCEPT ![o].stage = "negotiating", ![o].ask = t]

AgreeToTheOtherTime(o) ==
  /\ trip[o].stage = "negotiating"
  /\ trip' = [trip EXCEPT ![o].stage = "agreed", ![o].at = trip[o].ask, ![o].ask = NoTime]

Depart(o) ==
  /\ trip[o].stage = "agreed"
  /\ trip' = [trip EXCEPT ![o].stage = "riding"]

Finish(o) ==
  /\ trip[o].stage = "riding"
  /\ trip' = [trip EXCEPT ![o].stage = "done"]

CallOff(o) ==
  /\ trip[o].stage \in OpenStages \cup {"riding"}
  /\ trip' = [trip EXCEPT ![o].stage = "called_off", ![o].ask = NoTime]

LifecycleNext ==
  \E o \in Order :
    \/ \E t \in Time, x \in Details : Place(o, t, x)
    \/ /\ o \in DOMAIN trip
       /\ \/ Agree(o) \/ AgreeToTheOtherTime(o) \/ Depart(o) \/ Finish(o) \/ CallOff(o)
          \/ \E x \in Details : Edit(o, x)
          \/ \E t \in Time : AskForAnotherTime(o, t)

LifecycleSpec == LifecycleInit /\ [][LifecycleNext]_trip

=============================================================================
