------------------------------ MODULE MCSlots ------------------------------
(***************************************************************************)
(* Slots on small instances: days of six slot units, a clock that starts   *)
(* on a Thursday, so that a horizon of two days reaches the weekend.       *)
(***************************************************************************)
EXTENDS Slots, TLC

Symmetry == Permutations(Order) \cup Permutations(Driver)

\* On Thursday, around the midnight to Friday, and on Friday.
MCInstant == {21, 24, 26}

\* Hours before and after midnight, and a form filled in backwards.
MCRows ==
  {[weekday |-> 3, from |-> 1, to |-> 6], [weekday |-> 4, from |-> 0, to |-> 5],
   [weekday |-> 4, from |-> 4, to |-> 0]}

\* An absence over midnight.
MCAbsence == {[from |-> 23, to |-> 25]}

=============================================================================
