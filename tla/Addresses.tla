----------------------------- MODULE Addresses -----------------------------
(***************************************************************************)
(* The address book of one user (api/app/addresses_api.py) and the part of *)
(* create_order that keeps it up (_touch_address of api/app/orders_api.py).*)
(*                                                                         *)
(* A request is one database transaction.  It sees what was committed      *)
(* before each of its statements (READ COMMITTED) and its own inserts, an  *)
(* UPDATE or DELETE locks the row until the transaction ends, and waits    *)
(* for another that has locked it.  No constraint of the table forbids two *)
(* rows with one text.                                                     *)
(***************************************************************************)
EXTENDS Integers, FiniteSets, Sequences

CONSTANTS
  Text,    \* address_text
  Row,     \* primary keys the table may hand out, a bound on its size
  Request, \* transactions under way at once
  None,
  Idle

ASSUME AddressesAssumption ==
  /\ IsFiniteSet(Row) /\ None \notin Row

VARIABLES
  table,    \* the addresses table: id -> [text, favorite]
  requests, \* the transactions under way
  placed    \* the order stored last, a pair <<from_address, to_address>>, or None

vars == <<table, requests, placed>>

-----------------------------------------------------------------------------

Address == [text: Text, favorite: BOOLEAN]

Kinds == {"touch", "order", "set_favorite", "delete"}

\* What a transaction has still to look up, has loaded and will write next,
\* has inserted and has locked; favorite is the flag set_favorite sets.
Transaction ==
  [kind: Kinds, texts: Seq(Text), todo: Seq(Text), loaded: Row \cup {None},
   new: SUBSET Text, locked: SUBSET Row, favorite: BOOLEAN]

TypeOK ==
  /\ DOMAIN table \subseteq Row
  /\ table \in [DOMAIN table -> Address]
  /\ requests \in [Request -> Transaction \cup {Idle}]
  /\ placed \in (Text \X Text) \cup {None}

Init ==
  /\ table = [i \in {} |-> None]
  /\ requests = [r \in Request |-> Idle]
  /\ placed = None

Active == {r \in Request : requests[r] # Idle}

\* Primary keys in use; one that a transaction still refers to is not handed out
\* again.
Taken == DOMAIN table \cup {requests[r].loaded : r \in Active}

\* The bound on the table, the rows about to be inserted included.
RoomLeft ==
  Cardinality(Taken \ {None})
    + Cardinality(UNION {{<<r, t>> : t \in requests[r].new} : r \in Active})
    < Cardinality(Row)

-----------------------------------------------------------------------------
(* Requests *)

Start(r, kind, texts, row, flag) ==
  /\ requests[r] = Idle
  /\ requests' = [requests EXCEPT ![r] =
       [kind |-> kind, texts |-> texts, todo |-> texts, loaded |-> row,
        new |-> {}, locked |-> {}, favorite |-> flag]]
  /\ UNCHANGED <<table, placed>>

\* The wizard records an address as soon as it is chosen.
TouchAddress(r, t) == Start(r, "touch", <<t>>, None, FALSE)

\* create_order, its order inserted, records where it starts and ends.
CreateOrder(r, from, to) == Start(r, "order", <<from, to>>, None, FALSE)

\* The ORM writes the flag only if the row it loaded has another.
SetFavorite(r, i, flag) ==
  /\ i \in DOMAIN table /\ table[i].favorite # flag
  /\ Start(r, "set_favorite", <<>>, i, flag)

DeleteAddress(r, i) ==
  /\ i \in DOMAIN table
  /\ Start(r, "delete", <<>>, i, FALSE)

\* The address page adds favourites only.
AddedOnPage(flag) == flag

\* Inserted as it is: an address is not looked for.
CreateAddress(t, flag) ==
  /\ RoomLeft /\ \E r \in Request : requests[r] = Idle
  /\ \E i \in Row \ Taken :
       table' = [j \in DOMAIN table \cup {i} |->
                   IF j = i THEN [text |-> t, favorite |-> flag] ELSE table[j]]
  /\ UNCHANGED <<requests, placed>>

-----------------------------------------------------------------------------
(* Steps of a transaction *)

RecentOf(t) == {i \in DOMAIN table : table[i].text = t /\ ~table[i].favorite}

LookingUp(r) == r \in Active /\ requests[r].todo # <<>> /\ requests[r].loaded = None

\* Mistake: the lookup asks for a favourite.
Matches_Favorite(r, t) == {i \in DOMAIN table : table[i].text = t /\ table[i].favorite}

\* The rows a lookup finds: those committed, and the transaction's own insert.
Matches(r, t) == RecentOf(t) \cup {None : x \in requests[r].new \cap {t}}

\* scalar_one_or_none finds one row, to be updated, or none, and adds one.
LookUp(r) ==
  /\ LookingUp(r)
  /\ LET t == Head(requests[r].todo)
         rest == [requests[r] EXCEPT !.todo = Tail(requests[r].todo)]
     IN  \/ \E i \in Row \cup {None} :
              /\ Matches(r, t) = {i}
              /\ requests' = [requests EXCEPT ![r] = [rest EXCEPT !.loaded = i]]
         \/ /\ Matches(r, t) = {} /\ RoomLeft
            /\ requests' = [requests EXCEPT ![r] = [rest EXCEPT !.new = @ \cup {t}]]
  /\ UNCHANGED <<table, placed>>

Release(r) == requests' = [requests EXCEPT ![r] = Idle] /\ UNCHANGED <<table, placed>>

\* It finds several, and raises.
FindSeveral(r) ==
  /\ LookingUp(r)
  /\ Cardinality(Matches(r, Head(requests[r].todo))) > 1
  /\ Release(r)

\* The row is locked by another transaction.
WaitsFor(r) == {q \in Active \ {r} : r \in Active /\ requests[r].loaded \in requests[q].locked}

\* Mistake: a statement that matches no row passes for a success.
Flush_RowGone(r) ==
  /\ r \in Active /\ requests[r].loaded # None /\ WaitsFor(r) = {}
  /\ requests' = [requests EXCEPT ![r].loaded = None,
                                  ![r].locked = @ \cup {requests[r].loaded}]
  /\ UNCHANGED <<table, placed>>

\* UPDATE or DELETE of the loaded row, sent before the next query or the commit.
Flush(r) ==
  /\ r \in Active /\ requests[r].loaded \in DOMAIN table /\ WaitsFor(r) = {}
  /\ requests' = [requests EXCEPT ![r].loaded = None,
                                  ![r].locked = @ \cup {requests[r].loaded}]
  /\ UNCHANGED <<table, placed>>

\* The row is gone: the ORM finds fewer rows matched than it expects, and raises.
FindGone(r) ==
  /\ r \in Active /\ requests[r].loaded \notin DOMAIN table \cup {None} /\ WaitsFor(r) = {}
  /\ Release(r)

\* Every request in S waits for another in S.
StuckTogether(S) == \A r \in S : WaitsFor(r) \cap S # {}

\* Mistake: nobody looks for transactions that wait for one another.
Deadlocked_Unnoticed(r) == FALSE

Deadlocked(r) == \E S \in SUBSET Active : r \in S /\ StuckTogether(S)

\* Postgres ends one of the transactions that wait for one another.
BreakDeadlock(r) == Deadlocked(r) /\ Release(r)

After(r, rows) ==
  CASE requests[r].kind = "delete" ->
         [i \in DOMAIN rows \ requests[r].locked |-> rows[i]]
    [] requests[r].kind = "set_favorite" ->
         [i \in DOMAIN rows |->
            IF i \in requests[r].locked
            THEN [rows[i] EXCEPT !.favorite = requests[r].favorite] ELSE rows[i]]
    [] OTHER -> rows

Commit(r) ==
  /\ r \in Active /\ requests[r].todo = <<>> /\ requests[r].loaded = None
  /\ \E id \in [requests[r].new -> Row \ Taken] :
       /\ \A t, u \in requests[r].new : id[t] = id[u] => t = u
       /\ table' = [i \in DOMAIN After(r, table) \cup {id[t] : t \in requests[r].new} |->
                      IF i \in DOMAIN table THEN After(r, table)[i]
                      ELSE [text |-> CHOOSE t \in requests[r].new : id[t] = i,
                            favorite |-> FALSE]]
  /\ placed' = IF requests[r].kind = "order" THEN requests[r].texts ELSE placed
  /\ requests' = [requests EXCEPT ![r] = Idle]

\* The connection is lost, or the process dies.
Rollback(r) == r \in Active /\ Release(r)

Begin(r) ==
  \/ \E t \in Text : TouchAddress(r, t)
  \/ \E from, to \in Text : CreateOrder(r, from, to)
  \/ \E i \in Row, flag \in BOOLEAN : SetFavorite(r, i, flag)
  \/ \E i \in Row : DeleteAddress(r, i)

Next ==
  \/ \E r \in Request :
       \/ Begin(r)
       \/ LookUp(r) \/ FindSeveral(r) \/ Flush(r) \/ FindGone(r)
       \/ BreakDeadlock(r) \/ Commit(r) \/ Rollback(r)
  \/ \E t \in Text, flag \in BOOLEAN : CreateAddress(t, flag)

\* The event loop comes back to every request, the lock of a row is granted in
\* the order of the requests that wait for it, and deadlocks are looked for after
\* deadlock_timeout.  A lookup the bound leaves no room for is given up.
Fairness ==
  \A r \in Request :
    /\ WF_vars(LookUp(r) \/ FindSeveral(r) \/ (LookingUp(r) /\ ~RoomLeft /\ Rollback(r)))
    /\ SF_vars(Flush(r) \/ FindGone(r))
    /\ WF_vars(BreakDeadlock(r))
    /\ WF_vars(Commit(r))

Spec == Init /\ [][Next]_vars /\ Fairness

-----------------------------------------------------------------------------
(* Properties *)

\* A text has one recent row.  With two, every later lookup of the text raises,
\* and no order from or to that address can be placed.
OneRecentRowPerText == \A t \in Text : Cardinality(RecentOf(t)) <= 1

Known(rows) == {rows[i].text : i \in DOMAIN rows}

\* An order is stored together with its two addresses or not at all, though
\* they may be deleted while it is being placed.
OrdersKeepTheirPlaces ==
  [][placed' # placed => {placed'[1], placed'[2]} \subseteq Known(table')]_vars

\* Every request comes to an end, those included that wait for one another
\* because two orders take the same two addresses in opposite orders.
RequestsEnd == \A r \in Request : r \in Active ~> r \notin Active

=============================================================================
