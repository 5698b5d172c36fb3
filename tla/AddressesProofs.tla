--------------------------- MODULE AddressesProofs ---------------------------
(***************************************************************************)
(* For any number of texts, rows and requests at once: an order is stored  *)
(* with its two addresses, and where the requests of the web app are       *)
(* served one after the other a text has at most one recent row.           *)
(***************************************************************************)
EXTENDS MCAddresses, FiniteSetTheorems, TLAPS

\* The texts a transaction has still to look up, and those it knows a row of: one it
\* inserts, one it has locked, one it has loaded.
Unserved(q) == {q.todo[k] : k \in DOMAIN q.todo}

Served(q) == q.new \cup {table[i].text : i \in (q.locked \cup {q.loaded}) \cap DOMAIN table}

\* A locked row is there, and nobody else's.
LocksHold ==
  \A r \in Active :
    /\ requests[r].locked \subseteq DOMAIN table
    /\ \A q \in Active \ {r} : requests[q].locked \cap requests[r].locked = {}

\* Where the row that is loaded has not gone, both addresses of the order are accounted for.
KeepsPlaces(q) ==
  q.kind = "order" =>
    /\ q.texts \in Text \X Text
    /\ q.loaded \in DOMAIN table \cup {None} =>
         {q.texts[1], q.texts[2]} \subseteq Unserved(q) \cup Served(q)

PlacesAreKnown == \A r \in Active : KeepsPlaces(requests[r])

PlacesInv == TypeOK /\ LocksHold /\ PlacesAreKnown

LEMMA ActiveType == TypeOK => \A r \in Active : requests[r] \in Transaction
BY DEF TypeOK, Active

\* One transaction moves on, and the table stays as it is.
LEMMA OneMoves ==
  ASSUME PlacesInv, NEW r \in Request, NEW s \in Transaction,
         requests' = [requests EXCEPT ![r] = s], UNCHANGED <<table, placed>>,
         s.locked \subseteq DOMAIN table,
         \A q \in Active \ {r} : requests[q].locked \cap s.locked = {},
         KeepsPlaces(s)
  PROVE  PlacesInv'
<1>1. TypeOK'
  BY DEF PlacesInv, TypeOK
<1>2. Active' \subseteq Active \cup {r} /\ requests'[r] = s
      /\ \A q \in Request \ {r} : requests'[q] = requests[q]
  BY DEF PlacesInv, TypeOK, Active
<1>3. LocksHold'
  BY <1>2 DEF PlacesInv, LocksHold, Active
<1>4. PlacesAreKnown'
  BY <1>2 DEF PlacesInv, PlacesAreKnown, KeepsPlaces, Unserved, Served, Active
<1>. QED  BY <1>1, <1>3, <1>4 DEF PlacesInv

LEMMA ReleaseKeeps ==
  ASSUME PlacesInv, NEW r \in Request, Release(r)
  PROVE  PlacesInv'
<1>1. TypeOK'
  BY DEF PlacesInv, TypeOK, Release
<1>2. Active' \subseteq Active \ {r} /\ \A q \in Active' : requests'[q] = requests[q]
      /\ UNCHANGED table
  BY DEF PlacesInv, TypeOK, Active, Release
<1>. QED
  BY <1>1, <1>2
  DEF PlacesInv, LocksHold, PlacesAreKnown, KeepsPlaces, Unserved, Served

LEMMA StartKeeps ==
  ASSUME PlacesInv, NEW r \in Request, NEW kind \in Kinds, NEW texts \in Seq(Text),
         NEW row \in Row \cup {None}, NEW flag \in BOOLEAN, Start(r, kind, texts, row, flag),
         kind = "order" => \E from, to \in Text : texts = <<from, to>>
  PROVE  PlacesInv'
<1>. DEFINE s == [kind |-> kind, texts |-> texts, todo |-> texts, loaded |-> row,
                  new |-> {}, locked |-> {}, favorite |-> flag]
<1>1. s \in Transaction /\ s.locked = {}
  BY DEF Transaction
<1>2. KeepsPlaces(s)
  BY DEF KeepsPlaces, Unserved
<1>3. requests' = [requests EXCEPT ![r] = s] /\ UNCHANGED <<table, placed>>
  BY DEF Start
<1>. HIDE DEF s
<1>. QED  BY <1>1, <1>2, <1>3, OneMoves

LEMMA BeginKeeps ==
  ASSUME PlacesInv, NEW r \in Request, Begin(r)
  PROVE  PlacesInv'
<1>. <<>> \in Seq(Text) /\ None \in Row \cup {None} /\ FALSE \in BOOLEAN
  OBVIOUS
<1>1. ASSUME NEW t \in Text, TouchAddress(r, t) PROVE PlacesInv'
  <2>1. <<t>> \in Seq(Text) /\ "touch" \in Kinds /\ "touch" # "order"
    BY DEF Kinds
  <2>. QED  BY <1>1, <2>1, StartKeeps DEF TouchAddress
<1>2. ASSUME NEW from \in Text, NEW to \in Text, CreateOrder(r, from, to) PROVE PlacesInv'
  <2>1. <<from, to>> \in Seq(Text) /\ "order" \in Kinds
    BY DEF Kinds
  <2>. QED  BY <1>2, <2>1, StartKeeps DEF CreateOrder
<1>3. ASSUME NEW i \in Row, NEW flag \in BOOLEAN, SetFavorite(r, i, flag) PROVE PlacesInv'
  <2>1. "set_favorite" \in Kinds /\ "set_favorite" # "order"
    BY DEF Kinds
  <2>. QED  BY <1>3, <2>1, StartKeeps DEF SetFavorite
<1>4. ASSUME NEW i \in Row, DeleteAddress(r, i) PROVE PlacesInv'
  <2>1. "delete" \in Kinds /\ "delete" # "order"
    BY DEF Kinds
  <2>. QED  BY <1>4, <2>1, StartKeeps DEF DeleteAddress
<1>. QED  BY <1>1, <1>2, <1>3, <1>4 DEF Begin

LEMMA HeadAndTail ==
  ASSUME NEW S, NEW seq \in Seq(S), seq # <<>>
  PROVE  /\ Head(seq) \in S /\ Tail(seq) \in Seq(S)
         /\ \A k \in DOMAIN seq :
              seq[k] = Head(seq) \/ \E l \in DOMAIN Tail(seq) : Tail(seq)[l] = seq[k]
<1>1. ASSUME NEW k \in DOMAIN seq, k # 1
      PROVE  k - 1 \in DOMAIN Tail(seq) /\ Tail(seq)[k - 1] = seq[k]
  BY <1>1
<1>. QED  BY <1>1

\* What a lookup finds has the text it looks for.
LEMMA MatchesType ==
  ASSUME TypeOK, NEW r \in Request, NEW t, NEW i, Matches(r, t) = {i}
  PROVE  \/ i \in DOMAIN table /\ i \in Row /\ table[i].text = t
         \/ i = None /\ t \in requests[r].new
BY DEF TypeOK, Matches, RecentOf

LEMMA LookUpKeeps ==
  ASSUME PlacesInv, NEW r \in Request, LookUp(r)
  PROVE  PlacesInv'
<1>. DEFINE q == requests[r]
            t == Head(q.todo)
            found(i) == [[q EXCEPT !.todo = Tail(q.todo)] EXCEPT !.loaded = i]
            added == [[q EXCEPT !.todo = Tail(q.todo)] EXCEPT !.new = @ \cup {t}]
<1>1. /\ q \in Transaction /\ q.todo \in Seq(Text) /\ q.todo # <<>> /\ q.loaded = None
      /\ r \in Active /\ UNCHANGED <<table, placed>>
  BY ActiveType DEF LookUp, LookingUp, PlacesInv, Transaction
<1>2. /\ t \in Text /\ Tail(q.todo) \in Seq(Text)
      /\ \A k \in DOMAIN q.todo :
           q.todo[k] = t \/ \E l \in DOMAIN Tail(q.todo) : Tail(q.todo)[l] = q.todo[k]
  BY <1>1, HeadAndTail
<1>3. /\ q.locked \subseteq DOMAIN table
      /\ \A p \in Active \ {r} : requests[p].locked \cap q.locked = {}
      /\ KeepsPlaces(q)
  BY <1>1 DEF PlacesInv, LocksHold, PlacesAreKnown
<1>4. ASSUME NEW i \in Row \cup {None}, Matches(r, t) = {i},
             requests' = [requests EXCEPT ![r] = found(i)]
      PROVE  PlacesInv'
  <2>1. /\ found(i) \in Transaction /\ found(i).kind = q.kind /\ found(i).texts = q.texts
        /\ found(i).todo = Tail(q.todo) /\ found(i).loaded = i /\ found(i).new = q.new
        /\ found(i).locked = q.locked
    BY <1>1, <1>2 DEF Transaction
  <2>. DEFINE s == found(i)
  <2>2. s \in Transaction /\ s.kind = q.kind /\ s.texts = q.texts /\ s.todo = Tail(q.todo)
        /\ s.loaded = i /\ s.new = q.new /\ s.locked = q.locked
        /\ requests' = [requests EXCEPT ![r] = s]
    BY <1>4, <2>1
  <2>. HIDE DEF s
  <2>3. (i \in DOMAIN table /\ table[i].text = t) \/ (i = None /\ t \in q.new)
    BY <1>4, MatchesType DEF PlacesInv
  <2>4. Unserved(q) \subseteq Unserved(s) \cup {t} /\ t \in Served(s)
        /\ Served(q) \subseteq Served(s) \cup {table[j].text : j \in {None} \cap DOMAIN table}
    BY <1>1, <1>2, <2>2, <2>3 DEF Unserved, Served
  <2>5. None \notin DOMAIN table
    BY AddressesAssumption DEF PlacesInv, TypeOK
  <2>6. KeepsPlaces(s)
    BY <1>1, <1>3, <2>2, <2>4, <2>5 DEF KeepsPlaces
  <2>. QED  BY <1>1, <1>3, <2>2, <2>6, OneMoves
<1>5. ASSUME requests' = [requests EXCEPT ![r] = added]
      PROVE  PlacesInv'
  <2>1. /\ added \in Transaction /\ added.kind = q.kind /\ added.texts = q.texts
        /\ added.todo = Tail(q.todo) /\ added.loaded = None /\ added.new = q.new \cup {t}
        /\ added.locked = q.locked
    BY <1>1, <1>2 DEF Transaction
  <2>. DEFINE s == added
  <2>2. s \in Transaction /\ s.kind = q.kind /\ s.texts = q.texts /\ s.todo = Tail(q.todo)
        /\ s.loaded = None /\ s.new = q.new \cup {t} /\ s.locked = q.locked
        /\ requests' = [requests EXCEPT ![r] = s]
    BY <1>5, <2>1
  <2>. HIDE DEF s
  <2>3. Unserved(q) \subseteq Unserved(s) \cup {t} /\ Served(q) \cup {t} \subseteq Served(s)
    BY <1>1, <1>2, <2>2 DEF Unserved, Served
  <2>4. KeepsPlaces(s)
    BY <1>1, <1>3, <2>2, <2>3 DEF KeepsPlaces
  <2>. QED  BY <1>1, <1>3, <2>2, <2>4, OneMoves
<1>. QED  BY <1>4, <1>5 DEF LookUp

LEMMA FlushKeeps ==
  ASSUME PlacesInv, NEW r \in Request, Flush(r)
  PROVE  PlacesInv'
<1>. DEFINE q == requests[r]
            s == [q EXCEPT !.loaded = None, !.locked = @ \cup {q.loaded}]
<1>1. /\ q \in Transaction /\ r \in Active /\ UNCHANGED <<table, placed>>
      /\ q.loaded \in DOMAIN table /\ q.loaded \in Row
      /\ \A p \in Active \ {r} : q.loaded \notin requests[p].locked
      /\ requests' = [requests EXCEPT ![r] = s]
  BY ActiveType DEF Flush, WaitsFor, PlacesInv, TypeOK
<1>2. /\ s \in Transaction /\ s.kind = q.kind /\ s.texts = q.texts /\ s.todo = q.todo
      /\ s.loaded = None /\ s.new = q.new /\ s.locked = q.locked \cup {q.loaded}
  BY <1>1 DEF Transaction
<1>. HIDE DEF s
<1>3. /\ q.locked \subseteq DOMAIN table
      /\ \A p \in Active \ {r} : requests[p].locked \cap q.locked = {}
      /\ KeepsPlaces(q)
  BY <1>1 DEF PlacesInv, LocksHold, PlacesAreKnown
<1>4. Unserved(q) = Unserved(s) /\ Served(q) \subseteq Served(s)
  BY <1>2 DEF Unserved, Served
<1>5. KeepsPlaces(s)
  BY <1>1, <1>2, <1>3, <1>4 DEF KeepsPlaces
<1>6. /\ s.locked \subseteq DOMAIN table
      /\ \A p \in Active \ {r} : requests[p].locked \cap s.locked = {}
  BY <1>1, <1>2, <1>3
<1>. QED  BY <1>1, <1>2, <1>5, <1>6, OneMoves

\* A new row, with an id nobody uses or refers to.
LEMMA CreateKeeps ==
  ASSUME PlacesInv, NEW t \in Text, NEW flag \in BOOLEAN, CreateAddress(t, flag)
  PROVE  PlacesInv'
<1>1. PICK i \in Row \ Taken :
        table' = [j \in DOMAIN table \cup {i} |->
                    IF j = i THEN [text |-> t, favorite |-> flag] ELSE table[j]]
  BY DEF CreateAddress
<1>2. UNCHANGED <<requests, placed>> /\ i \notin DOMAIN table
      /\ \A r \in Active : requests[r].loaded # i
  BY <1>1 DEF CreateAddress, Taken
<1>3. [text |-> t, favorite |-> flag] \in Address
  BY DEF Address
<1>4. DOMAIN table' = DOMAIN table \cup {i} /\ \A j \in DOMAIN table : table'[j] = table[j]
      /\ table'[i] = [text |-> t, favorite |-> flag]
  BY <1>1, <1>2
<1>5. TypeOK'
  BY <1>1, <1>2, <1>3, <1>4 DEF PlacesInv, TypeOK
<1>6. LocksHold'
  BY <1>2, <1>4 DEF PlacesInv, LocksHold, Active
<1>7. ASSUME NEW r \in Active PROVE KeepsPlaces(requests[r])'
  <2>1. requests[r].loaded \in DOMAIN table' \cup {None} =>
          requests[r].loaded \in DOMAIN table \cup {None}
    BY <1>2, <1>4
  <2>2. Unserved(requests[r])' = Unserved(requests[r])
        /\ Served(requests[r]) \subseteq Served(requests[r])'
    BY <1>2, <1>4 DEF Unserved, Served
  <2>. QED  BY <1>2, <2>1, <2>2 DEF PlacesInv, PlacesAreKnown, KeepsPlaces
<1>. QED  BY <1>2, <1>5, <1>6, <1>7 DEF PlacesInv, PlacesAreKnown, Active

\* What a commit makes of the table: rows that were there keep their texts, those deleted
\* were locked by it, and each text it inserts has one row more, under an id nobody
\* refers to.
CommitsRows(r) ==
  /\ \A i \in DOMAIN table \ DOMAIN table' :
       requests[r].kind = "delete" /\ i \in requests[r].locked
  /\ \A i \in DOMAIN table \cap DOMAIN table' :
       /\ table'[i].text = table[i].text
       /\ requests[r].kind # "set_favorite" => table'[i].favorite = table[i].favorite
  /\ \A i \in DOMAIN table' \ DOMAIN table :
       /\ i \notin Taken /\ table'[i].text \in requests[r].new
       /\ \A j \in DOMAIN table' \ DOMAIN table : table'[j].text = table'[i].text => j = i
  /\ \A t \in requests[r].new : \E i \in DOMAIN table' \ DOMAIN table : table'[i].text = t

LEMMA AfterType ==
  ASSUME TypeOK, NEW r \in Active
  PROVE  /\ DOMAIN After(r, table) \subseteq DOMAIN table
         /\ \A i \in DOMAIN After(r, table) :
              /\ After(r, table)[i] \in Address
              /\ After(r, table)[i].text = table[i].text
              /\ requests[r].kind # "set_favorite" =>
                   After(r, table)[i].favorite = table[i].favorite
         /\ \A i \in DOMAIN table \ DOMAIN After(r, table) :
              requests[r].kind = "delete" /\ i \in requests[r].locked
<1>1. requests[r] \in Transaction /\ \A i \in DOMAIN table : table[i] \in Address
  BY ActiveType DEF TypeOK
<1>2. \A i \in DOMAIN table : /\ [table[i] EXCEPT !.favorite = requests[r].favorite] \in Address
                              /\ [table[i] EXCEPT !.favorite = requests[r].favorite].text
                                   = table[i].text
  BY <1>1 DEF Address, Transaction
<1>3. CASE requests[r].kind = "delete"
  BY <1>1, <1>3 DEF After
<1>4. CASE requests[r].kind = "set_favorite"
  BY <1>1, <1>2, <1>4 DEF After
<1>5. CASE requests[r].kind \notin {"delete", "set_favorite"}
  BY <1>1, <1>5 DEF After
<1>. QED  BY <1>3, <1>4, <1>5

LEMMA CommitEffect ==
  ASSUME TypeOK, NEW r \in Request, Commit(r)
  PROVE  /\ CommitsRows(r)
         /\ DOMAIN table' \subseteq Row /\ table' \in [DOMAIN table' -> Address]
<1>. DEFINE new == requests[r].new
            rows == After(r, table)
<1>1. r \in Active /\ requests[r] \in Transaction /\ new \subseteq Text
  BY ActiveType DEF Commit, Transaction
<1>2. PICK id \in [new -> Row \ Taken] :
        /\ \A t, u \in new : id[t] = id[u] => t = u
        /\ table' = [i \in DOMAIN rows \cup {id[t] : t \in new} |->
                       IF i \in DOMAIN table THEN rows[i]
                       ELSE [text |-> CHOOSE t \in new : id[t] = i, favorite |-> FALSE]]
  BY DEF Commit
<1>3. \A t \in new : /\ id[t] \in Row /\ id[t] \notin Taken /\ id[t] \notin DOMAIN table
                     /\ (CHOOSE u \in new : id[u] = id[t]) = t
  BY <1>2 DEF Taken
<1>4. /\ DOMAIN rows \subseteq DOMAIN table
      /\ \A i \in DOMAIN rows :
           /\ rows[i] \in Address /\ rows[i].text = table[i].text
           /\ requests[r].kind # "set_favorite" => rows[i].favorite = table[i].favorite
      /\ \A i \in DOMAIN table \ DOMAIN rows :
           requests[r].kind = "delete" /\ i \in requests[r].locked
  BY <1>1, AfterType
<1>. HIDE DEF new, rows
<1>5. DOMAIN table' = DOMAIN rows \cup {id[t] : t \in new}
  BY <1>2
<1>6. \A i \in DOMAIN rows : table'[i] = rows[i]
  BY <1>2, <1>4
<1>7. \A t \in new : table'[id[t]] = [text |-> t, favorite |-> FALSE]
  BY <1>2, <1>3
<1>8. /\ DOMAIN table' \subseteq Row
      /\ \A i \in DOMAIN table' : i \in DOMAIN rows \/ \E t \in new : i = id[t]
  BY <1>3, <1>4, <1>5 DEF TypeOK
<1>9. CommitsRows(r)
  <2>1. DOMAIN table \ DOMAIN table' \subseteq DOMAIN table \ DOMAIN rows
    BY <1>5
  <2>2. \A i \in DOMAIN table \cap DOMAIN table' :
          /\ table'[i].text = table[i].text
          /\ requests[r].kind # "set_favorite" => table'[i].favorite = table[i].favorite
    BY <1>3, <1>4, <1>6, <1>8
  <2>3. \A i \in DOMAIN table' \ DOMAIN table : \E t \in new : i = id[t]
    BY <1>4, <1>8
  <2>4. ASSUME NEW t \in new
        PROVE  id[t] \in DOMAIN table' \ DOMAIN table /\ table'[id[t]].text = t
    <3>1. id[t] \in DOMAIN table' /\ id[t] \notin DOMAIN table
      BY <1>3, <1>5
    <3>2. table'[id[t]] = [text |-> t, favorite |-> FALSE]
      BY <1>7
    <3>3. [text |-> t, favorite |-> FALSE].text = t
      OBVIOUS
    <3>. QED  BY <3>1, <3>2, <3>3
  <2>5. \A t \in requests[r].new : \E i \in DOMAIN table' \ DOMAIN table : table'[i].text = t
    BY <2>4 DEF new
  <2>6. ASSUME NEW i \in DOMAIN table' \ DOMAIN table
        PROVE  /\ i \notin Taken /\ table'[i].text \in requests[r].new
               /\ \A j \in DOMAIN table' \ DOMAIN table :
                    table'[j].text = table'[i].text => j = i
    <3>1. PICK t \in new : i = id[t]
      BY <2>3
    <3>2. i \notin Taken /\ table'[i].text = t
      BY <1>3, <2>4, <3>1
    <3>3. \A j \in DOMAIN table' \ DOMAIN table : table'[j].text = t => j = i
      BY <2>3, <2>4, <3>1
    <3>. QED  BY <3>2, <3>3 DEF new
  <2>. QED  BY <1>4, <2>1, <2>2, <2>5, <2>6 DEF CommitsRows
<1>10. \A t \in new : [text |-> t, favorite |-> FALSE] \in Address
  BY <1>1 DEF Address, new
<1>11. \A i \in DOMAIN table' : table'[i] \in Address
  <2>1. ASSUME NEW i \in DOMAIN rows PROVE table'[i] \in Address
    BY <1>4, <1>6
  <2>2. ASSUME NEW t \in new PROVE table'[id[t]] \in Address
    BY <1>7, <1>10
  <2>. QED  BY <1>8, <2>1, <2>2
<1>12. table' = [i \in DOMAIN table' |-> table'[i]]
  BY <1>2
<1>. QED  BY <1>8, <1>9, <1>11, <1>12

LEMMA CommitKeeps ==
  ASSUME PlacesInv, NEW r \in Request, Commit(r)
  PROVE  PlacesInv'
<1>1. /\ CommitsRows(r)
      /\ DOMAIN table' \subseteq Row /\ table' \in [DOMAIN table' -> Address]
  BY CommitEffect DEF PlacesInv
<1>2. /\ r \in Active /\ Active' = Active \ {r}
      /\ \A q \in Request \ {r} : requests'[q] = requests[q]
      /\ requests' \in [Request -> Transaction \cup {Idle}]
  BY DEF Commit, PlacesInv, TypeOK, Active
<1>3. placed' \in (Text \X Text) \cup {None}
  BY <1>2 DEF Commit, PlacesInv, TypeOK, PlacesAreKnown, KeepsPlaces
<1>4. TypeOK'
  BY <1>1, <1>2, <1>3 DEF TypeOK
<1>5. \A q \in Active \ {r} : requests[q].locked \subseteq DOMAIN table'
  BY <1>1, <1>2 DEF CommitsRows, PlacesInv, LocksHold
<1>6. LocksHold'
  BY <1>2, <1>5 DEF PlacesInv, LocksHold, Active
<1>7. ASSUME NEW q \in Active \ {r} PROVE KeepsPlaces(requests[q])'
  <2>1. requests[q].loaded \in DOMAIN table' \cup {None} =>
          requests[q].loaded \in DOMAIN table \cup {None}
    BY <1>1 DEF CommitsRows, Taken
  <2>2. ASSUME requests[q].loaded \in DOMAIN table' \cup {None}
        PROVE  Served(requests[q]) \subseteq Served(requests[q])'
    <3>1. ASSUME NEW i \in (requests[q].locked \cup {requests[q].loaded}) \cap DOMAIN table
          PROVE  i \in DOMAIN table' \/ i = None
      BY <1>5, <2>2
    <3>2. None \notin DOMAIN table
      BY AddressesAssumption DEF PlacesInv, TypeOK
    <3>3. \A i \in (requests[q].locked \cup {requests[q].loaded}) \cap DOMAIN table :
            i \in DOMAIN table' /\ table'[i].text = table[i].text
      BY <1>1, <3>1, <3>2 DEF CommitsRows
    <3>4. requests'[q] = requests[q]
      BY <1>2 DEF Active
    <3>. QED  BY <3>3, <3>4 DEF Served
  <2>3. Unserved(requests[q])' = Unserved(requests[q]) /\ requests'[q] = requests[q]
    BY <1>2 DEF Unserved, Active
  <2>4. KeepsPlaces(requests[q])
    BY DEF PlacesInv, PlacesAreKnown
  <2>. QED  BY <2>1, <2>2, <2>3, <2>4 DEF KeepsPlaces
<1>. QED  BY <1>2, <1>4, <1>6, <1>7 DEF PlacesInv, PlacesAreKnown

LEMMA StepKeeps == PlacesInv /\ [Next]_vars => PlacesInv'
<1>. SUFFICES ASSUME PlacesInv, [Next]_vars PROVE PlacesInv'
  OBVIOUS
<1>1. ASSUME NEW r \in Request,
             Begin(r) \/ LookUp(r) \/ FindSeveral(r) \/ Flush(r) \/ FindGone(r)
               \/ BreakDeadlock(r) \/ Commit(r) \/ Rollback(r)
      PROVE  PlacesInv'
  BY <1>1, BeginKeeps, LookUpKeeps, FlushKeeps, CommitKeeps, ReleaseKeeps
  DEF FindSeveral, FindGone, BreakDeadlock, Rollback
<1>2. ASSUME NEW t \in Text, NEW flag \in BOOLEAN, CreateAddress(t, flag) PROVE PlacesInv'
  BY <1>2, CreateKeeps
<1>3. CASE UNCHANGED vars
  BY <1>3
  DEF vars, PlacesInv, TypeOK, LocksHold, PlacesAreKnown, KeepsPlaces, Unserved, Served,
      Active
<1>. QED  BY <1>1, <1>2, <1>3 DEF Next

LEMMA PlacesStart == Init => PlacesInv
<1>. SUFFICES ASSUME Init PROVE PlacesInv
  OBVIOUS
<1>1. TypeOK /\ Active = {}
  BY DEF Init, TypeOK, Active
<1>. QED  BY <1>1 DEF PlacesInv, LocksHold, PlacesAreKnown

\* Locked rows are there and nobody else's, and a transaction that places an order has
\* each of its two addresses still to look up, about to be inserted, or locked.
THEOREM PlacesInvHolds == Spec => []PlacesInv
BY PlacesStart, StepKeeps, PTL DEF Spec

THEOREM TypeCorrect == Spec => []TypeOK
<1>1. PlacesInv => TypeOK
  BY DEF PlacesInv
<1>. QED  BY <1>1, PlacesInvHolds, PTL

LEMMA CommitKnows ==
  ASSUME PlacesInv, NEW r \in Request, Commit(r), requests[r].kind = "order"
  PROVE  {requests[r].texts[1], requests[r].texts[2]} \subseteq Known(table')
<1>. DEFINE q == requests[r]
<1>1. CommitsRows(r) /\ r \in Active /\ q.todo = <<>> /\ q.loaded = None
  BY CommitEffect DEF PlacesInv, Commit
<1>2. {q.texts[1], q.texts[2]} \subseteq Unserved(q) \cup Served(q)
  BY <1>1 DEF PlacesInv, PlacesAreKnown, KeepsPlaces
<1>3. Unserved(q) = {}
  BY <1>1 DEF Unserved
<1>4. None \notin DOMAIN table
  BY AddressesAssumption DEF PlacesInv, TypeOK
<1>5. DOMAIN table \subseteq DOMAIN table'
  BY <1>1 DEF CommitsRows
<1>6. Served(q) \subseteq Known(table')
  BY <1>1, <1>4, <1>5 DEF Served, Known, CommitsRows
<1>. QED  BY <1>2, <1>3, <1>6

\* create_order of orders_api.py: an order is stored with both its addresses, whatever
\* the other requests look up, insert, change and delete while it is being placed.
THEOREM OrdersKeepPlaces == Spec => OrdersKeepTheirPlaces
<1>1. ASSUME PlacesInv, Next, placed' # placed
      PROVE  {placed'[1], placed'[2]} \subseteq Known(table')
  <2>1. PICK r \in Request : Commit(r)
    BY <1>1
    DEF Next, Begin, TouchAddress, CreateOrder, SetFavorite, DeleteAddress, Start, LookUp,
        FindSeveral, Flush, FindGone, BreakDeadlock, Rollback, Release, CreateAddress
  <2>2. requests[r].kind = "order" /\ placed' = requests[r].texts
    BY <1>1, <2>1 DEF Commit
  <2>. QED  BY <1>1, <2>1, <2>2, CommitKnows
<1>2. PlacesInv /\ [Next]_vars =>
        [placed' # placed => {placed'[1], placed'[2]} \subseteq Known(table')]_vars
  BY <1>1
<1>. QED  BY <1>2, PlacesInvHolds, PTL DEF Spec, OrdersKeepTheirPlaces

-----------------------------------------------------------------------------
(* Requests of the web app, one after the other *)

\* One transaction at a time, and none that makes a favourite a recent row; the texts it
\* is about to insert have no recent row; no text has two.
InTurnInv ==
  inTurn =>
    /\ \A r, q \in Active : r = q
    /\ \A r \in Active : /\ requests[r].kind # "set_favorite"
                         /\ \A t \in requests[r].new : RecentOf(t) = {}
    /\ \A t \in Text : \A i, j \in RecentOf(t) : i = j

\* One transaction moves on, the table as it is.
LEMMA OneMovesInTurn ==
  ASSUME InTurnInv, NEW r, UNCHANGED <<table, inTurn>>,
         Active' \subseteq {r} \/ (Active' \subseteq Active /\ r \in Active),
         \A q \in Active' \ {r} : requests'[q] = requests[q],
         r \in Active' => /\ requests'[r].kind # "set_favorite"
                         /\ \A t \in requests'[r].new : RecentOf(t) = {}
  PROVE  InTurnInv'
<1>1. \A t : RecentOf(t)' = RecentOf(t)
  BY DEF RecentOf
<1>. QED  BY <1>1 DEF InTurnInv

LEMMA ReleaseKeepsTurn ==
  ASSUME PlacesInv, InTurnInv, NEW r \in Active, Release(r), UNCHANGED inTurn
  PROVE  InTurnInv'
<1>1. /\ Active' \subseteq Active \ {r} /\ UNCHANGED table
      /\ \A q \in Active' : requests'[q] = requests[q]
  BY DEF PlacesInv, TypeOK, Active, Release
<1>. QED  BY <1>1, OneMovesInTurn

LEMMA StartKeepsTurn ==
  ASSUME PlacesInv, InTurnInv, NEW r \in Request, NEW kind \in Kinds \ {"set_favorite"},
         NEW texts, NEW row, NEW flag, Start(r, kind, texts, row, flag), UNCHANGED inTurn,
         MayBegin
  PROVE  InTurnInv'
<1>. SUFFICES ASSUME inTurn PROVE InTurnInv'
  BY DEF InTurnInv
<1>1. Active = {}
  BY DEF MayBegin
<1>2. Active' \subseteq {r} /\ UNCHANGED table
  BY <1>1 DEF PlacesInv, TypeOK, Start, Active
<1>3. requests'[r].kind # "set_favorite" /\ requests'[r].new = {}
  BY DEF PlacesInv, TypeOK, Start
<1>4. \A q \in Active' \ {r} : requests'[q] = requests[q]
  BY <1>2
<1>5. \A t \in requests'[r].new : RecentOf(t) = {}
  BY <1>3
<1>. QED  BY <1>2, <1>3, <1>4, <1>5, OneMovesInTurn, Zenon

LEMMA LookUpKeepsTurn ==
  ASSUME PlacesInv, InTurnInv, NEW r \in Request, LookUp(r), UNCHANGED inTurn
  PROVE  InTurnInv'
<1>. SUFFICES ASSUME inTurn PROVE InTurnInv'
  BY DEF InTurnInv
<1>. DEFINE q == requests[r]
            t == Head(q.todo)
<1>1. /\ r \in Active /\ q \in Transaction /\ UNCHANGED table
      /\ Active' \subseteq Active /\ \A p \in Request \ {r} : requests'[p] = requests[p]
  BY ActiveType DEF LookUp, LookingUp, PlacesInv, TypeOK, Active
<1>2. /\ requests'[r].kind = q.kind
      /\ requests'[r].new = q.new \/ (requests'[r].new = q.new \cup {t} /\ Matches(r, t) = {})
  <2>1. ASSUME NEW i,
               requests' = [requests EXCEPT ![r] =
                              [[q EXCEPT !.todo = Tail(q.todo)] EXCEPT !.loaded = i]]
        PROVE  requests'[r].kind = q.kind /\ requests'[r].new = q.new
    BY <1>1, <2>1 DEF PlacesInv, TypeOK, Transaction
  <2>2. ASSUME requests' = [requests EXCEPT ![r] =
                              [[q EXCEPT !.todo = Tail(q.todo)] EXCEPT !.new = @ \cup {t}]]
        PROVE  requests'[r].kind = q.kind /\ requests'[r].new = q.new \cup {t}
    BY <1>1, <2>2 DEF PlacesInv, TypeOK, Transaction
  <2>. QED  BY <2>1, <2>2 DEF LookUp
<1>3. Matches(r, t) = {} => RecentOf(t) = {}
  BY DEF Matches
<1>4. q.kind # "set_favorite" /\ \A u \in q.new : RecentOf(u) = {}
  BY <1>1 DEF InTurnInv
<1>5. /\ requests'[r].kind # "set_favorite"
      /\ \A u \in requests'[r].new : RecentOf(u) = {}
  BY <1>2, <1>3, <1>4
<1>6. Active' \subseteq Request
  BY DEF Active
<1>. HIDE DEF q, t
<1>. QED  BY <1>1, <1>5, <1>6, OneMovesInTurn

LEMMA FlushKeepsTurn ==
  ASSUME PlacesInv, InTurnInv, NEW r \in Request, Flush(r), UNCHANGED inTurn
  PROVE  InTurnInv'
<1>. SUFFICES ASSUME inTurn PROVE InTurnInv'
  BY DEF InTurnInv
<1>1. /\ r \in Active /\ requests[r] \in Transaction /\ UNCHANGED table
      /\ Active' \subseteq Active /\ \A p \in Request \ {r} : requests'[p] = requests[p]
  BY ActiveType DEF Flush, PlacesInv, TypeOK, Active
<1>2. requests'[r].kind = requests[r].kind /\ requests'[r].new = requests[r].new
  BY <1>1 DEF Flush, PlacesInv, TypeOK, Transaction
<1>3. /\ requests[r].kind # "set_favorite"
      /\ \A u \in requests[r].new : RecentOf(u) = {}
  BY <1>1 DEF InTurnInv
<1>4. Active' \subseteq Request
  BY DEF Active
<1>. QED  BY <1>1, <1>2, <1>3, <1>4, OneMovesInTurn

\* The address page adds a favourite.
LEMMA CreateKeepsTurn ==
  ASSUME PlacesInv, InTurnInv, NEW t \in Text, CreateAddress(t, TRUE), UNCHANGED inTurn,
         MayBegin
  PROVE  InTurnInv'
<1>. SUFFICES ASSUME inTurn PROVE InTurnInv'
  BY DEF InTurnInv
<1>1. Active = {} /\ Active' = {}
  BY DEF MayBegin, CreateAddress, Active
<1>2. PICK i \in Row \ Taken :
        table' = [j \in DOMAIN table \cup {i} |->
                    IF j = i THEN [text |-> t, favorite |-> TRUE] ELSE table[j]]
  BY DEF CreateAddress
<1>3. \A u : RecentOf(u)' \subseteq RecentOf(u)
  BY <1>2 DEF RecentOf
<1>. QED  BY <1>1, <1>3 DEF InTurnInv

LEMMA CommitKeepsTurn ==
  ASSUME PlacesInv, InTurnInv, NEW r \in Request, Commit(r), UNCHANGED inTurn
  PROVE  InTurnInv'
<1>. SUFFICES ASSUME inTurn PROVE InTurnInv'
  BY DEF InTurnInv
<1>1. r \in Active /\ CommitsRows(r)
  BY CommitEffect DEF PlacesInv, Commit
<1>2. /\ Active = {r} /\ requests[r].kind # "set_favorite"
      /\ \A t \in requests[r].new : RecentOf(t) = {}
      /\ \A t \in Text : \A i, j \in RecentOf(t) : i = j
  BY <1>1 DEF InTurnInv
<1>3. Active' = {}
  BY <1>2 DEF PlacesInv, TypeOK, Commit, Active
<1>4. \A t : RecentOf(t)' \cap DOMAIN table \subseteq RecentOf(t)
  BY <1>1, <1>2 DEF CommitsRows, RecentOf
<1>5. \A t : \A i, j \in RecentOf(t)' \ DOMAIN table : t \in requests[r].new /\ i = j
  BY <1>1 DEF CommitsRows, RecentOf
<1>6. ASSUME NEW t \in Text, NEW i \in RecentOf(t)', NEW j \in RecentOf(t)' PROVE i = j
  BY <1>2, <1>4, <1>5
<1>. QED  BY <1>3, <1>6 DEF InTurnInv

LEMMA ServerStepKeeps ==
  PlacesInv /\ InTurnInv /\ [MCNext]_MCVars => [Next]_vars /\ InTurnInv'
<1>. SUFFICES ASSUME PlacesInv, InTurnInv, [MCNext]_MCVars PROVE [Next]_vars /\ InTurnInv'
  OBVIOUS
<1>1. CASE UNCHANGED MCVars
  BY <1>1 DEF MCVars, vars, InTurnInv, Active, RecentOf
<1>2. CASE MCNext
  <2>1. ASSUME NEW r \in Request, NEW t \in Text, MayBegin /\ TouchAddress(r, t)
        PROVE  Next /\ InTurnInv'
    <3>1. "touch" \in Kinds \ {"set_favorite"}
      BY DEF Kinds
    <3>. QED  BY <1>2, <2>1, <3>1, StartKeepsTurn DEF MCNext, Next, Begin, TouchAddress
  <2>2. ASSUME NEW r \in Request, NEW from \in Text, NEW to \in Text,
               MayBegin /\ CreateOrder(r, from, to)
        PROVE  Next /\ InTurnInv'
    <3>1. "order" \in Kinds \ {"set_favorite"}
      BY DEF Kinds
    <3>. QED  BY <1>2, <2>2, <3>1, StartKeepsTurn DEF MCNext, Next, Begin, CreateOrder
  <2>3. ASSUME NEW r \in Request, NEW i \in Row, NEW flag \in BOOLEAN,
               ~inTurn /\ SetFavorite(r, i, flag)
        PROVE  Next /\ InTurnInv'
    BY <1>2, <2>3 DEF MCNext, Next, Begin, InTurnInv
  <2>4. ASSUME NEW r \in Request, NEW i \in Row, MayBegin /\ DeleteAddress(r, i)
        PROVE  Next /\ InTurnInv'
    <3>1. "delete" \in Kinds \ {"set_favorite"}
      BY DEF Kinds
    <3>. QED  BY <1>2, <2>4, <3>1, StartKeepsTurn DEF MCNext, Next, Begin, DeleteAddress
  <2>5. ASSUME NEW t \in Text, NEW flag \in BOOLEAN, MayBegin, inTurn => flag,
               CreateAddress(t, flag)
        PROVE  Next /\ InTurnInv'
    <3>1. CASE inTurn
      BY <1>2, <2>5, <3>1, CreateKeepsTurn DEF MCNext, Next
    <3>2. CASE ~inTurn
      BY <1>2, <2>5, <3>2 DEF MCNext, Next, InTurnInv
    <3>. QED  BY <3>1, <3>2
  <2>6. ASSUME NEW r \in Request,
               LookUp(r) \/ FindSeveral(r) \/ Flush(r) \/ FindGone(r)
                 \/ BreakDeadlock(r) \/ Commit(r) \/ Rollback(r)
        PROVE  Next /\ InTurnInv'
    <3>1. Next
      BY <2>6 DEF Next
    <3>2. CASE FindSeveral(r) \/ FindGone(r) \/ BreakDeadlock(r) \/ Rollback(r)
      <4>1. r \in Active /\ Release(r)
        BY <3>2 DEF FindSeveral, LookingUp, FindGone, BreakDeadlock, Deadlocked, Rollback
      <4>. QED  BY <1>2, <3>1, <4>1, ReleaseKeepsTurn DEF MCNext
    <3>. QED
      BY <1>2, <2>6, <3>1, <3>2, LookUpKeepsTurn, FlushKeepsTurn, CommitKeepsTurn DEF MCNext
  <2>. QED
    BY <1>2, <2>1, <2>2, <2>3, <2>4, <2>5, <2>6 DEF MCNext, ServerNext, AddedOnPage
<1>. QED  BY <1>1, <1>2

LEMMA ServerInvHolds == MCSpec => [](PlacesInv /\ InTurnInv)
<1>1. MCInit => PlacesInv /\ InTurnInv
  <2>. SUFFICES ASSUME MCInit PROVE InTurnInv
    BY PlacesStart DEF MCInit
  <2>1. Active = {} /\ DOMAIN table = {}
    BY DEF MCInit, Init, Active
  <2>. QED  BY <2>1 DEF InTurnInv, RecentOf
<1>2. PlacesInv /\ InTurnInv /\ [MCNext]_MCVars => PlacesInv' /\ InTurnInv'
  BY ServerStepKeeps, StepKeeps
<1>. QED  BY <1>1, <1>2, PTL DEF MCSpec

LEMMA OneRow ==
  ASSUME PlacesInv, InTurnInv
  PROVE  OneRecentRowPerTextInTurn
<1>. SUFFICES ASSUME inTurn, NEW t \in Text PROVE Cardinality(RecentOf(t)) <= 1
  BY DEF OneRecentRowPerTextInTurn, OneRecentRowPerText
<1>1. CASE RecentOf(t) = {}
  BY <1>1, FS_EmptySet
<1>2. ASSUME NEW i \in RecentOf(t) PROVE Cardinality(RecentOf(t)) <= 1
  <2>1. RecentOf(t) = {i}
    BY DEF InTurnInv
  <2>. QED  BY <2>1, FS_Singleton
<1>. QED  BY <1>1, <1>2

\* _touch_address of orders_api.py and touch_address of addresses_api.py: where the requests
\* of the web app are served one after the other, a text has at most one recent row,
\* however many texts and rows there are.
THEOREM OneRecentRow == MCSpec => []OneRecentRowPerTextInTurn
BY ServerInvHolds, OneRow, PTL

=============================================================================
