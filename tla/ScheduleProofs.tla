--------------------------- MODULE ScheduleProofs ---------------------------
(***************************************************************************)
(* Comparing neighbours in order of time is enough: the windows of a       *)
(* request the handler accepts are disjoint, whatever their number.  So a  *)
(* driver's stored hours never overlap where requests do not; and however  *)
(* they overlap, the last week stored is there.                            *)
(*                                                                         *)
(* The page on which a driver sets the hours, who waits for its answers,   *)
(* says "saved" of the hours that are stored, and a save changes the days  *)
(* the driver has changed.                                                 *)
(***************************************************************************)
EXTENDS MCSchedule, FiniteSetTheorems, TLAPS

LEMMA LeastNumber ==
  ASSUME NEW S, S \subseteq Nat, S # {}
  PROVE  \E m \in S : \A k \in S : m <= k
<1>1. PICK m \in S : \A k \in S : <<k, m>> \notin OpToRel(<, Nat)
  BY NatLessThanWellFounded, WFMin, Zenon
<1>2. ASSUME NEW k \in S PROVE m <= k
  <2>1. ~(k < m)
    BY <1>1 DEF OpToRel
  <2>. QED  BY <2>1
<1>. QED  BY <1>2

\* Some windows of a request that are sorted after window i include the first one.
LEMMA NextWindow ==
  ASSUME NEW n \in Nat, NEW body \in [1 .. n -> Window],
         NEW i \in 1 .. n, NEW j \in 1 .. n, Before(body, i, j)
  PROVE  \E k \in 1 .. n : Follows(body, i, k) /\ body[k].from <= body[j].from
<1>. DEFINE Later == {k \in 1 .. n : Before(body, i, k)}
<1>. DEFINE Starts == {body[k].from : k \in Later}
<1>1. \A k \in 1 .. n : body[k].from \in Nat
  BY DEF Window
<1>2. Starts \subseteq Nat /\ body[j].from \in Starts
  BY <1>1
<1>3. PICK start \in Starts : \A s \in Starts : start <= s
  BY <1>2, LeastNumber
<1>. DEFINE First == {k \in Later : body[k].from = start}
<1>4. First \subseteq Nat /\ First # {}
  BY <1>3
<1>5. PICK k \in First : \A l \in First : k <= l
  BY <1>4, LeastNumber
<1>6. k \in 1 .. n /\ Before(body, i, k) /\ body[k].from = start /\ body[k].from <= body[j].from
  BY <1>2, <1>3, <1>5
<1>7. ASSUME NEW l \in 1 .. n, Before(body, i, l), Before(body, l, k) PROVE FALSE
  <2>1. body[l].from \in Starts
    BY <1>7
  <2>2. start <= body[l].from /\ body[k].from = start
    BY <1>3, <1>6, <2>1
  <2>3. body[l].from = start /\ l < k
    BY <1>1, <1>6, <1>7, <2>2 DEF Before
  <2>4. l \in First
    BY <1>7, <2>3
  <2>. QED  BY <1>5, <2>3, <2>4
<1>. QED  BY <1>6, <1>7 DEF Follows

\* Any two windows of an accepted request are disjoint: the sort and the scan of
\* neighbours in set_my_schedule find every overlap.
THEOREM ScanFindsOverlaps ==
  ASSUME NEW body \in Bodies, Accepted(body)
  PROVE  \A v, w \in Week(body) : Overlap(v, w) => v = w
<1>1. PICK n \in 0 .. MaxRows : body \in [1 .. n -> Window]
  BY DEF Bodies
<1>2. n \in Nat /\ DOMAIN body = 1 .. n
  BY <1>1
<1>3. \A k \in 1 .. n : body[k].from \in Nat /\ body[k].to \in Nat /\ body[k].from < body[k].to
  BY <1>1 DEF Window
<1>4. ASSUME NEW i \in 1 .. n, NEW j \in 1 .. n, Before(body, i, j)
      PROVE  body[j].from >= body[i].to
  <2>1. PICK k \in 1 .. n : Follows(body, i, k) /\ body[k].from <= body[j].from
    BY <1>1, <1>2, <1>4, NextWindow
  <2>2. body[k].from >= body[i].to
    BY <1>2, <2>1 DEF Accepted
  <2>. QED  BY <1>3, <2>1, <2>2
<1>5. SUFFICES ASSUME NEW i \in 1 .. n, NEW j \in 1 .. n, i # j, Overlap(body[i], body[j])
               PROVE  FALSE
  BY <1>2 DEF Week
<1>6. Before(body, i, j) \/ Before(body, j, i)
  BY <1>3, <1>5 DEF Before, Overlap
<1>. QED  BY <1>3, <1>4, <1>5, <1>6 DEF Overlap

-----------------------------------------------------------------------------
(* The server: requests that overlap, or one after the other *)

ServerTypes ==
  /\ rows \in [Driver -> SUBSET Window]
  /\ requests \in [Request -> RequestState]
  /\ Free.at = "idle" /\ Free \in RequestState

\* One request at a time: its DELETE still sees every row when it is committed.
SeesAll ==
  /\ \A r, q \in Request : requests[r] # Free /\ requests[q] # Free => r = q
  /\ \A r \in Request :
       requests[r] # Free =>
         Accepted(requests[r].body) /\ requests[r].sees = rows[requests[r].driver]

\* What the DELETE of a request did not see was stored after it began.
UnseenIsRecent ==
  \A r \in Request :
    requests[r].at # "idle" =>
      rows[requests[r].driver] \ requests[r].sees \subseteq requests[r].meanwhile

ServerInv ==
  ServerTypes /\ UnseenIsRecent /\ (inTurn => SeesAll /\ NoOverlappingWindows)

LEMMA WeekType ==
  ASSUME NEW body \in Bodies PROVE Week(body) \in SUBSET Window
BY DEF Bodies, Week

LEMMA FreeType ==
  ASSUME Driver # {}, MaxRows \in Nat
  PROVE  Free \in RequestState /\ Free.at = "idle"
<1>1. <<>> \in [1 .. 0 -> Window] /\ 0 \in 0 .. MaxRows
  OBVIOUS
<1>2. <<>> \in Bodies
  BY <1>1 DEF Bodies
<1>. QED  BY <1>2 DEF Free, RequestState, Stages

LEMMA DeleteKeeps ==
  ASSUME ServerInv, NEW r \in Request, NEW d \in Driver, NEW body \in Bodies,
         Delete(r, d, body), inTurn => \A q \in Request : requests[q] = Free, UNCHANGED inTurn
  PROVE  ServerInv'
<1>. DEFINE state == [at |-> "deleting", driver |-> d, body |-> body, meanwhile |-> {},
                      sees |-> rows[d]]
<1>1. state \in RequestState /\ state.body = body /\ state.sees = rows[d] /\ state.driver = d
  BY DEF RequestState, Stages, ServerInv, ServerTypes
<1>2. requests' = [requests EXCEPT ![r] = state] /\ UNCHANGED rows /\ Accepted(body)
  BY DEF Delete
<1>. HIDE DEF state
<1>3. ServerTypes'
  BY <1>1, <1>2 DEF ServerInv, ServerTypes
<1>4. UnseenIsRecent' /\ (NoOverlappingWindows => NoOverlappingWindows')
  BY <1>1, <1>2 DEF ServerInv, ServerTypes, UnseenIsRecent, NoOverlappingWindows
<1>5. inTurn => SeesAll'
  BY <1>1, <1>2 DEF ServerInv, ServerTypes, SeesAll
<1>. QED  BY <1>3, <1>4, <1>5 DEF ServerInv

LEMMA DeletedKeeps ==
  ASSUME ServerInv, NEW r \in Request, Deleted(r), UNCHANGED inTurn
  PROVE  ServerInv'
<1>. DEFINE state == [requests[r] EXCEPT !.at = "deleted"]
<1>1. /\ state \in RequestState /\ state.driver = requests[r].driver
      /\ state.body = requests[r].body /\ state.sees = requests[r].sees
      /\ state.meanwhile = requests[r].meanwhile
  BY DEF RequestState, Stages, ServerInv, ServerTypes
<1>2. /\ requests' = [requests EXCEPT ![r] = state] /\ UNCHANGED rows
      /\ requests[r].at = "deleting"
  BY DEF Deleted
<1>. HIDE DEF state
<1>3. ServerTypes'
  BY <1>1, <1>2 DEF ServerInv, ServerTypes
<1>4. UnseenIsRecent' /\ (NoOverlappingWindows => NoOverlappingWindows')
  BY <1>1, <1>2 DEF ServerInv, ServerTypes, UnseenIsRecent, NoOverlappingWindows
<1>5. requests[r] # Free
  BY <1>2 DEF ServerInv, ServerTypes
<1>6. SeesAll => SeesAll'
  BY <1>1, <1>2, <1>5 DEF ServerInv, ServerTypes, SeesAll
<1>. QED  BY <1>3, <1>4, <1>6 DEF ServerInv

\* What is stored is the week of the request and rows its DELETE did not see.
LEMMA CommitKeeps ==
  ASSUME ServerInv, NEW r \in Request, Commit(r), UNCHANGED inTurn
  PROVE  ServerInv'
<1>. DEFINE d == requests[r].driver
            week == Week(requests[r].body)
<1>1. requests[r] \in RequestState /\ requests[r] # Free
  BY DEF Commit, ServerInv, ServerTypes
<1>2. d \in Driver /\ requests[r].body \in Bodies /\ week \in SUBSET Window
  BY <1>1, WeekType DEF RequestState
<1>3. rows' = [rows EXCEPT ![d] = Stored(r)]
  BY DEF Commit
<1>4. Stored(r) \in SUBSET Window /\ week \subseteq Stored(r)
  BY <1>2 DEF Stored, Kept, ServerInv, ServerTypes
<1>5. requests' \in [Request -> RequestState]
  <2>1. ASSUME NEW q \in Request PROVE Overtake(q, requests[r].sees, week, d) \in RequestState
    BY <1>1, <1>2 DEF Overtake, RequestState, ServerInv, ServerTypes
  <2>. QED  BY <2>1 DEF Commit, ServerInv, ServerTypes
<1>6. ServerTypes'
  BY <1>2, <1>3, <1>4, <1>5 DEF ServerInv, ServerTypes
<1>7. UnseenIsRecent'
  <2>. SUFFICES ASSUME NEW q \in Request, requests'[q].at # "idle"
                PROVE  rows'[requests'[q].driver] \ requests'[q].sees
                         \subseteq requests'[q].meanwhile
    BY DEF UnseenIsRecent
  <2>1. q # r /\ requests'[q] = Overtake(q, requests[r].sees, week, d)
    BY DEF Commit, ServerInv, ServerTypes
  <2>2. requests[q] \in RequestState
    BY DEF ServerInv, ServerTypes
  <2>3. requests[q].at # "idle" /\ requests'[q].driver = requests[q].driver
    BY <2>1, <2>2 DEF Overtake, RequestState
  <2>4. rows[requests[q].driver] \ requests[q].sees \subseteq requests[q].meanwhile
    BY <2>3 DEF ServerInv, UnseenIsRecent
  <2>5. CASE requests[q].driver = d
    <3>1. /\ requests'[q].sees = requests[q].sees \ requests[r].sees
          /\ requests'[q].meanwhile = requests[q].meanwhile \cup week
      BY <2>1, <2>2, <2>3, <2>5 DEF Overtake, RequestState
    <3>2. rows'[d] = (rows[d] \ requests[r].sees) \cup week
      BY <1>2, <1>3 DEF Stored, Kept, ServerInv, ServerTypes
    <3>. QED  BY <2>3, <2>4, <2>5, <3>1, <3>2
  <2>6. CASE requests[q].driver # d
    <3>1. requests'[q] = requests[q]
      BY <2>1, <2>6 DEF Overtake
    <3>2. rows'[requests[q].driver] = rows[requests[q].driver]
      BY <1>3, <2>2, <2>6 DEF RequestState, ServerInv, ServerTypes
    <3>. QED  BY <2>4, <3>1, <3>2
  <2>. QED  BY <2>5, <2>6
<1>8. ASSUME SeesAll, NoOverlappingWindows PROVE SeesAll' /\ NoOverlappingWindows'
  <2>1. Accepted(requests[r].body) /\ requests[r].sees = rows[d]
        /\ \A q \in Request : q # r => requests[q] = Free
    BY <1>1, <1>8 DEF SeesAll
  <2>2. Stored(r) = week
    BY <2>1 DEF Stored, Kept
  <2>3. NoOverlappingWindows'
    BY <1>2, <1>3, <1>8, <2>1, <2>2, ScanFindsOverlaps
    DEF ServerInv, ServerTypes, NoOverlappingWindows
  <2>4. ASSUME NEW q \in Request, requests'[q] # Free PROVE FALSE
    <3>1. q # r /\ requests[q] = Free /\ requests'[q] = Overtake(q, requests[r].sees, week, d)
      BY <2>1, <2>4 DEF Commit
    <3>2. Overtake(q, requests[r].sees, week, d) = Free
      BY <3>1 DEF Overtake, ServerInv, ServerTypes
    <3>. QED  BY <2>4, <3>1, <3>2
  <2>. QED  BY <2>3, <2>4 DEF SeesAll
<1>. QED  BY <1>6, <1>7, <1>8 DEF ServerInv

LEMMA RollbackKeeps ==
  ASSUME ServerInv, NEW r \in Request, Rollback(r), UNCHANGED inTurn
  PROVE  ServerInv'
<1>1. requests' = [requests EXCEPT ![r] = Free] /\ UNCHANGED rows
  BY DEF Rollback
<1>2. ServerTypes'
  BY <1>1 DEF ServerInv, ServerTypes
<1>3. UnseenIsRecent' /\ (NoOverlappingWindows => NoOverlappingWindows')
  BY <1>1 DEF ServerInv, ServerTypes, UnseenIsRecent, NoOverlappingWindows
<1>4. SeesAll => SeesAll'
  BY <1>1 DEF ServerInv, ServerTypes, SeesAll
<1>. QED  BY <1>2, <1>3, <1>4 DEF ServerInv

LEMMA ServerKeeps ==
  ASSUME ServerInv, ServerNext, UNCHANGED inTurn
  PROVE  ServerInv'
BY DeleteKeeps, DeletedKeeps, CommitKeeps, RollbackKeeps DEF ServerNext, MayBegin

-----------------------------------------------------------------------------
(* What the page sends, and what it makes of stored hours *)

\* The windows the rows dr of the page stand for.
EnteredOf(dr) ==
  {[weekday |-> d, from |-> dr[d].from, to |-> dr[d].to] : d \in {d \in DayOfWeek : dr[d].enabled}}

On(hours, d) == {w \in hours : w.weekday = d}

LEMMA SameCardinality == \A S : Page!Cardinality(S) = Cardinality(S)
BY DEF Page!Cardinality, Cardinality

LEMMA SequenceOfAll ==
  ASSUME NEW S, IsFiniteSet(S)
  PROVE  Page!SetToSeq(S) \in Seq(S) /\ Week(Page!SetToSeq(S)) = S
<1>. DEFINE n == Cardinality(S)
            f == Page!SetToSeq(S)
<1>1. n \in Nat /\ ExistsBijection(1 .. n, S)
  BY FS_CardinalityType
<1>2. \E b \in [1 .. n -> S] : Page!IsInjective(b)
  BY <1>1 DEF ExistsBijection, Bijection, Injection, IsInjective, Page!IsInjective
<1>3. f \in [1 .. n -> S] /\ IsInjective(f)
  <2>1. f = CHOOSE g \in [1 .. n -> S] : Page!IsInjective(g)
    BY SameCardinality DEF Page!SetToSeq
  <2>2. f \in [1 .. n -> S] /\ Page!IsInjective(f)
    BY <1>2, <2>1
  <2>. QED  BY <2>2 DEF Page!IsInjective, IsInjective
<1>. HIDE DEF f
<1>4. f \in Injection(1 .. n, S)
  BY <1>3 DEF Injection
<1>5. IsFiniteSet(1 .. n) /\ Cardinality(1 .. n) = n
  BY <1>1, FS_Interval
<1>6. f \in Surjection(1 .. n, S)
  BY <1>4, <1>5, FS_Injection
<1>7. Week(f) = S
  BY <1>3, <1>6 DEF Week, Surjection
<1>8. f \in Seq(S)
  BY <1>1, <1>3
<1>. QED  BY <1>7, <1>8 DEF f

LEMMA EnteredFinite ==
  ASSUME NEW dr, IsFiniteSet(DayOfWeek)
  PROVE  IsFiniteSet(EnteredOf(dr))
<1>. DEFINE days == {d \in DayOfWeek : dr[d].enabled}
            f == [d \in days |-> [weekday |-> d, from |-> dr[d].from, to |-> dr[d].to]]
<1>1. IsFiniteSet(days)
  BY FS_Subset
<1>2. f \in Bijection(days, EnteredOf(dr))
  BY DEF Bijection, Injection, Surjection, IsInjective, EnteredOf
<1>. QED  BY <1>1, <1>2, FS_Bijection DEF ExistsBijection

LEMMA WindowFinite ==
  ASSUME IsFiniteSet(DayOfWeek), IsFiniteSet(Hour)
  PROVE  IsFiniteSet(Window)
<1>. DEFINE hours == Hour \cap Nat
            box == DayOfWeek \X (hours \X hours)
            f == [w \in Window |-> <<w.weekday, <<w.from, w.to>>>>]
<1>1. IsFiniteSet(hours)
  BY FS_Subset
<1>2. IsFiniteSet(box)
  BY <1>1, FS_Product
<1>3. f \in [Window -> box]
  BY DEF Window
<1>4. \A v, w \in Window : f[v] = f[w] => v = w
  BY DEF Window
<1>5. f \in Injection(Window, box)
  BY <1>3, <1>4 DEF Injection, IsInjective
<1>. QED  BY <1>2, <1>5, FS_Injection

LEMMA AtMostOne ==
  ASSUME NEW S, IsFiniteSet(S), ~(Cardinality(S) > 1)
  PROVE  \A x, y \in S : x = y
<1>. SUFFICES ASSUME NEW x \in S, NEW y \in S, x # y PROVE FALSE
  OBVIOUS
<1>1. IsFiniteSet({x}) /\ Cardinality({x}) = 1
  BY FS_Singleton
<1>2. IsFiniteSet({x} \cup {y}) /\ Cardinality({x} \cup {y}) = 2
  <2>1. Cardinality({x} \cup {y}) = IF y \in {x} THEN Cardinality({x}) ELSE Cardinality({x}) + 1
    BY <1>1, FS_AddElement, Zenon
  <2>2. IsFiniteSet({x} \cup {y})
    BY <1>1, FS_AddElement, Zenon
  <2>. QED  BY <1>1, <2>1, <2>2
<1>3. {x} \cup {y} \in SUBSET S
  OBVIOUS
<1>4. Cardinality({x} \cup {y}) <= Cardinality(S) /\ Cardinality(S) \in Nat
  BY <1>3, FS_Subset, FS_CardinalityType
<1>. QED  BY <1>2, <1>4

\* A row that shows the hours of its weekday stands for them, where they are one window.
LEMMA RowShowsItsDay ==
  ASSUME NEW dr, NEW hours \in SUBSET Window, NEW d \in DayOfWeek,
         dr[d] = Page!Filled(hours)[d], \A v, w \in On(hours, d) : v = w
  PROVE  On(EnteredOf(dr), d) = On(hours, d)
<1>1. On(hours, d) = {w \in hours : w.weekday = d}
  BY DEF On
<1>2. CASE On(hours, d) = {}
  <2>1. Page!Filled(hours)[d] = Page!defaultRows[d] /\ ~Page!defaultRows[d].enabled
    BY <1>1, <1>2 DEF Page!Filled, Page!defaultRows
  <2>. QED  BY <1>2, <2>1 DEF On, EnteredOf
<1>3. CASE On(hours, d) # {}
  <2>1. PICK w \in On(hours, d) : TRUE
    BY <1>3
  <2>2. On(hours, d) = {w} /\ w \in Window /\ w.weekday = d
    BY <2>1 DEF On
  <2>3. Page!Latest({w}) = w
    BY <2>2 DEF Page!Latest, Window
  <2>4. dr[d] = [enabled |-> TRUE, from |-> w.from, to |-> w.to]
    BY <1>1, <2>2, <2>3 DEF Page!Filled
  <2>5. [weekday |-> d, from |-> w.from, to |-> w.to] = w
    BY <2>2 DEF Window
  <2>6. On(EnteredOf(dr), d) = {[weekday |-> d, from |-> w.from, to |-> w.to]}
    BY <2>4 DEF On, EnteredOf
  <2>. QED  BY <2>2, <2>5, <2>6
<1>. QED  BY <1>2, <1>3

\* Rows filled anew with the hours they stood for stand for them again.
LEMMA FilledAgain ==
  ASSUME NEW dr, NEW new, NEW hours \in SUBSET Window, EnteredOf(dr) = hours,
         new = Page!Filled(hours)
  PROVE  EnteredOf(new) = hours
<1>1. \A d \in DayOfWeek : \A v, w \in On(hours, d) : v = w
  BY DEF On, EnteredOf
<1>2. \A d \in DayOfWeek : On(EnteredOf(new), d) = On(hours, d)
  BY <1>1, RowShowsItsDay
<1>3. \A w \in EnteredOf(new) \cup hours : w.weekday \in DayOfWeek
  BY DEF EnteredOf, Window
<1>. QED  BY <1>2, <1>3 DEF On

-----------------------------------------------------------------------------
(* The page of a driver who waits for its answers *)

\* Weekdays and times of day are finitely many; "no answer yet" is no answer.
HoursAssumption ==
  /\ Driver # {} /\ MaxRows \in Nat
  /\ IsFiniteSet(DayOfWeek) /\ IsFiniteSet(Hour)
  /\ Unknown \notin SUBSET Window

Me == CHOOSE d \in Driver : TRUE

PageRequest == [at: Stages, driver: Driver, body: Seq(Window), sees: SUBSET Window,
                meanwhile: SUBSET Window]

PageTypes ==
  /\ rows \in [Driver -> SUBSET Window]
  /\ requests \in [{Mine} -> PageRequest]
  /\ DOMAIN dayRows = DayOfWeek
  /\ open \in BOOLEAN /\ saved \in BOOLEAN /\ stale \in BOOLEAN /\ replaced \in BOOLEAN
  /\ fetch.new \in BOOLEAN
  /\ save \in [at: {"idle", "sent", "stored", "failed"}, waits: BOOLEAN]

\* Stored hours the cache has not been given yet.
Unseen == replaced \/ fetch.new

\* The save under way is the whole week on the page, and nothing else is being stored.
SaveIsThePage ==
  /\ save = Page!NoSave \/ save.at # "idle"
  /\ save.at # "idle" => open /\ ~stale /\ cached # Unknown
  /\ IF save.at = "sent"
     THEN /\ requests[Mine].at # "idle"
          /\ requests[Mine].driver = Me /\ requests[Mine].sees = rows[Me]
          /\ Week(requests[Mine].body) = EnteredOf(dayRows)
          /\ EnteredOf(dayRows) \subseteq Window
     ELSE requests[Mine] = Free

\* What the cache and an answer under way know of the hours stored.
CacheIsRight ==
  /\ fetch.new => fetch.at = "answered"
  /\ Unseen => stale \/ save.at = "stored"
  /\ fetch.at = "answered" /\ replaced => save.at = "stored"
  /\ fetch.at = "answered" /\ (fetch.new \/ ~replaced) => fetch.got = rows[Me]
  /\ fetch.at = "answered" /\ ~fetch.new /\ cached # Unknown => fetch.got = cached
  /\ cached # Unknown /\ ~Unseen => cached = rows[Me]

\* The rows of the page are the cached hours, but for the days the driver has changed;
\* after a save they are the hours stored.
PageIsRight ==
  /\ ~open => ~saved /\ ~stale /\ fetch.at \notin {"asked", "answered"}
  /\ open /\ cached # Unknown =>
       \A d \in DayOfWeek \ touched : dayRows[d] = Page!Filled(cached)[d]
  /\ saved => cached # Unknown
  /\ saved \/ save.at = "stored" => EnteredOf(dayRows) = rows[Me]

PageInv ==
  /\ PageTypes /\ SaveIsThePage /\ CacheIsRight /\ PageIsRight
  /\ NoOverlappingWindows

\* The definitions of the page that are those of the server.
LEMMA SameNames ==
  /\ Page!Window = Window /\ Page!Free = Free
  /\ Page!Entered = EnteredOf(dayRows)
  /\ \A body : Page!Week(body) = Week(body)
  /\ \A hours, d : Page!On(hours, d) = On(hours, d)
BY DEF Page!Window, Window, Page!Free, Free, Page!Entered, EnteredOf, Page!Week, Week,
       Page!On, On

LEMMA MeDrives == HoursAssumption => Me \in Driver
BY DEF HoursAssumption, Me

LEMMA PageFree == HoursAssumption => Free \in PageRequest /\ Free.at = "idle"
BY DEF HoursAssumption, Free, PageRequest, Stages

LEMMA FilledDomain == \A hours : DOMAIN Page!Filled(hours) = DayOfWeek
BY DEF Page!Filled

\* The steps that store nothing.
LEMMA NothingStored ==
  ASSUME PageInv, UNCHANGED <<rows, requests>>,
         DOMAIN dayRows' = DayOfWeek, (open \in BOOLEAN)', (saved \in BOOLEAN)',
         (stale \in BOOLEAN)', (replaced \in BOOLEAN)', (fetch.new \in BOOLEAN)',
         (save \in [at: {"idle", "sent", "stored", "failed"}, waits: BOOLEAN])',
         SaveIsThePage', CacheIsRight', PageIsRight'
  PROVE  PageInv'
BY DEF PageInv, PageTypes, NoOverlappingWindows

LEMMA OpenKeeps ==
  ASSUME PageInv, Page!Open, fetch = Page!NoFetch, save = Page!NoSave
  PROVE  PageInv'
<1>. USE DEF PageInv
<1>1. /\ UNCHANGED <<rows, requests, saved, cached, stale, fetch, replaced, save>>
      /\ open' = TRUE /\ ~saved /\ fetch.at = "idle" /\ save.at = "idle"
  BY DEF Page!Open, Page!vars, Page!query, PageIsRight, Page!NoFetch, Page!NoSave
<1>2. /\ DOMAIN dayRows' = DayOfWeek
      /\ cached # Unknown => dayRows' = Page!Filled(cached)
  BY FilledDomain DEF Page!Open, Page!Fills, PageTypes
<1>3. SaveIsThePage'
  BY <1>1 DEF SaveIsThePage
<1>4. CacheIsRight'
  BY <1>1 DEF CacheIsRight, Unseen
<1>5. PageIsRight'
  BY <1>1, <1>2 DEF PageIsRight
<1>. QED  BY <1>1, <1>2, <1>3, <1>4, <1>5, NothingStored DEF PageTypes

LEMMA LeaveKeeps ==
  ASSUME PageInv, Page!Settled, Page!Leave
  PROVE  PageInv'
<1>. USE DEF PageInv
<1>1. /\ UNCHANGED <<rows, requests, cached, stale, fetch, replaced>>
      /\ open' = FALSE /\ saved' = FALSE /\ ~stale /\ fetch.at = "idle"
      /\ DOMAIN dayRows' = DayOfWeek
  BY DEF Page!Leave, Page!Settled, Page!vars, Page!query, Page!NoFetch, Page!defaultRows
<1>2. save = Page!NoSave /\ save' = Page!NoSave /\ save.at = "idle"
  BY DEF Page!Leave, Page!Settled, Page!NoSave
<1>3. SaveIsThePage'
  BY <1>1, <1>2 DEF SaveIsThePage
<1>4. CacheIsRight'
  BY <1>1, <1>2 DEF CacheIsRight, Unseen
<1>5. PageIsRight'
  BY <1>1, <1>2 DEF PageIsRight
<1>. QED  BY <1>1, <1>2, <1>3, <1>4, <1>5, NothingStored DEF PageTypes

LEMMA AskKeeps ==
  ASSUME PageInv, Page!Ask
  PROVE  PageInv'
<1>. USE DEF PageInv
<1>1. /\ UNCHANGED <<rows, requests, open, dayRows, touched, saved, cached, stale,
                     replaced, save>>
      /\ open /\ fetch.new = FALSE /\ fetch'.at = "asked" /\ fetch'.new = FALSE
  BY DEF Page!Ask, Page!vars, Page!page, Page!NoFetch
<1>3. SaveIsThePage'
  BY <1>1 DEF SaveIsThePage
<1>4. CacheIsRight'
  BY <1>1 DEF CacheIsRight, Unseen
<1>5. PageIsRight'
  BY <1>1 DEF PageIsRight
<1>. QED  BY <1>1, <1>3, <1>4, <1>5, NothingStored DEF PageTypes

LEMMA AnswerKeeps ==
  ASSUME HoursAssumption, PageInv, Page!AnswerHours
  PROVE  PageInv'
<1>. USE DEF PageInv
<1>1. /\ UNCHANGED <<rows, requests, open, dayRows, touched, saved, cached, stale, save>>
      /\ fetch.at = "asked" /\ replaced' = FALSE
      /\ fetch' = [at |-> "answered", got |-> rows[Me], new |-> replaced]
  BY DEF Page!AnswerHours, Page!vars, Page!page, Me
<1>2. fetch'.at = "answered" /\ fetch'.got = rows[Me] /\ fetch'.new = replaced
  BY <1>1
<1>3. SaveIsThePage'
  BY <1>1 DEF SaveIsThePage
<1>4. CacheIsRight'
  BY <1>1, <1>2 DEF CacheIsRight, Unseen, PageTypes
<1>5. PageIsRight'
  BY <1>1, <1>2 DEF PageIsRight
<1>. QED  BY <1>1, <1>2, <1>3, <1>4, <1>5, NothingStored DEF PageTypes

\* The answer fills the page only where the rows were the stored hours or none were shown.
LEMMA ShowKeeps ==
  ASSUME HoursAssumption, PageInv, Page!ShowHours
  PROVE  PageInv'
<1>. USE DEF PageInv
<1>1. /\ UNCHANGED <<rows, requests, open, saved, replaced, save>>
      /\ fetch.at = "answered" /\ cached' = fetch.got /\ stale' = FALSE
      /\ fetch'.at = "idle" /\ fetch'.new = FALSE /\ open
  BY DEF Page!ShowHours, Page!vars, PageIsRight, Page!NoFetch
<1>2. \/ /\ fetch.new \/ cached = Unknown
         /\ dayRows' = Page!Filled(fetch.got) /\ touched' = {}
      \/ ~fetch.new /\ cached # Unknown /\ UNCHANGED <<dayRows, touched>>
  BY <1>1 DEF Page!ShowHours, Page!Fills
<1>3. rows[Me] \in SUBSET Window
  BY MeDrives DEF PageTypes
<1>4. replaced => save.at = "stored" /\ cached # Unknown
  BY <1>1 DEF CacheIsRight, SaveIsThePage
<1>5. /\ fetch.got # Unknown
      /\ fetch.new \/ cached = Unknown \/ ~replaced => fetch.got = rows[Me]
      /\ ~fetch.new /\ cached # Unknown => fetch.got = cached
  BY <1>1, <1>3, <1>4 DEF CacheIsRight, HoursAssumption
<1>6. \/ EnteredOf(dayRows') = EnteredOf(dayRows)
      \/ EnteredOf(dayRows) # rows[Me] /\ ~saved /\ save.at \notin {"sent", "stored"}
      \/ EnteredOf(dayRows) = rows[Me] /\ EnteredOf(dayRows') = rows[Me] /\ save.at # "sent"
      \/ ~saved /\ save.at = "idle"
  <2>1. CASE UNCHANGED dayRows
    BY <2>1
  <2>2. CASE cached = Unknown
    BY <2>2 DEF SaveIsThePage, PageIsRight, PageTypes
  <2>3. CASE fetch.new /\ dayRows' = Page!Filled(fetch.got)
    <3>1. save.at # "sent"
      BY <2>3 DEF CacheIsRight, Unseen, SaveIsThePage
    <3>2. EnteredOf(dayRows) = rows[Me] => EnteredOf(dayRows') = rows[Me]
      BY <1>3, <1>5, <2>3, FilledAgain
    <3>. QED  BY <3>1, <3>2 DEF PageIsRight
  <2>. QED  BY <1>2, <2>1, <2>2, <2>3
<1>7. SaveIsThePage'
  BY <1>1, <1>5, <1>6 DEF SaveIsThePage
<1>8. CacheIsRight'
  BY <1>1, <1>4, <1>5 DEF CacheIsRight, Unseen
<1>9. PageIsRight'
  BY <1>1, <1>2, <1>5, <1>6 DEF PageIsRight
<1>10. DOMAIN dayRows' = DayOfWeek
  BY <1>2, FilledDomain DEF PageTypes
<1>. QED  BY <1>1, <1>7, <1>8, <1>9, <1>10, NothingStored DEF PageTypes

LEMMA LoseKeeps ==
  ASSUME PageInv, Page!LoseHours
  PROVE  PageInv'
<1>. USE DEF PageInv
<1>1. /\ UNCHANGED <<rows, requests, open, dayRows, touched, saved, cached, stale, save>>
      /\ fetch'.at = "idle" /\ fetch'.new = FALSE /\ replaced' = (replaced \/ fetch.new)
  BY DEF Page!LoseHours, Page!vars, Page!page, Page!NoFetch
<1>3. SaveIsThePage'
  BY <1>1 DEF SaveIsThePage
<1>4. CacheIsRight'
  BY <1>1 DEF CacheIsRight, Unseen
<1>5. PageIsRight'
  BY <1>1 DEF PageIsRight
<1>. QED  BY <1>1, <1>3, <1>4, <1>5, NothingStored DEF PageTypes

LEMMA UpdateKeeps ==
  ASSUME PageInv, Page!Settled, NEW d \in DayOfWeek, NEW row, Page!updateRow(d, row)
  PROVE  PageInv'
<1>. USE DEF PageInv
<1>1. /\ UNCHANGED <<rows, requests, open, cached, stale, fetch, replaced, save>>
      /\ dayRows' = [dayRows EXCEPT ![d] = row] /\ touched' = touched \cup {d}
      /\ saved' = FALSE
  BY DEF Page!updateRow, Page!vars, Page!query
<1>2. save = Page!NoSave /\ save.at = "idle"
  BY DEF Page!Settled, Page!NoSave
<1>3. SaveIsThePage'
  BY <1>1, <1>2 DEF SaveIsThePage
<1>4. CacheIsRight'
  BY <1>1 DEF CacheIsRight, Unseen
<1>5. PageIsRight'
  BY <1>1, <1>2 DEF PageIsRight, PageTypes
<1>6. DOMAIN dayRows' = DayOfWeek
  BY <1>1 DEF PageTypes
<1>. QED  BY <1>1, <1>3, <1>4, <1>5, <1>6, NothingStored DEF PageTypes

LEMMA RefuseKeeps ==
  ASSUME PageInv, Page!RefuseToSave
  PROVE  PageInv'
<1>. USE DEF PageInv
<1>1. UNCHANGED <<rows, requests, open, dayRows, touched, saved, cached, stale, fetch,
                  replaced, save>>
  BY DEF Page!RefuseToSave, Page!vars, Page!query
<1>3. SaveIsThePage' /\ CacheIsRight' /\ PageIsRight'
  BY <1>1 DEF SaveIsThePage, CacheIsRight, Unseen, PageIsRight
<1>. QED  BY <1>1, <1>3, NothingStored DEF PageTypes

\* A save begins with the whole week of a page that is up to date.
LEMMA SaveKeeps ==
  ASSUME HoursAssumption, PageInv, Page!Settled, Page!handleSave
  PROVE  PageInv'
<1>. USE DEF PageInv
<1>. DEFINE body == Page!SetToSeq(EnteredOf(dayRows))
            state == [at |-> "deleting", driver |-> Me, body |-> body, meanwhile |-> {},
                      sees |-> rows[Me]]
<1>1. /\ UNCHANGED <<rows, open, dayRows, touched, saved, cached, stale, fetch, replaced>>
      /\ save' = [at |-> "sent", waits |-> TRUE]
      /\ requests' = [requests EXCEPT ![Mine] = state]
      /\ open /\ ~stale /\ cached # Unknown /\ save.at = "idle" /\ fetch.at = "idle"
      /\ EnteredOf(dayRows) \subseteq Window
  BY SameNames
  DEF Page!handleSave, Page!MaySave, Page!Delete, Page!Settled, Page!query, Page!NoSave,
      Page!NoFetch, Me
<1>2. body \in Seq(EnteredOf(dayRows)) /\ Week(body) = EnteredOf(dayRows)
  BY EnteredFinite, SequenceOfAll DEF HoursAssumption
<1>3. body \in Seq(Window) /\ rows[Me] \in SUBSET Window
  BY <1>1, <1>2, MeDrives DEF PageTypes
<1>. HIDE DEF body
<1>4. state \in PageRequest
  BY <1>3, MeDrives DEF PageRequest, Stages
<1>5. requests' \in [{Mine} -> PageRequest] /\ requests'[Mine] = state
  BY <1>1, <1>4 DEF PageTypes
<1>6. SaveIsThePage'
  BY <1>1, <1>2, <1>5 DEF SaveIsThePage
<1>7. CacheIsRight'
  BY <1>1 DEF CacheIsRight, Unseen
<1>8. PageIsRight'
  BY <1>1 DEF PageIsRight
<1>9. PageTypes' /\ NoOverlappingWindows'
  BY <1>1, <1>5 DEF PageTypes, NoOverlappingWindows
<1>. QED  BY <1>6, <1>7, <1>8, <1>9

LEMMA ReachesKeeps ==
  ASSUME HoursAssumption, PageInv, Page!Reaches(Mine)
  PROVE  PageInv'
<1>. USE DEF PageInv
<1>. DEFINE state == [requests[Mine] EXCEPT !.at = "deleted"]
<1>1. /\ UNCHANGED <<rows, open, dayRows, touched, saved, cached, stale, fetch, replaced,
                     save>>
      /\ requests' = [requests EXCEPT ![Mine] = state]
      /\ requests[Mine].at = "deleting" /\ requests[Mine] \in PageRequest
  BY DEF Page!Reaches, Page!Deleted, Page!page, Page!query, PageTypes
<1>2. /\ state \in PageRequest /\ state.at = "deleted" /\ state.driver = requests[Mine].driver
      /\ state.body = requests[Mine].body /\ state.sees = requests[Mine].sees
  BY <1>1 DEF PageRequest, Stages
<1>. HIDE DEF state
<1>3. requests' \in [{Mine} -> PageRequest] /\ requests'[Mine] = state
  BY <1>1, <1>2 DEF PageTypes
<1>4. save.at = "sent"
  BY <1>1, PageFree DEF SaveIsThePage
<1>5. SaveIsThePage'
  BY <1>1, <1>2, <1>3, <1>4 DEF SaveIsThePage
<1>6. CacheIsRight' /\ PageIsRight'
  BY <1>1 DEF CacheIsRight, Unseen, PageIsRight
<1>7. PageTypes' /\ NoOverlappingWindows'
  BY <1>1, <1>3 DEF PageTypes, NoOverlappingWindows
<1>. QED  BY <1>5, <1>6, <1>7

\* What a save stores: the week on the page and nothing else.
LEMMA StoresTheWeek ==
  ASSUME HoursAssumption, PageInv, Page!Stores(Mine)
  PROVE  /\ save.at = "sent" /\ EnteredOf(dayRows) \subseteq Window
         /\ rows' = [rows EXCEPT ![Me] = EnteredOf(dayRows)]
<1>. USE DEF PageInv
<1>1. requests[Mine].at = "deleted"
  BY DEF Page!Stores, Page!Commit
<1>2. /\ save.at = "sent" /\ requests[Mine].driver = Me /\ requests[Mine].sees = rows[Me]
      /\ Week(requests[Mine].body) = EnteredOf(dayRows) /\ EnteredOf(dayRows) \subseteq Window
  BY <1>1, PageFree DEF SaveIsThePage
<1>3. Page!Stored(Mine) = EnteredOf(dayRows)
  BY <1>2, SameNames DEF Page!Stored, Page!Kept
<1>. QED  BY <1>2, <1>3, SameNames DEF Page!Stores, Page!Commit

LEMMA StoresKeeps ==
  ASSUME HoursAssumption, PageInv, Page!Stores(Mine)
  PROVE  PageInv'
<1>. USE DEF PageInv
<1>1. /\ save.at = "sent" /\ EnteredOf(dayRows) \subseteq Window
      /\ rows' = [rows EXCEPT ![Me] = EnteredOf(dayRows)]
  BY StoresTheWeek
<1>2. /\ UNCHANGED <<open, dayRows, touched, saved, cached, stale, fetch>>
      /\ save' = [save EXCEPT !.at = "stored"]
      /\ replaced' = TRUE
      /\ requests' = [q \in {Mine} |-> Free]
  <2>1. requests[Mine].driver = Me
    BY <1>1 DEF SaveIsThePage
  <2>. QED  BY <2>1, SameNames DEF Page!Stores, Page!Commit, Page!page, Page!query, Me
<1>3. /\ save' \in [at: {"idle", "sent", "stored", "failed"}, waits: BOOLEAN]
      /\ save'.at = "stored"
  BY <1>2 DEF PageTypes
<1>4. rows' \in [Driver -> SUBSET Window] /\ rows'[Me] = EnteredOf(dayRows)
  BY <1>1, MeDrives DEF PageTypes
<1>5. requests' \in [{Mine} -> PageRequest] /\ requests'[Mine] = Free
  BY <1>2, PageFree
<1>6. PageTypes'
  BY <1>2, <1>3, <1>4, <1>5 DEF PageTypes
<1>7. SaveIsThePage'
  BY <1>1, <1>2, <1>3, <1>5 DEF SaveIsThePage
<1>8. ~stale /\ ~replaced /\ ~fetch.new
  BY <1>1 DEF SaveIsThePage, CacheIsRight, Unseen
<1>9. CacheIsRight'
  BY <1>1, <1>2, <1>3, <1>8 DEF CacheIsRight, Unseen
<1>10. PageIsRight'
  BY <1>2, <1>3, <1>4 DEF PageIsRight, SaveIsThePage
<1>11. \A v, w \in EnteredOf(dayRows) : v.weekday = w.weekday => v = w
  BY DEF EnteredOf
<1>12. NoOverlappingWindows'
  BY <1>1, <1>11, MeDrives DEF PageTypes, NoOverlappingWindows, Overlap
<1>. QED  BY <1>6, <1>7, <1>9, <1>10, <1>12

LEMMA FailsKeeps ==
  ASSUME HoursAssumption, PageInv, Page!Fails(Mine)
  PROVE  PageInv'
<1>. USE DEF PageInv
<1>1. /\ UNCHANGED <<rows, open, dayRows, touched, saved, cached, stale, fetch, replaced>>
      /\ save' = [save EXCEPT !.at = "failed"]
      /\ requests' = [requests EXCEPT ![Mine] = Free] /\ requests[Mine].at # "idle"
  BY SameNames DEF Page!Fails, Page!Rollback, Page!page, Page!query
<1>2. /\ save' \in [at: {"idle", "sent", "stored", "failed"}, waits: BOOLEAN]
      /\ save'.at = "failed"
  BY <1>1 DEF PageTypes
<1>3. requests' \in [{Mine} -> PageRequest] /\ requests'[Mine] = Free
  BY <1>1, PageFree DEF PageTypes
<1>4. save.at = "sent"
  BY <1>1, PageFree DEF SaveIsThePage
<1>5. SaveIsThePage'
  BY <1>1, <1>2, <1>3, <1>4 DEF SaveIsThePage
<1>6. CacheIsRight' /\ PageIsRight'
  BY <1>1, <1>2, <1>4 DEF CacheIsRight, Unseen, PageIsRight
<1>7. PageTypes' /\ NoOverlappingWindows'
  BY <1>1, <1>2, <1>3 DEF PageTypes, NoOverlappingWindows
<1>. QED  BY <1>5, <1>6, <1>7

\* The answer to a save: the page asks for the hours again.
LEMMA SavedKeeps ==
  ASSUME PageInv, Page!HearSaved
  PROVE  PageInv'
<1>. USE DEF PageInv
<1>1. /\ UNCHANGED <<rows, requests, open, dayRows, touched, cached>>
      /\ save.at = "stored" /\ save' = Page!NoSave /\ save'.at = "idle"
      /\ saved' = (saved \/ save.waits) /\ stale' = TRUE /\ open /\ cached # Unknown
  BY DEF Page!HearSaved, Page!vars, Page!NoSave, SaveIsThePage
<1>2. /\ fetch'.at = "asked" /\ fetch'.new = FALSE /\ replaced' = (replaced \/ fetch.new)
  BY <1>1 DEF Page!HearSaved, Page!NoFetch
<1>3. SaveIsThePage'
  BY <1>1 DEF SaveIsThePage
<1>4. CacheIsRight'
  BY <1>1, <1>2 DEF CacheIsRight, Unseen
<1>5. PageIsRight'
  BY <1>1, <1>2 DEF PageIsRight
<1>6. (save \in [at: {"idle", "sent", "stored", "failed"}, waits: BOOLEAN])'
  BY <1>1 DEF Page!NoSave
<1>. QED  BY <1>1, <1>2, <1>3, <1>4, <1>5, <1>6, NothingStored DEF PageTypes

LEMMA FailureKeeps ==
  ASSUME PageInv, Page!HearFailure, save.at = "failed"
  PROVE  PageInv'
<1>. USE DEF PageInv
<1>1. /\ UNCHANGED <<rows, requests, open, dayRows, touched, saved, cached, stale, fetch,
                     replaced>>
      /\ save' = Page!NoSave /\ save'.at = "idle"
  BY DEF Page!HearFailure, Page!vars, Page!query, Page!NoSave
<1>2. SaveIsThePage'
  BY <1>1 DEF SaveIsThePage
<1>3. CacheIsRight' /\ PageIsRight'
  BY <1>1 DEF CacheIsRight, Unseen, PageIsRight
<1>4. (save \in [at: {"idle", "sent", "stored", "failed"}, waits: BOOLEAN])'
  BY <1>1 DEF Page!NoSave
<1>. QED  BY <1>1, <1>2, <1>3, <1>4, NothingStored DEF PageTypes

LEMMA PageStarts ==
  ASSUME HoursAssumption, Page!PageInit
  PROVE  PageInv
<1>1. /\ rows \in [Driver -> SUBSET Window]
      /\ requests = [r \in {Mine} |-> Free]
      /\ \A d \in Driver : \A v, w \in rows[d] : Overlap(v, w) => v = w
  BY SameNames DEF Page!PageInit, Page!Overlap, Overlap
<1>2. /\ open = FALSE /\ saved = FALSE /\ stale = FALSE /\ replaced = FALSE /\ cached = Unknown
      /\ fetch.at = "idle" /\ fetch.new = FALSE /\ save = Page!NoSave
      /\ DOMAIN dayRows = DayOfWeek
  BY DEF Page!PageInit, Page!Closed, Page!NoFetch, Page!defaultRows
<1>3. save \in [at: {"idle", "sent", "stored", "failed"}, waits: BOOLEAN] /\ save.at = "idle"
  BY <1>2 DEF Page!NoSave
<1>4. PageTypes /\ requests[Mine] = Free
  BY <1>1, <1>2, <1>3, PageFree DEF PageTypes
<1>. QED  BY <1>1, <1>2, <1>3, <1>4
          DEF PageInv, SaveIsThePage, CacheIsRight, Unseen, PageIsRight, NoOverlappingWindows

LEMMA PageKeeps ==
  ASSUME HoursAssumption, PageInv, CalmNext
  PROVE  PageInv'
<1>1. CASE Page!Settled /\ Page!Touch
  <2>1. ASSUME NEW d \in DayOfWeek, Page!ToggleDay(d) PROVE PageInv'
    BY <1>1, <2>1, UpdateKeeps DEF Page!ToggleDay
  <2>2. ASSUME NEW d \in DayOfWeek, NEW time \in Hour, Page!SetTime(d, time) PROVE PageInv'
    BY <1>1, <2>2, UpdateKeeps DEF Page!SetTime
  <2>. QED  BY <1>1, <2>1, <2>2, LeaveKeeps, SaveKeeps, RefuseKeeps DEF Page!Touch
<1>2. CASE Page!Answers
  BY <1>2, AskKeeps, AnswerKeeps, ShowKeeps, LoseKeeps, ReachesKeeps, StoresKeeps, FailsKeeps,
     SavedKeeps DEF Page!Answers
<1>. QED  BY <1>1, <1>2, OpenKeeps, FailureKeeps DEF CalmNext

-----------------------------------------------------------------------------
(* The server and the page together *)

HoursInv == IF atPage THEN PageInv ELSE ServerInv

LEMMA ServerStarts ==
  ASSUME HoursAssumption, Init
  PROVE  ServerInv
<1>1. Free \in RequestState /\ Free.at = "idle"
  BY FreeType DEF HoursAssumption
<1>2. ServerTypes
  BY <1>1 DEF Init, ServerTypes
<1>3. UnseenIsRecent /\ NoOverlappingWindows /\ SeesAll
  BY <1>1 DEF Init, UnseenIsRecent, NoOverlappingWindows, SeesAll
<1>. QED  BY <1>2, <1>3 DEF ServerInv

LEMMA HoursStutter ==
  ASSUME HoursInv, UNCHANGED MCVars
  PROVE  HoursInv'
<1>1. UNCHANGED <<rows, requests, atPage, inTurn, open, dayRows, touched, cached, stale,
                  replaced, fetch, save, saved, error>>
  BY DEF MCVars, vars, screen
<1>2. CASE ~atPage
  BY <1>1, <1>2
  DEF HoursInv, ServerInv, ServerTypes, UnseenIsRecent, SeesAll, NoOverlappingWindows
<1>3. CASE atPage
  BY <1>1, <1>3
  DEF HoursInv, PageInv, PageTypes, SaveIsThePage, CacheIsRight, Unseen, PageIsRight,
      NoOverlappingWindows
<1>. QED  BY <1>2, <1>3

\* Requests at the server keep the windows of a driver apart where they come one after
\* the other; the page knows which hours are stored (drivers_api.py, set_my_schedule;
\* DriverScheduleScreen.tsx).
THEOREM HoursInvHolds ==
  ASSUME HoursAssumption
  PROVE  MCSpec => []HoursInv
<1>1. MCInit => HoursInv
  BY ServerStarts, PageStarts DEF MCInit, HoursInv
<1>2. HoursInv /\ [MCNext]_MCVars => HoursInv'
  <2>1. ASSUME HoursInv, ~atPage, ServerNext, UNCHANGED <<atPage, inTurn>> PROVE HoursInv'
    BY <2>1, ServerKeeps DEF HoursInv
  <2>2. ASSUME HoursInv, atPage, CalmNext, UNCHANGED <<atPage, inTurn>> PROVE HoursInv'
    BY <2>2, PageKeeps DEF HoursInv
  <2>. QED  BY <2>1, <2>2, HoursStutter DEF MCNext
<1>. QED  BY <1>1, <1>2, PTL DEF MCSpec

\* A request that ends having changed the hours has been committed.
LEMMA OnlyCommitsStore ==
  ASSUME ServerInv, ServerNext, NEW r \in Request,
         requests[r].at = "deleted", requests'[r].at = "idle",
         rows'[requests[r].driver] # rows[requests[r].driver]
  PROVE  Commit(r)
<1>1. PICK q \in Request : Commit(q)
  BY DEF ServerNext, Delete, Deleted, Rollback
<1>2. CASE q # r
  <2>1. requests'[r] = Overtake(r, requests[q].sees, Week(requests[q].body), requests[q].driver)
    BY <1>1, <1>2 DEF Commit
  <2>2. requests'[r].at = "deleted"
    BY <2>1 DEF Overtake, ServerInv, ServerTypes, RequestState
  <2>. QED  BY <2>2
<1>. QED  BY <1>1, <1>2

\* Replacing the week leaves nothing of what was stored before the request began, however
\* requests overlap (drivers_api.py, set_my_schedule).
THEOREM OldHoursGoAway ==
  ASSUME HoursAssumption
  PROVE  MCSpec => OldHoursAreGone
<1>1. HoursInv /\ [MCNext]_MCVars => [~atPage => OldHoursGo]_MCVars
  <2>. SUFFICES ASSUME HoursInv, MCNext, ~atPage, NEW r \in Request,
                       requests[r].at = "deleted", requests'[r].at = "idle",
                       rows'[requests[r].driver] # rows[requests[r].driver]
                PROVE  rows'[requests[r].driver]
                         \subseteq Week(requests[r].body) \cup requests[r].meanwhile
    BY DEF OldHoursGo
  <2>1. ServerInv /\ ServerNext
    BY DEF HoursInv, MCNext
  <2>2. Commit(r) /\ requests[r].driver \in Driver
    BY <2>1, OnlyCommitsStore DEF ServerInv, ServerTypes, RequestState
  <2>3. rows'[requests[r].driver] = Stored(r)
    BY <2>1, <2>2 DEF Commit, ServerInv, ServerTypes
  <2>4. Kept(r) \subseteq requests[r].meanwhile
    BY <2>1 DEF Kept, ServerInv, UnseenIsRecent
  <2>. QED  BY <2>3, <2>4 DEF Stored
<1>. QED  BY <1>1, HoursInvHolds, PTL DEF MCSpec, OldHoursAreGone

\* A driver's stored hours do not overlap where requests come one after the other
\* (drivers_api.py, set_my_schedule).
THEOREM HoursAreDisjoint ==
  ASSUME HoursAssumption
  PROVE  MCSpec => []NoOverlappingWindowsInTurn
<1>1. HoursInv => NoOverlappingWindowsInTurn
  BY DEF HoursInv, PageInv, ServerInv, NoOverlappingWindowsInTurn
<1>. QED  BY <1>1, HoursInvHolds, PTL

\* When the page says that the hours are saved, they are those on the page
\* (DriverScheduleScreen.tsx, updateRow and handleSave).
THEOREM SavedHoursAreStored ==
  ASSUME HoursAssumption
  PROVE  MCSpec => []SavedIsStoredWhenCalm
<1>1. HoursInv => SavedIsStoredWhenCalm
  BY SameNames DEF HoursInv, PageInv, PageIsRight, SavedIsStoredWhenCalm, Page!SavedIsStored, Me
<1>. QED  BY <1>1, HoursInvHolds, PTL

LEMMA OnlySavesStore ==
  ASSUME CalmNext
  PROVE  UNCHANGED rows \/ Page!Stores(Mine)
<1>1. CASE Page!Open \/ Page!HearFailure
  BY <1>1 DEF Page!Open, Page!HearFailure, Page!vars
<1>2. CASE Page!Touch
  BY <1>2
  DEF Page!Touch, Page!Leave, Page!ToggleDay, Page!SetTime, Page!updateRow, Page!handleSave,
      Page!Delete, Page!RefuseToSave, Page!vars
<1>3. CASE Page!Answers
  BY <1>3
  DEF Page!Answers, Page!Ask, Page!AnswerHours, Page!ShowHours, Page!LoseHours, Page!Reaches,
      Page!Deleted, Page!Fails, Page!Rollback, Page!HearSaved, Page!vars
<1>. QED  BY <1>1, <1>2, <1>3 DEF CalmNext

\* Where the page has not been told to change a weekday, its row shows what is stored.
LEMMA SaveKeepsOtherDays ==
  ASSUME HoursAssumption, PageInv, Page!Stores(Mine)
  PROVE  Page!KeepsUntouchedDays
<1>. USE DEF PageInv
<1>1. /\ save.at = "sent" /\ rows'[Me] = EnteredOf(dayRows) /\ rows[Me] \in SUBSET Window
  BY StoresTheWeek, MeDrives DEF PageTypes
<1>2. open /\ cached = rows[Me] /\ cached # Unknown
  BY <1>1 DEF SaveIsThePage, CacheIsRight, Unseen
<1>3. ASSUME NEW d \in DayOfWeek, d \notin touched, ~(Cardinality(On(rows[Me], d)) > 1)
      PROVE  On(rows'[Me], d) = On(rows[Me], d)
  <2>1. dayRows[d] = Page!Filled(rows[Me])[d]
    BY <1>2, <1>3 DEF PageIsRight
  <2>2. IsFiniteSet(Window) /\ On(rows[Me], d) \in SUBSET Window
    BY <1>1, WindowFinite DEF HoursAssumption, On
  <2>3. IsFiniteSet(On(rows[Me], d))
    BY <2>2, FS_Subset
  <2>4. \A v, w \in On(rows[Me], d) : v = w
    BY <1>3, <2>3, AtMostOne
  <2>. QED  BY <1>1, <2>1, <2>4, RowShowsItsDay
<1>. QED  BY <1>3, SameNames, SameCardinality DEF Page!KeepsUntouchedDays, Me

\* A save changes no hours but those of the days the driver has changed
\* (DriverScheduleScreen.tsx, handleSave).
THEOREM SavesKeepOtherDays ==
  ASSUME HoursAssumption
  PROVE  MCSpec => UntouchedDaysKeptWhenCalm
<1>1. HoursInv /\ [MCNext]_MCVars => [atPage => Page!KeepsUntouchedDays]_MCVars
  <2>1. ASSUME HoursInv, MCNext, atPage PROVE Page!KeepsUntouchedDays
    <3>1. PageInv /\ (UNCHANGED rows \/ Page!Stores(Mine))
      BY <2>1, OnlySavesStore DEF HoursInv, MCNext
    <3>2. CASE UNCHANGED rows
      BY <3>2 DEF Page!KeepsUntouchedDays
    <3>. QED  BY <3>1, <3>2, SaveKeepsOtherDays
  <2>. QED  BY <2>1
<1>. QED  BY <1>1, HoursInvHolds, PTL DEF MCSpec, UntouchedDaysKeptWhenCalm

=============================================================================
