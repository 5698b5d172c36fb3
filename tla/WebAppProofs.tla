---------------------------- MODULE WebAppProofs ----------------------------
(***************************************************************************)
(* For every course of the start, the onboarding and the requests: nobody  *)
(* works in the app before being cleared, nobody is shown the page for     *)
(* blocked accounts, and a logout is for good unless a refresh was on its  *)
(* way.                                                                    *)
(*                                                                         *)
(* For every course of the address picker: suggestions are for the text in *)
(* the search field, and to a user who waits for answers the name under    *)
(* the map is that of its point.                                           *)
(***************************************************************************)
EXTENDS MCWebApp, Naturals, TLAPS

InFlight(c) == calls[c].at # "idle"

\* An administrator has decided on the account and its profile is complete.
Cleared(m) == m.name /\ m.phone /\ m.status # "pending"

\* What was told of the account may be old, but never ahead of it.
Outdated(m) ==
  m # Nobody =>
    /\ account # Nobody /\ m.status # "blocked"
    /\ m.name => account.name
    /\ m.phone => account.phone
    /\ m.status # "pending" => account.status # "pending"

Copies == Outdated(user) /\ \A c \in Caller : Outdated(calls[c].got)

Callers ==
  /\ calls["page"].op = "any" /\ calls["page"].at # "answered"
  /\ calls["form"].op \in {"me", "profile", "any"}
  /\ calls["boot"].op \in {"login", "refresh", "me", "any"}
  /\ \A c \in Caller : calls[c].op = "refresh" => calls[c].at = "refreshing"
  /\ InFlight("widget") => calls["widget"].op = "login"
  /\ \A c \in Caller : calls[c].op = "login" => calls[c].at \in {"sent", "answered"}
  /\ \A c \in Caller \ {"page"} : calls[c].op = "any" => calls[c].at \in {"idle", "begun"}
  /\ \A c \in Caller : calls[c].at # "answered" => calls[c].got = Nobody

\* Before the start is over nothing but the start is under way; afterwards it is.
Starting ==
  IF authReady THEN ~InFlight("boot")
  ELSE /\ user = Nobody /\ ~leaving /\ \A c \in Caller \ {"boot"} : ~InFlight(c)
       /\ calls["boot"].op = "me" => accessToken

\* The widget is for those without a session, the form for those not cleared.
Onboards ==
  /\ user # Nobody => accessToken
  /\ InFlight("widget") => user = Nobody
  /\ InFlight("form") => user # Nobody /\ ~Cleared(user)

\* Pages at work send requests of cleared accounts, and nobody falls behind that.
Works ==
  leaving \/ InFlight("page") =>
    /\ account # Nobody /\ Cleared(account)
    /\ ~InFlight("form")
    /\ user # Nobody => Cleared(user)
    /\ calls["widget"].got # Nobody => Cleared(calls["widget"].got)

\* Nothing under way could bring a session back, a new login apart.
Out ==
  left = "clean" =>
    /\ ~stored /\ ~accessToken /\ user = Nobody
    /\ \A c \in Caller :
         calls[c].at # "refreshing" /\ (InFlight(c) => calls[c].op \in {"login", "any"})

IInv == TypeOK /\ Copies /\ Callers /\ Starting /\ Onboards /\ Works /\ Out

-----------------------------------------------------------------------------
\* Changing what one caller does leaves the others as they were.
LEMMA BecomesOne ==
  ASSUME TypeOK, NEW c \in Caller, NEW call \in Call, Becomes(c, call)
  PROVE  /\ calls' \in [Caller -> Call]
         /\ calls'[c] = call
         /\ \A b \in Caller : b # c => calls'[b] = calls[b]
BY DEF TypeOK, Becomes

\* What a call and a description of an account are made of.
LEMMA Records ==
  /\ Idle \in Call /\ Idle.at = "idle" /\ Idle.op = "any" /\ Idle.got = Nobody
  /\ \A op \in {"login", "refresh", "me", "profile", "any"} :
       Sent(op) \in Call /\ Sent(op).at = "sent" /\ Sent(op).op = op /\ Sent(op).got = Nobody
  /\ Nobody \notin Me
  /\ \A m \in Me \cup {Nobody} :
       /\ m.name \in BOOLEAN /\ m.phone \in BOOLEAN /\ m.role \in Role
       /\ m # Nobody => m.status \in Status
<1>1. Nobody \notin Me
  <2>1. Nobody.status = "none"
    BY DEF Nobody
  <2>. QED  BY <2>1 DEF Me, Status
<1>2. Nobody.name = FALSE /\ Nobody.phone = FALSE /\ Nobody.role = "user"
  BY DEF Nobody
<1>3. Idle \in Call /\ Idle.at = "idle" /\ Idle.op = "any" /\ Idle.got = Nobody
  BY DEF Idle, Call
<1>4. ASSUME NEW op \in {"login", "refresh", "me", "profile", "any"}
      PROVE  Sent(op) \in Call /\ Sent(op).at = "sent" /\ Sent(op).op = op /\ Sent(op).got = Nobody
  BY <1>3 DEF Sent, Call, Idle
<1>5. ASSUME NEW m \in Me \cup {Nobody}
      PROVE  /\ m.name \in BOOLEAN /\ m.phone \in BOOLEAN /\ m.role \in Role
             /\ m # Nobody => m.status \in Status
  BY <1>2 DEF Me, Role
<1>. QED  BY <1>1, <1>3, <1>4, <1>5

\* The onboarding's place stays a Boolean.
LEMMA PlaceType ==
  ASSUME KeepsPlace, showSlides \in BOOLEAN
  PROVE  showSlides' \in BOOLEAN
BY DEF KeepsPlace, isAuthenticated

\* The call of a start that begins.
LEMMA BegunCall ==
  /\ [Idle EXCEPT !.at = "begun"] \in Call
  /\ [Idle EXCEPT !.at = "begun"].at = "begun" /\ [Idle EXCEPT !.at = "begun"].op = "any"
  /\ [Idle EXCEPT !.at = "begun"].got = Nobody
BY DEF Idle, Call

\* When the page opens, only the start is under way.
LEMMA Begun ==
  ASSUME calls = [c \in Caller |-> IF c = "boot" THEN [Idle EXCEPT !.at = "begun"] ELSE Idle]
  PROVE  /\ calls \in [Caller -> Call]
         /\ calls["boot"].at = "begun" /\ \A c \in Caller \ {"boot"} : calls[c].at = "idle"
         /\ \A c \in Caller : calls[c].op = "any" /\ calls[c].got = Nobody
BY BegunCall, Records DEF Caller

\* The invariant holds when the page is opened first.
LEMMA Initially ==
  ASSUME Init
  PROVE  IInv
<1>1. TypeOK
  BY Begun DEF Init, Opened, TypeOK, Role, UserScreen, DriverScreen
<1>2. Copies /\ Callers
  BY Begun DEF Init, Opened, Copies, Outdated, Callers, Caller, InFlight
<1>3. Starting /\ Onboards /\ Works /\ Out
  BY Begun DEF Init, Opened, Starting, InFlight, Onboards, Works, Out, Caller
<1>. QED  BY <1>1, <1>2, <1>3 DEF IInv

-----------------------------------------------------------------------------
(* Steps *)

\* Going from page to page touches nothing the invariant relates.
LEMMA Moving ==
  ASSUME IInv, UNCHANGED <<account, session, authReady, calls, leaving, left, role>>,
         adminViewAs' \in Role, userScreen' \in UserScreen, driverScreen' \in DriverScreen,
         showSlides' \in BOOLEAN
  PROVE  IInv'
BY DEF IInv, TypeOK, Copies, Outdated, Callers, Starting, InFlight, Onboards, Works, Out,
   session, Cleared

\* A reload leaves only what localStorage holds and a start.
LEMMA Reloading ==
  ASSUME IInv, Reload
  PROVE  IInv'
<1>1. /\ calls' \in [Caller -> Call]
      /\ calls'["boot"].at = "begun" /\ \A c \in Caller \ {"boot"} : calls'[c].at = "idle"
      /\ \A c \in Caller : calls'[c].op = "any" /\ calls'[c].got = Nobody
  BY BegunCall, Records DEF Reload, Caller
<1>2. TypeOK'
  BY <1>1 DEF Reload, IInv, TypeOK, Role, UserScreen, DriverScreen
<1>3. Copies' /\ Callers'
  BY <1>1 DEF Reload, Copies, Outdated, Callers, Caller, InFlight
<1>4. Starting' /\ Onboards' /\ Works' /\ Out'
  BY <1>1 DEF Reload, IInv, Starting, InFlight, Onboards, Works, Out, Caller
<1>. QED  BY <1>2, <1>3, <1>4 DEF IInv

\* The session is given up, and with it what was under way for caller c.
LEMMA Giving ==
  ASSUME IInv, NEW c \in Caller, InFlight(c), c = "boot" \/ calls[c].op # "login",
         Becomes(c, Idle), clearAuth, showSlides' \in BOOLEAN,
         UNCHANGED <<account, leaving, left>>
  PROVE  IInv'
<1>1. /\ calls' \in [Caller -> Call]
      /\ calls'[c] = Idle
      /\ \A b \in Caller : b # c => calls'[b] = calls[b]
  BY BecomesOne, Records DEF IInv
<1>2. c = "form" \/ ~InFlight("form")
  BY DEF IInv, Starting, Works, Callers, InFlight, Caller
<1>3. TypeOK'
  BY <1>1 DEF clearAuth, IInv, TypeOK, Role, DriverScreen
<1>4. Copies' /\ Callers'
  BY <1>1, Records DEF clearAuth, IInv, Copies, Outdated, Callers, InFlight, Caller
<1>5. Starting'
  BY <1>1, Records DEF clearAuth, IInv, Starting, InFlight, Caller
<1>6. Onboards'
  BY <1>1, <1>2, Records DEF clearAuth, IInv, Onboards, InFlight, Caller
<1>7. Works'
  BY <1>1, Records DEF clearAuth, IInv, Works, InFlight, Caller, Cleared
<1>8. Out'
  BY <1>1, Records DEF clearAuth, IInv, Out, InFlight
<1>. QED  BY <1>3, <1>4, <1>5, <1>6, <1>7, <1>8 DEF IInv

\* The request of caller c goes on.
LEMMA GoingOn ==
  ASSUME IInv, NEW c \in Caller, InFlight(c), NEW call \in Call, Becomes(c, call),
         call.at \notin {"idle", "answered"}, call.got = Nobody,
         call.op = calls[c].op \/ c = "boot",
         call.op = "login" => call.at = "sent",
         call.op = "any" => c = "page",
         call.op = "me" => calls[c].op = "me",
         call.op = "refresh" => call.at = "refreshing",
         c = "boot" => call.op \in {"login", "refresh", "me"},
         left = "clean" => call.at # "refreshing" /\ call.op \in {"login", "any"},
         showSlides' \in BOOLEAN, UNCHANGED <<account, store, leaving, left>>
  PROVE  IInv'
<1>1. /\ calls' \in [Caller -> Call]
      /\ calls'[c] = call
      /\ \A b \in Caller : b # c => calls'[b] = calls[b]
  BY BecomesOne DEF IInv
<1>2. \A b \in Caller : InFlight(b)' <=> InFlight(b)
  BY <1>1 DEF InFlight
<1>3. TypeOK'
  BY <1>1 DEF IInv, TypeOK, store, session, shown
<1>4. Copies'
  BY <1>1 DEF IInv, Copies, Outdated, store, session
<1>5. Callers'
  BY <1>1, <1>2 DEF IInv, Callers, Caller
<1>6. Starting' /\ Onboards'
  BY <1>1, <1>2 DEF IInv, Starting, Onboards, Caller, Cleared, store, session
<1>7. Works'
  BY <1>1, <1>2 DEF IInv, Works, Caller, Cleared, store, session
<1>8. Out'
  BY <1>1, <1>2 DEF IInv, Out, store, session
<1>. QED  BY <1>3, <1>4, <1>5, <1>6, <1>7, <1>8 DEF IInv

\* The request of caller c ends without consequence.
LEMMA Ending ==
  ASSUME IInv, NEW c \in Caller, c # "boot", Becomes(c, Idle),
         showSlides' \in BOOLEAN, UNCHANGED <<account, store, leaving, left>>
  PROVE  IInv'
<1>1. /\ calls' \in [Caller -> Call]
      /\ calls'[c] = Idle
      /\ \A b \in Caller : b # c => calls'[b] = calls[b]
  BY BecomesOne, Records DEF IInv
<1>2. TypeOK'
  BY <1>1 DEF IInv, TypeOK, store, session, shown
<1>3. Copies' /\ Callers'
  BY <1>1, Records DEF IInv, Copies, Outdated, Callers, InFlight, Caller, store, session
<1>4. Starting' /\ Onboards'
  BY <1>1, Records DEF IInv, Starting, Onboards, InFlight, Caller, Cleared, store, session
<1>5. Works' /\ Out'
  BY <1>1, Records DEF IInv, Works, Out, InFlight, Caller, Cleared, store, session
<1>. QED  BY <1>2, <1>3, <1>4, <1>5 DEF IInv

\* A silent refresh, or none: the start goes on or is over.
LEMMA Trying ==
  ASSUME IInv, TrySilently, InFlight("boot"), showSlides' \in BOOLEAN,
         UNCHANGED <<account, leaving, left>>
  PROVE  IInv'
<1>0. "boot" \in Caller
  BY DEF Caller
<1>1. CASE stored
  <2>. DEFINE call == [Idle EXCEPT !.at = "refreshing", !.op = "refresh"]
  <2>1. call \in Call /\ call.at = "refreshing" /\ call.op = "refresh" /\ call.got = Nobody
    BY DEF Idle, Call
  <2>2. Becomes("boot", call) /\ UNCHANGED store /\ left # "clean"
    BY <1>1 DEF TrySilently, IInv, Out
  <2>. HIDE DEF call
  <2>. QED  BY <1>0, <2>1, <2>2, GoingOn
<1>2. CASE ~stored
  BY <1>0, <1>2, Giving DEF TrySilently
<1>. QED  BY <1>1, <1>2

\* The start asks for a login, a refresh, or is over.
LEMMA Beginning ==
  ASSUME IInv, Begin
  PROVE  IInv'
<1>1. InFlight("boot") /\ "boot" \in Caller
  BY DEF Begin, InFlight, Caller
<1>2. showSlides' \in BOOLEAN
  BY PlaceType DEF Begin, IInv, TypeOK
<1>3. CASE Becomes("boot", Sent("login")) /\ UNCHANGED store
  BY <1>1, <1>2, <1>3, Records, GoingOn DEF Begin
<1>4. CASE TrySilently
  BY <1>1, <1>2, <1>4, Trying DEF Begin
<1>. QED  BY <1>3, <1>4 DEF Begin

-----------------------------------------------------------------------------
(* A request on its way *)

\* What the server does to the account leaves every copy of it behind, not ahead.
LEMMA Answering ==
  ASSUME IInv, NEW c \in Caller, InFlight(c), c # "page",
         calls[c].op \in {"login", "me", "profile"},
         account' \in Me, account'.status # "blocked",
         account # Nobody =>
           /\ account.name => account'.name
           /\ account.phone => account'.phone
           /\ account'.status = account.status,
         Becomes(c, [calls[c] EXCEPT !.at = "answered", !.got = account']),
         left = "clean" => calls[c].op \in {"login", "any"},
         UNCHANGED <<store, showSlides, leaving, left>>
  PROVE  IInv'
<1>. DEFINE call == [calls[c] EXCEPT !.at = "answered", !.got = account']
<1>0. calls[c] \in Call
  BY DEF IInv, TypeOK
<1>1. call \in Call /\ call.at = "answered" /\ call.got = account' /\ call.op = calls[c].op
  BY <1>0 DEF Call
<1>2. /\ calls' \in [Caller -> Call]
      /\ calls'[c] = call
      /\ \A b \in Caller : b # c => calls'[b] = calls[b]
  BY <1>1, BecomesOne DEF IInv
<1>. HIDE DEF call
<1>3. \A b \in Caller : InFlight(b)' <=> InFlight(b)
  BY <1>1, <1>2 DEF InFlight
<1>4. TypeOK'
  BY <1>2 DEF IInv, TypeOK, store, session, shown
<1>5. Copies'
  <2>1. \A m : Outdated(m) => Outdated(m)'
    BY Records DEF Outdated
  <2>2. Outdated(account)'
    BY Records DEF Outdated
  <2>. QED  BY <1>1, <1>2, <2>1, <2>2 DEF IInv, Copies, Outdated, store, session
<1>6. Callers'
  BY <1>1, <1>2, <1>3 DEF IInv, Callers, Caller
<1>7. Starting' /\ Onboards'
  BY <1>1, <1>2, <1>3 DEF IInv, Starting, Onboards, Caller, Cleared, store, session
<1>8. Works'
  BY <1>1, <1>2, <1>3, Records DEF IInv, Works, Caller, Cleared, store, session
<1>9. Out'
  BY <1>1, <1>2, <1>3 DEF IInv, Out, store, session
<1>. QED  BY <1>4, <1>5, <1>6, <1>7, <1>8, <1>9 DEF IInv

\* The server's answer to a login.
LEMMA ServingLogin ==
  ASSUME IInv, NEW c \in Caller, ServeLogin(c)
  PROVE  IInv'
<1>1. InFlight(c) /\ c # "page" /\ calls[c].op = "login"
  BY DEF ServeLogin, InFlight, IInv, Callers
<1>2. account' \in Me /\ account'.status # "blocked"
  <2>1. CASE account # Nobody /\ account.status # "blocked" /\ UNCHANGED account
    BY <2>1 DEF IInv, TypeOK
  <2>2. CASE \E named \in BOOLEAN :
               account' = [name |-> named, phone |-> FALSE, role |-> "user", status |-> "pending"]
    BY <2>2 DEF Me, Role, Status
  <2>. QED  BY <2>1, <2>2 DEF ServeLogin
<1>3. account # Nobody => account' = account
  BY DEF ServeLogin
<1>. QED  BY <1>1, <1>2, <1>3, Answering DEF ServeLogin

\* The server's answer to a request with an access token.
LEMMA Serving ==
  ASSUME IInv, NEW c \in Caller, Serve(c)
  PROVE  IInv'
<1>1. \/ InFlight(c) /\ calls[c].op \in {"me", "profile", "any"} /\ left # "clean"
      \/ calls[c].op = "any"
  BY DEF Serve, InFlight, IInv, Out
<1>2. /\ account' \in Me /\ account'.status = account.status /\ account'.status # "blocked"
      /\ account.name => account'.name
      /\ account.phone => account'.phone
  BY DEF Serve, IInv, TypeOK, Me
<1>3. CASE calls[c].op = "any"
  <2>1. account' = account
    BY <1>3 DEF Serve
  <2>2. showSlides' \in BOOLEAN /\ c # "boot"
    BY <1>3 DEF Serve, IInv, TypeOK, Callers
  <2>. QED  BY <1>3, <2>1, <2>2, Ending DEF Serve
<1>4. CASE calls[c].op # "any"
  <2>1. c # "page"
    BY <1>4 DEF IInv, Callers
  <2>. QED  BY <1>1, <1>2, <1>4, <2>1, Answering DEF Serve, InFlight
<1>. QED  BY <1>3, <1>4

\* Whatever a caller does about a failure keeps the invariant.
LEMMA Failing ==
  ASSUME IInv, NEW c \in Caller, InFlight(c), Failed(c), showSlides' \in BOOLEAN,
         UNCHANGED <<account, leaving, left>>
  PROVE  IInv'
BY Trying, Giving, Ending DEF Failed

\* An answer 401: refresh, repeat, or give the session up.
LEMMA BeingUnauthorised ==
  ASSUME IInv, NEW c \in Caller, Unauthorised(c)
  PROVE  IInv'
<1>1. InFlight(c) /\ calls[c].op # "login" /\ calls[c].op \in {"me", "profile", "any"}
  BY DEF Unauthorised, InFlight
<1>2. showSlides' \in BOOLEAN
  BY PlaceType DEF Unauthorised, IInv, TypeOK
<1>3. CASE /\ calls[c].at = "sent" /\ stored
           /\ Becomes(c, [calls[c] EXCEPT !.at = "refreshing"])
           /\ UNCHANGED store
  <2>. DEFINE call == [calls[c] EXCEPT !.at = "refreshing"]
  <2>1. call \in Call /\ call.at = "refreshing" /\ call.op = calls[c].op /\ call.got = calls[c].got
    BY DEF IInv, TypeOK, Call
  <2>2. calls[c].got = Nobody /\ left # "clean" /\ (calls[c].op = "any" => c = "page")
        /\ (c = "boot" => calls[c].op = "me")
    BY <1>1, <1>3 DEF IInv, Callers, Out
  <2>3. Becomes(c, call) /\ UNCHANGED <<account, store, leaving, left>>
    BY <1>3 DEF Unauthorised
  <2>. HIDE DEF call
  <2>. QED  BY <1>1, <1>2, <2>1, <2>2, <2>3, GoingOn
<1>4. CASE calls[c].at = "sent" /\ ~stored /\ Becomes(c, Idle) /\ clearAuth
  BY <1>1, <1>2, <1>4, Giving DEF Unauthorised
<1>5. CASE calls[c].at = "resent" /\ Failed(c)
  BY <1>1, <1>2, <1>5, Failing DEF Unauthorised
<1>. QED  BY <1>3, <1>4, <1>5 DEF Unauthorised

\* A refresh that is refused ends the session.
LEMMA BeingRefused ==
  ASSUME IInv, NEW c \in Caller, Refused(c)
  PROVE  IInv'
<1>1. InFlight(c) /\ calls[c].op # "login"
  BY DEF Refused, InFlight, IInv, Callers
<1>2. showSlides' \in BOOLEAN
  BY PlaceType DEF Refused, IInv, TypeOK
<1>. QED  BY <1>1, <1>2, Giving DEF Refused

\* A request that fails otherwise.
LEMMA Losing ==
  ASSUME IInv, NEW c \in Caller, Lose(c)
  PROVE  IInv'
<1>1. InFlight(c)
  BY DEF Lose, InFlight
<1>2. showSlides' \in BOOLEAN
  BY PlaceType DEF Lose, IInv, TypeOK
<1>. QED  BY <1>1, <1>2, Failing DEF Lose

\* Whoever refreshes has not logged out cleanly.
LEMMA BeingGranted ==
  ASSUME IInv, NEW c \in Caller, Granted(c)
  PROVE  IInv'
<1>. DEFINE call == IF calls[c].op = "refresh" THEN Sent("me")
                    ELSE [calls[c] EXCEPT !.at = "resent"]
<1>0. calls[c] \in Call /\ calls[c].at = "refreshing" /\ calls[c].got = Nobody
  BY DEF Granted, IInv, TypeOK, Callers
<1>1. /\ call \in Call /\ call.at \in {"sent", "resent"} /\ call.got = Nobody
      /\ call.op = calls[c].op \/ (calls[c].op = "refresh" /\ call.op = "me")
      /\ call.op # "refresh"
  BY <1>0, Records DEF Call
<1>2. /\ calls' \in [Caller -> Call]
      /\ calls'[c] = call
      /\ \A b \in Caller : b # c => calls'[b] = calls[b]
  BY <1>1, BecomesOne DEF IInv, Granted
<1>. HIDE DEF call
<1>3. \A b \in Caller : InFlight(b)' <=> InFlight(b)
  BY <1>0, <1>1, <1>2 DEF InFlight
<1>4. showSlides' \in BOOLEAN
  BY PlaceType DEF Granted, IInv, TypeOK
<1>5. left # "clean" /\ calls[c].op # "login" /\ (calls[c].op = "any" => c = "page")
  BY <1>0 DEF IInv, Out, Callers
<1>6. TypeOK'
  BY <1>2, <1>4 DEF Granted, IInv, TypeOK, shown
<1>7. Copies'
  BY <1>1, <1>2 DEF Granted, IInv, Copies, Outdated
<1>8. Callers'
  <2>1. CASE c = "page"
    BY <2>1, <1>0, <1>1, <1>2, <1>3 DEF IInv, Callers, Caller
  <2>2. CASE c = "boot"
    BY <2>2, <1>0, <1>1, <1>2, <1>3, <1>5 DEF IInv, Callers, Caller
  <2>3. CASE c = "form"
    BY <2>3, <1>0, <1>1, <1>2, <1>3, <1>5 DEF IInv, Callers, Caller
  <2>4. c # "widget"
    BY <1>0, <1>5 DEF IInv, Callers, InFlight
  <2>. QED  BY <2>1, <2>2, <2>3, <2>4 DEF Caller
<1>9. Starting' /\ Onboards'
  BY <1>3 DEF Granted, IInv, Starting, Onboards, Caller, Cleared
<1>10. Works'
  BY <1>1, <1>2, <1>3 DEF Granted, IInv, Works, Caller, Cleared
<1>11. Out'
  BY <1>5 DEF Granted, Out
<1>. QED  BY <1>6, <1>7, <1>8, <1>9, <1>10, <1>11 DEF IInv

\* The page takes over what it is told: never more than the account is.
LEMMA Hearing ==
  ASSUME IInv, NEW c \in Caller, Hear(c)
  PROVE  IInv'
<1>. DEFINE got == calls[c].got
<1>1. /\ calls' \in [Caller -> Call]
      /\ calls'[c] = Idle
      /\ \A b \in Caller : b # c => calls'[b] = calls[b]
  BY BecomesOne, Records DEF Hear, IInv
<1>2. InFlight(c) /\ calls[c].op # "any" /\ c # "page"
  BY DEF Hear, InFlight, IInv, Callers
<1>3. showSlides' \in BOOLEAN
  BY PlaceType DEF Hear, IInv, TypeOK
<1>4. got \in Me \cup {Nobody} /\ Outdated(got)
  BY DEF IInv, TypeOK, Call, Copies
<1>5. user' = got /\ role' = got.role /\ account' = account /\ leaving' = leaving
  BY DEF Hear, setAuth, setUser
<1>6. CASE calls[c].op = "login"
  <2>1. stored' /\ accessToken' /\ authReady' /\ left' = "no"
    BY <1>6 DEF Hear, setAuth
  <2>2. c # "form"
    BY <1>6 DEF IInv, Callers
  <2>3. c \in {"boot", "widget"}
    BY <1>2, <2>2 DEF Caller
  <2>4. ~InFlight("form")
    BY <1>2, <2>3 DEF IInv, Starting, Onboards, Caller
  <2>5. TypeOK'
    BY <1>1, <1>3, <1>4, <1>5, <1>6, Records
    DEF Hear, setAuth, IInv, TypeOK, Role, DriverScreen
  <2>6. Copies' /\ Callers'
    BY <1>1, <1>4, <1>5, Records DEF IInv, Copies, Outdated, Callers, InFlight, Caller
  <2>7. Starting'
    BY <1>1, <1>2, <2>1, <2>3, Records DEF IInv, Starting, InFlight, Caller
  <2>8. Onboards'
    BY <1>1, <1>2, <2>1, <2>3, <2>4, Records DEF IInv, Starting, Onboards, InFlight, Caller
  <2>9. Works'
    BY <1>1, <1>2, <1>5, <2>3, <2>4, Records DEF IInv, Starting, Works, InFlight, Caller, Cleared
  <2>10. Out'
    BY <2>1 DEF Out
  <2>. QED  BY <2>5, <2>6, <2>7, <2>8, <2>9, <2>10 DEF IInv
<1>7. CASE calls[c].op # "login"
  <2>1. UNCHANGED <<stored, accessToken, left>> /\ authReady' = (authReady \/ c = "boot")
    BY <1>7 DEF Hear, setUser
  <2>2. c \in {"boot", "form"} /\ left # "clean"
    BY <1>2, <1>7 DEF IInv, Callers, Out, Caller
  <2>3. ~leaving /\ ~InFlight("page") /\ ~InFlight("widget")
    BY <1>2, <2>2 DEF IInv, Starting, Onboards, Works, Caller
  <2>4. c = "boot" => ~InFlight("form")
    BY <1>2 DEF IInv, Starting, Caller
  <2>5. TypeOK'
    BY <1>1, <1>3, <1>4, <1>5, <1>7, <2>1, Records DEF Hear, setUser, IInv, TypeOK
  <2>6. Copies' /\ Callers'
    BY <1>1, <1>4, <1>5, Records DEF IInv, Copies, Outdated, Callers, InFlight, Caller
  <2>7. Starting'
    <3>1. CASE c = "boot"
      BY <1>1, <2>1, <3>1, Records DEF InFlight, Starting
    <3>2. CASE c = "form"
      BY <1>1, <1>2, <2>1, <3>2, Records DEF IInv, InFlight, Starting, Caller
    <3>. QED  BY <2>2, <3>1, <3>2
  <2>8. Works'
    BY <1>1, <1>5, <2>2, <2>3, Records DEF Works, InFlight, Caller
  <2>9. Onboards'
    <3>1. accessToken'
      BY <1>2, <1>7, <2>1, <2>2 DEF Hear, IInv, Starting, Onboards, Callers, Caller
    <3>2. ~InFlight("widget")' /\ ~InFlight("form")'
      BY <1>1, <2>2, <2>3, <2>4, Records DEF InFlight, Caller
    <3>. QED  BY <3>1, <3>2 DEF Onboards
  <2>10. Out'
    BY <2>1, <2>2 DEF Out
  <2>. QED  BY <2>5, <2>6, <2>7, <2>8, <2>9, <2>10 DEF IInv
<1>. QED  BY <1>6, <1>7

-----------------------------------------------------------------------------
(* What is on the screen *)

\* A page at work is that of an account that is cleared.
LEMMA AtWorkIsCleared ==
  ASSUME IInv, AtWork
  PROVE  /\ authReady /\ accessToken /\ user # Nobody /\ Cleared(user)
         /\ account # Nobody /\ Cleared(account)
         /\ \A c \in Caller : InFlight(c) => c = "page"
<1>1. authReady /\ accessToken /\ user # Nobody /\ Cleared(user)
  BY Records DEF AtWork, needsOnboarding, isAuthenticated, Cleared
<1>2. account # Nobody /\ Cleared(account)
  BY <1>1 DEF IInv, Copies, Outdated, Cleared
<1>. QED  BY <1>1, <1>2 DEF IInv, Starting, Onboards, Caller

\* The header, and every page of users and drivers, is at work.
LEMMA HeaderIsAtWork == HasHeader \/ Page \in UserScreen \cup DriverScreen => AtWork
BY DEF HasHeader, Page, AtWork, computeStage, UserScreen, DriverScreen

\* At the login page there is no session.
LEMMA LoginPage ==
  ASSUME IInv, Page = "login"
  PROVE  authReady /\ user = Nobody
<1>1. Page \notin {"home", "wizard", "orderDetail", "addresses", "today", "schedule", "admin"}
  OBVIOUS
<1>2. authReady /\ ~isAuthenticated
  BY DEF Page, computeStage, IInv, TypeOK, UserScreen, DriverScreen, effectiveRole, Role
<1>. QED  BY <1>2 DEF isAuthenticated, IInv, Onboards

\* The form is shown to those known, and not cleared yet.
LEMMA FormPage ==
  ASSUME IInv, Page \in {"profile", "pending"}
  PROVE  authReady /\ user # Nobody /\ ~Cleared(user)
<1>1. authReady /\ needsOnboarding /\ isAuthenticated
  BY DEF Page, computeStage, IInv, TypeOK, UserScreen, DriverScreen, effectiveRole, Role
<1>2. user # Nobody /\ user.status \in Status /\ user.status # "blocked"
  BY <1>1, Records DEF isAuthenticated, IInv, TypeOK, Copies, Outdated
<1>. QED  BY <1>1, <1>2 DEF needsOnboarding, Cleared, Status

-----------------------------------------------------------------------------
(* What the user does *)

\* A request that the user begins.
LEMMA Asking ==
  ASSUME IInv, NEW c \in {"form", "widget", "page"}, NEW op, Ask(c, op), authReady,
         \/ c = "widget" /\ op = "login" /\ user = Nobody
         \/ /\ c = "form" /\ op \in {"me", "profile"}
            /\ user # Nobody /\ ~Cleared(user)
         \/ c = "page" /\ op = "any" /\ AtWork
  PROVE  IInv'
<1>0. c \in Caller /\ c # "boot"
  BY DEF Caller
<1>1. Sent(op) \in Call /\ Sent(op).at = "sent" /\ Sent(op).op = op /\ Sent(op).got = Nobody
  BY Records
<1>2. /\ calls' \in [Caller -> Call]
      /\ calls'[c] = Sent(op)
      /\ \A b \in Caller : b # c => calls'[b] = calls[b]
  BY <1>0, <1>1, BecomesOne DEF Ask, IInv
<1>3. UNCHANGED <<account, store, showSlides, leaving, left>>
  BY DEF Ask
<1>4. TypeOK'
  BY <1>2, <1>3 DEF IInv, TypeOK, store, session, shown
<1>5. Copies' /\ Callers'
  BY <1>0, <1>1, <1>2, <1>3, Records
  DEF IInv, Copies, Outdated, Callers, InFlight, Caller, store, session
<1>6. Starting'
  BY <1>0, <1>2, <1>3 DEF IInv, Starting, InFlight, Caller, store, session
<1>7. CASE c = "page"
  <2>1. /\ account # Nobody /\ Cleared(account) /\ Cleared(user)
        /\ ~InFlight("form") /\ ~InFlight("widget")
    BY <1>7, AtWorkIsCleared DEF Caller
  <2>2. calls["widget"].got = Nobody
    BY <2>1 DEF IInv, Callers, InFlight, Caller
  <2>3. Onboards' /\ Works'
    BY <1>2, <1>3, <1>7, <2>1, <2>2
    DEF IInv, Onboards, Works, InFlight, Caller, Cleared, store, session
  <2>4. Out'
    BY <1>1, <1>2, <1>3, <1>7 DEF IInv, Out, InFlight, store, session
  <2>. QED  BY <1>4, <1>5, <1>6, <2>3, <2>4 DEF IInv
<1>8. CASE c = "widget"
  <2>1. Onboards' /\ Works'
    BY <1>1, <1>2, <1>3, <1>8, Records
    DEF IInv, Onboards, Works, InFlight, Caller, Cleared, store, session
  <2>2. Out'
    BY <1>1, <1>2, <1>3, <1>8 DEF IInv, Out, InFlight, store, session
  <2>. QED  BY <1>4, <1>5, <1>6, <2>1, <2>2 DEF IInv
<1>9. CASE c = "form"
  <2>1. ~leaving /\ ~InFlight("page") /\ ~InFlight("widget") /\ left # "clean"
    BY <1>9 DEF IInv, Onboards, Works, Out
  <2>2. Onboards' /\ Works'
    BY <1>2, <1>3, <1>9, <2>1 DEF IInv, Onboards, Works, InFlight, Caller, Cleared, store, session
  <2>3. Out'
    BY <1>3, <2>1 DEF Out
  <2>. QED  BY <1>4, <1>5, <1>6, <2>2, <2>3 DEF IInv
<1>. QED  BY <1>7, <1>8, <1>9

\* Turning the slides touches nothing else.
LEMMA Turning == ASSUME IInv, TurnSlides PROVE IInv'
BY DEF TurnSlides, IInv, TypeOK, Copies, Outdated, Callers, Starting, InFlight, Onboards, Works,
   Out, store, session, shown, Cleared

\* A logout is begun by those at work, and may fail.
LEMMA Leaving ==
  ASSUME IInv, LogOut \/ LogOutFails
  PROVE  IInv'
<1>1. CASE LogOut
  <2>1. /\ authReady /\ user # Nobody /\ Cleared(user)
        /\ account # Nobody /\ Cleared(account)
        /\ ~InFlight("form") /\ ~InFlight("widget")
    BY <1>1, AtWorkIsCleared, HeaderIsAtWork DEF LogOut, Caller
  <2>2. calls["widget"].got = Nobody
    BY <2>1 DEF IInv, Callers, InFlight, Caller
  <2>. QED  BY <1>1, <2>1, <2>2
            DEF LogOut, IInv, TypeOK, Copies, Outdated, Callers, Starting, InFlight, Onboards,
                Works, Out, store, session, shown, Cleared
<1>2. CASE LogOutFails
  <2>1. /\ leaving' = FALSE /\ leaving
        /\ UNCHANGED <<account, stored, accessToken, user, role, adminViewAs, userScreen,
                       driverScreen, authReady, showSlides, calls, left>>
    BY <1>2 DEF LogOutFails, store, session, shown
  <2>2. TypeOK'
    BY <2>1 DEF IInv, TypeOK
  <2>3. Copies'
    BY <2>1 DEF IInv, Copies, Outdated
  <2>4. Callers'
    BY <2>1 DEF IInv, Callers, InFlight
  <2>5. Starting' /\ Onboards' /\ Works' /\ Out'
    BY <2>1 DEF IInv, Starting, Onboards, Works, Out, InFlight, Cleared
  <2>. QED  BY <2>2, <2>3, <2>4, <2>5 DEF IInv
<1>. QED  BY <1>1, <1>2

\* A logout ends the session; what is under way cannot bring it back unless it is
\* refreshing.
LEMMA HavingLeft ==
  ASSUME IInv, LoggedOut
  PROVE  IInv'
<1>1. authReady /\ ~InFlight("boot") /\ ~InFlight("form")
  BY DEF LoggedOut, IInv, Starting, Works
<1>2. showSlides' \in BOOLEAN
  BY PlaceType DEF LoggedOut, IInv, TypeOK
<1>3. TypeOK'
  BY <1>2 DEF LoggedOut, clearAuth, IInv, TypeOK, Role, DriverScreen
<1>4. Copies' /\ Callers'
  BY Records DEF LoggedOut, clearAuth, IInv, Copies, Outdated, Callers, InFlight
<1>5. Starting' /\ Onboards'
  BY <1>1 DEF LoggedOut, clearAuth, Starting, Onboards, InFlight
<1>6. Works'
  BY DEF LoggedOut, clearAuth, IInv, Works, InFlight, Cleared
<1>7. Out'
  <2>1. \A c \in Caller : InFlight(c) => calls[c].op \in {"login", "any"}
    BY <1>1 DEF IInv, Callers, Caller
  <2>. QED  BY <2>1 DEF LoggedOut, clearAuth, Out, InFlight
<1>. QED  BY <1>3, <1>4, <1>5, <1>6, <1>7 DEF IInv

\* Decisions and roles: a profile stays, a decision is never taken back.
LEMMA Administering ==
  ASSUME IInv, Administer
  PROVE  IInv'
<1>1. /\ account \in Me /\ account' \in Me
      /\ account'.name = account.name /\ account'.phone = account.phone
      /\ account.status # "pending" => account'.status # "pending"
  BY DEF Administer, IInv, TypeOK, Me, Status
<1>2. account # Nobody /\ account' # Nobody
  BY <1>1, Records
<1>3. UNCHANGED <<store, showSlides, calls, leaving, left>>
  BY DEF Administer
<1>4. TypeOK'
  BY <1>1, <1>3 DEF IInv, TypeOK, store, session, shown
<1>5. Copies'
  BY <1>1, <1>2, <1>3 DEF IInv, Copies, Outdated, store, session
<1>6. Works'
  BY <1>1, <1>2, <1>3 DEF IInv, Works, Cleared, InFlight, store, session
<1>7. Callers' /\ Starting' /\ Onboards' /\ Out'
  BY <1>3 DEF IInv, Callers, Starting, Onboards, Out, InFlight, Cleared, store, session
<1>. QED  BY <1>4, <1>5, <1>6, <1>7 DEF IInv

-----------------------------------------------------------------------------
(* Theorems *)

\* The invariant: copies are never ahead of the account, and who may have what under
\* way where (appStore.ts, api.ts, OnboardingScreen.tsx).
THEOREM AppInvHolds == Spec => []IInv
<1>1. IInv /\ [Next]_vars => IInv'
  <2>. SUFFICES ASSUME IInv, [Next]_vars PROVE IInv'
    OBVIOUS
  <2>1. CASE Begin
    BY <2>1, Beginning
  <2>2. CASE Reload
    BY <2>2, Reloading
  <2>3. ASSUME NEW c \in Caller, Proceeds(c) PROVE IInv'
    BY <2>3, ServingLogin, Serving, BeingUnauthorised, BeingGranted, BeingRefused, Losing,
       Hearing DEF Proceeds
  <2>4. CASE TurnSlides
    BY <2>4, Turning
  <2>5. CASE LogIn
    BY <2>5, LoginPage, Asking DEF LogIn
  <2>6. CASE SubmitProfile \/ CheckStatus
    BY <2>6, FormPage, Asking DEF SubmitProfile, CheckStatus
  <2>7. ASSUME \/ \E s \in UserScreen : goTo(s)
               \/ \E s \in DriverScreen : goToDriverScreen(s)
               \/ \E r \in Role : setAdminViewAs(r)
        PROVE  IInv'
    <3>1. /\ UNCHANGED <<account, session, authReady, calls, leaving, left, role>>
          /\ adminViewAs' \in Role /\ userScreen' \in UserScreen
          /\ driverScreen' \in DriverScreen /\ showSlides' \in BOOLEAN
      BY <2>7 DEF goTo, goToDriverScreen, setAdminViewAs, Moves, IInv, TypeOK
    <3>. QED  BY <3>1, Moving
  <2>8. CASE Fetch
    BY <2>8, AtWorkIsCleared, Asking DEF Fetch
  <2>9. CASE LogOut \/ LogOutFails
    BY <2>9, Leaving
  <2>10. CASE LoggedOut
    BY <2>10, HavingLeft
  <2>11. CASE Administer
    BY <2>11, Administering
  <2>12. CASE UNCHANGED vars
    BY <2>12 DEF vars, IInv, TypeOK, Copies, Outdated, Callers, Starting, InFlight, Onboards,
                 Works, Out, store, session, shown, Cleared
  <2>. QED  BY <2>1, <2>2, <2>3, <2>4, <2>5, <2>6, <2>7, <2>8, <2>9, <2>10, <2>11, <2>12 DEF Next
<1>. QED  BY <1>1, Initially, PTL DEF Spec

\* The types of the store and of what is under way (appStore.ts).
THEOREM TypeCorrect == Spec => []TypeOK
<1>1. IInv => TypeOK
  BY DEF IInv
<1>. QED  BY <1>1, AppInvHolds, PTL

\* Nobody works in the app before the profile is stored and an administrator has
\* decided (App.tsx, needsOnboarding).
THEOREM OnlyTheCleared == Spec => []OnlyClearedReachTheApp
<1>1. IInv => OnlyClearedReachTheApp
  BY AtWorkIsCleared DEF OnlyClearedReachTheApp, Cleared
<1>. QED  BY <1>1, AppInvHolds, PTL

\* The page for blocked accounts is shown to nobody (OnboardingScreen.tsx, App.tsx).
THEOREM BlockedAreNotTold == Spec => []BlockedIsNeverTold
<1>1. IInv => BlockedIsNeverTold
  <2>. SUFFICES ASSUME IInv PROVE Page # "blocked"
    BY DEF BlockedIsNeverTold
  <2>1. isAuthenticated => user.status # "blocked"
    BY DEF isAuthenticated, IInv, Copies, Outdated
  <2>. QED  BY <2>1 DEF Page, computeStage, IInv, TypeOK, UserScreen, DriverScreen,
                        effectiveRole, Role
<1>. QED  BY <1>1, AppInvHolds, PTL

\* After a logout nothing brings the session back, a refresh under way apart
\* (LogoutButton.tsx, api.ts).
THEOREM LogoutIsForGood == Spec => []LoggedOutStaysOut
<1>1. IInv => LoggedOutStaysOut
  BY DEF IInv, Out, LoggedOutStaysOut
<1>. QED  BY <1>1, AppInvHolds, PTL

-----------------------------------------------------------------------------
(* The address picker *)

Latest == \E r \in reversing : r.latest

PickerTypes ==
  /\ geocoding \in Nat
  /\ \A r \in reversing : r = [of |-> r.of, latest |-> r.latest]
  /\ \A s \in suggesting : s = [text |-> s.text, cancelled |-> s.cancelled]

\* Suggestions that are still welcome were asked for with the text in the search field.
WelcomeIsForTheText == \A s \in suggesting : ~s.cancelled => s.text = addressQuery

\* A calm user waits for one answer at a time: no point is named while the geocoder is
\* asked, and a name on its way is that of the point under the pin.
OneAtATime ==
  /\ geocoding > 0 => geocoding = 1 /\ geocodeStatus = "loading" /\ ~Latest
  /\ \A r \in reversing : r.latest => r.of = pickedCoords

\* A name left over from another point: the search has begun again, and the geocoder
\* comes before the map.
OldNameIsHidden ==
  mapResolvedLabel \notin {None, pickedCoords} =>
    ~Latest /\ (geocodeStatus = "refining" => addressQuery = None)

MapIsWhereShown == map.at # "closed" => Picker!MapIsShown

PickerInv ==
  /\ PickerTypes /\ WelcomeIsForTheText /\ MapIsWhereShown
  /\ calm => OneAtATime /\ OldNameIsHidden

\* What follows a change of the page keeps the map and the suggestions right.
LEMMA Rendering ==
  ASSUME PickerInv, Picker!Renders
  PROVE  /\ MapIsWhereShown' /\ WelcomeIsForTheText'
         /\ \A s \in suggesting' : s = [text |-> s.text, cancelled |-> s.cancelled]
         /\ suggestions' \in {suggestions, None}
<1>. USE DEF PickerInv, PickerTypes
<1>1. MapIsWhereShown'
  BY DEF Picker!Renders, Picker!Mounts, Picker!Unmounted, MapIsWhereShown
<1>2. /\ \A s \in Picker!CancelAll : s = [text |-> s.text, cancelled |-> s.cancelled]
      /\ \A s \in Picker!CancelAll : s.cancelled = TRUE
  BY DEF Picker!CancelAll
<1>. QED  BY <1>1, <1>2 DEF Picker!Renders, Picker!Suggests, WelcomeIsForTheText

LEMMA TouchKeeps ==
  ASSUME PickerInv, Picker!Touch, calm => ~Picker!Awaits, UNCHANGED calm
  PROVE  PickerInv' /\ suggestions' \in {suggestions, None}
<1>. USE DEF PickerInv, PickerTypes
<1>. DEFINE Rest == calm => geocoding = 0 /\ ~Latest
<1>1. Rest
  BY DEF Picker!Awaits, Latest
<1>2. ASSUME NEW field, Picker!OpenPicker(field) PROVE PickerInv' /\ suggestions' \in {suggestions, None}
  BY <1>1, <1>2, Rendering DEF Picker!OpenPicker, OneAtATime, OldNameIsHidden, Latest
<1>3. ASSUME NEW text, Picker!Type(text) PROVE PickerInv' /\ suggestions' \in {suggestions, None}
  BY <1>1, <1>3, Rendering
  DEF Picker!Type, Picker!picked, OneAtATime, OldNameIsHidden, Latest
<1>4. ASSUME Picker!Geocode, Picker!Renders PROVE PickerInv' /\ suggestions' \in {suggestions, None}
  BY <1>1, <1>4, Rendering
  DEF Picker!Geocode, Picker!picked, OneAtATime, OldNameIsHidden, Latest
<1>5. ASSUME NEW address, Picker!selectAddress(address)
      PROVE  PickerInv' /\ suggestions' \in {suggestions, None}
  BY <1>1, <1>5, Rendering
  DEF Picker!selectAddress, OneAtATime, OldNameIsHidden, Latest
<1>. QED
  BY <1>2, <1>3, <1>4, <1>5
  DEF Picker!Touch, Picker!handleUseTypedAddress, Picker!handleSelectSuggestion,
      Picker!ChooseStored, Picker!ConfirmPoint

\* The map under the pin says where it is: the geocoder has answered before.
LEMMA EmitKeeps ==
  ASSUME PickerInv, NEW place, Picker!Emit(place), map.at # "closed", UNCHANGED calm
  PROVE  PickerInv' /\ UNCHANGED suggestions
<1>. USE DEF PickerInv, PickerTypes
<1>1. /\ UNCHANGED <<pickingFor, addressQuery, suggestions, suggesting, geocodeStatus, geocoding>>
      /\ pickedCoords' = place /\ mapResolvedLabel' = None
      /\ geocodeStatus = "refining" /\ Picker!MapIsShown
  BY DEF Picker!Emit, Picker!chosen, Picker!search, MapIsWhereShown, Picker!MapIsShown
<1>2. \A r \in reversing' : /\ r = [of |-> r.of, latest |-> r.latest]
                            /\ r.latest => r.of = place
  BY DEF Picker!Emit
<1>3. MapIsWhereShown' /\ WelcomeIsForTheText'
  BY <1>1 DEF MapIsWhereShown, WelcomeIsForTheText, Picker!MapIsShown
<1>4. calm => OneAtATime' /\ OldNameIsHidden'
  BY <1>1, <1>2 DEF OneAtATime, OldNameIsHidden
<1>. QED  BY <1>1, <1>2, <1>3, <1>4

LEMMA AnswerKeeps ==
  ASSUME PickerInv, Picker!Answer, UNCHANGED calm
  PROVE  PickerInv' /\ (suggestions' \in {suggestions, None} \/ suggestions' = addressQuery)
<1>. USE DEF PickerInv, PickerTypes
<1>. DEFINE Follows == suggestions' \in {suggestions, None} \/ suggestions' = addressQuery
<1>1. ASSUME NEW s \in suggesting, Picker!Suggested(s) PROVE PickerInv' /\ Follows
  BY <1>1
  DEF Picker!Suggested, Picker!chosen, Picker!picked, Picker!mapVars, WelcomeIsForTheText,
      MapIsWhereShown, Picker!MapIsShown, OneAtATime, OldNameIsHidden, Latest
<1>2. ASSUME NEW place, Picker!Geocoded(place) PROVE PickerInv' /\ Follows
  BY <1>2, Rendering DEF Picker!Geocoded, OneAtATime, OldNameIsHidden, Latest
<1>3. ASSUME NEW place, Picker!Located(place) PROVE PickerInv' /\ Follows
  BY <1>3
  DEF Picker!Located, Picker!chosen, Picker!search, Picker!picked, WelcomeIsForTheText,
      MapIsWhereShown, Picker!MapIsShown, OneAtATime, OldNameIsHidden, Latest
<1>4. CASE Picker!MapLoads
  BY <1>4, EmitKeeps DEF Picker!MapLoads
<1>5. CASE Picker!MapIsGivenUp
  BY <1>5
  DEF Picker!MapIsGivenUp, Picker!chosen, Picker!search, Picker!picked, WelcomeIsForTheText,
      MapIsWhereShown, Picker!MapIsShown, OneAtATime, OldNameIsHidden, Latest
<1>6. ASSUME NEW r \in reversing, NEW name \in {r.of, None}, Picker!Named(r, name)
      PROVE  PickerInv' /\ Follows
  BY <1>6, Rendering
  DEF Picker!Named, Picker!IsCurrent, OneAtATime, OldNameIsHidden, Latest
<1>. QED  BY <1>1, <1>2, <1>3, <1>4, <1>5, <1>6 DEF Picker!Answer, Picker!MapSettles

LEMMA PickerKeeps ==
  ASSUME PickerInv, [MCNext]_MCVars
  PROVE  PickerInv' /\ (suggestions' \in {suggestions, None} \/ suggestions' = addressQuery)
<1>1. CASE UNCHANGED <<calm, pickerVars>>
  BY <1>1
  DEF pickerVars, PickerInv, PickerTypes, WelcomeIsForTheText, MapIsWhereShown,
      Picker!MapIsShown, OneAtATime, OldNameIsHidden, Latest
<1>2. CASE PickerNext /\ UNCHANGED calm
  <2>1. ASSUME NEW place, Picker!Drag(place) PROVE PickerInv' /\ UNCHANGED suggestions
    BY <1>2, <2>1, EmitKeeps DEF Picker!Drag
  <2>. QED  BY <1>2, <2>1, TouchKeeps, AnswerKeeps DEF PickerNext
<1>. QED  BY <1>1, <1>2 DEF MCNext, MCVars

\* What a user who waits for answers is shown, and which suggestions are welcome
\* (OrderWizardScreen.tsx, handleMapCoordsChange and the effect of the search field).
THEOREM PickerInvHolds == MCSpec => []PickerInv
<1>1. MCInit => PickerInv
  BY DEF MCInit, Picker!Init, PickerInv, PickerTypes, WelcomeIsForTheText, MapIsWhereShown,
         Picker!MapIsShown, Picker!Unmounted, OneAtATime, OldNameIsHidden, Latest
<1>. QED  BY <1>1, PickerKeeps, PTL DEF MCSpec

\* To a calm user the name under the map is that of the point under the pin, however
\* fast the map is moved (OrderWizardScreen.tsx, handleMapCoordsChange).
THEOREM LabelIsOfThePoint == MCSpec => []LabelNamesThePointWhenCalm
<1>1. PickerInv => LabelNamesThePointWhenCalm
  BY DEF PickerInv, OldNameIsHidden, LabelNamesThePointWhenCalm, Picker!LabelNamesThePoint,
         Picker!MapIsShown
<1>. QED  BY <1>1, PickerInvHolds, PTL

\* In whatever order answers arrive, suggestions are for the text in the search field
\* (OrderWizardScreen.tsx, the effect that asks for them).
THEOREM SuggestionsAreForTheText == MCSpec => SuggestionsFollowTheText
<1>1. PickerInv /\ [MCNext]_MCVars
      => [suggestions' \in {suggestions, None} \/ suggestions' = addressQuery]_(Picker!vars)
  BY PickerKeeps
<1>. QED
  BY <1>1, PickerInvHolds, PTL
  DEF MCSpec, SuggestionsFollowTheText, Picker!SuggestionsFollowTheText

=============================================================================
