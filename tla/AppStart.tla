------------------------------ MODULE AppStart ------------------------------
(***************************************************************************)
(* How the web app of one account starts and what it shows: the session it *)
(* sets up when it is opened (useAuthBootstrap.ts), the store it is kept   *)
(* in (appStore.ts), the onboarding an account has to go through           *)
(* (OnboardingScreen.tsx), the choice of a page (App.tsx), and of the      *)
(* server what auth_api.py and deps.py answer.                             *)
(*                                                                         *)
(* Which refresh tokens the server accepts is the subject of Sessions.     *)
(* Here a request may always be answered 401, for access tokens expire,    *)
(* and a refresh may be granted or refused.                                *)
(***************************************************************************)
Role == {"user", "driver", "admin"}
Status == {"pending", "verified", "blocked"}
UserScreen == {"home", "wizard", "orderDetail", "addresses"}
DriverScreen == {"today", "schedule"}

\* What the server tells of an account (MeResponse): whether there are a name
\* and a phone number, the role and the status.
Me == [name: BOOLEAN, phone: BOOLEAN, role: Role, status: Status]

\* No account, in the table of users or in the page.
Nobody == [name |-> FALSE, phone |-> FALSE, role |-> "user", status |-> "none"]

VARIABLES
  account,      \* the row of users, or Nobody before the first login
  stored,       \* there is a refresh token in localStorage
  accessToken,  \* there is an access token in memory
  user,         \* what the page knows of the account, or Nobody
  role, adminViewAs, userScreen, driverScreen,
  authReady,    \* the start is over
  showSlides,   \* the onboarding shows its slides
  calls,        \* the requests under way
  leaving,      \* a logout is under way
  left          \* history: how the user logged out since the last login

session == <<stored, accessToken, user>>
shown == <<role, adminViewAs, userScreen, driverScreen>>
store == <<session, shown, authReady>>
vars == <<account, store, showSlides, calls, leaving, left>>

\* Who has a request under way: the start, the onboarding's form, the login
\* widget, any page at work.
Caller == {"boot", "form", "widget", "page"}

Call ==
  [at: {"idle", "begun", "sent", "refreshing", "resent", "answered"},
   op: {"login", "refresh", "me", "profile", "any"}, got: Me \cup {Nobody}]

Idle == [at |-> "idle", op |-> "any", got |-> Nobody]

Sent(op) == [Idle EXCEPT !.at = "sent", !.op = op]

TypeOK ==
  /\ account \in Me \cup {Nobody}
  /\ stored \in BOOLEAN /\ accessToken \in BOOLEAN
  /\ user \in Me \cup {Nobody}
  /\ role \in Role /\ adminViewAs \in Role
  /\ userScreen \in UserScreen /\ driverScreen \in DriverScreen
  /\ authReady \in BOOLEAN /\ showSlides \in BOOLEAN
  /\ calls \in [Caller -> Call]
  /\ leaving \in BOOLEAN
  /\ left \in {"no", "clean", "raced"}

-----------------------------------------------------------------------------
(* What is shown *)

isAuthenticated == accessToken /\ user # Nobody

\* Mistake: a name, which Telegram supplies, is profile enough.
needsOnboarding_NameOnly ==
  ~isAuthenticated \/ ~user.name \/ user.status # "verified"

\* Login is not enough to reach the pages at work.
needsOnboarding ==
  ~isAuthenticated \/ ~user.name \/ ~user.phone \/ user.status # "verified"

AtWork == authReady /\ ~needsOnboarding

Onboarding == authReady /\ needsOnboarding

effectiveRole == IF role = "admin" THEN adminViewAs ELSE role

computeStage ==
  IF ~isAuthenticated THEN "login"
  ELSE IF ~user.name \/ ~user.phone THEN "profile"
  ELSE IF user.status = "blocked" THEN "blocked" ELSE "pending"

Page ==
  IF ~authReady THEN "spinner"
  ELSE IF needsOnboarding THEN IF showSlides THEN "slides" ELSE computeStage
  ELSE CASE effectiveRole = "user" -> userScreen
         [] effectiveRole = "driver" -> driverScreen
         [] effectiveRole = "admin" -> "admin"

\* The onboarding keeps its place while it is shown; when it appears it shows its
\* slides to those who are not logged in.
KeepsPlace ==
  showSlides' = IF Onboarding' THEN IF Onboarding THEN showSlides ELSE ~isAuthenticated'
                ELSE FALSE

-----------------------------------------------------------------------------
(* The store *)

setAuth(me) ==
  /\ stored' = TRUE /\ accessToken' = TRUE
  /\ user' = me /\ role' = me.role
  /\ adminViewAs' = "admin" /\ driverScreen' = "today"
  /\ authReady' = TRUE
  /\ left' = "no"
  /\ UNCHANGED userScreen

setUser(me) ==
  /\ user' = me /\ role' = me.role
  /\ UNCHANGED <<stored, accessToken, adminViewAs, userScreen, driverScreen, left>>

\* Role and page of an employee are left as they are.
clearAuth ==
  /\ stored' = FALSE /\ accessToken' = FALSE /\ user' = Nobody
  /\ adminViewAs' = "admin" /\ driverScreen' = "today"
  /\ authReady' = TRUE
  /\ UNCHANGED <<role, userScreen>>

-----------------------------------------------------------------------------
(* Opening the page *)

Opened ==
  /\ accessToken = FALSE /\ user = Nobody
  /\ role = "user" /\ adminViewAs = "admin" /\ userScreen = "home" /\ driverScreen = "today"
  /\ authReady = FALSE /\ showSlides = FALSE
  /\ calls = [c \in Caller |-> IF c = "boot" THEN [Idle EXCEPT !.at = "begun"] ELSE Idle]
  /\ leaving = FALSE

\* The browser may hold a token of an earlier visit, whatever became of the account.
Init ==
  /\ Opened
  /\ account \in Me \cup {Nobody}
  /\ stored \in {b \in BOOLEAN : b => account # Nobody}
  /\ left = "no"

\* Reloading forgets all that is in memory; requests under way go unheard.  One
\* during the start would only begin it again, and is left out.
Reload ==
  /\ authReady
  /\ accessToken' = FALSE /\ user' = Nobody
  /\ role' = "user" /\ adminViewAs' = "admin" /\ userScreen' = "home" /\ driverScreen' = "today"
  /\ authReady' = FALSE /\ showSlides' = FALSE
  /\ calls' = [c \in Caller |-> IF c = "boot" THEN [Idle EXCEPT !.at = "begun"] ELSE Idle]
  /\ leaving' = FALSE
  /\ UNCHANGED <<account, stored, left>>

Becomes(c, call) == calls' = [calls EXCEPT ![c] = call]

\* bootstrap, past initData: a silent refresh if there is a token.
TrySilently ==
  IF stored
  THEN Becomes("boot", [Idle EXCEPT !.at = "refreshing", !.op = "refresh"]) /\ UNCHANGED store
  ELSE Becomes("boot", Idle) /\ clearAuth

\* Inside Telegram there is initData to log in with.
Begin ==
  /\ calls["boot"].at = "begun"
  /\ \/ Becomes("boot", Sent("login")) /\ UNCHANGED store
     \/ TrySilently
  /\ KeepsPlace
  /\ UNCHANGED <<account, leaving, left>>

-----------------------------------------------------------------------------
(* A request on its way *)

\* The server creates the account of a first login; Telegram may supply a name.
ServeLogin(c) ==
  /\ calls[c].at = "sent" /\ calls[c].op = "login"
  /\ \/ account # Nobody /\ account.status # "blocked" /\ UNCHANGED account
     \/ /\ account = Nobody
        /\ \E named \in BOOLEAN :
             account' = [name |-> named, phone |-> FALSE, role |-> "user", status |-> "pending"]
  /\ Becomes(c, [calls[c] EXCEPT !.at = "answered", !.got = account'])
  /\ UNCHANGED <<store, showSlides, leaving, left>>

\* A request that carries an access token; get_current_user refuses blocked accounts.
Serve(c) ==
  /\ calls[c].at \in {"sent", "resent"} /\ calls[c].op \in {"me", "profile", "any"}
  /\ account # Nobody /\ account.status # "blocked"
  /\ account' = IF calls[c].op = "profile" THEN [account EXCEPT !.name = TRUE, !.phone = TRUE]
                                            ELSE account
  /\ Becomes(c, IF calls[c].op = "any" THEN Idle
                ELSE [calls[c] EXCEPT !.at = "answered", !.got = account'])
  /\ UNCHANGED <<store, showSlides, leaving, left>>

\* The caller is told of the failure.  The start goes on without what failed; the
\* others stay where they are.
Failed(c) ==
  \/ c = "boot" /\ calls[c].op = "login" /\ TrySilently
  \/ c = "boot" /\ calls[c].op # "login" /\ Becomes(c, Idle) /\ clearAuth
  \/ c # "boot" /\ Becomes(c, Idle) /\ UNCHANGED store

\* 401: once, the request is repeated after a refresh; without a token to refresh
\* with, the session is given up.
Unauthorised(c) ==
  /\ calls[c].op \in {"me", "profile", "any"}
  /\ \/ /\ calls[c].at = "sent" /\ stored
        /\ Becomes(c, [calls[c] EXCEPT !.at = "refreshing"])
        /\ UNCHANGED store
     \/ calls[c].at = "sent" /\ ~stored /\ Becomes(c, Idle) /\ clearAuth
     \/ calls[c].at = "resent" /\ Failed(c)
  /\ KeepsPlace
  /\ UNCHANGED <<account, leaving, left>>

\* tryRefresh keeps the new tokens, whatever happened to the session, or at the
\* server to the account, meanwhile.
Granted(c) ==
  /\ calls[c].at = "refreshing"
  /\ stored' = TRUE /\ accessToken' = TRUE
  /\ Becomes(c, IF calls[c].op = "refresh" THEN Sent("me") ELSE [calls[c] EXCEPT !.at = "resent"])
  /\ UNCHANGED <<account, user, shown, authReady, leaving, left>>
  /\ KeepsPlace

\* No new tokens: the session is given up.
Refused(c) ==
  /\ calls[c].at = "refreshing"
  /\ Becomes(c, Idle) /\ clearAuth
  /\ KeepsPlace
  /\ UNCHANGED <<account, leaving, left>>

\* A refusal other than 401, no answer, or an answer that is lost.
Lose(c) ==
  /\ calls[c].at \in {"sent", "resent", "answered"}
  /\ Failed(c)
  /\ KeepsPlace
  /\ UNCHANGED <<account, leaving, left>>

\* Mistake: the start forgets to say that it is over.
Hear_NotReady(c) ==
  /\ calls[c].at = "answered"
  /\ IF calls[c].op = "login"
     THEN setAuth(calls[c].got)
     ELSE setUser(calls[c].got) /\ UNCHANGED authReady
  /\ Becomes(c, Idle)
  /\ KeepsPlace
  /\ UNCHANGED <<account, leaving>>

Hear(c) ==
  /\ calls[c].at = "answered"
  /\ IF calls[c].op = "login"
     THEN setAuth(calls[c].got)
     ELSE setUser(calls[c].got) /\ authReady' = (authReady \/ c = "boot")
  /\ Becomes(c, Idle)
  /\ KeepsPlace
  /\ UNCHANGED <<account, leaving>>

-----------------------------------------------------------------------------
(* At the onboarding *)

\* The slides are skipped or seen through; the login page leads back to them.
TurnSlides ==
  /\ Page \in {"slides", "login"}
  /\ showSlides' = ~showSlides
  /\ UNCHANGED <<account, store, calls, leaving, left>>

Ask(c, op) ==
  /\ calls[c] = Idle
  /\ Becomes(c, Sent(op))
  /\ UNCHANGED <<account, store, showSlides, leaving, left>>

LogIn == Page = "login" /\ Ask("widget", "login")

SubmitProfile == Page = "profile" /\ Ask("form", "profile")

CheckStatus == Page = "pending" /\ Ask("form", "me")

-----------------------------------------------------------------------------
(* At work *)

Moves == UNCHANGED <<account, session, role, authReady, showSlides, calls, leaving, left>>

\* The pages whose header has the switch of an administrator and the way out.
HasHeader == Page \in {"home", "today", "admin"}

\* openOrder and closeOrder lead to "orderDetail" and back.
goTo(s) ==
  /\ Page \in UserScreen /\ (Page = "home" \/ s = "home") /\ Moves
  /\ userScreen' = s
  /\ UNCHANGED <<adminViewAs, driverScreen>>

goToDriverScreen(s) ==
  /\ Page \in DriverScreen /\ Moves
  /\ driverScreen' = s
  /\ UNCHANGED <<adminViewAs, userScreen>>

setAdminViewAs(r) ==
  /\ HasHeader /\ role = "admin" /\ Moves
  /\ adminViewAs' = r
  /\ UNCHANGED <<userScreen, driverScreen>>

\* Pages fetch what they show.
Fetch == AtWork /\ Ask("page", "any")

\* auth.logout, with the token that is stored; the button does not wait.
LogOut ==
  /\ HasHeader /\ stored /\ ~leaving
  /\ leaving' = TRUE
  /\ UNCHANGED <<account, store, showSlides, calls, left>>

\* Mistake: the memory is cleared, localStorage is not.
LoggedOut_KeepsToken ==
  /\ leaving
  /\ leaving' = FALSE
  /\ accessToken' = FALSE /\ user' = Nobody
  /\ adminViewAs' = "admin" /\ driverScreen' = "today"
  /\ authReady' = TRUE
  /\ left' = IF \E c \in Caller : calls[c].at = "refreshing" THEN "raced" ELSE "clean"
  /\ KeepsPlace
  /\ UNCHANGED <<account, stored, role, userScreen, calls>>

\* The server has answered: the page forgets the session.
LoggedOut ==
  /\ leaving
  /\ leaving' = FALSE
  /\ clearAuth
  /\ left' = IF \E c \in Caller : calls[c].at = "refreshing" THEN "raced" ELSE "clean"
  /\ KeepsPlace
  /\ UNCHANGED <<account, calls>>

\* No answer: the page stays as it is.
LogOutFails ==
  /\ leaving
  /\ leaving' = FALSE
  /\ UNCHANGED <<account, store, showSlides, calls, left>>

-----------------------------------------------------------------------------
\* Administrators give the account a role and decide on it; two who decide at once
\* may overrule each other, none takes a decision back (Accounts).
Administer ==
  /\ account # Nobody
  /\ \/ \E s \in {"verified", "blocked"} : account' = [account EXCEPT !.status = s]
     \/ \E r \in Role : account' = [account EXCEPT !.role = r]
  /\ UNCHANGED <<store, showSlides, calls, leaving, left>>

Proceeds(c) ==
  ServeLogin(c) \/ Serve(c) \/ Unauthorised(c) \/ Granted(c) \/ Refused(c) \/ Lose(c) \/ Hear(c)

Next ==
  \/ Begin \/ Reload
  \/ \E c \in Caller : Proceeds(c)
  \/ TurnSlides \/ LogIn \/ SubmitProfile \/ CheckStatus
  \/ \E s \in UserScreen : goTo(s)
  \/ \E s \in DriverScreen : goToDriverScreen(s)
  \/ \E r \in Role : setAdminViewAs(r)
  \/ Fetch \/ LogOut \/ LoggedOut \/ LogOutFails
  \/ Administer

\* The browser ends every request of the start: it is answered or it fails.
Fairness == WF_vars(Begin) /\ WF_vars(Proceeds("boot"))

Spec == Init /\ [][Next]_vars /\ Fairness

-----------------------------------------------------------------------------
(* Properties *)

\* Opening the page never ends at the spinner: whatever fails on the way, the user
\* is let in or asked to log in (useAuthBootstrap.ts).
StartSettles == ~authReady ~> authReady

\* Telegram's word is not enough to reach the pages at work: the profile has been
\* stored and an administrator has decided (App.tsx, the comment on needsOnboarding).
OnlyClearedReachTheApp ==
  AtWork => account # Nobody /\ account.name /\ account.phone /\ account.status # "pending"

\* Nobody is shown the page for blocked accounts (OnboardingScreen.tsx), for a
\* blocked account is told nothing: whoever asks is sent back to the login page.
BlockedIsNeverTold == Page # "blocked"

\* Whoever has logged out is out, after a reload too, unless a refresh was on its
\* way: its answer would bring the tokens back.
LoggedOutStaysOut == left = "clean" => ~stored /\ ~accessToken /\ user = Nobody

=============================================================================
