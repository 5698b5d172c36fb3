------------------------------ MODULE Sessions ------------------------------
(***************************************************************************)
(* The session of one account in one browser: the refresh endpoint and     *)
(* logout of api/app/auth_api.py, the token checks of shared/auth_jwt.py   *)
(* with their two kinds of Redis key, and the web app's apiFetch,          *)
(* tryRefresh and logout (webapp/src/lib/api.ts), which may have several   *)
(* calls under way.                                                        *)
(*                                                                         *)
(* The server handles a refresh in three steps, for it awaits Redis and    *)
(* the database before it burns the token.  Time is counted in the whole   *)
(* seconds the tokens carry.                                               *)
(***************************************************************************)
EXTENDS Integers

CONSTANTS
  Token,       \* refresh tokens the server may issue (their jti)
  Call,        \* API calls the web app has under way at once
  None,        \* no token, no key
  AccessTTL, RefreshTTL,
  Lossy,       \* may an answer be lost on the way
  Impatient,   \* may the user log in or out while calls are under way, or call
               \* while logging out
  MaxNow       \* bound on the clock

ASSUME SessionsAssumption ==
  /\ None \notin Token
  /\ AccessTTL \in Nat /\ RefreshTTL \in Nat /\ MaxNow \in Nat
  /\ Lossy \in BOOLEAN /\ Impatient \in BOOLEAN
  /\ None \notin Nat /\ None \notin [at: Nat, until: Nat]

VARIABLES
  issued,      \* refresh token -> its iat, for the tokens issued so far
  blocklist,   \* Redis jwt:blklist: refresh token -> when the key expires
  validAfter,  \* Redis jwt:valid_after: the revocation, or None
  condemned,   \* history: the tokens there were when all sessions were revoked
  blocked,     \* the account's status is blocked
  stored,      \* the refresh token in localStorage, or None
  access,      \* iat of the access token in memory, or None
  calls,       \* the web app's calls
  leaving,     \* where a logout is
  departing,   \* the token a logout is about, or None
  now

server == <<issued, blocklist, validAfter, condemned, blocked>>
logout == <<leaving, departing>>
client == <<stored, access, calls, logout>>
vars == <<server, client, now>>

-----------------------------------------------------------------------------
(* Tokens *)

\* Mistake: a key of the blocklist lives as long as an access token.
BurnedUntil_Access(t) == now + AccessTTL

\* revoke_token keeps its key for the rest of the token's life.
BurnedUntil(t) == issued[t] + RefreshTTL

\* The revocation in force that concerns tokens issued at iat.
Outdated(iat) == validAfter # None /\ now < validAfter.until /\ iat < validAfter.at

\* decode_token accepts refresh token t.
Accepted(t) ==
  /\ t \in DOMAIN issued
  /\ now < issued[t] + RefreshTTL
  /\ ~(t \in DOMAIN blocklist /\ now < blocklist[t])
  /\ ~Outdated(issued[t])

\* get_current_user accepts an access token issued at iat.
Authorised(iat) == iat # None /\ now < iat + AccessTTL /\ ~Outdated(iat) /\ ~blocked

\* A token that has expired leaves no key behind.
Burn(t) ==
  blocklist' = IF now < issued[t] + RefreshTTL
               THEN [x \in DOMAIN blocklist \cup {t} |->
                       IF x = t THEN BurnedUntil(t) ELSE blocklist[x]]
               ELSE blocklist

Issue(t) ==
  /\ t \notin DOMAIN issued
  /\ issued' = [x \in DOMAIN issued \cup {t} |-> IF x = t THEN now ELSE issued[x]]

-----------------------------------------------------------------------------
(* Calls of the web app.  at says how far a call is; retry that it repeats    *)
(* the request after a refresh; token is the refresh token it presents or is  *)
(* granted; iat the access token it carries.                                  *)

Stages == {"idle", "sent", "refreshing", "valid", "accepted", "granted", "refused"}

\* A refresh that the server may still grant, or has granted.
Refreshing(c) == calls[c].at \in {"refreshing", "valid", "accepted", "granted"}

CallState == [at: Stages, retry: BOOLEAN, token: Token \cup {None}, iat: Nat \cup {None}]

Idle == [at |-> "idle", retry |-> FALSE, token |-> None, iat |-> None]

Becomes(c, state) == calls' = [calls EXCEPT ![c] = state]

TypeOK ==
  /\ DOMAIN issued \subseteq Token /\ issued \in [DOMAIN issued -> Nat]
  /\ DOMAIN blocklist \subseteq DOMAIN issued /\ blocklist \in [DOMAIN blocklist -> Nat]
  /\ validAfter \in [at: Nat, until: Nat] \cup {None}
  /\ condemned \subseteq DOMAIN issued
  /\ blocked \in BOOLEAN
  /\ stored \in DOMAIN issued \cup {None}
  /\ access \in Nat \cup {None}
  /\ calls \in [Call -> CallState]
  /\ \A c \in Call : Refreshing(c) => calls[c].token \in DOMAIN issued
  /\ leaving \in {"no", "asked", "heard"}
  /\ departing \in DOMAIN issued \cup {None}
  /\ leaving = "asked" => departing # None
  /\ now \in Nat

Init ==
  /\ issued = [t \in {} |-> 0] /\ blocklist = [t \in {} |-> 0]
  /\ validAfter = None /\ condemned = {} /\ blocked = FALSE
  /\ stored = None /\ access = None
  /\ calls = [c \in Call |-> Idle]
  /\ leaving = "no" /\ departing = None
  /\ now = 0

ClearAuth == stored' = None /\ access' = None

UserMayAct == Impatient \/ \A c \in Call : calls[c] = Idle

\* Login through Telegram: a new pair of tokens, stored by setAuth.
LogIn(t) ==
  /\ stored = None /\ leaving = "no" /\ UserMayAct
  /\ ~blocked
  /\ Issue(t)
  /\ stored' = t /\ access' = now
  /\ UNCHANGED <<blocklist, validAfter, condemned, blocked, calls, logout, now>>

Send(c) ==
  /\ calls[c] = Idle
  /\ access # None
  /\ Impatient \/ leaving = "no"
  /\ Becomes(c, [Idle EXCEPT !.at = "sent", !.iat = access])
  /\ UNCHANGED <<server, stored, access, logout, now>>

Answered(c) ==
  /\ calls[c].at = "sent"
  /\ Authorised(calls[c].iat)
  /\ Becomes(c, Idle)
  /\ UNCHANGED <<server, stored, access, logout, now>>

\* Mistake: a repeated request that is refused again ends the session.
Unauthorised_Ends(c) ==
  /\ calls[c].at = "sent"
  /\ ~Authorised(calls[c].iat)
  /\ IF calls[c].retry \/ stored = None
     THEN Becomes(c, Idle) /\ ClearAuth
     ELSE /\ Becomes(c, [Idle EXCEPT !.at = "refreshing", !.token = stored])
          /\ UNCHANGED <<stored, access>>
  /\ UNCHANGED <<server, logout, now>>

\* 401: the first time the call refreshes with the token in localStorage; with
\* none there it gives up the session, and a repeated call just fails.
Unauthorised(c) ==
  /\ calls[c].at = "sent"
  /\ ~Authorised(calls[c].iat)
  /\ \/ /\ calls[c].retry
        /\ Becomes(c, Idle)
        /\ UNCHANGED <<stored, access>>
     \/ /\ ~calls[c].retry /\ stored = None
        /\ Becomes(c, Idle)
        /\ ClearAuth
     \/ /\ ~calls[c].retry /\ stored # None
        /\ Becomes(c, [Idle EXCEPT !.at = "refreshing", !.token = stored])
        /\ UNCHANGED <<stored, access>>
  /\ UNCHANGED <<server, logout, now>>

\* The server checks the token it was sent, then reads the account.
Check(c) ==
  /\ calls[c].at = "refreshing"
  /\ Becomes(c, [calls[c] EXCEPT !.at =
                   IF Accepted(calls[c].token) THEN "valid" ELSE "refused"])
  /\ UNCHANGED <<server, stored, access, logout, now>>

ReadUser(c) ==
  /\ calls[c].at = "valid"
  /\ Becomes(c, [calls[c] EXCEPT !.at = IF blocked THEN "refused" ELSE "accepted"])
  /\ UNCHANGED <<server, stored, access, logout, now>>

\* Mistake: the token presented stays usable.
Rotate_Unburned(c, t) ==
  /\ calls[c].at = "accepted"
  /\ Issue(t)
  /\ Becomes(c, [calls[c] EXCEPT !.at = "granted", !.token = t, !.iat = now])
  /\ UNCHANGED <<blocklist, validAfter, condemned, blocked, stored, access, logout, now>>

\* It burns the token and issues the next pair.
Rotate(c, t) ==
  /\ calls[c].at = "accepted"
  /\ Burn(calls[c].token)
  /\ Issue(t)
  /\ Becomes(c, [calls[c] EXCEPT !.at = "granted", !.token = t, !.iat = now])
  /\ UNCHANGED <<validAfter, condemned, blocked, stored, access, logout, now>>

\* tryRefresh stores the new pair and the call is repeated.
Granted(c) ==
  /\ calls[c].at = "granted"
  /\ stored' = calls[c].token /\ access' = calls[c].iat
  /\ Becomes(c, [Idle EXCEPT !.at = "sent", !.retry = TRUE, !.iat = calls[c].iat])
  /\ UNCHANGED <<server, logout, now>>

\* Refused, or no answer arrived: the web app gives up the session.
GiveUp(c) ==
  /\ \/ calls[c].at = "refused"
     \/ Lossy /\ calls[c].at \in {"refreshing", "granted"}
  /\ Becomes(c, Idle)
  /\ ClearAuth
  /\ UNCHANGED <<server, logout, now>>

-----------------------------------------------------------------------------
(* Leaving and being thrown out *)

\* Logging out sends the token in localStorage.
AskLogOut ==
  /\ leaving = "no" /\ stored # None /\ UserMayAct
  /\ leaving' = "asked" /\ departing' = stored
  /\ UNCHANGED <<server, stored, access, calls, now>>

\* The server burns a token it accepts.
BurnDeparting ==
  /\ leaving = "asked"
  /\ IF Accepted(departing) THEN Burn(departing) ELSE UNCHANGED blocklist
  /\ leaving' = "heard" /\ departing' = None
  /\ UNCHANGED <<issued, validAfter, condemned, blocked, stored, access, calls, now>>

\* The answer arrives: the page forgets the session.
LoggedOut ==
  /\ leaving = "heard"
  /\ ClearAuth
  /\ leaving' = "no"
  /\ UNCHANGED <<server, calls, departing, now>>

\* No answer arrives: apiFetch throws and the page keeps the session.
LogOutFails ==
  /\ Lossy /\ leaving # "no"
  /\ leaving' = "no" /\ departing' = None
  /\ UNCHANGED <<server, stored, access, calls, now>>

\* An administrator rejects the account.
BlockAccount ==
  /\ ~blocked
  /\ blocked' = TRUE
  /\ UNCHANGED <<issued, blocklist, validAfter, condemned, client, now>>

\* Mistake: the marker of the revocation lives as long as an access token.
RevokeAll_Short ==
  /\ blocked /\ validAfter = None
  /\ validAfter' = [at |-> now, until |-> now + AccessTTL]
  /\ condemned' = DOMAIN issued
  /\ UNCHANGED <<issued, blocklist, blocked, client, now>>

\* revoke_all_sessions, called after the status is committed.
RevokeAll ==
  /\ blocked /\ validAfter = None
  /\ validAfter' = [at |-> now, until |-> now + RefreshTTL]
  /\ condemned' = DOMAIN issued
  /\ UNCHANGED <<issued, blocklist, blocked, client, now>>

Tick ==
  /\ now < MaxNow
  /\ now' = now + 1
  /\ UNCHANGED <<server, client>>

Next ==
  \/ \E t \in Token : LogIn(t)
  \/ \E c \in Call :
       \/ Send(c) \/ Answered(c) \/ Unauthorised(c)
       \/ Check(c) \/ ReadUser(c) \/ \E t \in Token : Rotate(c, t)
       \/ Granted(c) \/ GiveUp(c)
  \/ AskLogOut \/ BurnDeparting \/ LoggedOut \/ LogOutFails
  \/ BlockAccount \/ RevokeAll
  \/ Tick

Spec == Init /\ [][Next]_vars

-----------------------------------------------------------------------------
(* Properties *)

\* Both kinds of Redis key expire, yet no token comes back to life: a key
\* outlives every token it speaks about.
DeadStaysDead ==
  [][\A t \in DOMAIN issued : ~Accepted(t) => ~Accepted(t)']_vars

\* Rotation burns the token it replaces: at no moment do two refresh tokens
\* open the account.
OneLiveToken ==
  \A t, u \in DOMAIN issued : Accepted(t) /\ Accepted(u) => t = u

\* A step gives up a session the server would go on with only when the user
\* logs out.
KeepsSession ==
  stored # None /\ stored' = None => ~Accepted(stored) \/ blocked \/ leaving = "heard"

\* The user has to log in again only when the server ended the session, or after
\* logging out (store/appStore.ts: the refresh token is persisted so that a session
\* can be re-established).
NoSpuriousLogout == [][KeepsSession]_vars

\* revoke_all_sessions ends every session begun in an earlier second, for good: the
\* marker it leaves in Redis outlives them all.
CondemnedStayOut ==
  \A t \in condemned : issued[t] < validAfter.at => ~Accepted(t)

=============================================================================
