--------------------------- MODULE SessionsProofs ---------------------------
(***************************************************************************)
(* No refresh token comes back to life, for any number of tokens and calls *)
(* and any lifetimes.  Both kinds of Redis key expire; the invariant says  *)
(* that each outlives every token it speaks about.  The calm user of       *)
(* MCSessions, who makes one call at a time and hears every answer, never  *)
(* has two live tokens and is never thrown out without a reason.           *)
(***************************************************************************)
EXTENDS MCSessions, TLAPS

KeysOutlive ==
  /\ \A t \in DOMAIN blocklist : blocklist[t] = issued[t] + RefreshTTL
  /\ validAfter # None => validAfter.until = validAfter.at + RefreshTTL

IInv == TypeOK /\ KeysOutlive

-----------------------------------------------------------------------------
\* Issue and Burn keep the types of what they write.
LEMMA IssueType ==
  ASSUME TypeOK, NEW t \in Token, Issue(t)
  PROVE  /\ DOMAIN issued' = DOMAIN issued \cup {t}
         /\ issued' \in [DOMAIN issued' -> Nat]
         /\ \A u \in DOMAIN issued : issued'[u] = issued[u]
         /\ issued'[t] = now
BY DEF TypeOK, Issue

LEMMA BurnType ==
  ASSUME TypeOK, NEW t \in DOMAIN issued, Burn(t)
  PROVE  /\ DOMAIN blocklist' \in {DOMAIN blocklist, DOMAIN blocklist \cup {t}}
         /\ blocklist' \in [DOMAIN blocklist' -> Nat]
         /\ \A u \in DOMAIN blocklist : u # t => blocklist'[u] = blocklist[u]
         /\ \A u \in DOMAIN blocklist' :
              \/ u \in DOMAIN blocklist /\ blocklist'[u] = blocklist[u]
              \/ u = t /\ blocklist'[u] = issued[t] + RefreshTTL
<1>1. issued[t] + RefreshTTL \in Nat
  BY SessionsAssumption DEF TypeOK
<1>2. CASE now < issued[t] + RefreshTTL
  <2>1. blocklist' = [x \in DOMAIN blocklist \cup {t} |->
                        IF x = t THEN issued[t] + RefreshTTL ELSE blocklist[x]]
    BY <1>2 DEF Burn, BurnedUntil
  <2>. QED  BY <1>1, <2>1 DEF TypeOK
<1>3. CASE ~(now < issued[t] + RefreshTTL)
  <2>1. blocklist' = blocklist
    BY <1>3 DEF Burn
  <2>. QED  BY <2>1 DEF TypeOK
<1>. QED  BY <1>2, <1>3

\* A call that changes to a well-formed state leaves the calls well formed.
LEMMA BecomesType ==
  ASSUME TypeOK, NEW c \in Call, NEW state \in CallState, Becomes(c, state)
  PROVE  /\ calls' \in [Call -> CallState]
         /\ calls'[c] = state
         /\ \A d \in Call : d # c => calls'[d] = calls[d]
BY DEF TypeOK, Becomes

LEMMA IdleType == Idle \in CallState
BY DEF Idle, CallState, Stages

-----------------------------------------------------------------------------
\* Type correctness: a call that refreshes carries a token that was issued.
THEOREM TypeCorrect == Spec => []TypeOK
<1>. USE SessionsAssumption
<1>1. Init => TypeOK
  <2>. SUFFICES ASSUME Init PROVE TypeOK
    OBVIOUS
  <2>1. /\ DOMAIN issued = {} /\ issued \in [DOMAIN issued -> Nat]
        /\ DOMAIN blocklist = {} /\ blocklist \in [DOMAIN blocklist -> Nat]
    BY DEF Init
  <2>2. calls \in [Call -> CallState] /\ \A c \in Call : calls[c].at = "idle"
    BY IdleType DEF Init, Idle
  <2>. QED  BY <2>1, <2>2 DEF Init, TypeOK, Refreshing
<1>2. TypeOK /\ [Next]_vars => TypeOK'
  <2>. SUFFICES ASSUME TypeOK, [Next]_vars PROVE TypeOK'
    OBVIOUS
  <2>1. ASSUME NEW t \in Token, LogIn(t) PROVE TypeOK'
    <3>1. /\ DOMAIN issued' = DOMAIN issued \cup {t}
          /\ issued' \in [DOMAIN issued' -> Nat]
      BY <2>1, IssueType DEF LogIn
    <3>. QED  BY <2>1, <3>1 DEF LogIn, TypeOK, Refreshing, logout
  <2>2. ASSUME NEW c \in Call, Send(c) PROVE TypeOK'
    <3>1. [Idle EXCEPT !.at = "sent", !.iat = access] \in CallState
      BY DEF TypeOK, Idle, CallState, Stages
    <3>2. [Idle EXCEPT !.at = "sent", !.iat = access].at = "sent"
      BY DEF Idle
    <3>. QED  BY <2>2, <3>1, <3>2, BecomesType DEF Send, TypeOK, Refreshing, server, logout
  <2>3. ASSUME NEW c \in Call, Answered(c) PROVE TypeOK'
    BY <2>3, IdleType, BecomesType DEF Answered, TypeOK, Refreshing, Idle, server, logout
  <2>4. ASSUME NEW c \in Call, Unauthorised(c) PROVE TypeOK'
    <3>1. CASE Becomes(c, Idle) /\ UNCHANGED <<stored, access>>
      BY <2>4, <3>1, IdleType, BecomesType
      DEF Unauthorised, TypeOK, Refreshing, Idle, server, logout
    <3>2. CASE Becomes(c, Idle) /\ ClearAuth
      BY <2>4, <3>2, IdleType, BecomesType
      DEF Unauthorised, TypeOK, Refreshing, Idle, server, logout, ClearAuth
    <3>3. CASE /\ stored # None
               /\ Becomes(c, [Idle EXCEPT !.at = "refreshing", !.token = stored])
               /\ UNCHANGED <<stored, access>>
      <4>1. [Idle EXCEPT !.at = "refreshing", !.token = stored] \in CallState
        BY DEF TypeOK, Idle, CallState, Stages
      <4>2. [Idle EXCEPT !.at = "refreshing", !.token = stored].token = stored
        BY DEF Idle
      <4>. QED  BY <2>4, <3>3, <4>1, <4>2, BecomesType
                DEF Unauthorised, TypeOK, Refreshing, server, logout
    <3>. QED  BY <2>4, <3>1, <3>2, <3>3 DEF Unauthorised
  <2>5. ASSUME NEW c \in Call, NEW at \in {"valid", "accepted", "refused"},
               Refreshing(c), Becomes(c, [calls[c] EXCEPT !.at = at]),
               UNCHANGED <<server, stored, access, logout, now>>
        PROVE TypeOK'
    <3>1. [calls[c] EXCEPT !.at = at] \in CallState
      BY DEF TypeOK, CallState, Stages
    <3>2. [calls[c] EXCEPT !.at = at].token = calls[c].token
      BY DEF TypeOK, CallState
    <3>. QED  BY <2>5, <3>1, <3>2, BecomesType DEF TypeOK, Refreshing, server, logout
  <2>6. ASSUME NEW c \in Call, NEW t \in Token, Rotate(c, t) PROVE TypeOK'
    <3>. DEFINE state == [calls[c] EXCEPT !.at = "granted", !.token = t, !.iat = now]
    <3>1. state \in CallState /\ state.token = t
      BY DEF TypeOK, CallState, Stages
    <3>2. calls[c].token \in DOMAIN issued
      BY <2>6 DEF Rotate, TypeOK, Refreshing
    <3>3. /\ calls' \in [Call -> CallState]
          /\ calls'[c] = state
          /\ \A d \in Call : d # c => calls'[d] = calls[d]
      BY <2>6, <3>1, BecomesType DEF Rotate
    <3>4. /\ DOMAIN issued' = DOMAIN issued \cup {t}
          /\ issued' \in [DOMAIN issued' -> Nat]
      BY <2>6, IssueType DEF Rotate
    <3>5. /\ DOMAIN blocklist' \in {DOMAIN blocklist, DOMAIN blocklist \cup {calls[c].token}}
          /\ blocklist' \in [DOMAIN blocklist' -> Nat]
      BY <2>6, <3>2, BurnType DEF Rotate
    <3>6. DOMAIN blocklist' \subseteq DOMAIN issued'
      BY <3>2, <3>4, <3>5 DEF TypeOK
    <3>7. \A d \in Call : Refreshing(d)' => calls'[d].token \in DOMAIN issued'
      <4>. SUFFICES ASSUME NEW d \in Call, Refreshing(d)'
                    PROVE  calls'[d].token \in DOMAIN issued'
        OBVIOUS
      <4>1. CASE d = c
        BY <3>1, <3>3, <3>4, <4>1
      <4>2. CASE d # c
        BY <3>3, <3>4, <4>2 DEF TypeOK, Refreshing
      <4>. QED  BY <4>1, <4>2
    <3>. QED  BY <2>6, <3>3, <3>4, <3>5, <3>6, <3>7 DEF Rotate, TypeOK, logout
  <2>7. ASSUME NEW c \in Call, Granted(c) PROVE TypeOK'
    <3>. DEFINE state == [Idle EXCEPT !.at = "sent", !.retry = TRUE, !.iat = calls[c].iat]
    <3>1. state \in CallState /\ state.at = "sent"
      BY DEF TypeOK, Idle, CallState, Stages
    <3>2. calls[c].token \in DOMAIN issued /\ calls[c].iat \in Nat \cup {None}
      BY <2>7 DEF Granted, TypeOK, Refreshing, CallState
    <3>. QED  BY <2>7, <3>1, <3>2, BecomesType DEF Granted, TypeOK, Refreshing, server, logout
  <2>8. ASSUME NEW c \in Call, GiveUp(c) PROVE TypeOK'
    BY <2>8, IdleType, BecomesType
    DEF GiveUp, TypeOK, Refreshing, Idle, server, logout, ClearAuth
  <2>9. CASE AskLogOut
    BY <2>9 DEF AskLogOut, TypeOK, Refreshing, server
  <2>10. CASE BurnDeparting
    <3>1. departing \in DOMAIN issued
      BY <2>10 DEF BurnDeparting, TypeOK
    <3>2. DOMAIN blocklist' \subseteq DOMAIN issued /\ blocklist' \in [DOMAIN blocklist' -> Nat]
      BY <2>10, <3>1, BurnType DEF BurnDeparting, TypeOK
    <3>. QED  BY <2>10, <3>2 DEF BurnDeparting, TypeOK, Refreshing
  <2>11. CASE LoggedOut
    BY <2>11 DEF LoggedOut, TypeOK, Refreshing, server, ClearAuth
  <2>12. CASE LogOutFails
    BY <2>12 DEF LogOutFails, TypeOK, Refreshing, server
  <2>13. CASE BlockAccount
    BY <2>13 DEF BlockAccount, TypeOK, Refreshing, client, logout
  <2>14. CASE RevokeAll
    BY <2>14 DEF RevokeAll, TypeOK, Refreshing, client, logout
  <2>15. CASE Tick
    BY <2>15 DEF Tick, TypeOK, Refreshing, client, server, logout
  <2>16. CASE UNCHANGED vars
    BY <2>16 DEF vars, TypeOK, Refreshing, client, server, logout
  <2>17. ASSUME NEW c \in Call, Check(c) PROVE TypeOK'
    BY <2>17, <2>5 DEF Check, Refreshing
  <2>18. ASSUME NEW c \in Call, ReadUser(c) PROVE TypeOK'
    BY <2>18, <2>5 DEF ReadUser, Refreshing
  <2>. QED  BY <2>1, <2>2, <2>3, <2>4, <2>6, <2>7, <2>8, <2>9, <2>10, <2>11, <2>12,
               <2>13, <2>14, <2>15, <2>16, <2>17, <2>18 DEF Next
<1>. QED  BY <1>1, <1>2, PTL DEF Spec

-----------------------------------------------------------------------------
\* What a step can do to the keys and the tokens.
StepBounds ==
  /\ \A t \in DOMAIN issued : t \in DOMAIN issued' /\ issued'[t] = issued[t]
  /\ \A t \in DOMAIN blocklist' :
       \/ t \in DOMAIN blocklist /\ blocklist'[t] = blocklist[t]
       \/ t \in DOMAIN issued /\ blocklist'[t] = issued[t] + RefreshTTL
  /\ DOMAIN blocklist \subseteq DOMAIN blocklist'
  /\ \/ validAfter' = validAfter
     \/ validAfter = None /\ validAfter' = [at |-> now, until |-> now + RefreshTTL]
  /\ now' \in {now, now + 1}

LEMMA StepKeepsBounds ==
  ASSUME TypeOK, [Next]_vars
  PROVE  StepBounds
<1>. USE SessionsAssumption
<1>1. CASE UNCHANGED <<server, now>>
  BY <1>1 DEF server, StepBounds, TypeOK
<1>2. ASSUME NEW t \in Token, LogIn(t) PROVE StepBounds
  BY <1>2, IssueType DEF LogIn, StepBounds, TypeOK
<1>3. ASSUME NEW c \in Call, NEW t \in Token, Rotate(c, t) PROVE StepBounds
  <2>1. calls[c].token \in DOMAIN issued
    BY <1>3 DEF Rotate, TypeOK, Refreshing
  <2>2. \A u \in DOMAIN issued : u \in DOMAIN issued' /\ issued'[u] = issued[u]
    BY <1>3, IssueType DEF Rotate
  <2>3. \A u \in DOMAIN blocklist' :
          \/ u \in DOMAIN blocklist /\ blocklist'[u] = blocklist[u]
          \/ u \in DOMAIN issued /\ blocklist'[u] = issued[u] + RefreshTTL
    BY <1>3, <2>1, BurnType DEF Rotate
  <2>4. DOMAIN blocklist \subseteq DOMAIN blocklist'
    BY <1>3, <2>1, BurnType DEF Rotate
  <2>. QED  BY <1>3, <2>2, <2>3, <2>4 DEF Rotate, StepBounds
<1>4. CASE BurnDeparting
  <2>1. departing \in DOMAIN issued
    BY <1>4 DEF BurnDeparting, TypeOK
  <2>. QED  BY <1>4, <2>1, BurnType DEF BurnDeparting, StepBounds, TypeOK
<1>5. CASE BlockAccount
  BY <1>5 DEF BlockAccount, StepBounds, TypeOK
<1>6. CASE RevokeAll
  BY <1>6 DEF RevokeAll, StepBounds, TypeOK
<1>7. CASE Tick
  BY <1>7 DEF Tick, server, StepBounds, TypeOK
<1>8. ASSUME NEW c \in Call,
             \/ Send(c) \/ Answered(c) \/ Unauthorised(c) \/ Check(c) \/ ReadUser(c)
             \/ Granted(c) \/ GiveUp(c)
      PROVE UNCHANGED <<server, now>>
  BY <1>8 DEF Send, Answered, Unauthorised, Check, ReadUser, Granted, GiveUp
<1>9. CASE AskLogOut \/ LoggedOut \/ LogOutFails
  <2>1. UNCHANGED <<server, now>>
    BY <1>9 DEF AskLogOut, LoggedOut, LogOutFails
  <2>. QED  BY <1>1, <2>1
<1>10. CASE UNCHANGED vars
  BY <1>1, <1>10 DEF vars
<1>. QED  BY <1>1, <1>2, <1>3, <1>4, <1>5, <1>6, <1>7, <1>8, <1>9, <1>10 DEF Next

\* A Redis key about a refresh token is kept until the token has expired.
THEOREM KeysOutliveTokens == Spec => []IInv
<1>. USE SessionsAssumption
<1>1. Init => KeysOutlive
  BY DEF Init, KeysOutlive
<1>2. TypeOK /\ KeysOutlive /\ [Next]_vars => KeysOutlive'
  <2>. SUFFICES ASSUME TypeOK, KeysOutlive, [Next]_vars PROVE KeysOutlive'
    OBVIOUS
  <2>1. StepBounds
    BY StepKeepsBounds
  <2>2. \A t \in DOMAIN blocklist' : blocklist'[t] = issued'[t] + RefreshTTL
    BY <2>1 DEF StepBounds, KeysOutlive, TypeOK
  <2>3. validAfter' # None => validAfter'.until = validAfter'.at + RefreshTTL
    BY <2>1 DEF StepBounds, KeysOutlive
  <2>. QED  BY <2>2, <2>3 DEF KeysOutlive
<1>. QED  BY <1>1, <1>2, TypeCorrect, PTL DEF Spec, IInv

\* A step revives no token: a key that expires speaks about expired tokens only.
LEMMA NoRevival ==
  ASSUME IInv, [Next]_vars, NEW t \in DOMAIN issued, Accepted(t)'
  PROVE  Accepted(t)
<1>. USE SessionsAssumption
<1>1. StepBounds /\ TypeOK /\ KeysOutlive
  BY StepKeepsBounds DEF IInv
<1>2. now \in Nat /\ issued[t] \in Nat /\ issued'[t] = issued[t] /\ now' \in {now, now + 1}
  BY <1>1 DEF StepBounds, TypeOK
<1>3. now' < issued[t] + RefreshTTL
  BY <1>2 DEF Accepted
<1>4. ~(t \in DOMAIN blocklist /\ now < blocklist[t])
  <2>. SUFFICES ASSUME t \in DOMAIN blocklist PROVE FALSE
    OBVIOUS
  <2>1. t \in DOMAIN blocklist' /\ blocklist'[t] = issued[t] + RefreshTTL
    BY <1>1 DEF StepBounds, KeysOutlive
  <2>. QED  BY <1>3, <2>1 DEF Accepted
<1>5. ~Outdated(issued[t])
  <2>. SUFFICES ASSUME validAfter # None, issued[t] < validAfter.at PROVE FALSE
    BY DEF Outdated
  <2>1. validAfter' = validAfter /\ validAfter.until = validAfter.at + RefreshTTL
        /\ validAfter.at \in Nat
    BY <1>1 DEF StepBounds, KeysOutlive, TypeOK
  <2>2. now' < validAfter.until
    BY <1>2, <1>3, <2>1
  <2>. QED  BY <1>2, <2>1, <2>2 DEF Accepted, Outdated
<1>. QED  BY <1>2, <1>3, <1>4, <1>5 DEF Accepted

\* No token comes back to life: neither the expiry of a key of the blocklist nor
\* that of the revocation marker makes decode_token accept what it refused.
THEOREM DeadTokensStayDead == Spec => DeadStaysDead
<1>1. IInv /\ [Next]_vars
        => [\A t \in DOMAIN issued : ~Accepted(t) => ~Accepted(t)']_vars
  BY NoRevival
<1>. QED  BY <1>1, KeysOutliveTokens, PTL DEF DeadStaysDead, Spec

-----------------------------------------------------------------------------
\* Tokens are condemned by a revocation only.
Marked == condemned # {} => validAfter # None

LEMMA StepKeepsMarked == TypeOK /\ Marked /\ [Next]_vars => Marked'
<1>. SUFFICES ASSUME TypeOK, Marked, [Next]_vars PROVE Marked'
  OBVIOUS
<1>1. CASE UNCHANGED <<condemned, validAfter>>
  BY <1>1 DEF Marked
<1>2. CASE RevokeAll
  <2>1. now + RefreshTTL \in Nat /\ now \in Nat
    BY SessionsAssumption DEF TypeOK
  <2>2. validAfter' \in [at: Nat, until: Nat]
    BY <1>2, <2>1 DEF RevokeAll
  <2>. QED  BY <2>2, SessionsAssumption DEF Marked
<1>3. ASSUME NEW t \in Token, LogIn(t) PROVE Marked'
  BY <1>1, <1>3 DEF LogIn
<1>4. ASSUME NEW c \in Call,
             \/ Send(c) \/ Answered(c) \/ Unauthorised(c) \/ Check(c) \/ ReadUser(c)
             \/ Granted(c) \/ GiveUp(c) \/ \E t \in Token : Rotate(c, t)
      PROVE  Marked'
  BY <1>1, <1>4
  DEF Send, Answered, Unauthorised, Check, ReadUser, Granted, GiveUp, Rotate, server
<1>5. CASE AskLogOut \/ BurnDeparting \/ LoggedOut \/ LogOutFails \/ BlockAccount \/ Tick
  BY <1>1, <1>5 DEF AskLogOut, BurnDeparting, LoggedOut, LogOutFails, BlockAccount, Tick, server
<1>6. CASE UNCHANGED vars
  BY <1>1, <1>6 DEF vars, server
<1>. QED  BY <1>2, <1>3, <1>4, <1>5, <1>6 DEF Next

\* A session that began before the second of a revocation is never refreshed again:
\* the marker is in Redis for as long as the last of its tokens could live.
THEOREM CondemnedNeverReturn == Spec => []CondemnedStayOut
<1>1. Init => Marked
  BY DEF Init, Marked
<1>2. IInv /\ Marked => CondemnedStayOut
  <2>. SUFFICES ASSUME IInv, Marked, NEW t \in condemned,
                       issued[t] < validAfter.at, Accepted(t)
                PROVE  FALSE
    BY DEF CondemnedStayOut
  <2>1. validAfter # None /\ t \in DOMAIN issued
    BY DEF Marked, IInv, TypeOK
  <2>2. /\ validAfter.at \in Nat /\ validAfter.until = validAfter.at + RefreshTTL
        /\ issued[t] \in Nat /\ now \in Nat /\ RefreshTTL \in Nat
    BY <2>1, SessionsAssumption DEF IInv, TypeOK, KeysOutlive
  <2>3. now < validAfter.until
    BY <2>2 DEF Accepted
  <2>. QED  BY <2>1, <2>3 DEF Accepted, Outdated
<1>. QED  BY <1>1, <1>2, StepKeepsMarked, TypeCorrect, KeysOutliveTokens, PTL DEF Spec

-----------------------------------------------------------------------------
(* A calm user *)

\* One thing is under way at a time: a call, or a logout with the token stored.
OneAtATime ==
  /\ \A c, d \in Call : calls[c] # Idle /\ calls[d] # Idle => c = d
  /\ leaving # "no" => \A c \in Call : calls[c] = Idle
  /\ leaving = "asked" => departing = stored

\* A refresh presents the token stored, and is refused for a reason.
Presents ==
  \A c \in Call :
    calls[c].at \in {"refreshing", "valid", "accepted", "refused"} =>
      /\ calls[c].token = stored /\ stored # None
      /\ calls[c].at = "refused" => blocked \/ ~Accepted(stored)

\* The browser holds the token that opens the account, or is about to be given it; only
\* one whose account was blocked has forgotten it before the server did.
LiveIsHeld ==
  \A t \in DOMAIN issued :
    Accepted(t) =>
      /\ leaving # "heard"
      /\ \A c \in Call : calls[c].at = "granted" => t = calls[c].token
      /\ \/ t = stored
         \/ stored = None /\ blocked
         \/ \E c \in Call : calls[c].at = "granted"

CalmInv == OneAtATime /\ Presents /\ LiveIsHeld /\ OneLiveToken

LEMMA CalmIsAStep == [MCNext]_MCVars => [Next]_vars /\ UNCHANGED calm
BY DEF MCNext, MCVars, Begins, Lost, Next, vars

\* A step that issues nothing leaves no token live that was not.
LEMMA FewerLive ==
  ASSUME IInv, [Next]_vars, UNCHANGED issued
  PROVE  \A t \in DOMAIN issued' : t \in DOMAIN issued /\ (Accepted(t)' => Accepted(t))
BY NoRevival

\* A token that is burned opens nothing any more.
LEMMA BurningKills ==
  ASSUME IInv, NEW t \in DOMAIN issued, Burn(t), issued'[t] = issued[t], now' = now
  PROVE  ~Accepted(t)'
<1>1. issued[t] \in Nat /\ now \in Nat /\ issued[t] + RefreshTTL \in Nat
  BY SessionsAssumption DEF IInv, TypeOK
<1>2. CASE now < issued[t] + RefreshTTL
  <2>1. t \in DOMAIN blocklist' /\ blocklist'[t] = issued[t] + RefreshTTL
    BY <1>2 DEF Burn, BurnedUntil
  <2>. QED  BY <1>2, <2>1 DEF Accepted
<1>3. CASE ~(now < issued[t] + RefreshTTL)
  BY <1>3 DEF Accepted
<1>. QED  BY <1>2, <1>3

LEMMA IdleAt == Idle.at = "idle"
BY DEF Idle

\* While a call is on its way nothing else is.
LEMMA OthersIdle ==
  ASSUME TypeOK, OneAtATime, NEW c \in Call, calls[c].at # "idle"
  PROVE  leaving = "no" /\ \A d \in Call : d # c => calls[d] = Idle
<1>1. calls[c] # Idle
  BY IdleAt
<1>. QED  BY <1>1 DEF OneAtATime, TypeOK

\* The call on its way gets somewhere: it stays the only one.
LEMMA OneMoves ==
  ASSUME TypeOK, NEW c \in Call, NEW state \in CallState, Becomes(c, state),
         leaving' = "no", \A d \in Call : d # c => calls[d] = Idle
  PROVE  /\ OneAtATime'
         /\ calls'[c] = state
         /\ \A d \in Call : d # c => calls'[d].at = "idle"
<1>1. calls'[c] = state /\ \A d \in Call : d # c => calls'[d] = calls[d]
  BY BecomesType
<1>2. \A d \in Call : d # c => calls'[d] = Idle
  BY <1>1
<1>3. OneAtATime'
  BY <1>2 DEF OneAtATime
<1>. QED  BY <1>1, <1>2, <1>3, IdleAt

\* Everything is quiet: no call is anywhere.
LEMMA QuietIsIdle ==
  ASSUME Quiet
  PROVE  leaving = "no" /\ \A c \in Call : calls[c] = Idle /\ calls[c].at = "idle"
BY IdleAt DEF Quiet

\* Where the calls and the logout stay as they are and nothing is issued or stored, a
\* calm user stays calm: fewer tokens are live, and a block only adds excuses.
LEMMA ServerActs ==
  ASSUME IInv, CalmInv, [Next]_vars, UNCHANGED <<issued, stored, calls, leaving, departing>>,
         blocked => blocked'
  PROVE  CalmInv'
<1>1. \A t \in DOMAIN issued' : t \in DOMAIN issued /\ (Accepted(t)' => Accepted(t))
  BY FewerLive
<1>2. OneAtATime'
  BY DEF CalmInv, OneAtATime
<1>3. stored # None => stored \in DOMAIN issued
  BY DEF IInv, TypeOK
<1>4. Presents'
  BY <1>1, <1>3 DEF CalmInv, Presents
<1>5. LiveIsHeld'
  BY <1>1 DEF CalmInv, LiveIsHeld
<1>6. OneLiveToken'
  BY <1>1 DEF CalmInv, OneLiveToken
<1>. QED  BY <1>2, <1>4, <1>5, <1>6 DEF CalmInv

\* A call of a calm user, from the request to its end.
LEMMA CallCalm ==
  ASSUME IInv, CalmInv, [Next]_vars, NEW c \in Call,
         \/ Quiet /\ Send(c)
         \/ Answered(c) \/ Unauthorised(c) \/ Check(c) \/ ReadUser(c) \/ Granted(c)
         \/ GiveUp(c) /\ calls[c].at = "refused"
  PROVE  CalmInv'
<1>. USE DEF CalmInv
<1>1. TypeOK /\ calls[c] \in CallState
  BY DEF IInv, TypeOK
<1>2. UNCHANGED <<server, logout, now>>
  BY DEF Send, Answered, Unauthorised, Check, ReadUser, Granted, GiveUp
<1>3. UNCHANGED <<issued, blocked, leaving, departing>>
  BY <1>2 DEF server, logout
<1>4. \A t : Accepted(t)' = Accepted(t)
  BY <1>2 DEF server, Accepted, Outdated
<1>5. OneLiveToken'
  BY <1>3, <1>4 DEF OneLiveToken
<1>6. leaving = "no" /\ \A d \in Call : d # c => calls[d] = Idle
  BY <1>1, OthersIdle, QuietIsIdle
  DEF Answered, Unauthorised, Check, ReadUser, Granted, GiveUp
<1>7. ASSUME NEW state \in CallState, Becomes(c, state)
      PROVE  /\ OneAtATime' /\ calls'[c] = state
             /\ \A d \in Call : d # c => calls'[d].at = "idle"
  BY <1>1, <1>3, <1>6, <1>7, OneMoves
<1>8. \A d \in Call : d # c => calls[d].at = "idle"
  BY <1>6 DEF Idle
<1>9. ASSUME calls[c].at # "granted", NEW state \in CallState, Becomes(c, state),
             state.at \notin {"refreshing", "valid", "accepted", "refused", "granted"},
             UNCHANGED stored
      PROVE  OneAtATime' /\ Presents' /\ LiveIsHeld'
  <2>1. Presents'
    BY <1>7, <1>9 DEF Presents
  <2>2. LiveIsHeld'
    BY <1>3, <1>4, <1>6, <1>7, <1>8, <1>9 DEF LiveIsHeld
  <2>. QED  BY <1>7, <1>9, <2>1, <2>2
<1>10. CASE Quiet /\ Send(c)
  <2>1. [Idle EXCEPT !.at = "sent", !.iat = access] \in CallState
        /\ [Idle EXCEPT !.at = "sent", !.iat = access].at = "sent"
    BY <1>1 DEF TypeOK, Idle, CallState, Stages
  <2>2. calls[c].at = "idle" /\ UNCHANGED stored
    BY <1>10, QuietIsIdle DEF Send
  <2>. QED  BY <1>5, <1>9, <1>10, <2>1, <2>2 DEF Send
<1>11. CASE Answered(c)
  BY <1>5, <1>9, <1>11, IdleType DEF Answered, Idle
<1>12. CASE Unauthorised(c)
  <2>1. CASE Becomes(c, Idle) /\ UNCHANGED stored
    BY <1>5, <1>9, <1>12, <2>1, IdleType DEF Unauthorised, Idle
  <2>2. CASE stored = None /\ Becomes(c, Idle) /\ ClearAuth
    BY <1>5, <1>9, <1>12, <2>2, IdleType DEF Unauthorised, ClearAuth, Idle
  <2>3. CASE /\ stored # None /\ UNCHANGED stored
             /\ Becomes(c, [Idle EXCEPT !.at = "refreshing", !.token = stored])
    <3>. DEFINE state == [Idle EXCEPT !.at = "refreshing", !.token = stored]
    <3>1. state \in CallState /\ state.at = "refreshing" /\ state.token = stored
      BY <1>1 DEF TypeOK, Idle, CallState, Stages
    <3>. HIDE DEF state
    <3>2. OneAtATime' /\ calls'[c] = state /\ \A d \in Call : d # c => calls'[d].at = "idle"
      BY <1>7, <2>3, <3>1 DEF state
    <3>3. Presents'
      BY <2>3, <3>1, <3>2 DEF Presents
    <3>4. LiveIsHeld'
      BY <1>3, <1>4, <1>6, <1>8, <1>12, <2>3, <3>1, <3>2 DEF LiveIsHeld, Unauthorised
    <3>. QED  BY <1>5, <3>2, <3>3, <3>4
  <2>. QED  BY <1>12, <2>1, <2>2, <2>3 DEF Unauthorised
<1>13. ASSUME NEW at \in {"valid", "accepted", "refused"},
              calls[c].at \in {"refreshing", "valid"},
              Becomes(c, [calls[c] EXCEPT !.at = at]), UNCHANGED stored,
              at = "refused" => blocked \/ ~Accepted(calls[c].token)
       PROVE  CalmInv'
  <2>. DEFINE state == [calls[c] EXCEPT !.at = at]
  <2>1. state \in CallState /\ state.at = at /\ state.token = calls[c].token
    BY <1>1 DEF CallState, Stages
  <2>. HIDE DEF state
  <2>2. OneAtATime' /\ calls'[c] = state /\ \A d \in Call : d # c => calls'[d].at = "idle"
    BY <1>7, <1>13, <2>1 DEF state
  <2>3. Presents'
    BY <1>3, <1>4, <1>13, <2>1, <2>2 DEF Presents
  <2>4. LiveIsHeld'
    BY <1>3, <1>4, <1>6, <1>8, <1>13, <2>1, <2>2 DEF LiveIsHeld
  <2>. QED  BY <1>5, <2>2, <2>3, <2>4
<1>14. CASE Check(c)
  BY <1>13, <1>14 DEF Check
<1>15. CASE ReadUser(c)
  BY <1>13, <1>15 DEF ReadUser
<1>16. CASE Granted(c)
  <2>. DEFINE state == [Idle EXCEPT !.at = "sent", !.retry = TRUE, !.iat = calls[c].iat]
  <2>1. state \in CallState /\ state.at = "sent"
    BY <1>1 DEF CallState, Idle, Stages
  <2>. HIDE DEF state
  <2>2. OneAtATime' /\ calls'[c] = state /\ \A d \in Call : d # c => calls'[d].at = "idle"
    BY <1>7, <1>16, <2>1 DEF state, Granted
  <2>3. Presents'
    BY <2>1, <2>2 DEF Presents
  <2>4. LiveIsHeld'
    BY <1>3, <1>4, <1>6, <1>16, <2>1, <2>2 DEF LiveIsHeld, Granted
  <2>. QED  BY <1>5, <2>2, <2>3, <2>4
<1>17. CASE GiveUp(c) /\ calls[c].at = "refused"
  <2>1. OneAtATime' /\ calls'[c] = Idle /\ \A d \in Call : d # c => calls'[d].at = "idle"
    BY <1>7, <1>17, IdleType DEF GiveUp
  <2>2. blocked \/ ~Accepted(stored)
    BY <1>17 DEF Presents
  <2>3. Presents'
    BY <2>1 DEF Presents, Idle
  <2>4. LiveIsHeld'
    BY <1>3, <1>4, <1>6, <1>8, <1>17, <2>1, <2>2 DEF LiveIsHeld, GiveUp, ClearAuth, Idle
  <2>. QED  BY <1>5, <2>1, <2>3, <2>4
<1>. QED  BY <1>10, <1>11, <1>12, <1>14, <1>15, <1>16, <1>17

\* A login: nothing was live, so the new token is the only one.
LEMMA LogInCalm ==
  ASSUME IInv, CalmInv, [Next]_vars, Quiet, NEW t \in Token, LogIn(t)
  PROVE  CalmInv'
<1>1. leaving' = "no" /\ \A c \in Call : calls'[c] = Idle /\ calls'[c].at = "idle"
  BY QuietIsIdle DEF LogIn, logout
<1>2. DOMAIN issued' = DOMAIN issued \cup {t}
  BY IssueType DEF IInv, LogIn
<1>3. \A u \in DOMAIN issued : ~Accepted(u)
  <2>1. stored = None /\ ~blocked /\ \A c \in Call : calls[c].at = "idle"
    BY QuietIsIdle DEF LogIn
  <2>. QED  BY <2>1, SessionsAssumption DEF CalmInv, LiveIsHeld, IInv, TypeOK
<1>4. \A u \in DOMAIN issued' : Accepted(u)' => u = t
  BY <1>2, <1>3, NoRevival
<1>5. OneAtATime' /\ Presents'
  BY <1>1 DEF OneAtATime, Presents
<1>6. LiveIsHeld' /\ OneLiveToken'
  BY <1>1, <1>4 DEF LiveIsHeld, OneLiveToken, LogIn
<1>. QED  BY <1>5, <1>6 DEF CalmInv

\* A refresh is granted: the token it presented, the only one live, is burned.
LEMMA RotateCalm ==
  ASSUME IInv, CalmInv, [Next]_vars, NEW c \in Call, NEW t \in Token, Rotate(c, t)
  PROVE  CalmInv'
<1>. DEFINE state == [calls[c] EXCEPT !.at = "granted", !.token = t, !.iat = now]
<1>1. TypeOK /\ calls[c] \in CallState /\ calls[c].at = "accepted"
  BY DEF IInv, TypeOK, Rotate
<1>2. state \in CallState /\ state.at = "granted" /\ state.token = t
  BY <1>1 DEF TypeOK, CallState, Stages
<1>. HIDE DEF state
<1>3. calls[c].token = stored /\ stored # None /\ stored \in DOMAIN issued
  BY <1>1 DEF CalmInv, Presents, TypeOK
<1>. PICK old \in DOMAIN issued : old = stored
  BY <1>3
<1>4. leaving = "no" /\ \A d \in Call : d # c => calls[d] = Idle
  BY <1>1, OthersIdle DEF CalmInv
<1>5. OneAtATime' /\ calls'[c] = state /\ \A d \in Call : d # c => calls'[d].at = "idle"
  BY <1>1, <1>2, <1>4, OneMoves DEF Rotate, logout, state
<1>6. /\ DOMAIN issued' = DOMAIN issued \cup {t}
      /\ issued'[old] = issued[old]
  BY <1>1, IssueType DEF Rotate
<1>7. \A u \in DOMAIN issued : Accepted(u) => u = old
  BY <1>1, <1>3, <1>4, IdleAt DEF CalmInv, LiveIsHeld
<1>8. ~Accepted(old)'
  BY <1>3, <1>6, BurningKills DEF Rotate
<1>9. \A u \in DOMAIN issued' : Accepted(u)' => u = t
  BY <1>6, <1>7, <1>8, NoRevival
<1>10. Presents'
  BY <1>2, <1>5 DEF Presents
<1>11. LiveIsHeld' /\ OneLiveToken'
  BY <1>2, <1>4, <1>5, <1>9 DEF LiveIsHeld, OneLiveToken, Rotate, logout
<1>. QED  BY <1>5, <1>10, <1>11 DEF CalmInv

\* A logout burns the only live token before the page forgets it.
LEMMA LogOutCalm ==
  ASSUME IInv, CalmInv, [Next]_vars, (Quiet /\ AskLogOut) \/ BurnDeparting \/ LoggedOut
  PROVE  CalmInv'
<1>1. TypeOK /\ UNCHANGED <<issued, blocked, calls, now>>
  BY DEF IInv, AskLogOut, BurnDeparting, LoggedOut, server
<1>2. \A c \in Call : calls'[c] = Idle /\ calls'[c].at = "idle"
  BY <1>1, QuietIsIdle, IdleAt
  DEF CalmInv, OneAtATime, BurnDeparting, LoggedOut
<1>3. Presents' /\ OneLiveToken'
  BY <1>2, FewerLive, <1>1 DEF Presents, OneLiveToken, CalmInv
<1>4. OneAtATime'
  BY <1>2 DEF OneAtATime, AskLogOut, BurnDeparting, LoggedOut
<1>5. CASE Quiet /\ AskLogOut
  <2>1. LiveIsHeld'
    BY <1>1, <1>2, <1>5, FewerLive, QuietIsIdle DEF LiveIsHeld, CalmInv, AskLogOut
  <2>. QED  BY <1>3, <1>4, <2>1 DEF CalmInv
<1>6. CASE BurnDeparting
  <2>1. departing = stored /\ departing \in DOMAIN issued /\ departing # None
    BY <1>1, <1>6, SessionsAssumption DEF CalmInv, OneAtATime, BurnDeparting, TypeOK
  <2>. PICK old \in DOMAIN issued : old = departing
    BY <2>1
  <2>2. \A u \in DOMAIN issued : Accepted(u) => u = old
    BY <1>1, <1>2, <2>1 DEF CalmInv, LiveIsHeld
  <2>3. ~Accepted(old)'
    BY <1>1, <1>6, <2>1, BurningKills, NoRevival DEF BurnDeparting
  <2>4. \A u \in DOMAIN issued' : ~Accepted(u)'
    BY <1>1, <2>2, <2>3, FewerLive
  <2>5. LiveIsHeld'
    BY <2>4 DEF LiveIsHeld
  <2>. QED  BY <1>3, <1>4, <2>5 DEF CalmInv
<1>7. CASE LoggedOut
  <2>1. \A u \in DOMAIN issued' : ~Accepted(u)'
    BY <1>1, <1>7, FewerLive DEF CalmInv, LiveIsHeld, LoggedOut
  <2>2. LiveIsHeld'
    BY <2>1 DEF LiveIsHeld
  <2>. QED  BY <1>3, <1>4, <2>2 DEF CalmInv
<1>. QED  BY <1>5, <1>6, <1>7

\* What the administrator and the clock do.
LEMMA OutsideCalm ==
  ASSUME IInv, CalmInv, [Next]_vars, BlockAccount \/ RevokeAll \/ Tick \/ UNCHANGED vars
  PROVE  CalmInv'
<1>1. UNCHANGED <<issued, stored, calls, leaving, departing>> /\ (blocked => blocked')
  BY DEF BlockAccount, RevokeAll, Tick, vars, server, client, logout
<1>. QED  BY <1>1, ServerActs

\* A calm user's web app is the one of Sessions.tla, so its tokens stay as they are.
LEMMA CalmRefines == MCSpec => Spec
<1>1. MCInit => Init
  BY DEF MCInit
<1>. QED  BY <1>1, CalmIsAStep, PTL DEF MCSpec, Spec

\* The calm user's invariant: a token that opens the account is the one in the browser
\* or in the answer on its way there.
THEOREM CalmInvHolds == MCSpec => [](calm => CalmInv)
<1>1. MCInit => (calm => CalmInv)
  <2>. SUFFICES ASSUME Init PROVE CalmInv
    BY DEF MCInit
  <2>1. \A c \in Call : calls[c] = Idle /\ calls[c].at = "idle"
    BY IdleAt DEF Init
  <2>2. DOMAIN issued = {} /\ leaving = "no"
    BY DEF Init
  <2>. QED  BY <2>1, <2>2 DEF CalmInv, OneAtATime, Presents, LiveIsHeld, OneLiveToken
<1>2. IInv /\ (calm => CalmInv) /\ [MCNext]_MCVars => (calm => CalmInv)'
  <2>. SUFFICES ASSUME IInv, calm, CalmInv, [MCNext]_MCVars PROVE CalmInv'
    BY CalmIsAStep
  <2>1. [Next]_vars
    BY CalmIsAStep
  <2>2. CASE \E t \in Token : Begins /\ LogIn(t)
    BY <2>1, <2>2, LogInCalm DEF Begins
  <2>3. CASE (Begins /\ AskLogOut) \/ BurnDeparting \/ LoggedOut
    BY <2>1, <2>3, LogOutCalm DEF Begins
  <2>4. CASE \E c \in Call :
               \/ Begins /\ Send(c)
               \/ Answered(c) \/ Unauthorised(c) \/ Check(c) \/ ReadUser(c) \/ Granted(c)
               \/ GiveUp(c) /\ calls[c].at = "refused"
    BY <2>1, <2>4, CallCalm DEF Begins
  <2>5. CASE \E c \in Call, t \in Token : Rotate(c, t)
    BY <2>1, <2>5, RotateCalm
  <2>6. CASE BlockAccount \/ RevokeAll \/ Tick \/ UNCHANGED vars
    BY <2>1, <2>6, OutsideCalm
  <2>. QED  BY <2>2, <2>3, <2>4, <2>5, <2>6 DEF MCNext, MCVars, Lost
<1>. QED  BY <1>1, <1>2, CalmRefines, KeysOutliveTokens, PTL DEF MCSpec

\* At no moment do two refresh tokens of a calm user's browser open the account
\* (auth_api.py, refresh: the token presented is burned when the next is issued).
THEOREM CalmHasOneToken == MCSpec => []OneLiveTokenWhenCalm
<1>1. (calm => CalmInv) => OneLiveTokenWhenCalm
  BY DEF CalmInv, OneLiveTokenWhenCalm
<1>. QED  BY <1>1, CalmInvHolds, PTL

\* The steps of a calm user's web app that may leave the browser without a token.
LEMMA StepForgets ==
  ASSUME calm, [MCNext]_MCVars, stored # None, stored' = None
  PROVE  \/ LoggedOut
         \/ \E c \in Call : Granted(c) \/ (GiveUp(c) /\ calls[c].at = "refused")
         \/ \E t \in Token : LogIn(t)
<1>1. ASSUME NEW c \in Call,
             Send(c) \/ Answered(c) \/ Unauthorised(c) \/ Check(c) \/ ReadUser(c)
      PROVE  FALSE
  BY <1>1 DEF Send, Answered, Unauthorised, Check, ReadUser
<1>2. ASSUME NEW c \in Call, NEW t \in Token, Rotate(c, t) PROVE FALSE
  BY <1>2 DEF Rotate
<1>3. ~AskLogOut /\ ~BurnDeparting
  BY DEF AskLogOut, BurnDeparting
<1>4. ~BlockAccount /\ ~RevokeAll /\ ~Tick
  BY DEF BlockAccount, RevokeAll, Tick, client
<1>5. ~UNCHANGED vars
  BY DEF vars, client
<1>. QED  BY <1>1, <1>2, <1>3, <1>4, <1>5 DEF MCNext, MCVars, Lost

\* A calm user is thrown out only by the server or by logging out (api.ts, apiFetch).
THEOREM CalmIsNotLoggedOut == MCSpec => NoSpuriousLogoutWhenCalm
<1>1. TypeOK /\ (calm => CalmInv) /\ [MCNext]_MCVars => [calm => KeepsSession]_vars
  <2>. SUFFICES ASSUME TypeOK, calm, CalmInv, [MCNext]_MCVars, stored # None, stored' = None
                PROVE  ~Accepted(stored) \/ blocked \/ leaving = "heard"
    BY DEF KeepsSession
  <2>1. CASE LoggedOut
    BY <2>1 DEF LoggedOut
  <2>2. ASSUME NEW c \in Call, GiveUp(c) /\ calls[c].at = "refused"
        PROVE  ~Accepted(stored) \/ blocked
    BY <2>2 DEF CalmInv, Presents
  <2>3. ASSUME NEW c \in Call, Granted(c) PROVE FALSE
    BY <2>3, SessionsAssumption DEF Granted, TypeOK, Refreshing
  <2>4. ASSUME NEW t \in Token, LogIn(t) PROVE FALSE
    BY <2>4 DEF LogIn
  <2>. QED  BY <2>1, <2>2, <2>3, <2>4, StepForgets
<1>. QED  BY <1>1, CalmInvHolds, CalmRefines, TypeCorrect, CalmIsAStep, PTL
          DEF MCSpec, NoSpuriousLogoutWhenCalm

=============================================================================
