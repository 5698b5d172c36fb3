----------------------------- MODULE MCSessions -----------------------------
(***************************************************************************)
(* Sessions for TLC: an access token lives one second and a refresh token  *)
(* three, so both expire within a run.                                     *)
(*                                                                         *)
(* The run explores two web apps: one whose calls, logins and logouts      *)
(* overlap and whose answers get lost, and a calm one that makes one call  *)
(* at a time and hears every answer.  The properties "when calm" are about *)
(* the second.                                                             *)
(***************************************************************************)
EXTENDS Sessions, TLC

VARIABLE calm

MCVars == <<vars, calm>>

MCInit == Init /\ calm \in BOOLEAN

Quiet == leaving = "no" /\ \A c \in Call : calls[c] = Idle

\* The web app or its user begins something.
Begins == (calm => Quiet) /\ UNCHANGED calm

\* A call is not answered in the way it should be.
Lost == ~calm /\ UNCHANGED calm

MCNext ==
  \/ \E t \in Token : Begins /\ LogIn(t)
  \/ \E c \in Call : Begins /\ Send(c)
  \/ Begins /\ AskLogOut
  \/ \E c \in Call : Answered(c) /\ UNCHANGED calm
  \/ \E c \in Call : Unauthorised(c) /\ UNCHANGED calm
  \/ \E c \in Call : Check(c) /\ UNCHANGED calm
  \/ \E c \in Call : ReadUser(c) /\ UNCHANGED calm
  \/ \E c \in Call, t \in Token : Rotate(c, t) /\ UNCHANGED calm
  \/ \E c \in Call : Granted(c) /\ UNCHANGED calm
  \/ \E c \in Call : GiveUp(c) /\ calls[c].at = "refused" /\ UNCHANGED calm
  \/ \E c \in Call : GiveUp(c) /\ Lost
  \/ BurnDeparting /\ UNCHANGED calm
  \/ LoggedOut /\ UNCHANGED calm
  \/ LogOutFails /\ Lost
  \/ BlockAccount /\ UNCHANGED calm
  \/ RevokeAll /\ UNCHANGED calm
  \/ Tick /\ UNCHANGED calm

MCSpec == MCInit /\ [][MCNext]_MCVars

Interchangeable == Permutations(Token) \cup Permutations(Call)

-----------------------------------------------------------------------------
(* What a calm user may expect *)

\* Rotation burns the token it replaces, and a logout the last one: at no moment
\* do two refresh tokens of one browser open the account (auth_api.py, refresh).
OneLiveTokenWhenCalm == calm => OneLiveToken

\* A session the server would go on with is given up only when the user logs out
\* (api.ts, apiFetch).
NoSpuriousLogoutWhenCalm == [][calm => KeepsSession]_vars

=============================================================================
